------------------------------- MODULE Counts -------------------------------
(***************************************************************************)
(* Stock counts of one section (api/src/services/counts.ts): open, enter    *)
(* figures, close, verify, while documents move the section's stock and     *)
(* things disappear from its shelf with no document at all.  The expected   *)
(* quantity is frozen when the count opens; closing writes the difference   *)
(* between what was counted and that into the ledger.                       *)
(*                                                                          *)
(* The shelf and its losses are the world the count looks at, not tables:   *)
(* they say what a count should find.  Each handler checks with reads of    *)
(* its own and writes in a transaction that does not check again, so it is  *)
(* a Worker with steps that other handlers come between.                    *)
(***************************************************************************)
EXTENDS Integers, FiniteSetsExt

CONSTANTS
    Count, Item, User, Worker,
    Kind,         \* count types
    DailyKind,    \* the type that covers critical items only
    Critical,     \* items with is_critical
    Management,   \* users who may verify
    OpeningStock, \* the section's items and what it holds of them at the start
    Batches,      \* lines one save carries: sets of items
    Moves,        \* what other documents move: pairs of item and quantity
    MaxMoves, MaxLost, MaxDay, \* bounds: documents, losses, business days
    MaxCalls      \* bound: handlers started

ASSUME CountsAssumption ==
    /\ DailyKind \in Kind
    /\ Critical \subseteq Item
    /\ Management \subseteq User
    /\ DOMAIN OpeningStock \subseteq Item
    /\ \A i \in DOMAIN OpeningStock : OpeningStock[i] \in Nat
    /\ Batches \subseteq SUBSET Item
    /\ Moves \subseteq Item \X Int
    /\ {MaxMoves, MaxLost, MaxDay, MaxCalls} \subseteq Nat

VARIABLES
    count,       \* stock_counts and stock_count_lines
    onHand,      \* current_stock of the section: the items it has rows for
    adjustments, \* the count documents of the ledger
    day,         \* business date
    shelf,       \* what is really there
    lost,        \* what has left the shelf with no document
    moves,       \* documents that moved the item, the counts' own left out
    call, calls, \* what each worker is doing, and how many were started
    overlaps     \* history: {c, d} when two saves or closes of c (= d) or two
                 \* opens were under way together

vars == <<count, onHand, adjustments, day, shelf, lost, moves, call, calls, overlaps>>

Nobody == "nobody"
Uncounted == -1  \* qty_counted is null
Idle == [pc |-> "idle"]

NoCount == [status |-> "none", kind |-> DailyKind, day |-> 0, countedBy |-> Nobody,
            verifiedBy |-> Nobody, lines |-> << >>]

\* Where the item stands: what a figure or a frozen quantity was true of.
Mark(i) ==
    [moves |-> moves[i], lost |-> lost[i],
     adjusted |-> Cardinality({d \in adjustments : i \in DOMAIN d.lines})]

\* The items a new count covers: of a daily count the critical ones the section
\* holds, or all it holds when none is critical; of a full one all it holds and
\* every critical item.
Scope(kind) ==
    LET held == DOMAIN onHand IN
    IF kind = DailyKind
    THEN IF held \cap Critical # {} THEN held \cap Critical ELSE held
    ELSE held \cup Critical

Expected(i) == IF i \in DOMAIN onHand THEN onHand[i] ELSE 0

\* Mutant: only the lines' own count is compared, of any day and any type.
NoneOpenAnyhow(kind) == TRUE

\* No count of that type and business date is open.
NoneOpen(kind) ==
    \A c \in Count :
        ~(count[c].status = "open" /\ count[c].kind = kind /\ count[c].day = day)

\* Mutant: the expected quantity is read again at the close.
VariancesAgainstNow(lines) ==
    [i \in {j \in DOMAIN lines : lines[j].counted \notin {Uncounted, Expected(j)}} |->
        lines[i].counted - Expected(i)]

\* What closing writes: the difference of every line somebody counted that has one.
Variances(lines) ==
    [i \in {j \in DOMAIN lines : lines[j].counted \notin {Uncounted, lines[j].expected}} |->
        lines[i].counted - lines[i].expected]

\* Mutant: whoever is management may verify.
MayVerifyOwn(u, c) ==
    /\ u \in Management
    /\ count[c].status = "closed"
    /\ count[c].verifiedBy = Nobody

MayVerify(u, c) ==
    /\ u \in Management
    /\ count[c].status = "closed"
    /\ count[c].verifiedBy = Nobody
    /\ count[c].countedBy # u

-----------------------------------------------------------------------------
Init ==
    /\ count = [c \in Count |-> NoCount]
    /\ onHand = OpeningStock
    /\ adjustments = {}
    /\ day = 1
    /\ shelf = [i \in Item |-> Expected(i)]
    /\ lost = [i \in Item |-> 0]
    /\ moves = [i \in Item |-> 0]
    /\ call = [w \in Worker |-> Idle]
    /\ calls = 0
    /\ overlaps = {}

world == <<onHand, adjustments, day, shelf, lost, moves>>

Rivals(c) ==
    {v \in Worker :
        /\ call[v] # Idle
        /\ \/ call[v].op = "open" /\ c.op = "open"
           \/ {call[v].op, c.op} \subseteq {"save", "close"} /\ call[v].count = c.count}

Start(w, c) ==
    /\ call[w] = Idle
    /\ calls < MaxCalls
    /\ calls' = calls + 1
    /\ call' = [call EXCEPT ![w] = c]
    /\ overlaps' = overlaps \cup {{c.count, call[v].count} : v \in Rivals(c)}

Finish(w) ==
    /\ call' = [call EXCEPT ![w] = Idle]
    /\ UNCHANGED <<calls, overlaps>>

\* POST /counts/open and its look for an open count.
StartOpen(w, u, c, kind) ==
    /\ count[c].status = "none"
    /\ \A v \in Worker : call[v] # Idle => call[v].count # c
    /\ NoneOpen(kind)
    /\ Start(w, [pc |-> "write", op |-> "open", count |-> c, user |-> u, kind |-> kind, day |-> day])
    /\ UNCHANGED <<count, world>>

\* The transaction of openCount: the count and its lines with what the ledger
\* holds now.  A section with nothing to count is refused.
WriteOpen(w) ==
    LET o == call[w] IN
    /\ o.pc = "write" /\ o.op = "open"
    /\ Scope(o.kind) # {}
    /\ count' = [count EXCEPT ![o.count] =
                   [status |-> "open", kind |-> o.kind, day |-> o.day, countedBy |-> o.user,
                    verifiedBy |-> Nobody,
                    lines |-> [i \in Scope(o.kind) |->
                                 [expected |-> Expected(i), counted |-> Uncounted,
                                  opened |-> Mark(i), seen |-> Mark(i)]]]]
    /\ Finish(w)
    /\ UNCHANGED world

\* PUT /counts/:id/lines and its look at closed_at.  A figure is what stood on
\* the shelf when it was typed, or null, which clears the line.
StartSave(w, c, batch, cleared) ==
    /\ count[c].status = "open"
    /\ batch \subseteq DOMAIN count[c].lines /\ cleared \subseteq batch
    /\ Start(w, [pc |-> "write", op |-> "save", count |-> c,
                 figures |-> [i \in batch |-> IF i \in cleared THEN Uncounted ELSE shelf[i]],
                 seen |-> [i \in batch |-> Mark(i)]])
    /\ UNCHANGED <<count, world>>

WriteSave(w) ==
    LET s == call[w] IN
    /\ s.pc = "write" /\ s.op = "save"
    /\ count' = [count EXCEPT
                   ![s.count].lines =
                     [i \in DOMAIN @ |->
                        IF i \in DOMAIN s.figures
                        THEN [@[i] EXCEPT !.counted = s.figures[i], !.seen = s.seen[i]]
                        ELSE @[i]]]
    /\ Finish(w)
    /\ UNCHANGED world

\* POST /counts/:id/close and its look at closed_at.
StartClose(w, c) ==
    /\ count[c].status = "open"
    /\ Start(w, [pc |-> "lines", op |-> "close", count |-> c])
    /\ UNCHANGED <<count, world>>

\* The select of the lines, still outside the transaction.
ReadLines(w) ==
    LET k == call[w] IN
    /\ k.pc = "lines"
    /\ call' = [call EXCEPT ![w] = [pc |-> "write", op |-> "close", count |-> k.count,
                                    lines |-> count[k.count].lines]]
    /\ UNCHANGED <<count, world, calls, overlaps>>

\* The transaction of closeCount: the document, if there is a difference, and
\* closed_at.
WriteClose(w) ==
    LET k == call[w]
        variances == Variances(k.lines)
        rows == DOMAIN variances
    IN
    /\ k.pc = "write" /\ k.op = "close"
    /\ adjustments' = IF rows = {} THEN adjustments
                      ELSE adjustments \cup {[no |-> Cardinality(adjustments) + 1,
                                              count |-> k.count, lines |-> variances]}
    /\ onHand' = [i \in DOMAIN onHand \cup rows |->
                    Expected(i) + (IF i \in rows THEN variances[i] ELSE 0)]
    /\ count' = [count EXCEPT ![k.count].status = "closed"]
    /\ Finish(w)
    /\ UNCHANGED <<day, shelf, lost, moves>>

\* POST /counts/:id/verify and its checks.
StartVerify(w, u, c) ==
    /\ MayVerify(u, c)
    /\ Start(w, [pc |-> "write", op |-> "verify", count |-> c, user |-> u])
    /\ UNCHANGED <<count, world>>

WriteVerify(w) ==
    LET v == call[w] IN
    /\ v.pc = "write" /\ v.op = "verify"
    /\ count' = [count EXCEPT ![v.count].verifiedBy = v.user]
    /\ Finish(w)
    /\ UNCHANGED world

\* An error, an empty section, or a client or process that is gone.
Drop(w) == call[w] # Idle /\ Finish(w) /\ UNCHANGED <<count, world>>

\* Any other document moves the item, on the shelf and in the ledger.
Move(i, q) ==
    /\ MapThenSumSet(LAMBDA j : moves[j], Item) < MaxMoves
    /\ shelf[i] + q >= 0
    /\ onHand' = [j \in DOMAIN onHand \cup {i} |-> Expected(j) + (IF j = i THEN q ELSE 0)]
    /\ shelf' = [shelf EXCEPT ![i] = @ + q]
    /\ moves' = [moves EXCEPT ![i] = @ + 1]
    /\ UNCHANGED <<count, adjustments, day, lost, call, calls, overlaps>>

\* Something leaves the shelf and nobody writes it down.
Lose(i) ==
    /\ MapThenSumSet(LAMBDA j : lost[j], Item) < MaxLost
    /\ shelf[i] > 0
    /\ shelf' = [shelf EXCEPT ![i] = @ - 1]
    /\ lost' = [lost EXCEPT ![i] = @ + 1]
    /\ UNCHANGED <<count, onHand, adjustments, day, moves, call, calls, overlaps>>

NextDay ==
    /\ day < MaxDay
    /\ day' = day + 1
    /\ UNCHANGED <<count, onHand, adjustments, shelf, lost, moves, call, calls, overlaps>>

Next ==
    \/ \E w \in Worker :
        \/ \E c \in Count :
            \/ \E u \in User :
                \/ \E kind \in Kind : StartOpen(w, u, c, kind)
                \/ StartVerify(w, u, c)
            \/ \E batch \in Batches : \E cleared \in SUBSET batch :
                 StartSave(w, c, batch, cleared)
            \/ StartClose(w, c)
        \/ WriteOpen(w) \/ WriteSave(w) \/ ReadLines(w) \/ WriteClose(w) \/ WriteVerify(w)
        \/ Drop(w)
    \/ \E move \in Moves : Move(move[1], move[2])
    \/ \E i \in Item : Lose(i)
    \/ NextDay

Spec == Init /\ [][Next]_vars

-----------------------------------------------------------------------------
\* Two saves or closes of the count were under way together.
Contended(c) == {c} \in overlaps

DocumentsOf(c) == {d \in adjustments : d.count = c}

\* What the documents of the count moved of an item.
AdjustedBy(c, i) ==
    SumFunction([d \in {d \in DocumentsOf(c) : i \in DOMAIN d.lines} |-> d.lines[i]])

\* A closed count and the ledger tell one story: its one document at most holds
\* exactly the differences its lines show, none for a line nobody counted, and later saves
\* and closes are refused.  Only handlers of the count that overlap can break it
\* ("A count cannot be closed twice").
ClosedAsCounted ==
    \A c \in Count :
        (count[c].status = "closed" /\ ~Contended(c)) =>
            /\ Cardinality(DocumentsOf(c)) <= 1
            /\ \A i \in DOMAIN count[c].lines :
                LET line == count[c].lines[i] IN
                AdjustedBy(c, i) = IF line.counted = Uncounted THEN 0
                                   ELSE line.counted - line.expected

\* When no document moves an item between the opening of the count and the moment it
\* is counted and no other count adjusts it meanwhile, closing leaves the ledger above
\* the shelf by what was lost since it was counted and by nothing else, whatever moved
\* after the counting.
QuietCountFindsTheLoss(c) ==
    (count[c].status = "open" /\ count'[c].status = "closed" /\ ~Contended(c)) =>
        \A i \in DOMAIN count[c].lines :
            LET line == count[c].lines[i] IN
            (/\ line.counted # Uncounted
             /\ line.seen.moves = line.opened.moves
             /\ Mark(i).adjusted = line.opened.adjusted)
            => Expected(i)' - shelf'[i] = lost'[i] - line.seen.lost

\* What a count is for: the ledger gets what the closed count shows, and that is what
\* the shelf had lost when nothing else moved the item.
CountFindsTheLoss == [][ClosedAsCounted' /\ \A c \in Count : QuietCountFindsTheLoss(c)]_vars

\* A section has one count of a type open on a day, unless two were opened together.
OneOpenPerKind ==
    \A c, d \in Count :
        (/\ c # d
         /\ count[c].status = "open" /\ count[d].status = "open"
         /\ count[c].kind = count[d].kind /\ count[c].day = count[d].day)
        => {c, d} \in overlaps

\* The second pair of eyes: a count is verified after it is closed and not by the
\* person who opened it, whatever overlaps.
VerifiedByAnother ==
    \A c \in Count :
        count[c].verifiedBy # Nobody =>
            count[c].status = "closed" /\ count[c].verifiedBy # count[c].countedBy
=============================================================================
