------------------------------- MODULE Returns -------------------------------
(***************************************************************************)
(* Returns (api/src/services/returns.ts): a section hands back what was     *)
(* released to it and the ledger moves it to quarantine at once; the store  *)
(* asks what becomes of it, management answers line by line, and the store  *)
(* carries the answer out: the lines for the vendor leave on the lorry      *)
(* together, the lines for the bin one by one, each under a wastage         *)
(* document of its own.                                                     *)
(*                                                                          *)
(* Every handler is a Worker.  It checks the documents outside its          *)
(* transaction and never again; inside, it only looks at what a shelf       *)
(* holds, and what the looks cannot see is what other transactions have not *)
(* committed.  Quantities are in stock units, packs in the smallest part of *)
(* a pack a form accepts.                                                   *)
(***************************************************************************)
EXTENDS Integers, Sequences, FiniteSetsExt

CONSTANTS
    Section, Quarantine, Item, User, Release, Ask, Worker,
    Store,       \* the section with is_store
    ReleaseOf,   \* of each release: the section it goes to and what it brings
    Delivery,    \* the lines of the deliveries, in the order they came:
                 \* [grn, item, packs, size]
    Bodies,      \* lines of a new ask: sequences of [line, packs]
    Storekeeper, Management, \* users with these roles
    Opening,     \* what each section, and quarantine, holds at the start
    MaxMoves,    \* bound: documents of other kinds that take from a shelf
    MaxCalls     \* bound: handlers started

Place == Section \cup {Quarantine}
Nobody == "nobody"
NoRelease == "no release"

ASSUME ReturnsAssumption ==
    /\ Store \in Section /\ Quarantine \notin Section
    /\ IsFiniteSet(Ask)
    /\ ReleaseOf \in [Release -> [section : Section \ {Store}, issued : [Item -> Nat]]]
    /\ Delivery \in Seq([grn : Nat, item : Item, packs : Nat, size : Nat \ {0}])
    /\ \A body \in Bodies :
        /\ body \in Seq([line : DOMAIN Delivery, packs : Nat \ {0}]) /\ body # << >>
        /\ \A m, n \in DOMAIN body : Delivery[body[m].line].grn = Delivery[body[n].line].grn
    /\ {Storekeeper, Management} \subseteq SUBSET User
    /\ Nobody \notin User /\ NoRelease \notin Release \cup Section
    /\ Opening \in [Place -> [Item -> Nat]]
    /\ {MaxMoves, MaxCalls} \subseteq Nat

VARIABLES
    held,       \* current_stock of each place
    status,     \* issues.status of each release
    handedBack, \* section_returns: release -> item -> quantity
    ask,        \* supplier_returns and supplier_return_lines
    left,       \* ledger documents that took a line of an ask out of quarantine
    moves,      \* documents of other kinds so far
    call, calls, \* what each worker is doing, and how many were started
    overlaps    \* history: the places, releases, deliveries and asks that two
                \* handlers, or a handler and another document, used together

vars == <<held, status, handedBack, ask, left, moves, call, calls, overlaps>>

Idle == [pc |-> "idle"]
NoLine == 0
Undecided == "undecided"
Answers == {"vendor", "waste"}
NoAsk == [status |-> "none", raisedBy |-> Nobody, decidedBy |-> Nobody, lines |-> << >>]

ItemOf(line) == Delivery[line.line].item
Qty(line) == line.packs * Delivery[line.line].size

\* The lines of all asks: pairs of an ask and the number of a line.
AskLines == UNION {{a} \X DOMAIN ask[a].lines : a \in Ask}
LineOf(al) == ask[al[1]].lines[al[2]]
QtyOver(lines) == SumFunction([al \in lines |-> Qty(LineOf(al))])

-----------------------------------------------------------------------------
\* Mutant: what has gone back already is not taken off.
CanHandBackAgain(r, i) == Min({ReleaseOf[r].issued[i], held[ReleaseOf[r].section][i]})

\* qtyReturnable: issued less handed back, and never more than the section holds.
CanHandBack(r, i) ==
    Min({ReleaseOf[r].issued[i] - handedBack[r][i], held[ReleaseOf[r].section][i]})

\* What GET /grn/:id calls the packs already sent back: whatever an ask claims of the
\* delivery line, sent or not.  No ask is rejected any more.
PacksReturned(g) ==
    SumFunction([al \in {x \in AskLines : LineOf(x).line = g} |-> LineOf(al).packs])

\* qtyPacksReturnable of a delivery line: delivered less what every ask claims.
PacksReturnable(g) == Delivery[g].packs - PacksReturned(g)

\* Mutant: an ask nobody has decided claims nothing yet.
ClaimedDecided(i) ==
    QtyOver({al \in AskLines : /\ ask[al[1]].status = "approved"
                               /\ ItemOf(LineOf(al)) = i
                               /\ ~LineOf(al).binned})

\* Quarantine stock of an item the open asks speak for.
Claimed(i) ==
    QtyOver({al \in AskLines : /\ ask[al[1]].status \in {"raised", "approved"}
                               /\ ItemOf(LineOf(al)) = i
                               /\ ~LineOf(al).binned})

\* The two figures of the quarantine screen: what the open asks speak for of what is
\* there, and what is still to be dealt with.
QtyOnOpenAsk(i) == Max({0, Min({Claimed(i), held[Quarantine][i]})})
QtyFree(i) == Max({0, held[Quarantine][i] - Claimed(i)})

\* What the form suggests to ask about: whole packs of what quarantine holds and
\* no open ask speaks for, against the latest delivery line with packs to return.
Suggested(i) ==
    LET free == held[Quarantine][i] - Claimed(i)
        candidates == {g \in DOMAIN Delivery : Delivery[g].item = i /\ PacksReturnable(g) > 0}
        latest == Max(candidates)
    IN IF free <= 0 \/ candidates = {} THEN 0
       ELSE Min({free \div Delivery[latest].size, PacksReturnable(latest)}) * Delivery[latest].size

\* A line of an ask may claim what the delivery line has left and quarantine holds.
MayRaise(body) ==
    \A n \in DOMAIN body :
        /\ body[n].packs <= PacksReturnable(body[n].line)
        /\ Qty(body[n]) <= held[Quarantine][ItemOf(body[n])]

-----------------------------------------------------------------------------
Init ==
    /\ held = Opening
    /\ status = [r \in Release |-> "requested"]
    /\ handedBack = [r \in Release |-> [i \in Item |-> 0]]
    /\ ask = [a \in Ask |-> NoAsk]
    /\ left = {}
    /\ moves = 0
    /\ call = [w \in Worker |-> Idle]
    /\ calls = 0
    /\ overlaps = {}

stock == <<held, status, handedBack, moves>>

\* uses: what the handler reads and then relies on.
Start(w, c) ==
    /\ call[w] = Idle
    /\ calls < MaxCalls
    /\ calls' = calls + 1
    /\ call' = [call EXCEPT ![w] = c]
    /\ overlaps' = overlaps
         \cup UNION {c.uses \cap call[v].uses : v \in {u \in Worker : call[u] # Idle}}

GoTo(w, c) ==
    /\ call' = [call EXCEPT ![w] = c]
    /\ UNCHANGED <<calls, overlaps>>

Finish(w) == GoTo(w, Idle)

\* POST /returns and its checks: a section names the release, the store none.
StartReturn(w, s, r, i, q) ==
    /\ \/ s = Store /\ r = NoRelease
       \/ /\ r \in Release /\ s = ReleaseOf[r].section
          /\ status[r] \in {"released", "received"}
          /\ q <= CanHandBack(r, i)
    /\ Start(w, [pc |-> "look", op |-> "return", section |-> s, release |-> r, item |-> i,
                 qty |-> q, uses |-> {s, r} \ {NoRelease}])
    /\ UNCHANGED <<stock, ask, left>>

\* The transaction begins: what the section holds now.
LookReturn(w) ==
    LET c == call[w] IN
    /\ c.pc = "look" /\ c.op = "return"
    /\ held[c.section][c.item] >= c.qty
    /\ GoTo(w, [c EXCEPT !.pc = "commit"])
    /\ UNCHANGED <<stock, ask, left>>

\* Both legs of the document, and a release nobody has confirmed is confirmed.
CommitReturn(w) ==
    LET c == call[w] IN
    /\ c.pc = "commit" /\ c.op = "return"
    /\ held' = [held EXCEPT ![c.section][c.item] = @ - c.qty,
                            ![Quarantine][c.item] = @ + c.qty]
    /\ handedBack' = [r \in Release |->
                        IF r = c.release THEN [handedBack[r] EXCEPT ![c.item] = @ + c.qty]
                        ELSE handedBack[r]]
    /\ status' = [r \in Release |->
                    IF r = c.release /\ status[r] = "released" THEN "received" ELSE status[r]]
    /\ Finish(w)
    /\ UNCHANGED <<ask, left, moves>>

\* POST /supplier-returns and its look at the delivery and at quarantine.
StartRaise(w, u, a, body) ==
    /\ u \in Storekeeper
    /\ ask[a].status = "none"
    /\ \A v \in Worker : call[v] # Idle => a \notin call[v].uses
    /\ MayRaise(body)
    /\ Start(w, [pc |-> "write", op |-> "raise", ask |-> a, user |-> u, body |-> body,
                 uses |-> {a, Quarantine} \cup {body[n].line : n \in DOMAIN body}])
    /\ UNCHANGED <<stock, ask, left>>

WriteRaise(w) ==
    LET c == call[w] IN
    /\ c.pc = "write" /\ c.op = "raise"
    /\ ask' = [ask EXCEPT ![c.ask] =
                 [status |-> "raised", raisedBy |-> c.user, decidedBy |-> Nobody,
                  lines |-> [n \in DOMAIN c.body |->
                               [line |-> c.body[n].line, packs |-> c.body[n].packs,
                                decision |-> Undecided, binned |-> FALSE]]]]
    /\ Finish(w)
    /\ UNCHANGED <<stock, left>>

\* POST /supplier-returns/:id/decide and its checks; every line has an answer.
StartDecide(w, u, a, answers) ==
    /\ u \in Management
    /\ ask[a].status = "raised"
    /\ ask[a].raisedBy # u
    /\ Start(w, [pc |-> "write", op |-> "decide", ask |-> a, user |-> u, answers |-> answers,
                 uses |-> {a}])
    /\ UNCHANGED <<stock, ask, left>>

\* The lines with their answers.
Answered(lines, answers) ==
    [n \in DOMAIN lines |-> [lines[n] EXCEPT !.decision = answers[n]]]

\* The transaction of decideDisposal.  The table refuses a line that was binned and
\* is no longer for the bin.
WriteDecide(w) ==
    LET c == call[w] IN
    /\ c.pc = "write" /\ c.op = "decide"
    /\ \A n \in DOMAIN c.answers : ask[c.ask].lines[n].binned => c.answers[n] = "waste"
    /\ ask' = [ask EXCEPT ![c.ask].status = "approved",
                          ![c.ask].decidedBy = c.user,
                          ![c.ask].lines = Answered(@, c.answers)]
    /\ Finish(w)
    /\ UNCHANGED <<stock, left>>

\* The lines of an ask with that answer.  The select asks for no order.
Decided(a, answer) == {n \in DOMAIN ask[a].lines : ask[a].lines[n].decision = answer}

\* Mutant: a line that has a wastage document is not skipped.
ToBinAll(a) == Decided(a, "waste")

\* The lines marked for the bin that carry no wastage document yet.
ToBin(a) == {n \in Decided(a, "waste") : ~ask[a].lines[n].binned}

\* POST /supplier-returns/:id/bin: the checks, and the lines still to bin.
StartBin(w, u, a) ==
    /\ u \in Storekeeper
    /\ ask[a].status \in {"approved", "sent", "settled"}
    /\ ToBin(a) # {}
    /\ Start(w, [pc |-> "look", op |-> "bin", ask |-> a, todo |-> ToBin(a), done |-> {},
                 at |-> NoLine, uses |-> {a, Quarantine}])
    /\ UNCHANGED <<stock, ask, left>>

\* POST /supplier-returns/:id/send: the checks, and the lines for the vendor.
StartSend(w, u, a) ==
    /\ u \in Storekeeper
    /\ ask[a].status = "approved"
    /\ Decided(a, "vendor") # {}
    /\ Start(w, [pc |-> "look", op |-> "send", ask |-> a, todo |-> Decided(a, "vendor"),
                 done |-> {}, at |-> NoLine, uses |-> {a, Quarantine}])
    /\ UNCHANGED <<stock, ask, left>>

\* What the transaction has itself taken out of quarantine so far: binning posts
\* line by line, sending only when it has looked at every line.
OwnPostings(c, i) ==
    IF c.op = "send" THEN 0
    ELSE SumFunction([n \in {m \in c.done : ItemOf(ask[c.ask].lines[m]) = i} |->
                         Qty(ask[c.ask].lines[n])])

\* Quarantine holds what the line claims.
Enough(c, line) == held[Quarantine][ItemOf(line)] - OwnPostings(c, ItemOf(line)) >= Qty(line)

\* Another transaction has binned this line and not committed.
Locked(w, n) ==
    \E v \in Worker \ {w} :
        /\ call[v] # Idle
        /\ call[v].op = "bin" /\ call[v].ask = call[w].ask
        /\ n \in call[v].done

\* The transaction's look at the shelf for one more line; when it has looked at all,
\* sending posts them.
LookLine(w) ==
    LET c == call[w] IN
    /\ c.pc = "look" /\ c.op \in {"bin", "send"}
    /\ \E n \in c.todo \ c.done :
        /\ Enough(c, ask[c.ask].lines[n])
        /\ GoTo(w, IF c.op = "bin" THEN [c EXCEPT !.pc = "post", !.at = n]
                                    ELSE [c EXCEPT !.done = @ \cup {n}])
    /\ UNCHANGED <<stock, ask, left>>

\* The wastage document of the line and its number on the line, whose row may have
\* to be waited for.
PostLine(w) ==
    LET c == call[w] IN
    /\ c.pc = "post"
    /\ ~Locked(w, c.at)
    /\ GoTo(w, [c EXCEPT !.pc = "look", !.done = @ \cup {c.at}, !.at = NoLine])
    /\ UNCHANGED <<stock, ask, left>>

\* What the lines of the document take of an item.
Taken(c, i) ==
    SumFunction([n \in {m \in c.todo : ItemOf(ask[c.ask].lines[m]) = i} |->
                    Qty(ask[c.ask].lines[n])])

\* The lines have left: what quarantine holds, and the documents.
Depart(c, doc) ==
    /\ held' = [held EXCEPT ![Quarantine] = [i \in Item |-> @[i] - Taken(c, i)]]
    /\ left' = left \cup {[no |-> Cardinality(left) + 1, doc |-> doc, ask |-> c.ask,
                           lines |-> c.todo]}
    /\ UNCHANGED <<status, handedBack, moves>>

\* The lines with a wastage document on those of todo.
Binned(lines, todo) ==
    [n \in DOMAIN lines |-> [lines[n] EXCEPT !.binned = @ \/ n \in todo]]

\* Nothing is for the vendor and nothing left to bin.
Finished(lines) ==
    \A n \in DOMAIN lines :
        lines[n].decision # "vendor" /\ (lines[n].decision = "waste" => lines[n].binned)

\* The end of binDecidedLines, with settleIfFinished.
CommitBin(w) ==
    LET c == call[w]
        lines == Binned(ask[c.ask].lines, c.todo)
    IN
    /\ c.pc = "look" /\ c.op = "bin" /\ c.done = c.todo
    \* The table refuses to mark a line that another answer has overtaken.
    /\ \A n \in c.todo : lines[n].decision = "waste"
    /\ ask' = [ask EXCEPT ![c.ask].lines = lines,
                          ![c.ask].status = IF Finished(lines) THEN "settled" ELSE @]
    /\ Depart(c, "wastage")
    /\ Finish(w)

\* The end of sendSupplierReturn.
CommitSend(w) ==
    LET c == call[w] IN
    /\ c.pc = "look" /\ c.op = "send" /\ c.done = c.todo
    /\ ask' = [ask EXCEPT ![c.ask].status = "sent"]
    /\ Depart(c, "return")
    /\ Finish(w)

\* POST /supplier-returns/:id/settle: the check.
StartSettle(w, u, a) ==
    /\ u \in Management
    /\ ask[a].status = "sent"
    /\ Start(w, [pc |-> "write", op |-> "settle", ask |-> a, uses |-> {a}])
    /\ UNCHANGED <<stock, ask, left>>

WriteSettle(w) ==
    LET c == call[w] IN
    /\ c.pc = "write" /\ c.op = "settle"
    /\ ask' = [ask EXCEPT ![c.ask].status = "settled"]
    /\ Finish(w)
    /\ UNCHANGED <<stock, left>>

\* A refusal inside the transaction, an error, or a client or process that is gone.
Drop(w) == call[w] # Idle /\ Finish(w) /\ UNCHANGED <<stock, ask, left>>

\* The store releases a request, and the section confirms it.
Released(r) ==
    /\ status[r] = "requested"
    /\ status' = [status EXCEPT ![r] = "released"]
    /\ held' = [held EXCEPT ![ReleaseOf[r].section] =
                  [i \in Item |-> @[i] + ReleaseOf[r].issued[i]]]
    /\ UNCHANGED <<handedBack, ask, left, moves, call, calls, overlaps>>

Confirmed(r) ==
    /\ status[r] = "released"
    /\ status' = [status EXCEPT ![r] = "received"]
    /\ UNCHANGED <<held, handedBack, ask, left, moves, call, calls, overlaps>>

\* A document of another kind takes from a shelf: wastage, a count.
Moved(p, i) ==
    /\ moves < MaxMoves
    /\ held[p][i] > 0
    /\ held' = [held EXCEPT ![p][i] = @ - 1]
    /\ moves' = moves + 1
    /\ overlaps' = overlaps \cup (IF \E w \in Worker : call[w] # Idle /\ p \in call[w].uses
                                  THEN {p} ELSE {})
    /\ UNCHANGED <<status, handedBack, ask, left, call, calls>>

\* The store asks what becomes of lines in quarantine.
AskSteps(w) ==
    \/ \E u \in User, a \in Ask, body \in Bodies : StartRaise(w, u, a, body)
    \/ WriteRaise(w)

\* The one decision, and what the store and management do about it.
DecisionSteps(w) ==
    \/ \E u \in User, a \in Ask :
        \/ \E answers \in [DOMAIN ask[a].lines -> Answers] : StartDecide(w, u, a, answers)
        \/ StartBin(w, u, a) \/ StartSend(w, u, a) \/ StartSettle(w, u, a)
    \/ WriteDecide(w) \/ WriteSettle(w)
    \/ LookLine(w) \/ PostLine(w) \/ CommitBin(w) \/ CommitSend(w)

Next ==
    \/ \E w \in Worker :
        \/ \E s \in Section, r \in Release \cup {NoRelease}, i \in Item :
             \E q \in 1 .. Max({held[s][i], 1}) : StartReturn(w, s, r, i, q)
        \/ LookReturn(w) \/ CommitReturn(w)
        \/ AskSteps(w) \/ DecisionSteps(w)
        \/ Drop(w)
    \/ \E r \in Release : Released(r) \/ Confirmed(r)
    \/ \E p \in Place, i \in Item : Moved(p, i)

Spec == Init /\ [][Next]_vars

-----------------------------------------------------------------------------
\* The ask names an item on two of its lines.
NamesTwice(a) ==
    \E m, n \in DOMAIN ask[a].lines :
        m # n /\ ItemOf(ask[a].lines[m]) = ItemOf(ask[a].lines[n])

\* A shelf is never driven below nothing (returns.ts:84, FR-RET-04), and no more of
\* a release is handed back, and of a delivery claimed (FR-RET-09), than it brought.
\* What can break it is a second handler on the shelf, the release or the delivery at
\* the same time, another document that takes from the shelf meanwhile, or an ask that
\* names an item twice: its lines are looked at one by one before any is posted.
NothingOverdrawn ==
    /\ \A p \in Place \ overlaps, i \in Item :
        ~(p = Quarantine /\ \E a \in Ask : NamesTwice(a)) => held[p][i] >= 0
    /\ \A r \in Release \ overlaps, i \in Item : handedBack[r][i] <= ReleaseOf[r].issued[i]
    /\ \A g \in DOMAIN Delivery \ overlaps :
        (\E a \in Ask : NamesTwice(a)) \/ PacksReturnable(g) >= 0

\* The documents that took the line out.
Departures(a, n) == {d \in left : d.ask = a /\ n \in d.lines}

\* "Every line ends somewhere", and only once: a line leaves the way management, in
\* another person than raised the ask, decided; those of the vendor all at once, when
\* the ask is sent; none leaves twice however often a button is pressed; and an ask
\* that is settled has no line for the vendor still in quarantine and, when nothing
\* was for the vendor, no line at all.  Only handlers of the ask that overlap can
\* break it.
EveryLineLeavesOnce ==
    \A a \in Ask \ overlaps : \A n \in DOMAIN ask[a].lines :
        LET line == ask[a].lines[n]
            gone == Departures(a, n)
        IN
        /\ Cardinality(gone) <= 1
        /\ \A d \in gone :
            /\ ask[a].decidedBy \notin {Nobody, ask[a].raisedBy}
            /\ d.doc = "return" <=> line.decision = "vendor"
        /\ line.decision = "vendor" => (gone # {} <=> ask[a].status \in {"sent", "settled"})
        /\ line.decision = "waste" => (gone # {} <=> line.binned)
        /\ (ask[a].status = "settled" /\ gone = {}) =>
              line.decision = "waste" /\ \E m \in DOMAIN ask[a].lines : ask[a].lines[m].decision = "vendor"

\* Lines that still have to take some of the item out of quarantine.
Waiting(i) == {al \in AskLines : ItemOf(LineOf(al)) = i /\ Departures(al[1], al[2]) = {}}

\* "So the two screens cannot disagree" (returns.ts:513): what quarantine shows as
\* spoken for and as free is all it holds, and no more is suggested than is free.
ScreensAgree ==
    \A i \in Item :
        /\ held[Quarantine][i] >= 0 => QtyOnOpenAsk(i) + QtyFree(i) = held[Quarantine][i]
        /\ Suggested(i) <= QtyFree(i)

\* The two screens agree, and what is suggested of an item, with what the asks still
\* have to take out, is no more than quarantine holds ("Stock that has already been
\* asked about stops being suggested", returns-lifecycle.md:134).  What can break that
\* is an ask whose lines for the vendor are gone while lines of it wait for the bin,
\* or handlers of an ask that overlap.
SuggestsOnlyFreeStock ==
    LET halfDone == \E a \in Ask : ask[a].status \in {"sent", "settled"}
                         /\ \E n \in DOMAIN ask[a].lines : Departures(a, n) = {}
    IN
    /\ ScreensAgree
    /\ (~halfDone /\ overlaps \cap Ask = {}) =>
           \A i \in Item :
               Suggested(i) > 0 => Suggested(i) + QtyOver(Waiting(i)) <= held[Quarantine][i]
=============================================================================
