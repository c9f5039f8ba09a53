---------------------------- MODULE ReturnsProofs ----------------------------
(***************************************************************************)
(* Proofs about Returns, for any sections, releases, deliveries, asks,      *)
(* users and handlers.                                                      *)
(***************************************************************************)
EXTENDS Returns, SumsProofs

(* The shapes of the tables and of the handlers under way. *)

AskStatuses == {"none", "raised", "approved", "sent", "settled"}
LineRow == [line : DOMAIN Delivery, packs : Nat, decision : Answers \cup {Undecided}, binned : BOOLEAN]
AskRow == [status : AskStatuses, raisedBy : User \cup {Nobody}, decidedBy : User \cup {Nobody},
           lines : Seq(LineRow)]

Busy(w) == call[w] # Idle

\* What a handler carries.  Only raising writes an ask that is not there yet.
HandlerOK(c) ==
    /\ c.op \in {"return", "raise", "decide", "bin", "send", "settle"}
    /\ c.op = "return" =>
         /\ "pc" \in DOMAIN c /\ c.pc \in {"look", "commit"}
         /\ c.section \in Section /\ c.section \in c.uses
         /\ c.release \in Release \cup {NoRelease} /\ (c.release # NoRelease => c.release \in c.uses)
         /\ c.item \in Item /\ c.qty \in Nat
    /\ c.op # "return" => c.ask \in Ask /\ c.ask \in c.uses
    /\ c.op = "raise" =>
         /\ c.pc = "write" /\ c.user \in User /\ c.body \in Bodies
         /\ \A n \in DOMAIN c.body : c.body[n].line \in c.uses
         /\ ask[c.ask].status = "none"
    /\ c.op \in {"decide", "bin", "send", "settle"} => ask[c.ask].status # "none"
    /\ c.op = "decide" =>
         c.pc = "write" /\ c.user \in User /\ c.answers \in [DOMAIN ask[c.ask].lines -> Answers]
    /\ c.op = "settle" => c.pc = "write"
    /\ c.op \in {"bin", "send"} =>
         /\ {"pc", "done", "at"} \subseteq DOMAIN c /\ Quarantine \in c.uses
         /\ c.todo \subseteq DOMAIN ask[c.ask].lines /\ c.done \subseteq c.todo
         /\ c.pc = "look" \/ (c.pc = "post" /\ c.op = "bin" /\ c.at \in c.todo)

\* An ask is raised by one handler.
RaisedByOne ==
    \A v, w \in Worker :
        Busy(v) /\ Busy(w) /\ call[v].op = "raise" /\ call[w].op = "raise"
            /\ call[v].ask = call[w].ask => v = w

TablesOK ==
    /\ held \in [Place -> [Item -> Int]]
    /\ handedBack \in [Release -> [Item -> Nat]]
    /\ DOMAIN status = Release
    /\ ask \in [Ask -> AskRow]
    /\ \A d \in left : /\ d.ask \in Ask /\ ask[d.ask].status # "none"
                      /\ d.lines \subseteq DOMAIN ask[d.ask].lines
    /\ DOMAIN call = Worker
    /\ \A w \in Worker : Busy(w) => HandlerOK(call[w])
    /\ RaisedByOne

\* What no two handlers used together is used by at most one.
Alone ==
    \A v, w \in Worker : Busy(v) /\ Busy(w) /\ v # w =>
        call[v].uses \cap call[w].uses \subseteq overlaps

\* What a handler that has its ask to itself may still rely on.
Knows(c) ==
    /\ c.op = "decide" => ask[c.ask].status = "raised" /\ ask[c.ask].raisedBy # c.user
    /\ c.op = "bin" =>
         ask[c.ask].status \in {"approved", "sent", "settled"} /\ c.todo = ToBin(c.ask)
    /\ c.op = "send" =>
         ask[c.ask].status = "approved" /\ c.todo = Decided(c.ask, "vendor") /\ c.todo # {}
    /\ c.op = "settle" => ask[c.ask].status = "sent"

HandlersKnow ==
    \A w \in Worker :
        Busy(w) /\ call[w].op # "return" /\ call[w].ask \notin overlaps => Knows(call[w])

\* A handler begins: what it has checked.
Begins(w, c) ==
    /\ Start(w, c) /\ HandlerOK(c) /\ UNCHANGED <<held, status, handedBack, ask, left>>
    /\ c.op = "return" =>
         /\ c.pc = "look"
         /\ c.release # NoRelease => /\ c.release \in Release /\ c.section = ReleaseOf[c.release].section
                                    /\ c.qty <= CanHandBack(c.release, c.item)
    /\ c.op = "raise" => MayRaise(c.body) /\ \A v \in Worker : Busy(v) => c.ask \notin call[v].uses
    /\ c.op # "return" => Knows(c)
    /\ c.op \in {"bin", "send"} => c.pc = "look" /\ c.done = {}

\* Lines of an ask once it is raised: what they claim stays.
LinesStay ==
    \A a \in Ask :
        /\ ask[a].status # "none" =>
             /\ ask'[a].status # "none"
             /\ DOMAIN ask'[a].lines = DOMAIN ask[a].lines
             /\ \A n \in DOMAIN ask[a].lines :
                  /\ ask'[a].lines[n].line = ask[a].lines[n].line
                  /\ ask'[a].lines[n].packs = ask[a].lines[n].packs

-----------------------------------------------------------------------------
(* Rows. *)

LEMMA LineTyped ==
    ASSUME NEW row \in AskRow
    PROVE  /\ DOMAIN row = {"status", "raisedBy", "decidedBy", "lines"}
           /\ row.lines \in Seq(LineRow)
           /\ \E k \in Nat : DOMAIN row.lines = 1 .. k
           /\ \A n \in DOMAIN row.lines :
                /\ DOMAIN row.lines[n] = {"line", "packs", "decision", "binned"}
                /\ row.lines[n] \in LineRow
                /\ row.lines[n].line \in DOMAIN Delivery
                /\ row.lines[n].packs \in Nat
                /\ row.lines[n].decision \in Answers \cup {Undecided}
                /\ row.lines[n].binned \in BOOLEAN
<1>1. row.lines \in Seq(LineRow) /\ DOMAIN row = {"status", "raisedBy", "decidedBy", "lines"}
  BY DEF AskRow
<1>2. Len(row.lines) \in Nat /\ DOMAIN row.lines = 1 .. Len(row.lines)
  BY <1>1
<1>3. \A n \in DOMAIN row.lines : row.lines[n] \in LineRow
  <2> HIDE DEF LineRow
  <2>1. PICK L : L = row.lines
    OBVIOUS
  <2>2. L \in Seq(LineRow)
    BY <1>1, <2>1
  <2>3. \A n \in DOMAIN L : L[n] \in LineRow
    BY <2>2
  <2> QED BY <2>1, <2>3
<1>4. \A line \in LineRow :
         /\ DOMAIN line = {"line", "packs", "decision", "binned"}
         /\ line.line \in DOMAIN Delivery
         /\ line.packs \in Nat
         /\ line.decision \in Answers \cup {Undecided}
         /\ line.binned \in BOOLEAN
  BY DEF LineRow
<1> QED BY <1>1, <1>2, <1>3, <1>4, Zenon

\* A row with a line's answer, or its mark, changed.
LEMMA LinesTyped ==
    ASSUME NEW L, NEW k \in Nat, NEW M, M = [n \in 1 .. k |-> L[n]],
           \A n \in 1 .. k : L[n] \in LineRow
    PROVE  M \in Seq(LineRow)
<1> HIDE DEF LineRow
<1> QED OBVIOUS
\* The row of an ask after each write to it.
LEMMA RowRaised ==
    ASSUME NEW body \in Bodies, NEW u \in User, NEW row,
           row = [status |-> "raised", raisedBy |-> u, decidedBy |-> Nobody,
                  lines |-> [n \in DOMAIN body |->
                               [line |-> body[n].line, packs |-> body[n].packs,
                                decision |-> Undecided, binned |-> FALSE]]]
    PROVE  /\ row \in AskRow
           /\ row.status = "raised" /\ row.raisedBy = u /\ row.decidedBy = Nobody
           /\ DOMAIN row.lines = DOMAIN body /\ DOMAIN body # {}
           /\ \A n \in DOMAIN body :
                /\ row.lines[n].line = body[n].line /\ row.lines[n].packs = body[n].packs
                /\ row.lines[n].decision = Undecided /\ ~row.lines[n].binned
                /\ body[n].line \in DOMAIN Delivery /\ body[n].packs \in Nat \ {0}
<1>1. PICK Part : Part = [line : DOMAIN Delivery, packs : Nat \ {0}]
  OBVIOUS
<1>2. body \in Seq(Part) /\ body # << >>
  BY <1>1, ReturnsAssumption
<1>3. DOMAIN body = 1 .. Len(body) /\ Len(body) \in Nat /\ Len(body) # 0
  BY <1>2
<1>4. \A n \in DOMAIN body : body[n] \in Part
  BY <1>2
<1>5. \A n \in DOMAIN body : body[n].line \in DOMAIN Delivery /\ body[n].packs \in Nat \ {0}
  BY <1>1, <1>4
<1> DEFINE L == [n \in DOMAIN body |-> [line |-> body[n].line, packs |-> body[n].packs,
                                        decision |-> Undecided, binned |-> FALSE]]
<1>6. \A n \in DOMAIN body : L[n] \in LineRow
  BY <1>5 DEF LineRow
<1>7. L \in Seq(LineRow)
  <2>1. L = [n \in 1 .. Len(body) |-> L[n]]
    BY <1>3
  <2> HIDE DEF L
  <2> QED BY <1>3, <1>6, <2>1, LinesTyped
<1>8. row.status = "raised" /\ row.raisedBy = u /\ row.decidedBy = Nobody /\ row.lines = L
  OBVIOUS
<1>9. row \in AskRow
  <2> HIDE DEF L
  <2> QED BY <1>7 DEF AskRow, AskStatuses, L
<1> QED BY SMTT(30), <1>3, <1>5, <1>8, <1>9

DecidedRow(row, given, u) ==
    [row EXCEPT !.status = "approved", !.decidedBy = u, !.lines = Answered(@, given)]
BinnedRow(row, todo, st) == [row EXCEPT !.lines = Binned(@, todo), !.status = st]

LEMMA RowDecided ==
    ASSUME NEW row \in AskRow, NEW u \in User, NEW given \in [DOMAIN row.lines -> Answers],
           NEW new, new = DecidedRow(row, given, u)
    PROVE  /\ new \in AskRow
           /\ new.status = "approved" /\ new.raisedBy = row.raisedBy /\ new.decidedBy = u
           /\ DOMAIN new.lines = DOMAIN row.lines
           /\ \A n \in DOMAIN row.lines :
                /\ new.lines[n].line = row.lines[n].line /\ new.lines[n].packs = row.lines[n].packs
                /\ new.lines[n].decision = given[n] /\ new.lines[n].binned = row.lines[n].binned
<1> DEFINE L == Answered(row.lines, given)
<1>1. PICK k \in Nat : DOMAIN row.lines = 1 .. k
  BY LineTyped
<1>2. \A n \in DOMAIN row.lines :
        /\ L[n].line = row.lines[n].line /\ L[n].packs = row.lines[n].packs
        /\ L[n].decision = given[n] /\ L[n].binned = row.lines[n].binned
        /\ L[n] \in LineRow
  <2> SUFFICES ASSUME NEW n \in DOMAIN row.lines
               PROVE  /\ L[n].line = row.lines[n].line /\ L[n].packs = row.lines[n].packs
                      /\ L[n].decision = given[n] /\ L[n].binned = row.lines[n].binned
                      /\ L[n] \in LineRow
    OBVIOUS
  <2>1. PICK line : line = row.lines[n]
    OBVIOUS
  <2>2. L[n] = [line EXCEPT !.decision = given[n]] /\ line \in LineRow /\ given[n] \in Answers
    BY <2>1, LineTyped DEF Answered
  <2> QED BY <2>1, <2>2 DEF LineRow
<1>3. L \in Seq(LineRow)
  <2>1. L = [n \in 1 .. k |-> L[n]]
    BY <1>1 DEF Answered
  <2> HIDE DEF L
  <2> QED BY <1>1, <1>2, <2>1, LinesTyped
<1>4. DOMAIN L = DOMAIN row.lines
  BY DEF Answered
<1>5. DOMAIN row = {"status", "raisedBy", "decidedBy", "lines"}
  BY LineTyped
<1>6. new = [[[row EXCEPT !.status = "approved"] EXCEPT !.decidedBy = u] EXCEPT !.lines = L]
  BY <1>5 DEF DecidedRow
<1> HIDE DEF L
<1>7. new.lines = L /\ new.status = "approved" /\ new.decidedBy = u /\ new.raisedBy = row.raisedBy
  BY <1>5, <1>6
<1>8. new \in AskRow
  BY <1>3, <1>6 DEF AskRow, AskStatuses
<1> QED BY <1>2, <1>4, <1>7, <1>8

LEMMA RowBinned ==
    ASSUME NEW row \in AskRow, NEW todo, NEW st \in AskStatuses, NEW new, new = BinnedRow(row, todo, st)
    PROVE  /\ new \in AskRow
           /\ new.status = st /\ new.raisedBy = row.raisedBy /\ new.decidedBy = row.decidedBy
           /\ new.lines = Binned(row.lines, todo) /\ DOMAIN new.lines = DOMAIN row.lines
           /\ \A n \in DOMAIN row.lines :
                /\ new.lines[n].line = row.lines[n].line /\ new.lines[n].packs = row.lines[n].packs
                /\ new.lines[n].decision = row.lines[n].decision
                /\ new.lines[n].binned <=> (row.lines[n].binned \/ n \in todo)
<1> DEFINE lines == Binned(row.lines, todo)
<1>1. PICK k \in Nat : DOMAIN row.lines = 1 .. k
  BY LineTyped
<1>2. \A n \in DOMAIN row.lines :
        /\ lines[n].line = row.lines[n].line /\ lines[n].packs = row.lines[n].packs
        /\ lines[n].decision = row.lines[n].decision
        /\ lines[n].binned <=> (row.lines[n].binned \/ n \in todo)
        /\ lines[n] \in LineRow
  <2> SUFFICES ASSUME NEW n \in DOMAIN row.lines
               PROVE  /\ lines[n].line = row.lines[n].line /\ lines[n].packs = row.lines[n].packs
                      /\ lines[n].decision = row.lines[n].decision
                      /\ lines[n].binned <=> (row.lines[n].binned \/ n \in todo)
                      /\ lines[n] \in LineRow
    OBVIOUS
  <2>1. PICK line, mark : line = row.lines[n] /\ mark = (row.lines[n].binned \/ n \in todo)
    OBVIOUS
  <2>2. lines[n] = [line EXCEPT !.binned = mark] /\ line \in LineRow /\ mark \in BOOLEAN
    BY <2>1, LineTyped DEF Binned
  <2>3. lines[n].binned = mark
    BY <2>2 DEF LineRow
  <2>4. lines[n] \in LineRow
    BY <2>2 DEF LineRow
  <2> QED BY <2>1, <2>2, <2>3, <2>4 DEF LineRow
<1>3. lines \in Seq(LineRow)
  <2>1. lines = [n \in 1 .. k |-> lines[n]]
    BY <1>1 DEF Binned
  <2> QED BY <1>1, <1>2, <2>1, LinesTyped
<1>4. DOMAIN lines = DOMAIN row.lines
  BY DEF Binned
<1>5. DOMAIN row = {"status", "raisedBy", "decidedBy", "lines"}
  BY LineTyped
<1> HIDE DEF lines
<1>6. new.lines = lines /\ new.status = st /\ new.raisedBy = row.raisedBy /\ new.decidedBy = row.decidedBy
  BY <1>5 DEF BinnedRow, lines
<1>7. new \in AskRow
  BY <1>3 DEF AskRow, BinnedRow, lines
<1> QED BY <1>2, <1>4, <1>6, <1>7 DEF lines
-----------------------------------------------------------------------------
(* Quantities. *)

LEMMA MaxOfTwo ==
    ASSUME NEW x \in Int, NEW y \in Int
    PROVE  /\ Max({x, y}) \in Int /\ Max({x, y}) = (IF x >= y THEN x ELSE y)
<1>1. \E m \in {x, y} : \A n \in {x, y} : m >= n
  OBVIOUS
<1> QED BY <1>1 DEF Max

LEMMA MinOfTwo ==
    ASSUME NEW x \in Int, NEW y \in Int
    PROVE  /\ Min({x, y}) \in Int /\ Min({x, y}) = (IF x <= y THEN x ELSE y)
<1>1. \E m \in {x, y} : \A n \in {x, y} : m <= n
  OBVIOUS
<1> QED BY <1>1 DEF Min

LEMMA QtyNat ==
    ASSUME NEW line, line.line \in DOMAIN Delivery, line.packs \in Nat
    PROVE  Qty(line) \in Nat /\ ItemOf(line) \in Item
<1>1. PICK Part : Part = [grn : Nat, item : Item, packs : Nat, size : Nat \ {0}]
  OBVIOUS
<1>2. Delivery \in Seq(Part)
  BY <1>1, ReturnsAssumption
<1>3. Delivery[line.line] \in Part
  BY <1>2
<1>4. Delivery[line.line].size \in Nat /\ Delivery[line.line].item \in Item
  BY <1>1, <1>3
<1>5. \A m, n \in Nat : m * n \in Nat
  OBVIOUS
<1> QED BY <1>4, <1>5 DEF Qty, ItemOf

\* Sums over the lines of one ask.
LEMMA LinesSum ==
    ASSUME NEW row \in AskRow, NEW S \in SUBSET DOMAIN row.lines
    PROVE  /\ IsFiniteSet(S)
           /\ [n \in S |-> Qty(row.lines[n])] \in [S -> Nat]
           /\ SumFunction([n \in S |-> Qty(row.lines[n])]) \in Nat
<1>1. PICK k \in Nat : DOMAIN row.lines = 1 .. k
  BY LineTyped
<1>2. IsFiniteSet(S)
  BY <1>1, FS_Interval, FS_Subset
<1>3. \A n \in S : Qty(row.lines[n]) \in Nat
  BY LineTyped, QtyNat
<1> DEFINE f == [n \in S |-> Qty(row.lines[n])]
<1>4. f \in [S -> Nat]
  BY <1>3
<1> HIDE DEF f
<1>5. SumFunction(f) \in Nat
  BY <1>2, <1>4, SumNat
<1> QED BY <1>2, <1>4, <1>5 DEF f

LEMMA TakenNat ==
    ASSUME NEW c, ask[c.ask] \in AskRow, c.todo \subseteq DOMAIN ask[c.ask].lines, NEW i
    PROVE  Taken(c, i) \in Nat
<1>1. PICK row \in AskRow : row = ask[c.ask]
  OBVIOUS
<1>2. PICK S \in SUBSET DOMAIN row.lines : S = {m \in c.todo : ItemOf(ask[c.ask].lines[m]) = i}
  BY <1>1
<1>3. Taken(c, i) = SumFunction([n \in S |-> Qty(row.lines[n])])
  BY <1>1, <1>2 DEF Taken
<1> QED BY <1>3, LinesSum

LEMMA OwnPostingsNat ==
    ASSUME NEW c, ask[c.ask] \in AskRow, c.done \subseteq DOMAIN ask[c.ask].lines, NEW i
    PROVE  OwnPostings(c, i) \in Nat
<1>1. PICK row \in AskRow : row = ask[c.ask]
  OBVIOUS
<1>2. PICK S \in SUBSET DOMAIN row.lines : S = {m \in c.done : ItemOf(ask[c.ask].lines[m]) = i}
  BY <1>1
<1>3. OwnPostings(c, i) = 0 \/ OwnPostings(c, i) = SumFunction([n \in S |-> Qty(row.lines[n])])
  BY <1>1, <1>2 DEF OwnPostings
<1> QED BY <1>3, LinesSum

\* What the lines leave of the shelf: no less than nothing when each alone fits and no
\* two are of one item.
LEMMA TakenFits ==
    ASSUME NEW c, ask[c.ask] \in AskRow, c.todo \subseteq DOMAIN ask[c.ask].lines, NEW i,
           NEW has \in Int,
           \A n \in c.todo : ItemOf(ask[c.ask].lines[n]) = i => Qty(ask[c.ask].lines[n]) <= has,
           \A m, n \in c.todo :
               (ItemOf(ask[c.ask].lines[m]) = i /\ ItemOf(ask[c.ask].lines[n]) = i) => m = n
    PROVE  Taken(c, i) = 0 \/ Taken(c, i) <= has
<1>1. PICK row \in AskRow : row = ask[c.ask]
  OBVIOUS
<1>2. PICK S \in SUBSET DOMAIN row.lines : S = {m \in c.todo : ItemOf(ask[c.ask].lines[m]) = i}
  BY <1>1
<1> DEFINE f == [n \in S |-> Qty(row.lines[n])]
<1>3. Taken(c, i) = SumFunction(f)
  BY <1>1, <1>2 DEF Taken
<1>4. IsFiniteSet(S) /\ f \in [S -> Nat]
  BY LinesSum
<1>5. f \in [S -> Int]
  BY <1>4
<1>6. CASE S = {}
  <2>1. f \in [{} -> Int]
    BY <1>5, <1>6
  <2> QED BY <1>3, <2>1, SumEmpty
<1>7. ASSUME NEW n \in S PROVE Taken(c, i) <= has
  <2>1. \A m \in S \ {n} : f[m] = 0
    BY <1>1, <1>2
  <2>2. f[n] <= has
    BY <1>1, <1>2
  <2> HIDE DEF f
  <2>3. SumFunction(f) = f[n]
    BY <1>4, <1>5, <2>1, SumOfOne
  <2> QED BY <1>3, <2>2, <2>3
<1> QED BY <1>6, <1>7

-----------------------------------------------------------------------------
(* The steps keep the shapes. *)

LEMMA StartTables ==
    ASSUME TablesOK, NEW w \in Worker, NEW c, Start(w, c), HandlerOK(c),
           c.op = "raise" => \A v \in Worker : Busy(v) => c.ask \notin call[v].uses,
           UNCHANGED <<held, status, handedBack, ask, left>>
    PROVE  TablesOK' /\ LinesStay
<1>1. call[w] = Idle /\ call' = [call EXCEPT ![w] = c]
  BY DEF Start
<1>2. call'[w] = c /\ \A v \in Worker \ {w} : call'[v] = call[v]
  BY <1>1 DEF TablesOK
<1>3. \A v \in Worker : Busy(v)' => HandlerOK(call'[v])
  BY <1>2 DEF TablesOK, Busy
<1>4. \A v \in Worker : Busy(v)' => HandlerOK(call[v])'
  BY <1>3 DEF HandlerOK
<1>5. RaisedByOne'
  <2> SUFFICES ASSUME NEW v \in Worker, NEW x \in Worker, v # x, Busy(v)', Busy(x)',
                      call'[v].op = "raise", call'[x].op = "raise", call'[v].ask = call'[x].ask
               PROVE  FALSE
    BY DEF RaisedByOne
  <2>1. CASE v # w /\ x # w
    BY <1>2, <2>1 DEF TablesOK, RaisedByOne, Busy
  <2>2. ASSUME NEW y \in Worker \ {w}, Busy(y), call[y].op = "raise", call[y].ask = c.ask, c.op = "raise"
        PROVE  FALSE
    BY <2>2 DEF TablesOK, HandlerOK
  <2> QED BY <1>2, <2>1, <2>2 DEF Busy
<1> QED BY <1>1, <1>4, <1>5 DEF TablesOK, LinesStay

\* A handler that goes on, or ends, and writes nothing but the shelves.
LEMMA GoTables ==
    ASSUME TablesOK, NEW w \in Worker, NEW c, call' = [call EXCEPT ![w] = c],
           c = Idle \/ (Busy(w) /\ HandlerOK(c) /\ c.op # "raise"),
           UNCHANGED <<ask, left>>,
           held' \in [Place -> [Item -> Int]], handedBack' \in [Release -> [Item -> Nat]],
           DOMAIN status' = Release
    PROVE  TablesOK' /\ LinesStay
<1>1. call'[w] = c /\ \A v \in Worker \ {w} : call'[v] = call[v]
  BY DEF TablesOK
<1>2. \A v \in Worker : Busy(v)' => HandlerOK(call'[v])
  BY <1>1 DEF TablesOK, Busy
<1>3. \A v \in Worker : Busy(v)' => HandlerOK(call[v])'
  BY <1>2 DEF HandlerOK
<1>4. RaisedByOne'
  BY <1>1 DEF TablesOK, RaisedByOne, Busy
<1> QED BY <1>3, <1>4 DEF TablesOK, LinesStay

\* A handler that writes its ask and ends.
LEMMA WriteTables ==
    ASSUME TablesOK, NEW w \in Worker, NEW a \in Ask, Busy(w), call[w].ask = a, call[w].op # "return",
           NEW new \in AskRow, ask' = [ask EXCEPT ![a] = new], new.status # "none",
           ask[a].status # "none" =>
               /\ DOMAIN new.lines = DOMAIN ask[a].lines
               /\ \A n \in DOMAIN new.lines : /\ new.lines[n].line = ask[a].lines[n].line
                                              /\ new.lines[n].packs = ask[a].lines[n].packs,
           call' = [call EXCEPT ![w] = Idle], UNCHANGED handedBack, UNCHANGED status,
           held' \in [Place -> [Item -> Int]],
           \A d \in left' : d \in left \/ (d.ask = a /\ d.lines \subseteq DOMAIN new.lines)
    PROVE  TablesOK' /\ LinesStay
<1>1. call'[w] = Idle /\ \A v \in Worker \ {w} : call'[v] = call[v]
  BY DEF TablesOK
<1>2. ask'[a] = new /\ (\A b \in Ask \ {a} : ask'[b] = ask[b]) /\ ask' \in [Ask -> AskRow]
  BY DEF TablesOK
<1>3. call[w].op = "raise" \/ ask[a].status # "none"
  BY DEF TablesOK, HandlerOK
<1>4. LinesStay
  BY <1>2 DEF LinesStay
<1>5. ASSUME NEW v \in Worker, Busy(v)' PROVE HandlerOK(call[v])'
  <2>1. PICK h : h = call[v]
    OBVIOUS
  <2>2. v # w /\ call'[v] = h /\ Busy(v) /\ HandlerOK(h)
    BY <1>1, <1>5, <2>1 DEF TablesOK, Busy
  <2>3. CASE h.op = "raise"
    <3>1. h.ask # a
      BY <1>3, <2>1, <2>2, <2>3 DEF TablesOK, RaisedByOne, HandlerOK
    <3> QED BY <1>2, <2>1, <2>2, <2>3, <3>1 DEF HandlerOK
  <2>4. CASE h.op = "return"
    BY <2>2, <2>4, <2>1 DEF HandlerOK
  <2>5. CASE h.op \notin {"raise", "return"}
    <3>1. h.ask \in Ask /\ ask[h.ask].status # "none"
      BY <2>2, <2>5 DEF HandlerOK
    <3>2. ask'[h.ask].status # "none" /\ DOMAIN ask'[h.ask].lines = DOMAIN ask[h.ask].lines
      BY <1>4, <3>1 DEF LinesStay
    <3>3. HandlerOK(h)'
      BY <2>2, <2>5, <3>1, <3>2 DEF HandlerOK
    <3> QED BY <2>1, <2>2, <3>3
  <2> QED BY <2>3, <2>4, <2>5
<1>6. RaisedByOne'
  BY <1>1 DEF TablesOK, RaisedByOne, Busy
<1>7. \A d \in left' : /\ d.ask \in Ask /\ ask'[d.ask].status # "none"
                       /\ d.lines \subseteq DOMAIN ask'[d.ask].lines
  <2> SUFFICES ASSUME NEW d \in left'
               PROVE  /\ d.ask \in Ask /\ ask'[d.ask].status # "none"
                      /\ d.lines \subseteq DOMAIN ask'[d.ask].lines
    OBVIOUS
  <2>1. CASE d \in left
    <3>1. /\ d.ask \in Ask /\ ask[d.ask].status # "none"
          /\ d.lines \subseteq DOMAIN ask[d.ask].lines
      BY <2>1 DEF TablesOK
    <3> QED BY <1>4, <3>1 DEF LinesStay
  <2>2. CASE d.ask = a /\ d.lines \subseteq DOMAIN new.lines
    BY <1>2, <2>2
  <2> QED BY <2>1, <2>2
<1> QED BY <1>2, <1>4, <1>5, <1>6, <1>7 DEF TablesOK
LEMMA HeldTyped ==
    ASSUME NEW h, NEW p \in Place, NEW i \in Item, NEW v \in Int, h \in [Place -> [Item -> Int]]
    PROVE  [h EXCEPT ![p][i] = v] \in [Place -> [Item -> Int]]
OBVIOUS

\* What a departing document leaves of quarantine, and the document.
LEMMA DepartTables ==
    ASSUME TablesOK, NEW c, NEW doc, Depart(c, doc), c.ask \in Ask,
           c.todo \subseteq DOMAIN ask[c.ask].lines
    PROVE  /\ held' \in [Place -> [Item -> Int]]
           /\ \A p \in Section : held'[p] = held[p]
           /\ \A i \in Item : held'[Quarantine][i] = held[Quarantine][i] - Taken(c, i)
           /\ \E d : /\ left' = left \cup {d} /\ d.ask = c.ask /\ d.lines = c.todo /\ d.doc = doc
           /\ UNCHANGED <<status, handedBack, moves>>
<1>1. held' = [held EXCEPT ![Quarantine] = [i \in Item |-> @[i] - Taken(c, i)]]
  BY DEF Depart
<1>2. Quarantine \in Place /\ (\A p \in Section : p \in Place /\ p # Quarantine) /\ ask[c.ask] \in AskRow
  BY ReturnsAssumption DEF Place, TablesOK
<1>3. \A i \in Item : Taken(c, i) \in Int
  BY <1>2, TakenNat
<1>4. \A i \in Item : held[Quarantine][i] \in Int
  BY <1>2 DEF TablesOK
<1>5. \E q : /\ q = [i \in Item |-> held[Quarantine][i] - Taken(c, i)]
             /\ held' = [held EXCEPT ![Quarantine] = q] /\ q \in [Item -> Int]
  <2>1. PICK q : q = [i \in Item |-> held[Quarantine][i] - Taken(c, i)]
    OBVIOUS
  <2>2. held' = [held EXCEPT ![Quarantine] = q]
    BY <1>1, <2>1
  <2>3. \A i \in Item : held[Quarantine][i] - Taken(c, i) \in Int
    BY <1>3, <1>4
  <2>4. q \in [Item -> Int]
    BY <2>1, <2>3
  <2> QED BY <2>1, <2>2, <2>4
<1>6. held' \in [Place -> [Item -> Int]] /\ \A p \in Section : held'[p] = held[p]
  BY <1>2, <1>5 DEF TablesOK
<1>7. \A i \in Item : held'[Quarantine][i] = held[Quarantine][i] - Taken(c, i)
  BY <1>2, <1>5 DEF TablesOK
<1>8. \E d : /\ left' = left \cup {d} /\ d.ask = c.ask /\ d.lines = c.todo /\ d.doc = doc
  <2>1. PICK d : d = [no |-> Cardinality(left) + 1, doc |-> doc, ask |-> c.ask, lines |-> c.todo]
    OBVIOUS
  <2> QED BY <2>1 DEF Depart
<1> QED BY <1>6, <1>7, <1>8 DEF Depart

LEMMA Starts ==
    ASSUME TablesOK, NEW w \in Worker,
           \/ \E s \in Section, r \in Release \cup {NoRelease}, i \in Item, q \in Nat :
                 StartReturn(w, s, r, i, q)
           \/ \E u \in User, a \in Ask, body \in Bodies : StartRaise(w, u, a, body)
           \/ \E u \in User, a \in Ask :
                \/ \E answers \in [DOMAIN ask[a].lines -> Answers] : StartDecide(w, u, a, answers)
                \/ StartBin(w, u, a) \/ StartSend(w, u, a) \/ StartSettle(w, u, a)
    PROVE  \E c : Begins(w, c)
<1>1. ASSUME NEW s \in Section, NEW r \in Release \cup {NoRelease}, NEW i \in Item, NEW q \in Nat,
             StartReturn(w, s, r, i, q)
      PROVE  \E c : Begins(w, c)
  <2>1. PICK c : c = [pc |-> "look", op |-> "return", section |-> s, release |-> r, item |-> i,
                      qty |-> q, uses |-> {s, r} \ {NoRelease}]
    OBVIOUS
  <2>2. /\ Start(w, c) /\ UNCHANGED <<held, status, handedBack, ask, left>>
        /\ \/ r = NoRelease
           \/ r \in Release /\ s = ReleaseOf[r].section /\ q <= CanHandBack(r, i)
    BY <1>1, <2>1 DEF StartReturn, stock
  <2>3. HandlerOK(c)
    BY <2>1, ReturnsAssumption DEF HandlerOK
  <2> QED BY <2>1, <2>2, <2>3 DEF Begins
<1>2. ASSUME NEW u \in User, NEW a \in Ask, NEW body \in Bodies, StartRaise(w, u, a, body)
      PROVE  \E c : Begins(w, c)
  <2>1. PICK c : c = [pc |-> "write", op |-> "raise", ask |-> a, user |-> u, body |-> body,
                      uses |-> {a, Quarantine} \cup {body[n].line : n \in DOMAIN body}]
    OBVIOUS
  <2>2. /\ Start(w, c) /\ UNCHANGED <<held, status, handedBack, ask, left>>
        /\ ask[a].status = "none" /\ \A v \in Worker : Busy(v) => a \notin call[v].uses
        /\ MayRaise(body)
    BY <1>2, <2>1 DEF StartRaise, stock, Busy
  <2>3. HandlerOK(c)
    BY <2>1, <2>2 DEF HandlerOK
  <2> QED BY <2>1, <2>2, <2>3 DEF Begins, Knows
<1>3. ASSUME NEW u \in User, NEW a \in Ask, NEW answers \in [DOMAIN ask[a].lines -> Answers],
             StartDecide(w, u, a, answers)
      PROVE  \E c : Begins(w, c)
  <2>1. PICK c : c = [pc |-> "write", op |-> "decide", ask |-> a, user |-> u, answers |-> answers,
                      uses |-> {a}]
    OBVIOUS
  <2>2. /\ Start(w, c) /\ UNCHANGED <<held, status, handedBack, ask, left>> /\ ask[a].status = "raised"
        /\ ask[a].raisedBy # u
    BY <1>3, <2>1 DEF StartDecide, stock
  <2>3. HandlerOK(c)
    BY <2>1, <2>2 DEF HandlerOK
  <2> QED BY <2>1, <2>2, <2>3 DEF Begins, Knows
<1>4. ASSUME NEW u \in User, NEW a \in Ask, StartBin(w, u, a)
      PROVE  \E c : Begins(w, c)
  <2>1. PICK c : c = [pc |-> "look", op |-> "bin", ask |-> a, todo |-> ToBin(a), done |-> {},
                      at |-> NoLine, uses |-> {a, Quarantine}]
    OBVIOUS
  <2>2. /\ Start(w, c) /\ UNCHANGED <<held, status, handedBack, ask, left>>
        /\ ask[a].status \in {"approved", "sent", "settled"}
    BY <1>4, <2>1 DEF StartBin, stock
  <2>3. ToBin(a) \subseteq DOMAIN ask[a].lines
    BY DEF ToBin, Decided
  <2>4. HandlerOK(c)
    BY <2>1, <2>2, <2>3 DEF HandlerOK
  <2> QED BY <2>1, <2>2, <2>4 DEF Begins, Knows
<1>4a. ASSUME NEW u \in User, NEW a \in Ask, StartSend(w, u, a)
       PROVE  \E c : Begins(w, c)
  <2>1. PICK c : c = [pc |-> "look", op |-> "send", ask |-> a, todo |-> Decided(a, "vendor"),
                      done |-> {}, at |-> NoLine, uses |-> {a, Quarantine}]
    OBVIOUS
  <2>2. /\ Start(w, c) /\ UNCHANGED <<held, status, handedBack, ask, left>>
        /\ ask[a].status = "approved" /\ Decided(a, "vendor") # {}
    BY <1>4a, <2>1 DEF StartSend, stock
  <2>3. Decided(a, "vendor") \subseteq DOMAIN ask[a].lines
    BY DEF Decided
  <2>4. HandlerOK(c)
    BY <2>1, <2>2, <2>3 DEF HandlerOK
  <2> QED BY <2>1, <2>2, <2>4 DEF Begins, Knows
<1>5. ASSUME NEW u \in User, NEW a \in Ask, StartSettle(w, u, a)
      PROVE  \E c : Begins(w, c)
  <2>1. PICK c : c = [pc |-> "write", op |-> "settle", ask |-> a, uses |-> {a}]
    OBVIOUS
  <2>2. Start(w, c) /\ UNCHANGED <<held, status, handedBack, ask, left>> /\ ask[a].status = "sent"
    BY <1>5, <2>1 DEF StartSettle, stock
  <2>3. HandlerOK(c)
    BY <2>1, <2>2 DEF HandlerOK
  <2> QED BY <2>1, <2>2, <2>3 DEF Begins, Knows
<1> QED BY <1>1, <1>2, <1>3, <1>4, <1>4a, <1>5
\* The steps of a handler that write no ask.
LEMMA GoesTables ==
    ASSUME TablesOK, NEW w \in Worker,
           LookReturn(w) \/ CommitReturn(w) \/ LookLine(w) \/ PostLine(w) \/ Drop(w)
    PROVE  TablesOK' /\ LinesStay
<1>1. PICK c : c = call[w]
  OBVIOUS
<1>2. Busy(w) => HandlerOK(c)
  BY <1>1 DEF TablesOK
<1>3. /\ held \in [Place -> [Item -> Int]] /\ handedBack \in [Release -> [Item -> Nat]]
      /\ DOMAIN status = Release
  BY DEF TablesOK
<1>4. CASE LookReturn(w)
  <2>1. PICK h : h = [c EXCEPT !.pc = "commit"]
    OBVIOUS
  <2>2. /\ c.pc = "look" /\ c.op = "return" /\ call' = [call EXCEPT ![w] = h]
        /\ UNCHANGED <<held, status, handedBack, ask, left>>
    BY <1>1, <1>4, <2>1 DEF LookReturn, GoTo, stock
  <2>3. Busy(w)
    BY <1>1, <2>2 DEF Busy, Idle
  <2>4. HandlerOK(h) /\ h.op # "raise"
    BY <1>2, <2>1, <2>2, <2>3 DEF HandlerOK
  <2> QED BY <1>3, <2>2, <2>3, <2>4, GoTables
<1>5. CASE CommitReturn(w)
  <2>1. /\ c.pc = "commit" /\ c.op = "return" /\ call' = [call EXCEPT ![w] = Idle]
        /\ held' = [held EXCEPT ![c.section][c.item] = @ - c.qty, ![Quarantine][c.item] = @ + c.qty]
        /\ handedBack' = [r \in Release |->
                            IF r = c.release THEN [handedBack[r] EXCEPT ![c.item] = @ + c.qty]
                            ELSE handedBack[r]]
        /\ DOMAIN status' = Release /\ UNCHANGED <<ask, left>>
    BY <1>1, <1>5 DEF CommitReturn, Finish, GoTo
  <2>2. c.section \in Section /\ c.item \in Item /\ c.qty \in Nat
    BY <1>1, <1>2, <2>1 DEF Busy, Idle, HandlerOK
  <2>3. PICK mid : mid = [held EXCEPT ![c.section][c.item] = held[c.section][c.item] - c.qty]
    OBVIOUS
  <2>4. mid \in [Place -> [Item -> Int]] /\ Quarantine \in Place /\ mid[Quarantine][c.item] \in Int
    <3>1. c.section \in Place /\ Quarantine \in Place /\ held[c.section][c.item] \in Int
      BY <1>3, <2>2 DEF Place
    <3>2. held[c.section][c.item] - c.qty \in Int
      BY <2>2, <3>1
    <3>3. mid \in [Place -> [Item -> Int]]
      BY <1>3, <2>2, <2>3, <3>1, <3>2, HeldTyped
    <3> QED BY <2>2, <3>1, <3>3
  <2>5. held' = [mid EXCEPT ![Quarantine][c.item] = held[Quarantine][c.item] + c.qty]
    BY <2>1, <2>3
  <2>6. held' \in [Place -> [Item -> Int]]
    <3>1. held[Quarantine][c.item] + c.qty \in Int
      BY <1>3, <2>2, <2>4
    <3> QED BY <2>2, <2>4, <2>5, <3>1, HeldTyped
  <2>7. handedBack' \in [Release -> [Item -> Nat]]
    <3>1. ASSUME NEW r \in Release PROVE [handedBack[r] EXCEPT ![c.item] = @ + c.qty] \in [Item -> Nat]
      <4>1. handedBack[r] \in [Item -> Nat]
        BY <1>3
      <4> QED BY <2>2, <4>1
    <3> QED BY <1>3, <2>1, <3>1
  <2> QED BY <2>1, <2>6, <2>7, GoTables
<1>6. CASE LookLine(w)
  <2>1. /\ c.pc = "look" /\ c.op \in {"bin", "send"} /\ UNCHANGED <<held, status, handedBack, ask, left>>
    BY <1>1, <1>6 DEF LookLine, stock
  <2>2. PICK n \in c.todo \ c.done :
            call' = [call EXCEPT ![w] = IF c.op = "bin" THEN [c EXCEPT !.pc = "post", !.at = n]
                                        ELSE [c EXCEPT !.done = @ \cup {n}]]
    BY <1>1, <1>6 DEF LookLine, GoTo
  <2>3. PICK h : h = IF c.op = "bin" THEN [c EXCEPT !.pc = "post", !.at = n]
                     ELSE [c EXCEPT !.done = @ \cup {n}]
    OBVIOUS
  <2>4. Busy(w)
    BY <1>1, <2>1 DEF Busy, Idle
  <2>5. HandlerOK(h) /\ h.op # "raise"
    <3>1. CASE c.op = "bin"
      <4>1. h = [[c EXCEPT !.pc = "post"] EXCEPT !.at = n]
        BY <2>3, <3>1
      <4> QED BY <1>2, <2>1, <2>4, <3>1, <4>1 DEF HandlerOK
    <3>2. CASE c.op = "send"
      <4>1. h = [c EXCEPT !.done = c.done \cup {n}]
        BY <2>3, <3>2
      <4> QED BY <1>2, <2>1, <2>4, <3>2, <4>1 DEF HandlerOK
    <3> QED BY <2>1, <3>1, <3>2
  <2> QED BY <1>3, <2>1, <2>2, <2>3, <2>4, <2>5, GoTables
<1>7. CASE PostLine(w)
  <2>1. PICK h : h = [[[c EXCEPT !.pc = "look"] EXCEPT !.done = c.done \cup {c.at}] EXCEPT !.at = NoLine]
    OBVIOUS
  <2>2. c.pc = "post" /\ UNCHANGED <<held, status, handedBack, ask, left>>
    BY <1>1, <1>7 DEF PostLine, stock
  <2>3. Busy(w) /\ HandlerOK(c) /\ c.op = "bin"
    BY <1>1, <1>2, <2>2 DEF Busy, Idle, HandlerOK
  <2>4. call' = [call EXCEPT ![w] = h]
    <3>1. h = [c EXCEPT !.pc = "look", !.done = @ \cup {c.at}, !.at = NoLine]
      BY <2>1
    <3> QED BY <1>1, <1>7, <3>1 DEF PostLine, GoTo
  <2>5. HandlerOK(h) /\ h.op # "raise"
    BY <2>1, <2>2, <2>3 DEF HandlerOK
  <2> QED BY <1>3, <2>2, <2>3, <2>4, <2>5, GoTables
<1>8. CASE Drop(w)
  BY <1>3, <1>8, GoTables DEF Drop, Finish, GoTo, stock
<1> QED BY <1>4, <1>5, <1>6, <1>7, <1>8

\* What a handler writes into its ask, and what is left of the others.
Writes(w, new) ==
    LET c == call[w] IN
    /\ Busy(w) /\ HandlerOK(c) /\ c.op # "return" /\ new \in AskRow /\ new.status # "none"
    /\ ask' = [ask EXCEPT ![c.ask] = new] /\ call' = [call EXCEPT ![w] = Idle]
    /\ UNCHANGED <<status, handedBack, moves, calls, overlaps>>
    /\ c.op \in {"raise", "decide", "settle"} => UNCHANGED <<held, left>>
    /\ c.op = "raise" =>
         /\ new.status = "raised" /\ new.raisedBy = c.user /\ new.decidedBy = Nobody
         /\ DOMAIN new.lines = DOMAIN c.body /\ DOMAIN c.body # {}
         /\ \A n \in DOMAIN c.body :
              /\ new.lines[n].line = c.body[n].line /\ new.lines[n].packs = c.body[n].packs
              /\ new.lines[n].decision = Undecided /\ ~new.lines[n].binned
    /\ c.op # "raise" =>
         /\ new.raisedBy = ask[c.ask].raisedBy
         /\ DOMAIN new.lines = DOMAIN ask[c.ask].lines
         /\ \A n \in DOMAIN new.lines :
              /\ new.lines[n].line = ask[c.ask].lines[n].line
              /\ new.lines[n].packs = ask[c.ask].lines[n].packs
              /\ IF c.op = "decide" THEN new.lines[n].decision = c.answers[n]
                 ELSE new.lines[n].decision = ask[c.ask].lines[n].decision
              /\ IF c.op = "bin" THEN new.lines[n].binned <=> (ask[c.ask].lines[n].binned \/ n \in c.todo)
                 ELSE new.lines[n].binned = ask[c.ask].lines[n].binned
    /\ c.op = "decide" => new.status = "approved" /\ new.decidedBy = c.user
    /\ c.op \in {"bin", "send", "settle"} => new.decidedBy = ask[c.ask].decidedBy
    /\ c.op = "send" => new.status = "sent"
    /\ c.op = "settle" => new.status = "settled"
    /\ c.op \in {"bin", "send"} =>
         /\ c.done = c.todo
         /\ Depart(c, IF c.op = "bin" THEN "wastage" ELSE "return")
    /\ c.op = "bin" =>
         /\ new.status = IF Finished(new.lines) THEN "settled" ELSE ask[c.ask].status
         /\ \A n \in c.todo : new.lines[n].decision = "waste"

LEMMA WriterWrites ==
    ASSUME TablesOK, NEW w \in Worker,
           WriteRaise(w) \/ WriteDecide(w) \/ WriteSettle(w) \/ CommitBin(w) \/ CommitSend(w)
    PROVE  \E new : Writes(w, new)
<1>1. PICK c : c = call[w]
  OBVIOUS
<1>2. Busy(w) /\ HandlerOK(c) /\ c.op # "return"
  <2>1. c.pc \in {"write", "look"} /\ c.op # "return"
    BY <1>1 DEF WriteRaise, WriteDecide, WriteSettle, CommitBin, CommitSend
  <2> QED BY <1>1, <2>1 DEF Busy, Idle, TablesOK
<1>3. PICK row \in AskRow : row = ask[c.ask]
  BY <1>2 DEF HandlerOK, TablesOK
<1>4. call' = [call EXCEPT ![w] = Idle] /\ UNCHANGED <<status, handedBack, moves, calls, overlaps>>
  BY DEF WriteRaise, WriteDecide, WriteSettle, CommitBin, CommitSend, Finish, GoTo, stock, Depart
<1>5. DOMAIN ask = Ask /\ c.ask \in Ask
  BY <1>2 DEF TablesOK, HandlerOK
<1>6. CASE WriteRaise(w)
  <2>1. PICK new : new = [status |-> "raised", raisedBy |-> c.user, decidedBy |-> Nobody,
                  lines |-> [n \in DOMAIN c.body |->
                               [line |-> c.body[n].line, packs |-> c.body[n].packs,
                                decision |-> Undecided, binned |-> FALSE]]]
    OBVIOUS
  <2>2. c.op = "raise" /\ ask' = [ask EXCEPT ![c.ask] = new] /\ UNCHANGED <<held, left>>
    BY <1>1, <1>6, <2>1 DEF WriteRaise, stock
  <2>3. c.body \in Bodies /\ c.user \in User
    BY <1>2, <2>2 DEF HandlerOK
  <2>4. /\ new \in AskRow
        /\ new.status = "raised" /\ new.raisedBy = c.user /\ new.decidedBy = Nobody
        /\ DOMAIN new.lines = DOMAIN c.body /\ DOMAIN c.body # {}
        /\ \A n \in DOMAIN c.body :
             /\ new.lines[n].line = c.body[n].line /\ new.lines[n].packs = c.body[n].packs
             /\ new.lines[n].decision = Undecided /\ ~new.lines[n].binned
    BY <2>1, <2>3, RowRaised
  <2> QED BY <1>1, <1>2, <1>4, <2>2, <2>4 DEF Writes
<1>7. CASE WriteDecide(w)
  <2>1. PICK new : new = DecidedRow(row, c.answers, c.user)
    OBVIOUS
  <2>2. c.op = "decide" /\ UNCHANGED <<held, left>>
    BY <1>1, <1>7 DEF WriteDecide, stock
  <2>3. ask' = [ask EXCEPT ![c.ask] = new]
    BY <1>1, <1>3, <1>5, <1>7, <2>1 DEF WriteDecide, DecidedRow
  <2>4. PICK given \in [DOMAIN row.lines -> Answers], u \in User : given = c.answers /\ u = c.user
    BY <1>2, <1>3, <2>2 DEF HandlerOK
  <2>5. /\ new \in AskRow
        /\ new.status = "approved" /\ new.raisedBy = row.raisedBy /\ new.decidedBy = c.user
        /\ DOMAIN new.lines = DOMAIN row.lines
        /\ \A n \in DOMAIN row.lines :
             /\ new.lines[n].line = row.lines[n].line /\ new.lines[n].packs = row.lines[n].packs
             /\ new.lines[n].decision = c.answers[n] /\ new.lines[n].binned = row.lines[n].binned
    BY <2>1, <2>4, RowDecided
  <2> QED BY ZenonT(30), <1>1, <1>2, <1>3, <1>4, <2>2, <2>3, <2>5 DEF Writes
<1>8. CASE WriteSettle(w) \/ CommitSend(w)
  <2>1. PICK new, st : /\ new = [row EXCEPT !.status = st]
                       /\ \/ WriteSettle(w) /\ st = "settled"
                          \/ CommitSend(w) /\ st = "sent"
    BY <1>8
  <2>2. /\ ask' = [ask EXCEPT ![c.ask] = new]
        /\ \/ c.op = "settle" /\ st = "settled" /\ UNCHANGED <<held, left>>
           \/ c.op = "send" /\ st = "sent" /\ c.done = c.todo /\ Depart(c, "return")
    BY <1>1, <1>3, <1>5, <2>1 DEF WriteSettle, CommitSend, stock
  <2>3. /\ new \in AskRow /\ new.status = st /\ new.raisedBy = row.raisedBy
        /\ new.decidedBy = row.decidedBy /\ new.lines = row.lines
    BY <2>1, <2>2 DEF AskRow, AskStatuses
  <2> QED BY <1>1, <1>2, <1>3, <1>4, <2>2, <2>3 DEF Writes
<1>9. CASE CommitBin(w)
  <2>1. PICK todo, lines : todo = c.todo /\ lines = Binned(row.lines, todo)
    OBVIOUS
  <2>2. PICK st : st = IF Finished(lines) THEN "settled" ELSE row.status
    OBVIOUS
  <2>3. PICK new : new = BinnedRow(row, todo, st)
    OBVIOUS
  <2>4. /\ c.op = "bin" /\ c.done = c.todo /\ Depart(c, "wastage")
        /\ \A n \in c.todo : lines[n].decision = "waste"
        /\ ask' = [ask EXCEPT ![c.ask].lines = lines,
                             ![c.ask].status = IF Finished(lines) THEN "settled" ELSE @]
    BY <1>1, <1>3, <1>9, <2>1 DEF CommitBin
  <2>5. ask' = [ask EXCEPT ![c.ask] = new]
    BY <1>3, <1>5, <2>1, <2>2, <2>3, <2>4 DEF BinnedRow
  <2>6. st \in AskStatuses /\ st # "none"
    BY <1>2, <1>3, <2>2, <2>4 DEF AskRow, AskStatuses, HandlerOK
  <2>7. /\ new \in AskRow
        /\ new.status = st /\ new.raisedBy = row.raisedBy /\ new.decidedBy = row.decidedBy
        /\ new.lines = lines /\ DOMAIN new.lines = DOMAIN row.lines
        /\ \A n \in DOMAIN row.lines :
             /\ new.lines[n].line = row.lines[n].line /\ new.lines[n].packs = row.lines[n].packs
             /\ new.lines[n].decision = row.lines[n].decision
             /\ new.lines[n].binned <=> (row.lines[n].binned \/ n \in todo)
    BY <2>1, <2>3, <2>6, RowBinned
  <2>8. new.status = IF Finished(new.lines) THEN "settled" ELSE row.status
    BY <2>2, <2>7
  <2>9. \A n \in c.todo : new.lines[n].decision = "waste"
    BY <2>4, <2>7
  <2>10. Writes(w, new)
    BY <1>1, <1>2, <1>3, <1>4, <2>1, <2>4, <2>5, <2>6, <2>7, <2>8, <2>9 DEF Writes
  <2> QED BY <2>10
<1> QED BY <1>6, <1>7, <1>8, <1>9

LEMMA WriterTables ==
    ASSUME TablesOK, NEW w \in Worker, NEW new, Writes(w, new)
    PROVE  TablesOK' /\ LinesStay
<1>1. PICK c : c = call[w]
  OBVIOUS
<1>2. /\ Busy(w) /\ HandlerOK(c) /\ c.op # "return" /\ c.ask \in Ask
      /\ new \in AskRow /\ new.status # "none"
      /\ ask' = [ask EXCEPT ![c.ask] = new] /\ call' = [call EXCEPT ![w] = Idle]
      /\ UNCHANGED <<status, handedBack>>
  BY <1>1 DEF Writes, HandlerOK
<1>3. ask[c.ask].status # "none" =>
        /\ c.op # "raise"
        /\ DOMAIN new.lines = DOMAIN ask[c.ask].lines
        /\ \A n \in DOMAIN new.lines : /\ new.lines[n].line = ask[c.ask].lines[n].line
                                       /\ new.lines[n].packs = ask[c.ask].lines[n].packs
  BY <1>1, <1>2 DEF Writes, HandlerOK
<1>4. /\ held' \in [Place -> [Item -> Int]]
      /\ \A d \in left' : d \in left \/ (d.ask = c.ask /\ d.lines \subseteq DOMAIN new.lines)
  <2>1. CASE c.op \in {"raise", "decide", "settle"}
    BY <1>1, <2>1 DEF Writes, TablesOK
  <2>2. CASE c.op \in {"bin", "send"}
    <3>1. /\ c.todo \subseteq DOMAIN ask[c.ask].lines /\ DOMAIN new.lines = DOMAIN ask[c.ask].lines
      BY <1>1, <1>2, <2>2 DEF Writes, HandlerOK
    <3>2. PICK doc : Depart(c, doc)
      BY <1>1, <2>2 DEF Writes
    <3> QED BY <1>2, <3>1, <3>2, DepartTables
  <2> QED BY <1>2, <2>1, <2>2 DEF HandlerOK
<1> QED BY <1>1, <1>2, <1>3, <1>4, WriteTables

\* A release that is sent out, or confirmed, and a document of another kind.
LEMMA OthersTables ==
    ASSUME TablesOK, \/ \E r \in Release : Released(r) \/ Confirmed(r)
                     \/ \E p \in Place, i \in Item : Moved(p, i)
    PROVE  TablesOK' /\ LinesStay
<1>1. held' \in [Place -> [Item -> Int]]
  <2>1. ASSUME NEW r \in Release, Released(r) PROVE held' \in [Place -> [Item -> Int]]
    <3>1. PICK s : s = ReleaseOf[r].section
      OBVIOUS
    <3>2. s \in Place /\ \A i \in Item : ReleaseOf[r].issued[i] \in Int
      BY <3>1, ReturnsAssumption DEF Place
    <3>3. PICK q : q = [i \in Item |-> held[s][i] + ReleaseOf[r].issued[i]]
      OBVIOUS
    <3>4. q \in [Item -> Int]
      <4>1. \A i \in Item : held[s][i] \in Int
        BY <3>2 DEF TablesOK
      <4>2. \A i \in Item : held[s][i] + ReleaseOf[r].issued[i] \in Int
        BY <3>2, <4>1
      <4> QED BY <3>3, <4>2
    <3>5. held' = [held EXCEPT ![s] = q]
      BY <2>1, <3>1, <3>3 DEF Released
    <3> QED BY <3>2, <3>4, <3>5 DEF TablesOK
  <2>2. ASSUME NEW r \in Release, Confirmed(r) PROVE held' \in [Place -> [Item -> Int]]
    BY <2>2 DEF Confirmed, TablesOK
  <2>3. ASSUME NEW p \in Place, NEW i \in Item, Moved(p, i) PROVE held' \in [Place -> [Item -> Int]]
    <3>1. held[p][i] - 1 \in Int
      BY DEF TablesOK
    <3> QED BY <2>3, <3>1, HeldTyped DEF Moved, TablesOK
  <2> QED BY <2>1, <2>2, <2>3
<1>2. UNCHANGED <<handedBack, ask, left, call>> /\ DOMAIN status' = Release
  BY DEF Released, Confirmed, Moved, TablesOK
<1>3. \A w \in Worker : Busy(w)' => HandlerOK(call[w])'
  <2>1. \A w \in Worker : Busy(w) => HandlerOK(call[w])
    BY DEF TablesOK
  <2> QED BY <1>2, <2>1 DEF HandlerOK, Busy
<1>4. RaisedByOne'
  BY <1>2 DEF TablesOK, RaisedByOne, Busy
<1> QED BY <1>1, <1>2, <1>3, <1>4 DEF TablesOK, LinesStay

\* The three kinds of step of a handler, and the others.
LEMMA Steps ==
    ASSUME TablesOK, Next
    PROVE  \/ \E w \in Worker :
                \/ \E c : Begins(w, c)
                \/ LookReturn(w) \/ CommitReturn(w) \/ LookLine(w) \/ PostLine(w) \/ Drop(w)
                \/ \E new : Writes(w, new)
           \/ \E r \in Release : Released(r) \/ Confirmed(r)
           \/ \E p \in Place, i \in Item : Moved(p, i)
<1>1. ASSUME NEW w \in Worker, NEW s \in Section, NEW r \in Release \cup {NoRelease}, NEW i \in Item,
             NEW q \in 1 .. Max({held[s][i], 1}), StartReturn(w, s, r, i, q)
      PROVE  \E c : Begins(w, c)
  <2>1. held[s][i] \in Int
    BY DEF TablesOK, Place
  <2>2. q \in Nat
    BY <2>1, MaxOfTwo
  <2> QED BY <1>1, <2>2, Starts
<1>2. ASSUME NEW w \in Worker,
             WriteRaise(w) \/ WriteDecide(w) \/ WriteSettle(w) \/ CommitBin(w) \/ CommitSend(w)
      PROVE  \E new : Writes(w, new)
  BY <1>2, WriterWrites
<1>3. ASSUME NEW w \in Worker, AskSteps(w) \/ DecisionSteps(w)
      PROVE  \/ \E c : Begins(w, c)
             \/ LookLine(w) \/ PostLine(w)
             \/ \E new : Writes(w, new)
  BY <1>2, <1>3, Starts DEF AskSteps, DecisionSteps
<1>4. CASE \E w \in Worker :
            \/ \E s \in Section, r \in Release \cup {NoRelease}, i \in Item :
                 \E q \in 1 .. Max({held[s][i], 1}) : StartReturn(w, s, r, i, q)
            \/ LookReturn(w) \/ CommitReturn(w)
            \/ AskSteps(w) \/ DecisionSteps(w)
            \/ Drop(w)
  BY <1>1, <1>3, <1>4, Zenon
<1> QED BY <1>4, Zenon DEF Next

LEMMA TablesStep ==
    ASSUME TablesOK, [Next]_vars
    PROVE  TablesOK' /\ LinesStay
<1>1. CASE UNCHANGED vars
  <2>1. UNCHANGED <<held, status, handedBack, ask, left, call>>
    BY <1>1 DEF vars
  <2>2. \A w \in Worker : Busy(w)' => HandlerOK(call[w])'
    <3>1. \A w \in Worker : Busy(w) => HandlerOK(call[w])
      BY DEF TablesOK
    <3> QED BY <2>1, <3>1 DEF HandlerOK, Busy
  <2>3. RaisedByOne'
    BY <2>1 DEF TablesOK, RaisedByOne, Busy
  <2> QED BY <2>1, <2>2, <2>3 DEF TablesOK, LinesStay
<1>2. CASE Next
  <2>1. ASSUME NEW w \in Worker, NEW c, Begins(w, c) PROVE TablesOK' /\ LinesStay
    BY <2>1, StartTables DEF Begins
  <2> QED BY <1>2, <2>1, Steps, GoesTables, WriterTables, OthersTables, Zenon
<1> QED BY <1>1, <1>2

LEMMA TablesStart ==
    ASSUME Init
    PROVE  TablesOK
<1>1. NoAsk \in AskRow
  <2>1. << >> \in Seq(LineRow)
    OBVIOUS
  <2> QED BY <2>1 DEF NoAsk, AskRow, AskStatuses
<1>2. held \in [Place -> [Item -> Int]]
  BY ReturnsAssumption DEF Init
<1>3. \A w \in Worker : ~Busy(w)
  BY DEF Init, Busy
<1> QED BY <1>1, <1>2, <1>3 DEF Init, TablesOK, RaisedByOne

LEMMA TablesInvariant == Spec => []TablesOK
<1>1. Init => TablesOK
  BY TablesStart
<1>2. TablesOK /\ [Next]_vars => TablesOK'
  BY TablesStep
<1> QED BY <1>1, <1>2, PTL DEF Spec

-----------------------------------------------------------------------------
(* A line leaves the way it was decided, and once. *)

RowOK(row) ==
    /\ row.status \in {"approved", "sent", "settled"} => row.decidedBy \notin {Nobody, row.raisedBy}
    /\ row.status = "sent" => \E n \in DOMAIN row.lines : row.lines[n].decision = "vendor"
    /\ row.status = "settled" => \/ \E n \in DOMAIN row.lines : row.lines[n].decision = "vendor"
                                \/ \A n \in DOMAIN row.lines : row.lines[n].binned

\* A line of an ask with that status, and the documents that took it out.
LineOK(st, line, gone) ==
    /\ st \in {"none", "raised"} => line.decision = Undecided /\ ~line.binned /\ gone = {}
    /\ st \in {"approved", "sent", "settled"} => line.decision \in Answers
    /\ line.decision = "vendor" =>
         /\ ~line.binned
         /\ gone # {} <=> st \in {"sent", "settled"}
         /\ \A d \in gone : d.doc = "return"
    /\ line.decision = "waste" =>
         /\ gone # {} <=> line.binned
         /\ \A d \in gone : d.doc # "return"
    /\ \A d, e \in gone : d = e

AskOK(a) ==
    /\ RowOK(ask[a])
    /\ \A n \in DOMAIN ask[a].lines : LineOK(ask[a].status, ask[a].lines[n], Departures(a, n))

LinesInvariant ==
    /\ TablesOK
    /\ Alone
    /\ HandlersKnow
    /\ \A a \in Ask \ overlaps : AskOK(a)


LEMMA GoneAfter ==
    ASSUME TablesOK, NEW w \in Worker, NEW new, Writes(w, new), NEW c, c = call[w]
    PROVE  /\ \A b \in Ask \ {c.ask} : \A n : Departures(b, n)' = Departures(b, n)
           /\ c.op \in {"raise", "decide", "settle"} =>
                \A n : Departures(c.ask, n)' = Departures(c.ask, n)
           /\ c.op \in {"bin", "send"} =>
                \E d : /\ d.doc = "return" <=> c.op = "send"
                      /\ \A n : Departures(c.ask, n)' =
                                  IF n \in c.todo THEN Departures(c.ask, n) \cup {d}
                                  ELSE Departures(c.ask, n)
<1>1. /\ c.ask \in Ask /\ c.op \in {"raise", "decide", "bin", "send", "settle"}
      /\ c.op \in {"bin", "send"} => c.todo \subseteq DOMAIN ask[c.ask].lines
  BY DEF Writes, HandlerOK
<1>2. CASE c.op \in {"raise", "decide", "settle"}
  <2>1. left' = left
    BY <1>2 DEF Writes
  <2> QED BY <1>2, <2>1 DEF Departures
<1>3. CASE c.op \in {"bin", "send"}
  <2>1. Depart(c, IF c.op = "bin" THEN "wastage" ELSE "return")
    BY <1>3 DEF Writes
  <2>2. PICK d : /\ left' = left \cup {d} /\ d.ask = c.ask /\ d.lines = c.todo
                 /\ d.doc = IF c.op = "bin" THEN "wastage" ELSE "return"
    BY <1>1, <1>3, <2>1, DepartTables
  <2>3. d.doc = "return" <=> c.op = "send"
    BY <1>3, <2>2
  <2>4. \A b, n : Departures(b, n)' = IF b = c.ask /\ n \in c.todo THEN Departures(b, n) \cup {d}
                                     ELSE Departures(b, n)
    BY <2>2 DEF Departures
  <2> QED BY <1>3, <2>3, <2>4
<1> QED BY <1>1, <1>2, <1>3

\* The ask of the handler that writes, when no other handler used it.
LEMMA WrittenAsk ==
    ASSUME LinesInvariant, NEW w \in Worker, NEW new, Writes(w, new), NEW c, c = call[w],
           c.ask \notin overlaps
    PROVE  AskOK(c.ask)'
<1> DEFINE a == c.ask
<1>1. PICK row \in AskRow : row = ask[a]
  BY DEF Writes, HandlerOK, LinesInvariant, TablesOK
<1>2. /\ a \in Ask /\ ask'[a] = new /\ new \in AskRow
      /\ c.op \in {"raise", "decide", "bin", "send", "settle"} /\ Busy(w) /\ HandlerOK(c)
  BY DEF Writes, HandlerOK, LinesInvariant, TablesOK
<1>3. Knows(c) /\ AskOK(a) /\ TablesOK
  BY <1>2 DEF LinesInvariant, HandlersKnow
<1>4. /\ RowOK(row)
      /\ \A n \in DOMAIN row.lines : LineOK(row.status, row.lines[n], Departures(a, n))
  BY <1>1, <1>3 DEF AskOK
<1>5. \A n \in DOMAIN new.lines : new.lines[n].decision \in Answers \cup {Undecided}
  BY <1>2, LineTyped
<1>6. CASE c.op = "raise"
  <2>1. \A n : Departures(a, n)' = Departures(a, n)
    BY <1>3, <1>6, GoneAfter
  <2>2. \A n : Departures(a, n) = {}
    BY <1>2, <1>3, <1>6 DEF HandlerOK, TablesOK, Departures
  <2>3. /\ new.status = "raised"
        /\ \A n \in DOMAIN new.lines : new.lines[n].decision = Undecided /\ ~new.lines[n].binned
    BY <1>6 DEF Writes
  <2>4. RowOK(new)
    BY <2>3 DEF RowOK
  <2>5. \A n \in DOMAIN new.lines : LineOK(new.status, new.lines[n], {})
    BY <2>3 DEF LineOK, Undecided
  <2> QED BY <1>2, <2>1, <2>2, <2>4, <2>5 DEF AskOK
<1>7. /\ c.op # "raise" =>
         /\ new.raisedBy = row.raisedBy /\ DOMAIN new.lines = DOMAIN row.lines
         /\ c.op # "decide" => \A n \in DOMAIN row.lines : new.lines[n].decision = row.lines[n].decision
         /\ c.op # "bin" => \A n \in DOMAIN row.lines : new.lines[n].binned = row.lines[n].binned
  BY <1>1 DEF Writes
<1>8. CASE c.op = "decide"
  <2>1. row.status = "raised" /\ row.raisedBy # c.user
    BY <1>1, <1>3, <1>8 DEF Knows
  <2>2. \A n : Departures(a, n)' = Departures(a, n)
    BY <1>3, <1>8, GoneAfter
  <2>3. /\ new.status = "approved" /\ new.decidedBy = c.user /\ c.user \in User
        /\ \A n \in DOMAIN row.lines : new.lines[n].decision = c.answers[n]
        /\ c.answers \in [DOMAIN row.lines -> Answers]
    BY <1>1, <1>2, <1>7, <1>8 DEF Writes, HandlerOK
  <2>4. RowOK(new)
    BY <1>7, <1>8, <2>1, <2>3, ReturnsAssumption DEF RowOK
  <2>5. ASSUME NEW n \in DOMAIN new.lines
        PROVE  LineOK(new.status, new.lines[n], Departures(a, n))
    <3>1. /\ new.lines[n].decision \in Answers
          /\ ~row.lines[n].binned /\ Departures(a, n) = {}
      BY <1>4, <1>7, <1>8, <2>1, <2>3 DEF LineOK
    <3>2. ~new.lines[n].binned
      BY <1>7, <1>8, <3>1
    <3> QED BY <2>3, <3>1, <3>2 DEF LineOK
  <2> QED BY <1>2, <2>2, <2>4, <2>5 DEF AskOK
<1>9. CASE c.op = "settle"
  <2>1. row.status = "sent"
    BY <1>1, <1>3, <1>9 DEF Knows
  <2>2. \A n : Departures(a, n)' = Departures(a, n)
    BY <1>3, <1>9, GoneAfter
  <2>3. new.status = "settled" /\ new.decidedBy = row.decidedBy
    BY <1>1, <1>9 DEF Writes
  <2>4. RowOK(new)
    BY <1>4, <1>7, <1>9, <2>1, <2>3 DEF RowOK
  <2>5. ASSUME NEW n \in DOMAIN new.lines
        PROVE  LineOK(new.status, new.lines[n], Departures(a, n))
    <3>1. LineOK("sent", row.lines[n], Departures(a, n))
      BY <1>4, <1>7, <1>9, <2>1
    <3>2. /\ new.lines[n].decision = row.lines[n].decision
          /\ new.lines[n].binned <=> row.lines[n].binned
      BY <1>7, <1>9
    <3> QED BY <2>3, <3>1, <3>2 DEF LineOK
  <2> QED BY <1>2, <2>2, <2>4, <2>5 DEF AskOK
<1>10. CASE c.op = "send"
  <2>1. /\ row.status = "approved" /\ c.todo # {}
        /\ c.todo = {n \in DOMAIN row.lines : row.lines[n].decision = "vendor"}
    BY <1>1, <1>3, <1>10 DEF Knows, Decided
  <2>2. PICK d : /\ d.doc = "return"
                 /\ \A n : Departures(a, n)' = IF n \in c.todo THEN Departures(a, n) \cup {d}
                                              ELSE Departures(a, n)
    BY <1>3, <1>10, GoneAfter
  <2>3. new.status = "sent" /\ new.decidedBy = row.decidedBy
    BY <1>1, <1>10 DEF Writes
  <2>4. RowOK(new)
    BY <1>4, <1>7, <1>10, <2>1, <2>3 DEF RowOK
  <2>5. ASSUME NEW n \in DOMAIN new.lines
        PROVE  LineOK(new.status, new.lines[n], Departures(a, n)')
    <3>1. LineOK("approved", row.lines[n], Departures(a, n))
      BY <1>4, <1>7, <1>10, <2>1
    <3>2. /\ new.lines[n].decision = row.lines[n].decision
          /\ new.lines[n].binned <=> row.lines[n].binned
      BY <1>7, <1>10
    <3>3. CASE n \in c.todo
      <4>1. Departures(a, n)' = {d} /\ row.lines[n].decision = "vendor"
        BY <2>1, <2>2, <3>1, <3>3 DEF LineOK
      <4> QED BY <2>2, <2>3, <3>1, <3>2, <4>1 DEF LineOK, Answers
    <3>4. CASE n \notin c.todo
      <4>1. Departures(a, n)' = Departures(a, n) /\ row.lines[n].decision # "vendor"
        BY <1>7, <1>10, <2>1, <2>2, <3>4
      <4> QED BY <2>3, <3>1, <3>2, <4>1 DEF LineOK
    <3> QED BY <3>3, <3>4
  <2> QED BY <1>2, <2>4, <2>5 DEF AskOK
<1>11. CASE c.op = "bin"
  <2>1. /\ row.status \in {"approved", "sent", "settled"}
        /\ c.todo = {n \in DOMAIN row.lines : row.lines[n].decision = "waste" /\ ~row.lines[n].binned}
    BY <1>1, <1>3, <1>11 DEF Knows, ToBin, Decided
  <2>2. PICK d : /\ d.doc # "return"
                 /\ \A n : Departures(a, n)' = IF n \in c.todo THEN Departures(a, n) \cup {d}
                                              ELSE Departures(a, n)
    BY <1>3, <1>11, GoneAfter
  <2>3. /\ new.decidedBy = row.decidedBy
        /\ new.status = IF Finished(new.lines) THEN "settled" ELSE row.status
        /\ \A n \in DOMAIN row.lines : new.lines[n].binned <=> (row.lines[n].binned \/ n \in c.todo)
    BY <1>1, <1>7, <1>11 DEF Writes
  <2>4. Finished(new.lines) => /\ \A n \in DOMAIN row.lines : row.lines[n].decision # "vendor"
                               /\ \A n \in DOMAIN new.lines : new.lines[n].binned
    <3>1. \A n \in DOMAIN row.lines : row.lines[n].decision \in Answers
      BY <1>4, <2>1 DEF LineOK
    <3> QED BY <1>7, <1>11, <3>1 DEF Finished, Answers
  <2>5. RowOK(new)
    <3>1. new.status \in {"approved", "sent", "settled"}
      BY <2>1, <2>3
    <3>2. new.decidedBy \notin {Nobody, new.raisedBy}
      BY <1>4, <1>7, <1>11, <2>1, <2>3 DEF RowOK
    <3>3. CASE Finished(new.lines)
      BY <2>3, <2>4, <3>2, <3>3 DEF RowOK
    <3>4. CASE ~Finished(new.lines)
      BY <1>4, <1>7, <1>11, <2>3, <3>2, <3>4 DEF RowOK
    <3> QED BY <3>3, <3>4
  <2>6. ASSUME NEW n \in DOMAIN new.lines
        PROVE  LineOK(new.status, new.lines[n], Departures(a, n)')
    <3>1. LineOK(row.status, row.lines[n], Departures(a, n))
      BY <1>4, <1>7, <1>11
    <3>2. /\ new.lines[n].decision = row.lines[n].decision
          /\ new.lines[n].binned <=> (row.lines[n].binned \/ n \in c.todo)
      BY <1>7, <1>11, <2>3
    <3>3. /\ new.status \in {"approved", "sent", "settled"}
          /\ row.lines[n].decision = "vendor" =>
               (new.status \in {"sent", "settled"} <=> row.status \in {"sent", "settled"})
      BY <1>7, <1>11, <2>1, <2>3, <2>4
    <3>4. CASE n \in c.todo
      <4>1. Departures(a, n)' = {d} /\ row.lines[n].decision = "waste"
        BY <2>1, <2>2, <3>1, <3>4 DEF LineOK
      <4> QED BY <2>2, <3>2, <3>3, <3>4, <4>1 DEF LineOK, Answers
    <3>5. CASE n \notin c.todo
      <4>1. Departures(a, n)' = Departures(a, n)
        BY <2>2, <3>5
      <4>2. row.lines[n].decision \in Answers
        BY <2>1, <3>1 DEF LineOK
      <4> QED BY <3>1, <3>2, <3>3, <3>5, <4>1, <4>2 DEF LineOK, Answers
    <3> QED BY <3>4, <3>5
  <2> QED BY <1>2, <2>5, <2>6 DEF AskOK
<1> QED BY <1>2, <1>6, <1>8, <1>9, <1>10, <1>11

LEMMA BeginsLines ==
    ASSUME LinesInvariant, TablesOK', NEW w \in Worker, NEW c, Begins(w, c)
    PROVE  LinesInvariant'
<1>1. /\ call[w] = Idle /\ call' = [call EXCEPT ![w] = c] /\ UNCHANGED <<ask, left>>
      /\ overlaps' = overlaps
           \cup UNION {c.uses \cap call[v].uses : v \in {u \in Worker : call[u] # Idle}}
      /\ c.op # "return" => Knows(c)
  BY DEF Begins, Start
<1>2. /\ call'[w] = c /\ \A v \in Worker \ {w} : call'[v] = call[v]
      /\ overlaps \subseteq overlaps'
  BY <1>1 DEF LinesInvariant, TablesOK
<1>3. \A v \in Worker : Busy(v) => c.uses \cap call[v].uses \subseteq overlaps'
  BY <1>1 DEF Busy
<1>4. Alone'
  <2> SUFFICES ASSUME NEW v \in Worker, NEW x \in Worker, Busy(v)', Busy(x)', v # x
               PROVE  call'[v].uses \cap call'[x].uses \subseteq overlaps'
    BY DEF Alone
  <2>1. CASE v # w /\ x # w
    BY <1>2, <2>1 DEF LinesInvariant, Alone, Busy
  <2> QED BY <1>2, <1>3, <2>1 DEF Busy
<1>5. \A h : Knows(h)' <=> Knows(h)
  BY <1>1 DEF Knows, ToBin, Decided
<1>6. HandlersKnow'
  <2> SUFFICES ASSUME NEW v \in Worker, Busy(v)', call'[v].op # "return", call'[v].ask \notin overlaps'
               PROVE  Knows(call'[v])
    BY <1>5 DEF HandlersKnow
  <2> QED BY <1>1, <1>2 DEF LinesInvariant, HandlersKnow, Busy
<1>7. \A a \in Ask \ overlaps' : AskOK(a)'
  <2>1. \A a : AskOK(a)' <=> AskOK(a)
    BY <1>1 DEF AskOK, Departures
  <2> QED BY <1>2, <2>1 DEF LinesInvariant
<1> QED BY <1>4, <1>6, <1>7 DEF LinesInvariant

\* A handler that goes on uses and knows what it did.
LEMMA GoLines ==
    ASSUME LinesInvariant, TablesOK', NEW w \in Worker, NEW h, call' = [call EXCEPT ![w] = h],
           \/ h = Idle
           \/ /\ Busy(w) /\ h.uses = call[w].uses /\ h.op = call[w].op
              /\ h.op # "return" => h.ask = call[w].ask /\ (Knows(call[w]) => Knows(h)),
           UNCHANGED <<ask, left, overlaps>>
    PROVE  LinesInvariant'
<1>1. call'[w] = h /\ \A v \in Worker \ {w} : call'[v] = call[v]
  BY DEF LinesInvariant, TablesOK
<1>2. Alone'
  <2> SUFFICES ASSUME NEW v \in Worker, NEW x \in Worker, Busy(v)', Busy(x)', v # x
               PROVE  call'[v].uses \cap call'[x].uses \subseteq overlaps
    BY DEF Alone
  <2>1. \A y \in Worker : Busy(y)' => Busy(y) /\ call'[y].uses = call[y].uses
    BY <1>1 DEF Busy
  <2> QED BY <2>1 DEF LinesInvariant, Alone
<1>3. \A g : Knows(g)' <=> Knows(g)
  BY DEF Knows, ToBin, Decided
<1>4. HandlersKnow'
  <2> SUFFICES ASSUME NEW v \in Worker, Busy(v)', call'[v].op # "return", call'[v].ask \notin overlaps
               PROVE  Knows(call'[v])
    BY <1>3 DEF HandlersKnow
  <2> QED BY <1>1 DEF LinesInvariant, HandlersKnow, Busy
<1>5. \A a \in Ask \ overlaps' : AskOK(a)'
  BY DEF LinesInvariant, AskOK, Departures
<1> QED BY <1>2, <1>4, <1>5 DEF LinesInvariant

LEMMA GoesLines ==
    ASSUME LinesInvariant, TablesOK', NEW w \in Worker,
           LookReturn(w) \/ CommitReturn(w) \/ LookLine(w) \/ PostLine(w) \/ Drop(w)
    PROVE  LinesInvariant'
<1>1. PICK c : c = call[w]
  OBVIOUS
<1>2. CASE LookReturn(w)
  <2>1. PICK h : h = [c EXCEPT !.pc = "commit"]
    OBVIOUS
  <2>2. /\ c.op = "return" /\ call' = [call EXCEPT ![w] = h] /\ c.pc = "look"
        /\ UNCHANGED <<ask, left, overlaps>>
    BY <1>1, <1>2, <2>1 DEF LookReturn, GoTo
  <2>3. h.uses = c.uses /\ h.op = c.op /\ Busy(w)
    BY <1>1, <2>1, <2>2 DEF Busy, Idle
  <2> QED BY <1>1, <2>2, <2>3, GoLines
<1>3. CASE LookLine(w)
  <2>1. PICK n : call' = [call EXCEPT ![w] = IF c.op = "bin" THEN [c EXCEPT !.pc = "post", !.at = n]
                                             ELSE [c EXCEPT !.done = @ \cup {n}]]
    BY <1>1, <1>3 DEF LookLine, GoTo
  <2>2. c.pc = "look" /\ c.op \in {"bin", "send"} /\ UNCHANGED <<ask, left, overlaps>>
    BY <1>1, <1>3 DEF LookLine, GoTo
  <2>3. PICK h : h = IF c.op = "bin" THEN [[c EXCEPT !.pc = "post"] EXCEPT !.at = n]
                     ELSE [c EXCEPT !.done = c.done \cup {n}]
    OBVIOUS
  <2>4. /\ h.uses = c.uses /\ h.op = c.op /\ h.ask = c.ask /\ h.todo = c.todo /\ Busy(w)
        /\ call' = [call EXCEPT ![w] = h]
    BY <1>1, <2>1, <2>2, <2>3 DEF Busy, Idle
  <2>5. Knows(c) => Knows(h)
    BY <2>2, <2>4 DEF Knows
  <2> QED BY <1>1, <2>2, <2>4, <2>5, GoLines
<1>4. CASE PostLine(w)
  <2>1. PICK h : h = [[[c EXCEPT !.pc = "look"] EXCEPT !.done = c.done \cup {c.at}] EXCEPT !.at = NoLine]
    OBVIOUS
  <2>2. c.pc = "post" /\ call' = [call EXCEPT ![w] = h] /\ UNCHANGED <<ask, left, overlaps>>
    BY <1>1, <1>4, <2>1 DEF PostLine, GoTo
  <2>3. Busy(w) /\ c.op = "bin"
    BY <1>1, <2>2 DEF LinesInvariant, TablesOK, HandlerOK, Busy, Idle
  <2>4. h.uses = c.uses /\ h.op = c.op /\ h.ask = c.ask /\ h.todo = c.todo
    BY <2>1
  <2>5. Knows(c) => Knows(h)
    BY <2>3, <2>4 DEF Knows
  <2> QED BY <1>1, <2>2, <2>3, <2>4, <2>5, GoLines
<1>5. CASE CommitReturn(w) \/ Drop(w)
  BY <1>5, GoLines DEF CommitReturn, Drop, Finish, GoTo
<1> QED BY <1>2, <1>3, <1>4, <1>5

LEMMA WriterLines ==
    ASSUME LinesInvariant, TablesOK', NEW w \in Worker, NEW new, Writes(w, new)
    PROVE  LinesInvariant'
<1>1. PICK c : c = call[w]
  OBVIOUS
<1>2. /\ Busy(w) /\ HandlerOK(c) /\ c.op # "return" /\ c.ask \in Ask /\ c.ask \in c.uses
      /\ call' = [call EXCEPT ![w] = Idle] /\ ask' = [ask EXCEPT ![c.ask] = new]
      /\ overlaps' = overlaps
  BY <1>1 DEF Writes, HandlerOK
<1>3. /\ call'[w] = Idle /\ \A v \in Worker \ {w} : call'[v] = call[v]
      /\ \A b \in Ask \ {c.ask} : ask'[b] = ask[b]
  BY <1>2 DEF LinesInvariant, TablesOK
<1>4. Alone'
  BY <1>2, <1>3 DEF LinesInvariant, Alone, Busy
<1>5. HandlersKnow'
  <2> SUFFICES ASSUME NEW v \in Worker, Busy(v)', call'[v].op # "return", call'[v].ask \notin overlaps
               PROVE  Knows(call[v])'
    BY <1>2 DEF HandlersKnow
  <2>1. PICK h : h = call[v]
    OBVIOUS
  <2>2. v # w /\ call'[v] = h /\ Busy(v) /\ h.op # "return" /\ h.ask \notin overlaps
    BY <1>3, <2>1 DEF Busy
  <2>3. HandlerOK(h) /\ Knows(h)
    BY <2>1, <2>2 DEF LinesInvariant, HandlersKnow, TablesOK
  <2>4. h.ask \in Ask /\ h.ask \in h.uses
    BY <2>2, <2>3 DEF HandlerOK
  <2>5. h.ask # c.ask
    BY <1>1, <1>2, <2>1, <2>2, <2>4 DEF LinesInvariant, Alone
  <2>6. ask'[h.ask] = ask[h.ask]
    BY <1>3, <2>4, <2>5
  <2>7. Knows(h)'
    BY <2>3, <2>6 DEF Knows, ToBin, Decided
  <2> QED BY <2>2, <2>7
<1>6. ASSUME NEW a \in Ask \ overlaps PROVE AskOK(a)'
  <2>1. CASE a = c.ask
    BY <1>1, <2>1, WrittenAsk
  <2>2. CASE a # c.ask
    <3>1. ask'[a] = ask[a] /\ \A n : Departures(a, n)' = Departures(a, n)
      BY <1>1, <1>3, <2>2, GoneAfter DEF LinesInvariant
    <3> QED BY <3>1 DEF LinesInvariant, AskOK
  <2> QED BY <2>1, <2>2
<1> QED BY <1>2, <1>4, <1>5, <1>6 DEF LinesInvariant

LEMMA OthersLines ==
    ASSUME LinesInvariant, TablesOK', UNCHANGED <<ask, left, call>>, overlaps \subseteq overlaps'
    PROVE  LinesInvariant'
<1>1. Alone'
  BY DEF LinesInvariant, Alone, Busy
<1>2. \A h : Knows(h)' <=> Knows(h)
  BY DEF Knows, ToBin, Decided
<1>3. HandlersKnow'
  BY <1>2 DEF LinesInvariant, HandlersKnow, Busy
<1>4. \A a \in Ask \ overlaps' : AskOK(a)'
  BY DEF LinesInvariant, AskOK, Departures
<1> QED BY <1>1, <1>3, <1>4 DEF LinesInvariant

LEMMA LinesStep ==
    ASSUME LinesInvariant, [Next]_vars
    PROVE  LinesInvariant'
<1>1. TablesOK /\ TablesOK'
  BY TablesStep DEF LinesInvariant
<1>2. CASE UNCHANGED vars
  BY <1>1, <1>2, OthersLines DEF vars
<1>3. CASE Next
  <2>1. ASSUME \E r \in Release : Released(r) \/ Confirmed(r) PROVE LinesInvariant'
    BY <1>1, <2>1, OthersLines DEF Released, Confirmed
  <2>2. ASSUME \E p \in Place, i \in Item : Moved(p, i) PROVE LinesInvariant'
    <3>1. UNCHANGED <<ask, left, call>> /\ overlaps \subseteq overlaps'
      BY <2>2 DEF Moved
    <3> QED BY <1>1, <3>1, OthersLines
  <2> QED BY <1>1, <1>3, <2>1, <2>2, Steps, BeginsLines, GoesLines, WriterLines, Zenon
<1> QED BY <1>2, <1>3

LEMMA LinesStart ==
    ASSUME Init
    PROVE  LinesInvariant
<1>1. TablesOK
  BY TablesStart
<1>2. \A w \in Worker : ~Busy(w)
  BY DEF Init, Busy
<1>3. \A a \in Ask : AskOK(a)
  BY DEF Init, NoAsk, AskOK, RowOK
<1> QED BY <1>1, <1>2, <1>3 DEF LinesInvariant, Alone, HandlersKnow

LEMMA LinesSafe ==
    ASSUME LinesInvariant
    PROVE  EveryLineLeavesOnce
<1> SUFFICES ASSUME NEW a \in Ask \ overlaps, NEW n \in DOMAIN ask[a].lines, NEW line, NEW gone,
                    line = ask[a].lines[n], gone = Departures(a, n)
             PROVE  /\ Cardinality(gone) <= 1
                    /\ \A d \in gone :
                        /\ ask[a].decidedBy \notin {Nobody, ask[a].raisedBy}
                        /\ d.doc = "return" <=> line.decision = "vendor"
                    /\ line.decision = "vendor" => (gone # {} <=> ask[a].status \in {"sent", "settled"})
                    /\ line.decision = "waste" => (gone # {} <=> line.binned)
                    /\ (ask[a].status = "settled" /\ gone = {}) =>
                         /\ line.decision = "waste"
                         /\ \E m \in DOMAIN ask[a].lines : ask[a].lines[m].decision = "vendor"
  BY DEF EveryLineLeavesOnce
<1>1. PICK st : st = ask[a].status
  OBVIOUS
<1>2. st \in AskStatuses
  BY <1>1 DEF LinesInvariant, TablesOK, AskRow
<1>3. RowOK(ask[a]) /\ LineOK(st, line, gone)
  BY <1>1 DEF LinesInvariant, AskOK
<1>4. Cardinality(gone) <= 1
  <2>1. CASE gone = {}
    BY <2>1, FS_EmptySet
  <2>2. ASSUME NEW d \in gone PROVE Cardinality(gone) <= 1
    <3>1. gone = {d}
      BY <1>3 DEF LineOK
    <3>2. Cardinality({d}) = 1
      BY FS_Singleton
    <3> QED BY <3>1, <3>2
  <2> QED BY <2>1, <2>2
<1>5. gone # {} => st \in {"approved", "sent", "settled"} /\ line.decision \in Answers
  BY <1>2, <1>3 DEF LineOK, AskStatuses
<1>6. \A d \in gone :
        /\ ask[a].decidedBy \notin {Nobody, ask[a].raisedBy}
        /\ d.doc = "return" <=> line.decision = "vendor"
  BY <1>1, <1>3, <1>5 DEF LineOK, RowOK, Answers
<1>7. (st = "settled" /\ gone = {}) =>
        /\ line.decision = "waste"
        /\ \E m \in DOMAIN ask[a].lines : ask[a].lines[m].decision = "vendor"
  BY <1>1, <1>3 DEF LineOK, RowOK, Answers
<1>8. line.decision = "vendor" => (gone # {} <=> ask[a].status \in {"sent", "settled"})
  BY <1>1, <1>3 DEF LineOK
<1>9. line.decision = "waste" => (gone # {} <=> line.binned)
  BY <1>3 DEF LineOK
<1>10. (ask[a].status = "settled" /\ gone = {}) =>
         /\ line.decision = "waste"
         /\ \E m \in DOMAIN ask[a].lines : ask[a].lines[m].decision = "vendor"
  BY <1>1, <1>7
<1> QED BY <1>4, <1>6, <1>8, <1>9, <1>10

\* A line leaves the way it was decided, by another than raised the ask, and once,
\* unless handlers of one ask overlap (decideDisposal, binDecidedLines,
\* sendSupplierReturn, settleSupplierReturn).
THEOREM EachLineLeavesOnce == Spec => []EveryLineLeavesOnce
<1>1. Init => LinesInvariant
  BY LinesStart
<1>2. LinesInvariant /\ [Next]_vars => LinesInvariant'
  BY LinesStep
<1>3. LinesInvariant => EveryLineLeavesOnce
  BY LinesSafe
<1> QED BY <1>1, <1>2, <1>3, PTL DEF Spec

-----------------------------------------------------------------------------
(* No more goes out than there is. *)

\* What a handler that has the shelf, the release or the delivery to itself was shown
\* still stands.
FitsSection(c) ==
    c.op = "return" /\ c.pc = "commit" /\ c.section \notin overlaps =>
        c.qty <= held[c.section][c.item]
FitsRelease(c) ==
    c.op = "return" /\ c.release \in Release \ overlaps =>
        handedBack[c.release][c.item] + c.qty <= ReleaseOf[c.release].issued[c.item]
FitsQuarantine(c) ==
    c.op \in {"bin", "send"} /\ Quarantine \notin overlaps =>
        \A n \in c.todo : n \in c.done \/ (c.pc = "post" /\ n = c.at) =>
            Qty(ask[c.ask].lines[n]) <= held[Quarantine][ItemOf(ask[c.ask].lines[n])]
FitsDelivery(c) ==
    c.op = "raise" => \A n \in DOMAIN c.body :
        c.body[n].line \notin overlaps => c.body[n].packs <= PacksReturnable(c.body[n].line)

Fits(c) == FitsSection(c) /\ FitsRelease(c) /\ FitsQuarantine(c) /\ FitsDelivery(c)

ShelvesInvariant ==
    /\ TablesOK
    /\ Alone
    /\ \A a \in Ask : ask[a].status = "none" => DOMAIN ask[a].lines = {}
    /\ \A w \in Worker : Busy(w) => Fits(call[w])
    /\ NothingOverdrawn


\* The lines of all asks.
LEMMA AskLine ==
    ASSUME NEW x
    PROVE  x \in AskLines <=> \E a \in Ask : \E n \in DOMAIN ask[a].lines : x = <<a, n>>
<1>1. x \in AskLines <=> \E a \in Ask : x \in {a} \X DOMAIN ask[a].lines
  BY DEF AskLines
<1>2. \A a \in Ask : x \in {a} \X DOMAIN ask[a].lines <=> \E n \in DOMAIN ask[a].lines : x = <<a, n>>
  OBVIOUS
<1> QED BY <1>1, <1>2

LEMMA AskLinesFinite ==
    ASSUME TablesOK
    PROVE  /\ IsFiniteSet(AskLines)
           /\ \A x \in AskLines : LineOf(x).packs \in Nat /\ LineOf(x).line \in DOMAIN Delivery
                                 /\ Qty(LineOf(x)) \in Nat /\ ItemOf(LineOf(x)) \in Item
<1> DEFINE f == [a \in Ask |-> {a} \X DOMAIN ask[a].lines]
           T == {{a} \X DOMAIN ask[a].lines : a \in Ask}
<1>1. f \in Surjection(Ask, T)
  BY DEF Surjection
<1>2. IsFiniteSet(T)
  <2> HIDE DEF f, T
  <2> QED BY <1>1, FS_Surjection, ReturnsAssumption
<1>3. ASSUME NEW a \in Ask PROVE IsFiniteSet({a} \X DOMAIN ask[a].lines)
  <2>1. PICK k \in Nat : DOMAIN ask[a].lines = 1 .. k
    <3>1. ask[a] \in AskRow
      BY DEF TablesOK
    <3> QED BY <3>1, LineTyped
  <2>2. IsFiniteSet(1 .. k)
    BY FS_Interval
  <2>3. IsFiniteSet({a})
    BY FS_Singleton
  <2> QED BY <2>1, <2>2, <2>3, FS_Product
<1>4. \A D \in T : IsFiniteSet(D)
  BY <1>3
<1>5. IsFiniteSet(AskLines)
  <2>1. AskLines = UNION T
    BY DEF AskLines
  <2> HIDE DEF T
  <2> QED BY <1>2, <1>4, <2>1, FS_UNION
<1>6. ASSUME NEW x \in AskLines
      PROVE  /\ LineOf(x).packs \in Nat /\ LineOf(x).line \in DOMAIN Delivery
             /\ Qty(LineOf(x)) \in Nat /\ ItemOf(LineOf(x)) \in Item
  <2>1. PICK a \in Ask : \E n \in DOMAIN ask[a].lines : x = <<a, n>>
    BY AskLine
  <2>2. PICK n \in DOMAIN ask[a].lines : x = <<a, n>>
    BY <2>1
  <2>3. ask[a] \in AskRow
    BY DEF TablesOK
  <2>4. LineOf(x) = ask[a].lines[n]
    BY <2>2 DEF LineOf
  <2>5. LineOf(x).packs \in Nat /\ LineOf(x).line \in DOMAIN Delivery
    BY <2>3, <2>4, LineTyped
  <2> QED BY <2>5, QtyNat
<1> QED BY <1>5, <1>6

\* The lines that claim of a delivery line, and their packs.
ClaimsOf(g) == {x \in AskLines : LineOf(x).line = g}
PacksOf(g) == [x \in ClaimsOf(g) |-> LineOf(x).packs]

LEMMA PacksTyped ==
    ASSUME TablesOK, NEW g
    PROVE  /\ IsFiniteSet(ClaimsOf(g)) /\ PacksOf(g) \in [ClaimsOf(g) -> Nat]
           /\ PacksReturned(g) = SumFunction(PacksOf(g)) /\ PacksReturned(g) \in Nat
<1>1. IsFiniteSet(ClaimsOf(g))
  BY AskLinesFinite, FS_Subset DEF ClaimsOf
<1>2. PacksOf(g) \in [ClaimsOf(g) -> Nat]
  BY AskLinesFinite DEF ClaimsOf, PacksOf
<1>3. PacksReturned(g) = SumFunction(PacksOf(g))
  BY DEF PacksReturned, PacksOf, ClaimsOf
<1> QED BY <1>1, <1>2, <1>3, SumNat

PacksFact(g) ==
    /\ IsFiniteSet(ClaimsOf(g)) /\ PacksOf(g) \in [ClaimsOf(g) -> Nat]
    /\ PacksReturned(g) = SumFunction(PacksOf(g))

ClaimsTyped == \A g : PacksFact(g)

LEMMA PacksFacts == TablesOK => ClaimsTyped
BY PacksTyped DEF PacksFact, ClaimsTyped

LEMMA DeliveryTyped ==
    ASSUME TablesOK, NEW g \in DOMAIN Delivery
    PROVE  /\ Delivery[g].packs \in Nat /\ Delivery[g].item \in Item
           /\ Delivery[g].size \in Nat /\ Delivery[g].size # 0
           /\ PacksReturnable(g) \in Int /\ PacksReturnable(g) = Delivery[g].packs - PacksReturned(g)
<1>1. PICK Part : Part = [grn : Nat, item : Item, packs : Nat, size : Nat \ {0}]
  OBVIOUS
<1>2. Delivery \in Seq(Part)
  BY <1>1, ReturnsAssumption
<1>3. Delivery[g] \in Part
  BY <1>2
<1>4. /\ Delivery[g].packs \in Nat /\ Delivery[g].item \in Item
      /\ Delivery[g].size \in Nat /\ Delivery[g].size # 0
  BY <1>1, <1>3
<1>5. PacksReturned(g) \in Nat
  BY PacksTyped
<1> QED BY <1>4, <1>5 DEF PacksReturnable

\* What the asks claim stays when their lines do.
LEMMA ClaimsStay ==
    ASSUME \A a \in Ask :
               /\ DOMAIN ask'[a].lines = DOMAIN ask[a].lines
               /\ \A n \in DOMAIN ask[a].lines : /\ ask'[a].lines[n].line = ask[a].lines[n].line
                                               /\ ask'[a].lines[n].packs = ask[a].lines[n].packs
    PROVE  /\ \A g : PacksReturned(g)' = PacksReturned(g) /\ PacksReturnable(g)' = PacksReturnable(g)
           /\ \A a \in Ask : NamesTwice(a)' <=> NamesTwice(a)
<1>1. AskLines' = AskLines
  BY DEF AskLines
<1>2. \A x \in AskLines : LineOf(x)'.line = LineOf(x).line /\ LineOf(x)'.packs = LineOf(x).packs
  <2> SUFFICES ASSUME NEW x \in AskLines
               PROVE  LineOf(x)'.line = LineOf(x).line /\ LineOf(x)'.packs = LineOf(x).packs
    OBVIOUS
  <2>1. PICK a \in Ask : \E n \in DOMAIN ask[a].lines : x = <<a, n>>
    BY AskLine
  <2>2. PICK n \in DOMAIN ask[a].lines : x = <<a, n>>
    BY <2>1
  <2> QED BY <2>2 DEF LineOf
<1>3. ASSUME NEW g PROVE PacksReturned(g)' = PacksReturned(g)
  <2>1. {x \in AskLines : LineOf(x).line = g}' = {x \in AskLines : LineOf(x).line = g}
    BY <1>1, <1>2
  <2> QED BY <1>2, <2>1 DEF PacksReturned
<1>4. \A a \in Ask : NamesTwice(a)' <=> NamesTwice(a)
  BY DEF NamesTwice, ItemOf
<1> QED BY <1>3, <1>4 DEF PacksReturnable

\* What a new ask adds to the claims: one line at most of a delivery line, when it
\* names no item twice.
LEMMA ClaimsRaised ==
    ASSUME TablesOK, TablesOK', NEW a \in Ask, NEW new, ask' = [ask EXCEPT ![a] = new],
           DOMAIN ask[a].lines = {}, ~NamesTwice(a)', NEW g
    PROVE  \/ PacksReturned(g)' = PacksReturned(g)
           \/ \E n \in DOMAIN new.lines :
                 /\ new.lines[n].line = g
                 /\ PacksReturned(g)' = PacksReturned(g) + new.lines[n].packs
<1> DEFINE S == ClaimsOf(g)
           R == ClaimsOf(g)'
           f == PacksOf(g)'
           rest == R \ S
<1>1. /\ ask'[a] = new /\ (\A b \in Ask \ {a} : ask'[b] = ask[b])
  BY DEF TablesOK
<1>2. \A x : x \in S <=> \E b \in Ask \ {a} : \E n \in DOMAIN ask[b].lines :
                            x = <<b, n>> /\ ask[b].lines[n].line = g
  BY AskLine DEF ClaimsOf, LineOf
<1>3. \A x : x \in AskLines' <=> \E b \in Ask : \E n \in DOMAIN ask'[b].lines : x = <<b, n>>
  <2> SUFFICES ASSUME NEW x
               PROVE  x \in AskLines' <=> \E b \in Ask : \E n \in DOMAIN ask'[b].lines : x = <<b, n>>
    OBVIOUS
  <2>1. x \in AskLines' <=> \E b \in Ask : x \in {b} \X DOMAIN ask'[b].lines
    BY DEF AskLines
  <2>2. \A b \in Ask : x \in {b} \X DOMAIN ask'[b].lines <=> \E n \in DOMAIN ask'[b].lines : x = <<b, n>>
    OBVIOUS
  <2> QED BY <2>1, <2>2
<1>4. \A x : x \in R <=> \E b \in Ask : \E n \in DOMAIN ask'[b].lines :
                            x = <<b, n>> /\ ask'[b].lines[n].line = g
  BY <1>3 DEF ClaimsOf, LineOf
<1>5. S \subseteq R
  BY <1>1, <1>2, <1>4
<1>6. \A x \in rest : \E n \in DOMAIN new.lines : x = <<a, n>> /\ new.lines[n].line = g
  BY <1>1, <1>2, <1>4
<1>7. IsFiniteSet(R) /\ f \in [R -> Nat] /\ PacksReturned(g)' = SumFunction(f)
  <2>1. ClaimsTyped'
    BY PacksFacts, PTL
  <2> QED BY <2>1 DEF PacksFact, ClaimsTyped
<1>8. PacksReturned(g) = SumFunction(PacksOf(g)) /\ PacksReturned(g) \in Nat
  BY PacksTyped
<1>9. [x \in S |-> f[x]] = PacksOf(g)
  <2>1. \A x \in S : f[x] = PacksOf(g)[x]
    BY <1>1, <1>2, <1>5 DEF PacksOf, LineOf
  <2> QED BY <2>1 DEF PacksOf
<1>10. f \in [R -> Int] /\ S \in SUBSET R
  BY <1>5, <1>7
<1>11. SumFunction(f) = SumFunction([x \in S |-> f[x]]) + SumFunction([x \in rest |-> f[x]])
  <2> HIDE DEF S, R, f
  <2>1. IsFiniteSet(R)
    BY <1>7
  <2> QED BY ZenonT(30), <1>10, <2>1, SumSplit
<1>12. CASE rest = {}
  <2>1. [x \in rest |-> f[x]] \in [{} -> Int]
    BY <1>12
  <2>2. SumFunction([x \in rest |-> f[x]]) = 0
    <3> HIDE DEF rest, f
    <3> QED BY <2>1, SumEmpty
  <2> QED BY <1>7, <1>8, <1>9, <1>11, <2>2
<1>13. ASSUME NEW x \in rest
       PROVE  \E n \in DOMAIN new.lines :
                 /\ new.lines[n].line = g
                 /\ PacksReturned(g)' = PacksReturned(g) + new.lines[n].packs
  <2>1. PICK n \in DOMAIN new.lines : x = <<a, n>> /\ new.lines[n].line = g
    BY <1>6
  <2>2. rest = {x}
    <3>1. \A m \in DOMAIN new.lines : new.lines[m].line = g => m = n
      BY <1>1, <2>1 DEF NamesTwice, ItemOf
    <3> QED BY <1>6, <2>1, <3>1
  <2>3. f[x] = new.lines[n].packs /\ f[x] \in Nat
    BY <1>1, <1>7, <2>1 DEF PacksOf, LineOf
  <2>4. SumFunction([y \in rest |-> f[y]]) = f[x]
    <3>1. PICK h : h = [y \in rest |-> f[y]]
      OBVIOUS
    <3>2. h \in [rest -> Int] /\ h[x] = f[x] /\ \A y \in rest \ {x} : h[y] = 0
      BY <2>2, <2>3, <3>1
    <3>3. IsFiniteSet(rest)
      BY <2>2, FS_Singleton
    <3>4. SumFunction(h) = h[x]
      <4> HIDE DEF rest
      <4> QED BY <3>2, <3>3, SumOfOne
    <3> QED BY <3>1, <3>2, <3>4
  <2> QED BY <1>7, <1>8, <1>9, <1>11, <2>1, <2>3, <2>4
<1> QED BY <1>12, <1>13

NoneTwice == \A a \in Ask : ~NamesTwice(a)

\* The three things that are not overdrawn.
ShelfHolds(p) ==
    \A i \in Item : (p = Quarantine => NoneTwice) => held[p][i] >= 0
ReleaseHolds(r) == \A i \in Item : handedBack[r][i] <= ReleaseOf[r].issued[i]
DeliveryHolds(g) == NoneTwice => PacksReturnable(g) >= 0

LEMMA OverdrawnParts ==
    NothingOverdrawn <=> /\ \A p \in Place \ overlaps : ShelfHolds(p)
                         /\ \A r \in Release \ overlaps : ReleaseHolds(r)
                         /\ \A g \in DOMAIN Delivery \ overlaps : DeliveryHolds(g)
BY DEF NothingOverdrawn, ShelfHolds, ReleaseHolds, DeliveryHolds, NoneTwice

\* An ask once raised names the items it named, and claims what it claimed.
LEMMA NoneTwiceBefore ==
    ASSUME ShelvesInvariant, LinesStay, NoneTwice'
    PROVE  NoneTwice
<1> SUFFICES ASSUME NEW a \in Ask, NamesTwice(a) PROVE FALSE
  BY DEF NoneTwice
<1>1. ask[a].status # "none"
  BY DEF ShelvesInvariant, NamesTwice
<1>2. NamesTwice(a)'
  BY <1>1 DEF LinesStay, NamesTwice, ItemOf
<1> QED BY <1>2 DEF NoneTwice

\* Nothing is raised: the asks claim what they did.
LEMMA AllStay ==
    ASSUME ShelvesInvariant, LinesStay,
           \A a \in Ask : ask[a].status = "none" => ask'[a] = ask[a]
    PROVE  /\ \A g : PacksReturnable(g)' = PacksReturnable(g)
           /\ NoneTwice' <=> NoneTwice
           /\ \A a \in Ask : ask'[a].status = "none" => DOMAIN ask'[a].lines = {}
<1>1. \A a \in Ask :
        /\ DOMAIN ask'[a].lines = DOMAIN ask[a].lines
        /\ \A n \in DOMAIN ask[a].lines : /\ ask'[a].lines[n].line = ask[a].lines[n].line
                                        /\ ask'[a].lines[n].packs = ask[a].lines[n].packs
  BY DEF LinesStay
<1>2. \A a \in Ask : ask'[a].status = "none" => DOMAIN ask'[a].lines = {}
  BY <1>1 DEF LinesStay, ShelvesInvariant
<1> QED BY <1>1, <1>2, ClaimsStay DEF NoneTwice

\* What a handler was shown stands as long as nobody else takes from what it uses.
LEMMA FitsOn ==
    ASSUME ShelvesInvariant, TablesOK', LinesStay, overlaps \subseteq overlaps',
           NEW h, HandlerOK(h), Fits(h),
           h.op = "return" /\ h.section \notin overlaps' =>
               \A i \in Item : held'[h.section][i] >= held[h.section][i],
           h.op = "return" /\ h.release \in Release \ overlaps' =>
               handedBack'[h.release] = handedBack[h.release],
           h.op \in {"bin", "send"} /\ Quarantine \notin overlaps' =>
               \A i \in Item : held'[Quarantine][i] >= held[Quarantine][i],
           h.op = "raise" =>
               \A g \in h.uses \ overlaps' : PacksReturnable(g)' = PacksReturnable(g)
    PROVE  Fits(h)'
<1>1. \A p \in Place, i \in Item : held[p][i] \in Int /\ held'[p][i] \in Int
  BY DEF ShelvesInvariant, TablesOK
<1>2. FitsSection(h)'
  <2> SUFFICES ASSUME h.op = "return", h.pc = "commit", h.section \notin overlaps'
               PROVE  h.qty <= held'[h.section][h.item]
    BY DEF FitsSection
  <2>1. h.section \in Place /\ h.item \in Item /\ h.qty \in Nat
    BY DEF HandlerOK, Place
  <2>2. h.qty <= held[h.section][h.item]
    BY DEF Fits, FitsSection
  <2>3. held'[h.section][h.item] >= held[h.section][h.item]
    BY <2>1
  <2> QED BY <1>1, <2>1, <2>2, <2>3
<1>3. FitsRelease(h)'
  BY DEF Fits, FitsRelease
<1>4. FitsQuarantine(h)'
  <2> SUFFICES ASSUME h.op \in {"bin", "send"}, Quarantine \notin overlaps', NEW n \in h.todo,
                      n \in h.done \/ (h.pc = "post" /\ n = h.at)
               PROVE  Qty(ask'[h.ask].lines[n]) <= held'[Quarantine][ItemOf(ask'[h.ask].lines[n])]
    BY DEF FitsQuarantine, Qty, ItemOf
  <2>1. PICK old, new : old = ask[h.ask].lines[n] /\ new = ask'[h.ask].lines[n]
    OBVIOUS
  <2>2. h.ask \in Ask /\ ask[h.ask].status # "none" /\ n \in DOMAIN ask[h.ask].lines
    BY DEF HandlerOK
  <2>3. new.line = old.line /\ new.packs = old.packs
    BY <2>1, <2>2 DEF LinesStay
  <2>4. Qty(new) = Qty(old) /\ ItemOf(new) = ItemOf(old)
    BY <2>3 DEF Qty, ItemOf
  <2>5. Qty(old) <= held[Quarantine][ItemOf(old)]
    BY <2>1 DEF Fits, FitsQuarantine
  <2>6. Qty(old) \in Nat /\ ItemOf(old) \in Item
    <3>1. ask[h.ask] \in AskRow
      BY <2>2 DEF ShelvesInvariant, TablesOK
    <3> QED BY <2>1, <2>2, <3>1, LineTyped, QtyNat
  <2>7. held'[Quarantine][ItemOf(old)] >= held[Quarantine][ItemOf(old)] /\ Quarantine \in Place
    BY <2>6 DEF Place
  <2> QED BY <1>1, <2>1, <2>4, <2>5, <2>6, <2>7
<1>5. FitsDelivery(h)'
  <2> SUFFICES ASSUME h.op = "raise", NEW n \in DOMAIN h.body, h.body[n].line \notin overlaps'
               PROVE  h.body[n].packs <= PacksReturnable(h.body[n].line)'
    BY DEF FitsDelivery
  <2>1. h.body[n].line \in h.uses
    BY DEF HandlerOK
  <2>2. PacksReturnable(h.body[n].line)' = PacksReturnable(h.body[n].line)
    BY <2>1
  <2> QED BY <2>2 DEF Fits, FitsDelivery
<1> QED BY <1>2, <1>3, <1>4, <1>5 DEF Fits

LEMMA BeginsShelves ==
    ASSUME ShelvesInvariant, TablesOK', LinesStay, Alone', NEW w \in Worker, NEW c, Begins(w, c)
    PROVE  ShelvesInvariant'
<1>1. /\ call[w] = Idle /\ call' = [call EXCEPT ![w] = c] /\ UNCHANGED <<held, handedBack, ask>>
      /\ overlaps \subseteq overlaps' /\ HandlerOK(c)
  BY DEF Begins, Start
<1>2. call'[w] = c /\ \A v \in Worker \ {w} : call'[v] = call[v]
  BY <1>1 DEF ShelvesInvariant, TablesOK
<1>3. /\ \A g : PacksReturnable(g)' = PacksReturnable(g)
      /\ NoneTwice' <=> NoneTwice
      /\ \A a \in Ask : ask'[a].status = "none" => DOMAIN ask'[a].lines = {}
  BY <1>1, AllStay
<1>4. ASSUME NEW v \in Worker, Busy(v)', v # w PROVE Fits(call[v])'
  <2>1. Busy(v) /\ HandlerOK(call[v]) /\ Fits(call[v]) /\ call'[v] = call[v]
    BY <1>2, <1>4 DEF ShelvesInvariant, TablesOK, Busy
  <2>2. PICK h : h = call[v]
    OBVIOUS
  <2>3. Fits(h)'
    <3>1. \A p \in Place, i \in Item : held[p][i] \in Int
      BY DEF ShelvesInvariant, TablesOK
    <3>2. h.op = "return" => h.section \in Place
      BY <2>1, <2>2 DEF HandlerOK, Place
    <3>3. Quarantine \in Place
      BY DEF Place
    <3> QED BY <1>1, <1>3, <2>1, <2>2, <3>1, <3>2, <3>3, FitsOn
  <2> QED BY <2>1, <2>2, <2>3
<1>5. Fits(c)
  <2>1. FitsSection(c)
    BY DEF Begins, FitsSection
  <2>2. FitsRelease(c)
    <3> SUFFICES ASSUME c.op = "return", c.release \in Release
                 PROVE  handedBack[c.release][c.item] + c.qty <= ReleaseOf[c.release].issued[c.item]
      BY DEF FitsRelease
    <3>1. PICK r \in Release, i \in Item, q \in Nat : r = c.release /\ i = c.item /\ q = c.qty
      BY <1>1 DEF HandlerOK
    <3>2. q <= CanHandBack(r, i)
      BY <3>1, ReturnsAssumption DEF Begins
    <3>3. /\ ReleaseOf[r].issued[i] \in Nat /\ ReleaseOf[r].section \in Place
          /\ handedBack[r][i] \in Nat
      BY SMTT(30), ReturnsAssumption DEF Place, ShelvesInvariant, TablesOK
    <3>4. held[ReleaseOf[r].section][i] \in Int
      BY <3>3 DEF ShelvesInvariant, TablesOK
    <3>5. CanHandBack(r, i) <= ReleaseOf[r].issued[i] - handedBack[r][i]
      BY <3>3, <3>4, MinOfTwo DEF CanHandBack
    <3>6. CanHandBack(r, i) \in Int
      BY <3>3, <3>4, MinOfTwo DEF CanHandBack
    <3> QED BY <3>1, <3>2, <3>3, <3>5, <3>6
  <2>3. FitsQuarantine(c)
    BY DEF Begins, FitsQuarantine
  <2>4. FitsDelivery(c)
    BY DEF Begins, FitsDelivery, MayRaise
  <2> QED BY <2>1, <2>2, <2>3, <2>4 DEF Fits
<1>6. Fits(c)'
  <2>1. Fits(c) /\ HandlerOK(c)
    BY <1>1, <1>5
  <2>2. /\ \A p \in Place, i \in Item : held[p][i] \in Int
        /\ c.op = "return" => c.section \in Place
        /\ Quarantine \in Place
    BY <1>1 DEF ShelvesInvariant, TablesOK, HandlerOK, Place
  <2> QED BY <1>1, <1>3, <2>1, <2>2, FitsOn
<1>7. \A v \in Worker : Busy(v)' => Fits(call[v])'
  BY <1>2, <1>4, <1>6
<1>8. NothingOverdrawn'
  BY <1>1, <1>3, OverdrawnParts DEF ShelvesInvariant, NothingOverdrawn, NoneTwice
<1> QED BY <1>3, <1>7, <1>8 DEF ShelvesInvariant

LEMMA GoShelves ==
    ASSUME ShelvesInvariant, TablesOK', LinesStay, Alone', NEW w \in Worker, NEW h,
           call' = [call EXCEPT ![w] = h], h = Idle \/ Fits(h),
           UNCHANGED <<held, handedBack, ask, overlaps>>
    PROVE  ShelvesInvariant'
<1>1. call'[w] = h /\ \A v \in Worker \ {w} : call'[v] = call[v]
  BY DEF ShelvesInvariant, TablesOK
<1>2. \A g : PacksReturnable(g)' = PacksReturnable(g)
  BY AllStay
<1>3. \A c : Fits(c)' <=> Fits(c)
  <2>1. \A c : FitsDelivery(c)' <=> FitsDelivery(c)
    BY <1>2 DEF FitsDelivery
  <2>2. \A c : FitsQuarantine(c)' <=> FitsQuarantine(c)
    BY DEF FitsQuarantine
  <2> QED BY <2>1, <2>2 DEF Fits, FitsSection, FitsRelease
<1>4. \A v \in Worker : Busy(v)' => Fits(call[v])'
  <2> SUFFICES ASSUME NEW v \in Worker, Busy(v)' PROVE Fits(call[v])'
    OBVIOUS
  <2>1. PICK c : c = call'[v]
    OBVIOUS
  <2>2. Fits(c)
    BY <1>1, <2>1 DEF ShelvesInvariant, Busy
  <2>3. Fits(c)'
    BY <1>3, <2>2
  <2> QED BY <2>1, <2>3
<1>5. /\ \A a \in Ask : ask'[a].status = "none" => DOMAIN ask'[a].lines = {}
      /\ NothingOverdrawn'
  BY <1>2 DEF ShelvesInvariant, NothingOverdrawn, NamesTwice
<1> QED BY <1>4, <1>5 DEF ShelvesInvariant

\* What a handler looked at.
LEMMA GoesShelves ==
    ASSUME ShelvesInvariant, TablesOK', LinesStay, Alone', NEW w \in Worker,
           LookReturn(w) \/ LookLine(w) \/ PostLine(w) \/ Drop(w)
    PROVE  ShelvesInvariant'
<1>1. PICK c : c = call[w]
  OBVIOUS
<1>2. Busy(w) => HandlerOK(c) /\ Fits(c)
  BY <1>1 DEF ShelvesInvariant, TablesOK
<1>3. \A p \in Place, i \in Item : held[p][i] \in Int
  BY DEF ShelvesInvariant, TablesOK
<1>4. CASE LookReturn(w)
  <2>1. PICK h : h = [c EXCEPT !.pc = "commit"]
    OBVIOUS
  <2>2. /\ c.op = "return" /\ call' = [call EXCEPT ![w] = h] /\ c.pc = "look"
        /\ held[c.section][c.item] >= c.qty
        /\ UNCHANGED <<held, handedBack, ask, overlaps>>
    BY <1>1, <1>4, <2>1 DEF LookReturn, GoTo, stock
  <2>3. HandlerOK(c) /\ Fits(c)
    BY <1>1, <1>2, <2>2 DEF Busy, Idle
  <2>4. /\ h.op = "return" /\ h.section = c.section /\ h.item = c.item /\ h.qty = c.qty
        /\ h.release = c.release
    BY <2>1, <2>2
  <2>5. c.qty <= held[c.section][c.item]
    BY <1>3, <2>2, <2>3 DEF HandlerOK, Place
  <2>6. Fits(h)
    BY <2>2, <2>3, <2>4, <2>5 DEF Fits, FitsSection, FitsRelease, FitsQuarantine, FitsDelivery
  <2> QED BY <2>2, <2>6, GoShelves
<1>5. CASE LookLine(w)
  <2>1. c.pc = "look" /\ c.op \in {"bin", "send"} /\ UNCHANGED <<held, handedBack, ask, overlaps>>
    BY <1>1, <1>5 DEF LookLine, GoTo, stock
  <2>2. PICK n \in c.todo \ c.done :
            /\ Enough(c, ask[c.ask].lines[n])
            /\ call' = [call EXCEPT ![w] = IF c.op = "bin" THEN [c EXCEPT !.pc = "post", !.at = n]
                                           ELSE [c EXCEPT !.done = @ \cup {n}]]
    BY <1>1, <1>5 DEF LookLine, GoTo
  <2>3. PICK h : h = IF c.op = "bin" THEN [[c EXCEPT !.pc = "post"] EXCEPT !.at = n]
                     ELSE [c EXCEPT !.done = c.done \cup {n}]
    OBVIOUS
  <2>4. Busy(w) /\ HandlerOK(c) /\ Fits(c)
    BY <1>1, <1>2, <2>1 DEF Busy, Idle
  <2>5. /\ h.op = c.op /\ h.ask = c.ask /\ h.todo = c.todo /\ call' = [call EXCEPT ![w] = h]
        /\ \A m : m \in h.done \/ (h.pc = "post" /\ m = h.at) => m \in c.done \/ m = n
    BY <2>1, <2>2, <2>3, <2>4 DEF HandlerOK
  <2>6. Qty(ask[c.ask].lines[n]) <= held[Quarantine][ItemOf(ask[c.ask].lines[n])]
    <3>1. PICK line : line = ask[c.ask].lines[n]
      OBVIOUS
    <3>2. /\ ask[c.ask] \in AskRow /\ n \in DOMAIN ask[c.ask].lines
          /\ c.done \subseteq DOMAIN ask[c.ask].lines
      BY <2>1, <2>2, <2>4 DEF HandlerOK, ShelvesInvariant, TablesOK
    <3>3. Qty(line) \in Nat /\ ItemOf(line) \in Item
      BY <3>1, <3>2, LineTyped, QtyNat
    <3>4. OwnPostings(c, ItemOf(line)) \in Nat /\ held[Quarantine][ItemOf(line)] \in Int
      BY <1>3, <3>2, <3>3, OwnPostingsNat DEF Place
    <3>5. held[Quarantine][ItemOf(line)] - OwnPostings(c, ItemOf(line)) >= Qty(line)
      BY <2>2, <3>1 DEF Enough
    <3> QED BY <3>1, <3>3, <3>4, <3>5
  <2>7. Fits(h)
    BY <2>1, <2>4, <2>5, <2>6 DEF Fits, FitsSection, FitsRelease, FitsQuarantine, FitsDelivery
  <2> QED BY <2>1, <2>5, <2>7, GoShelves
<1>6. CASE PostLine(w)
  <2>1. PICK h : h = [[[c EXCEPT !.pc = "look"] EXCEPT !.done = c.done \cup {c.at}] EXCEPT !.at = NoLine]
    OBVIOUS
  <2>2. /\ c.pc = "post" /\ call' = [call EXCEPT ![w] = h]
        /\ UNCHANGED <<held, handedBack, ask, overlaps>>
    BY <1>1, <1>6, <2>1 DEF PostLine, GoTo, stock
  <2>3. Busy(w) /\ HandlerOK(c) /\ Fits(c) /\ c.op = "bin"
    BY <1>1, <1>2, <2>2 DEF HandlerOK, Busy, Idle
  <2>4. /\ h.op = "bin" /\ h.ask = c.ask /\ h.todo = c.todo /\ h.pc = "look"
        /\ h.done = c.done \cup {c.at}
    BY <2>1, <2>3 DEF HandlerOK
  <2>5. Fits(h)
    BY <2>2, <2>3, <2>4 DEF Fits, FitsSection, FitsRelease, FitsQuarantine, FitsDelivery
  <2> QED BY <2>2, <2>5, GoShelves
<1>7. CASE Drop(w)
  BY <1>7, GoShelves DEF Drop, Finish, GoTo, stock
<1> QED BY <1>4, <1>5, <1>6, <1>7

\* Both legs of a hand-back.
BothLegs(shelves, s, i, q) == [shelves EXCEPT ![s][i] = @ - q, ![Quarantine][i] = @ + q]

LEMMA HandedBack ==
    ASSUME TablesOK, NEW s \in Section, NEW i \in Item, NEW q \in Nat, held' = BothLegs(held, s, i, q)
    PROVE  \A p \in Place, j \in Item :
                held'[p][j] = IF j = i /\ p = s THEN held[p][j] - q
                              ELSE IF j = i /\ p = Quarantine THEN held[p][j] + q
                              ELSE held[p][j]
<1>1. s \in Place /\ Quarantine \in Place /\ s # Quarantine
  BY ReturnsAssumption DEF Place
<1>2. PICK mid : mid = [held EXCEPT ![s][i] = held[s][i] - q]
  OBVIOUS
<1>3. held' = [mid EXCEPT ![Quarantine][i] = held[Quarantine][i] + q]
  BY <1>2 DEF BothLegs
<1>4. DOMAIN held = Place /\ DOMAIN mid = Place
  BY <1>2 DEF TablesOK
<1>5. \A p \in Place : DOMAIN held[p] = Item
  BY DEF TablesOK
<1>6. \A p \in Place, j \in Item : mid[p][j] = IF p = s /\ j = i THEN held[p][j] - q ELSE held[p][j]
  BY <1>1, <1>2, <1>4, <1>5
<1>7. \A p \in Place : DOMAIN mid[p] = Item
  BY <1>1, <1>2, <1>4, <1>5
<1>8. \A p \in Place, j \in Item :
         held'[p][j] = IF p = Quarantine /\ j = i THEN held[p][j] + q ELSE mid[p][j]
  BY <1>1, <1>3, <1>4, <1>7
<1> QED BY <1>1, <1>6, <1>8

LEMMA HandsBackShelves ==
    ASSUME ShelvesInvariant, TablesOK', LinesStay, Alone', NEW w \in Worker, CommitReturn(w)
    PROVE  ShelvesInvariant'
<1>1. PICK c : c = call[w]
  OBVIOUS
<1>2. /\ c.pc = "commit" /\ c.op = "return" /\ call' = [call EXCEPT ![w] = Idle]
      /\ held' = [held EXCEPT ![c.section][c.item] = @ - c.qty, ![Quarantine][c.item] = @ + c.qty]
      /\ handedBack' = [r \in Release |->
                          IF r = c.release THEN [handedBack[r] EXCEPT ![c.item] = @ + c.qty]
                          ELSE handedBack[r]]
      /\ UNCHANGED <<ask, overlaps>>
  BY <1>1 DEF CommitReturn, Finish, GoTo
<1>3. Busy(w) /\ HandlerOK(c) /\ Fits(c)
  BY <1>1, <1>2 DEF ShelvesInvariant, TablesOK, Busy, Idle
<1>4. PICK s \in Section, i \in Item, q \in Nat : s = c.section /\ i = c.item /\ q = c.qty
  BY <1>2, <1>3 DEF HandlerOK
<1>5. \A p \in Place, j \in Item :
        held'[p][j] = IF j = i /\ p = s THEN held[p][j] - q
                      ELSE IF j = i /\ p = Quarantine THEN held[p][j] + q
                      ELSE held[p][j]
  <2>1. held' = BothLegs(held, s, i, q) /\ TablesOK
    BY <1>2, <1>4 DEF ShelvesInvariant, BothLegs
  <2> QED BY <2>1, HandedBack
<1>6. \A r \in Release, j \in Item :
        handedBack'[r][j] = IF r = c.release /\ j = i THEN handedBack[r][j] + q ELSE handedBack[r][j]
  BY <1>2, <1>4 DEF ShelvesInvariant, TablesOK
<1>7. /\ \A g : PacksReturnable(g)' = PacksReturnable(g)
      /\ NoneTwice' <=> NoneTwice
      /\ \A a \in Ask : ask'[a].status = "none" => DOMAIN ask'[a].lines = {}
  BY <1>2, AllStay
<1>8. /\ call'[w] = Idle /\ \A v \in Worker \ {w} : call'[v] = call[v]
      /\ \A p \in Place, j \in Item : held[p][j] \in Int
      /\ s \in Place /\ Quarantine \in Place /\ s # Quarantine
  BY SMTT(30), <1>2, ReturnsAssumption DEF ShelvesInvariant, TablesOK, Place
<1>9. ASSUME NEW v \in Worker, Busy(v)' PROVE Fits(call[v])'
  <2>1. PICK h : h = call[v]
    OBVIOUS
  <2>2. v # w /\ Busy(v) /\ HandlerOK(h) /\ Fits(h) /\ call'[v] = h
    BY <1>8, <1>9, <2>1 DEF ShelvesInvariant, TablesOK, Busy
  <2>3. h.uses \cap c.uses \subseteq overlaps
    BY <1>1, <1>3, <2>1, <2>2 DEF ShelvesInvariant, Alone
  <2>4. h.op = "return" /\ h.section \notin overlaps' =>
          \A j \in Item : held'[h.section][j] >= held[h.section][j]
    <3> SUFFICES ASSUME h.op = "return", h.section \notin overlaps, NEW j \in Item
                 PROVE  held'[h.section][j] >= held[h.section][j]
      BY <1>2
    <3>1. h.section \in Place /\ h.section \in h.uses /\ c.section \in c.uses
      BY <1>2, <1>3, <2>2 DEF HandlerOK, Place
    <3>2. h.section # s
      BY <1>4, <2>3, <3>1
    <3> QED BY <1>5, <1>8, <3>1, <3>2
  <2>5. h.op = "return" /\ h.release \in Release \ overlaps' =>
          handedBack'[h.release] = handedBack[h.release]
    <3> SUFFICES ASSUME h.op = "return", h.release \in Release, h.release \notin overlaps
                 PROVE  handedBack'[h.release] = handedBack[h.release]
      BY <1>2
    <3>1. h.release # NoRelease /\ h.release \in h.uses
      BY <2>2, ReturnsAssumption DEF HandlerOK
    <3>2. h.release # c.release
      BY <1>2, <1>3, <2>3, <3>1 DEF HandlerOK
    <3> QED BY <1>2, <3>2
  <2>6. \A j \in Item : held'[Quarantine][j] >= held[Quarantine][j]
    BY <1>5, <1>8
  <2>7. Fits(h)'
    BY <1>2, <1>7, <2>2, <2>4, <2>5, <2>6, FitsOn
  <2> QED BY <2>2, <2>7
<1>10. ASSUME NEW p \in Place \ overlaps PROVE ShelfHolds(p)'
  <2>1. ShelfHolds(p)
    BY OverdrawnParts DEF ShelvesInvariant
  <2>2. CASE p = s
    <3>1. q <= held[s][i]
      BY <1>2, <1>3, <1>4, <2>2 DEF Fits, FitsSection
    <3>2. \A j \in Item : held[s][j] >= 0
      BY <1>8, <2>1, <2>2 DEF ShelfHolds
    <3> QED BY <1>5, <1>8, <2>2, <3>1, <3>2 DEF ShelfHolds
  <2>3. CASE p # s
    BY <1>5, <1>7, <1>8, <2>1, <2>3 DEF ShelfHolds
  <2> QED BY <2>2, <2>3
<1>11. ASSUME NEW r \in Release \ overlaps PROVE ReleaseHolds(r)'
  <2>1. ReleaseHolds(r)
    BY OverdrawnParts DEF ShelvesInvariant
  <2>2. r = c.release => handedBack[r][i] + q <= ReleaseOf[r].issued[i]
    BY <1>2, <1>3, <1>4 DEF Fits, FitsRelease
  <2> QED BY <1>6, <2>1, <2>2 DEF ReleaseHolds
<1>12. ASSUME NEW g \in DOMAIN Delivery \ overlaps PROVE DeliveryHolds(g)'
  <2>1. DeliveryHolds(g)
    BY OverdrawnParts DEF ShelvesInvariant
  <2> QED BY <1>7, <2>1 DEF DeliveryHolds
<1>13. NothingOverdrawn'
  <2>1. (/\ \A p \in Place \ overlaps : ShelfHolds(p)
         /\ \A r \in Release \ overlaps : ReleaseHolds(r)
         /\ \A g \in DOMAIN Delivery \ overlaps : DeliveryHolds(g))'
    BY <1>2, <1>10, <1>11, <1>12
  <2> QED BY <2>1 DEF NothingOverdrawn, ShelfHolds, ReleaseHolds, DeliveryHolds, NoneTwice
<1> QED BY <1>7, <1>9, <1>13 DEF ShelvesInvariant

\* A delivery line the new ask does not name is claimed as before.
LEMMA OthersClaim ==
    ASSUME NEW a \in Ask, NEW new, NEW g, DOMAIN ask[a].lines = {}, ask'[a] = new,
           \A b \in Ask \ {a} : ask'[b] = ask[b],
           \A n \in DOMAIN new.lines : new.lines[n].line # g
    PROVE  PacksReturned(g)' = PacksReturned(g)
<1>1. \A x : x \in AskLines' <=> \E b \in Ask : \E n \in DOMAIN ask'[b].lines : x = <<b, n>>
  <2> SUFFICES ASSUME NEW x
               PROVE  x \in AskLines' <=> \E b \in Ask : \E n \in DOMAIN ask'[b].lines : x = <<b, n>>
    OBVIOUS
  <2>1. x \in AskLines' <=> \E b \in Ask : x \in {b} \X DOMAIN ask'[b].lines
    BY DEF AskLines
  <2>2. \A b \in Ask : x \in {b} \X DOMAIN ask'[b].lines <=> \E n \in DOMAIN ask'[b].lines : x = <<b, n>>
    OBVIOUS
  <2> QED BY <2>1, <2>2
<1> DEFINE S == {x \in AskLines : LineOf(x).line = g}
<1>2. \A x : x \in S' <=> \E b \in Ask : \E n \in DOMAIN ask'[b].lines :
                             x = <<b, n>> /\ ask'[b].lines[n].line = g
  BY <1>1 DEF LineOf
<1>3. \A x : x \in S <=> \E b \in Ask : \E n \in DOMAIN ask[b].lines :
                            x = <<b, n>> /\ ask[b].lines[n].line = g
  BY AskLine DEF LineOf
<1>4. S' = S
  <2>1. \A x : x \in S' <=> x \in S
    BY <1>2, <1>3
  <2> QED BY <2>1
<1>5. \A x \in S : LineOf(x)'.packs = LineOf(x).packs
  BY <1>3 DEF LineOf
<1> QED BY <1>4, <1>5 DEF PacksReturned

\* What a departing document takes is what the handler saw of it.
LEMMA DepartsHolding ==
    ASSUME ShelvesInvariant, NEW c, HandlerOK(c), Fits(c), c.op \in {"bin", "send"}, c.done = c.todo,
           Quarantine \notin overlaps, NoneTwice, NEW i \in Item, held[Quarantine][i] >= 0
    PROVE  held[Quarantine][i] - Taken(c, i) >= 0
<1>1. c.ask \in Ask /\ ask[c.ask] \in AskRow /\ c.todo \subseteq DOMAIN ask[c.ask].lines
  BY DEF HandlerOK, ShelvesInvariant, TablesOK
<1>2. PICK has \in Int : has = held[Quarantine][i]
  BY DEF ShelvesInvariant, TablesOK, Place
<1>3. \A n \in c.todo : ItemOf(ask[c.ask].lines[n]) = i => Qty(ask[c.ask].lines[n]) <= has
  BY <1>2 DEF Fits, FitsQuarantine
<1>4. \A m, n \in c.todo :
        (ItemOf(ask[c.ask].lines[m]) = i /\ ItemOf(ask[c.ask].lines[n]) = i) => m = n
  BY <1>1 DEF NoneTwice, NamesTwice
<1>5. Taken(c, i) = 0 \/ Taken(c, i) <= has
  BY <1>1, <1>3, <1>4, TakenFits
<1>6. Taken(c, i) \in Nat
  BY <1>1, TakenNat
<1> QED BY <1>2, <1>5, <1>6

LEMMA WriterShelves ==
    ASSUME ShelvesInvariant, TablesOK', LinesStay, Alone', NEW w \in Worker, NEW new, Writes(w, new)
    PROVE  ShelvesInvariant'
<1>1. PICK c : c = call[w]
  OBVIOUS
<1>2. /\ Busy(w) /\ HandlerOK(c) /\ Fits(c) /\ c.ask \in Ask
      /\ c.op \in {"raise", "decide", "bin", "send", "settle"}
      /\ new \in AskRow /\ new.status # "none"
      /\ ask' = [ask EXCEPT ![c.ask] = new] /\ call' = [call EXCEPT ![w] = Idle]
      /\ UNCHANGED <<handedBack, overlaps>>
  BY <1>1 DEF Writes, HandlerOK, ShelvesInvariant
<1>3. /\ call'[w] = Idle /\ \A v \in Worker \ {w} : call'[v] = call[v]
      /\ ask'[c.ask] = new /\ \A b \in Ask \ {c.ask} : ask'[b] = ask[b]
  BY <1>2 DEF ShelvesInvariant, TablesOK
<1>4. \A a \in Ask : ask'[a].status = "none" => DOMAIN ask'[a].lines = {}
  BY <1>2, <1>3 DEF ShelvesInvariant
<1>5. c.op # "raise" =>
        /\ \A g : PacksReturnable(g)' = PacksReturnable(g)
        /\ NoneTwice' <=> NoneTwice
  <2>1. c.op # "raise" => ask[c.ask].status # "none"
    BY <1>2 DEF HandlerOK
  <2> QED BY <1>3, <2>1, AllStay
<1>6. c.op = "raise" =>
        /\ NoneTwice' => \A g \in DOMAIN Delivery :
              \/ PacksReturnable(g)' = PacksReturnable(g)
              \/ \E n \in DOMAIN c.body : /\ c.body[n].line = g
                                         /\ PacksReturnable(g)' = PacksReturnable(g) - c.body[n].packs
        /\ \A g : g \notin c.uses => PacksReturned(g)' = PacksReturned(g)
  <2> SUFFICES ASSUME c.op = "raise"
               PROVE  /\ NoneTwice' => \A g \in DOMAIN Delivery :
                            \/ PacksReturnable(g)' = PacksReturnable(g)
                            \/ \E n \in DOMAIN c.body :
                                 /\ c.body[n].line = g
                                 /\ PacksReturnable(g)' = PacksReturnable(g) - c.body[n].packs
                      /\ \A g : g \notin c.uses => PacksReturned(g)' = PacksReturned(g)
    OBVIOUS
  <2>1. /\ DOMAIN ask[c.ask].lines = {} /\ DOMAIN new.lines = DOMAIN c.body
        /\ \A n \in DOMAIN c.body : /\ new.lines[n].line = c.body[n].line
                                   /\ new.lines[n].packs = c.body[n].packs
                                   /\ c.body[n].line \in c.uses
    BY <1>1, <1>2 DEF Writes, HandlerOK, ShelvesInvariant
  <2>2. TablesOK
    BY DEF ShelvesInvariant
  <2>3. ASSUME NoneTwice', NEW g \in DOMAIN Delivery
        PROVE  \/ PacksReturnable(g)' = PacksReturnable(g)
               \/ \E n \in DOMAIN c.body :
                    /\ c.body[n].line = g
                    /\ PacksReturnable(g)' = PacksReturnable(g) - c.body[n].packs
    <3>0. PICK a \in Ask : a = c.ask
      BY <1>2
    <3>1. /\ ~NamesTwice(a)' /\ ask' = [ask EXCEPT ![a] = new] /\ DOMAIN ask[a].lines = {}
      BY <1>2, <2>1, <2>3, <3>0 DEF NoneTwice
    <3>2. \/ PacksReturned(g)' = PacksReturned(g)
          \/ \E n \in DOMAIN new.lines :
                 /\ new.lines[n].line = g
                 /\ PacksReturned(g)' = PacksReturned(g) + new.lines[n].packs
      BY ZenonT(30), <2>2, <3>1, ClaimsRaised
    <3>3. /\ Delivery[g].packs \in Nat /\ PacksReturned(g) \in Nat
          /\ \A n \in DOMAIN new.lines : new.lines[n].packs \in Nat
      BY <1>2, <2>2, DeliveryTyped, PacksTyped, LineTyped
    <3> QED BY <2>1, <3>2, <3>3 DEF PacksReturnable
  <2>4. ASSUME NEW g, g \notin c.uses PROVE PacksReturned(g)' = PacksReturned(g)
    BY <1>2, <1>3, <2>1, <2>4, OthersClaim
  <2> QED BY <2>3, <2>4
<1>7. NoneTwice' => NoneTwice
  BY NoneTwiceBefore
<1>8. c.op \in {"raise", "decide", "settle"} => held' = held
  BY <1>1 DEF Writes
<1>9. c.op \in {"bin", "send"} =>
        /\ Quarantine \in c.uses /\ c.done = c.todo
        /\ \A p \in Section : held'[p] = held[p]
        /\ \A i \in Item : held'[Quarantine][i] = held[Quarantine][i] - Taken(c, i)
  <2> SUFFICES ASSUME c.op \in {"bin", "send"}
               PROVE  /\ Quarantine \in c.uses /\ c.done = c.todo
                      /\ \A p \in Section : held'[p] = held[p]
                      /\ \A i \in Item : held'[Quarantine][i] = held[Quarantine][i] - Taken(c, i)
    OBVIOUS
  <2>1. PICK doc : Depart(c, doc)
    BY <1>1 DEF Writes
  <2>2. c.done = c.todo
    BY <1>1 DEF Writes
  <2>3. Quarantine \in c.uses /\ c.todo \subseteq DOMAIN ask[c.ask].lines /\ TablesOK
    BY <1>2 DEF HandlerOK, ShelvesInvariant
  <2> QED BY <1>2, <2>1, <2>2, <2>3, DepartTables
<1>10. /\ \A p \in Place, i \in Item : held[p][i] \in Int
       /\ Quarantine \in Place /\ \A p \in Place : p = Quarantine \/ p \in Section
  BY DEF ShelvesInvariant, TablesOK, Place
<1>11. ASSUME NEW v \in Worker, Busy(v)' PROVE Fits(call[v])'
  <2>1. PICK h : h = call[v]
    OBVIOUS
  <2>2. v # w /\ Busy(v) /\ HandlerOK(h) /\ Fits(h) /\ call'[v] = h
    BY <1>3, <1>11, <2>1 DEF ShelvesInvariant, TablesOK, Busy
  <2>3. h.uses \cap c.uses \subseteq overlaps
    BY <1>1, <1>2, <2>1, <2>2 DEF ShelvesInvariant, Alone
  <2>4. h.op = "return" /\ h.section \notin overlaps' =>
          \A j \in Item : held'[h.section][j] >= held[h.section][j]
    <3> SUFFICES ASSUME h.op = "return", NEW j \in Item
                 PROVE  held'[h.section][j] >= held[h.section][j]
      OBVIOUS
    <3>1. h.section \in Section /\ h.section \in Place
      BY <2>2 DEF HandlerOK, Place
    <3>2. held'[h.section] = held[h.section]
      BY <1>2, <1>8, <1>9, <3>1
    <3> QED BY <1>10, <3>1, <3>2
  <2>5. h.op \in {"bin", "send"} /\ Quarantine \notin overlaps' =>
          \A j \in Item : held'[Quarantine][j] >= held[Quarantine][j]
    BY <1>2, <1>8, <1>9, <1>10, <2>2, <2>3 DEF HandlerOK
  <2>6. h.op = "raise" =>
          \A g \in h.uses \ overlaps' : PacksReturnable(g)' = PacksReturnable(g)
    BY <1>2, <1>5, <1>6, <2>3 DEF PacksReturnable
  <2>7. Fits(h)'
    BY <1>2, <2>2, <2>4, <2>5, <2>6, FitsOn
  <2> QED BY <2>2, <2>7
<1>12. ASSUME NEW p \in Place \ overlaps PROVE ShelfHolds(p)'
  <2>1. ShelfHolds(p)
    BY OverdrawnParts DEF ShelvesInvariant
  <2>2. CASE c.op \in {"bin", "send"} /\ p = Quarantine
    <3> SUFFICES ASSUME NEW i \in Item, NoneTwice' PROVE held'[Quarantine][i] >= 0
      BY <2>2 DEF ShelfHolds
    <3>1. NoneTwice /\ held[Quarantine][i] >= 0
      BY <1>7, <2>1, <2>2 DEF ShelfHolds
    <3>2. held[Quarantine][i] - Taken(c, i) >= 0
      BY <1>2, <1>9, <2>2, <3>1, DepartsHolding
    <3> QED BY <1>9, <2>2, <3>2
  <2>3. CASE ~(c.op \in {"bin", "send"} /\ p = Quarantine)
    <3>1. held'[p] = held[p]
      BY <1>2, <1>8, <1>9, <1>10, <2>3
    <3> QED BY <1>7, <2>1, <3>1 DEF ShelfHolds
  <2> QED BY <2>2, <2>3
<1>13. ASSUME NEW g \in DOMAIN Delivery \ overlaps PROVE DeliveryHolds(g)'
  <2>1. DeliveryHolds(g)
    BY OverdrawnParts DEF ShelvesInvariant
  <2>2. CASE c.op # "raise"
    BY <1>5, <2>1, <2>2 DEF DeliveryHolds
  <2>3. CASE c.op = "raise"
    <3> SUFFICES ASSUME NoneTwice' PROVE PacksReturnable(g)' >= 0
      BY DEF DeliveryHolds
    <3>1. PacksReturnable(g) >= 0 /\ PacksReturnable(g) \in Int
      BY <1>7, <2>1, DeliveryTyped DEF DeliveryHolds, ShelvesInvariant
    <3>2. CASE PacksReturnable(g)' = PacksReturnable(g)
      BY <3>1, <3>2
    <3>3. ASSUME NEW n \in DOMAIN c.body, c.body[n].line = g,
                 PacksReturnable(g)' = PacksReturnable(g) - c.body[n].packs
          PROVE  PacksReturnable(g)' >= 0
      <4>1. c.body[n].packs <= PacksReturnable(g)
        BY <1>2, <2>3, <3>3 DEF Fits, FitsDelivery
      <4>2. c.body[n].packs \in Nat
        <5>1. /\ DOMAIN new.lines = DOMAIN c.body
              /\ new.lines[n].packs = c.body[n].packs
          BY <1>1, <2>3 DEF Writes
        <5> QED BY <1>2, <5>1, LineTyped
      <4> QED BY <3>1, <3>3, <4>1, <4>2
    <3> QED BY <1>6, <2>3, <3>2, <3>3
  <2> QED BY <2>2, <2>3
<1>14. NothingOverdrawn'
  <2>1. (/\ \A p \in Place \ overlaps : ShelfHolds(p)
         /\ \A r \in Release \ overlaps : ReleaseHolds(r)
         /\ \A g \in DOMAIN Delivery \ overlaps : DeliveryHolds(g))'
    BY <1>2, <1>12, <1>13, OverdrawnParts DEF ShelvesInvariant, ReleaseHolds
  <2> QED BY <2>1 DEF NothingOverdrawn, ShelfHolds, ReleaseHolds, DeliveryHolds, NoneTwice
<1> QED BY <1>4, <1>11, <1>14 DEF ShelvesInvariant

\* Releases only add to a shelf; another document that takes from one that a handler
\* uses is an overlap.
LEMMA OthersShelves ==
    ASSUME ShelvesInvariant, TablesOK', LinesStay, Alone',
           \/ \E r \in Release : Released(r) \/ Confirmed(r)
           \/ \E p \in Place, i \in Item : Moved(p, i)
           \/ UNCHANGED vars
    PROVE  ShelvesInvariant'
<1>1. UNCHANGED <<handedBack, ask, call>> /\ overlaps \subseteq overlaps'
  BY DEF Released, Confirmed, Moved, vars
<1>2. /\ \A g : PacksReturnable(g)' = PacksReturnable(g)
      /\ NoneTwice' <=> NoneTwice
      /\ \A a \in Ask : ask'[a].status = "none" => DOMAIN ask'[a].lines = {}
  BY <1>1, AllStay
<1>3. \A p \in Place, i \in Item : held[p][i] \in Int
  BY DEF ShelvesInvariant, TablesOK
<1>4. /\ \A p \in Place, i \in Item : held[p][i] >= 0 => held'[p][i] >= 0
      /\ \A p \in Place : \/ \A i \in Item : held'[p][i] >= held[p][i]
                         \/ \A w \in Worker : Busy(w) => p \notin call[w].uses
                         \/ p \in overlaps'
  <2>1. ASSUME NEW r \in Release, Released(r) PROVE \A p \in Place, i \in Item : held'[p][i] >= held[p][i]
    <3>1. PICK s : s = ReleaseOf[r].section
      OBVIOUS
    <3>2. s \in Place /\ \A i \in Item : ReleaseOf[r].issued[i] \in Nat
      BY <3>1, ReturnsAssumption DEF Place
    <3>3. PICK q : q = [i \in Item |-> held[s][i] + ReleaseOf[r].issued[i]]
      OBVIOUS
    <3>4. held' = [held EXCEPT ![s] = q]
      BY <2>1, <3>1, <3>3 DEF Released
    <3>5. \A i \in Item : q[i] >= held[s][i]
      BY <1>3, <3>2, <3>3
    <3>6. DOMAIN held = Place
      BY DEF ShelvesInvariant, TablesOK
    <3> QED BY <1>3, <3>4, <3>5, <3>6
  <2>2. CASE held' = held
    BY <1>3, <2>2
  <2>3. ASSUME NEW p \in Place, NEW i \in Item, Moved(p, i)
        PROVE  /\ \A x \in Place, j \in Item : held[x][j] >= 0 => held'[x][j] >= 0
               /\ \A x \in Place : \/ \A j \in Item : held'[x][j] >= held[x][j]
                                  \/ \A w \in Worker : Busy(w) => x \notin call[w].uses
                                  \/ x \in overlaps'
    <3>1. /\ held' = [held EXCEPT ![p][i] = held[p][i] - 1] /\ held[p][i] > 0
          /\ overlaps' = overlaps \cup (IF \E w \in Worker : Busy(w) /\ p \in call[w].uses
                                        THEN {p} ELSE {})
      BY <2>3 DEF Moved, Busy
    <3>2. \A x \in Place, j \in Item : held'[x][j] = IF x = p /\ j = i THEN held[x][j] - 1 ELSE held[x][j]
      BY <3>1 DEF ShelvesInvariant, TablesOK
    <3>3. \A x \in Place, j \in Item : held[x][j] >= 0 => held'[x][j] >= 0
      BY <1>3, <3>1, <3>2
    <3>4. \A x \in Place \ {p} : \A j \in Item : held'[x][j] >= held[x][j]
      BY <1>3, <3>2
    <3>5. (\A w \in Worker : Busy(w) => p \notin call[w].uses) \/ p \in overlaps'
      BY <3>1
    <3> QED BY <3>3, <3>4, <3>5
  <2>4. ASSUME \A p \in Place, i \in Item : held'[p][i] >= held[p][i]
        PROVE  \A p \in Place, i \in Item : held[p][i] >= 0 => held'[p][i] >= 0
    <3>1. \A p \in Place, i \in Item : held'[p][i] \in Int
      BY DEF TablesOK
    <3> QED BY <1>3, <2>4, <3>1
  <2>5. CASE \E r \in Release : Released(r)
    BY <2>1, <2>4, <2>5
  <2>6. CASE (\E r \in Release : Confirmed(r)) \/ UNCHANGED vars
    BY <2>2, <2>6 DEF Confirmed, vars
  <2>7. CASE \E p \in Place, i \in Item : Moved(p, i)
    BY <2>3, <2>7
  <2> QED BY <2>5, <2>6, <2>7
<1>5. ASSUME NEW v \in Worker, Busy(v)' PROVE Fits(call[v])'
  <2>1. PICK h : h = call[v]
    OBVIOUS
  <2>2. Busy(v) /\ HandlerOK(h) /\ Fits(h) /\ call'[v] = h
    BY <1>1, <1>5, <2>1 DEF ShelvesInvariant, TablesOK, Busy
  <2>3. \A p \in Place : p \in h.uses => p \in overlaps' \/ \A i \in Item : held'[p][i] >= held[p][i]
    BY <1>4, <2>1, <2>2
  <2>4. /\ h.op = "return" => h.section \in Place /\ h.section \in h.uses
        /\ h.op \in {"bin", "send"} => Quarantine \in Place /\ Quarantine \in h.uses
    BY <2>2 DEF HandlerOK, Place
  <2>5. h.op = "return" /\ h.section \notin overlaps' =>
          \A i \in Item : held'[h.section][i] >= held[h.section][i]
    BY <2>3, <2>4
  <2>6. h.op \in {"bin", "send"} /\ Quarantine \notin overlaps' =>
          \A i \in Item : held'[Quarantine][i] >= held[Quarantine][i]
    BY <2>3, <2>4
  <2>7. Fits(h)'
    BY <1>1, <1>2, <2>2, <2>5, <2>6, FitsOn
  <2> QED BY <2>2, <2>7
<1>6. NothingOverdrawn'
  <2>1. (/\ \A p \in Place \ overlaps : ShelfHolds(p)
         /\ \A r \in Release \ overlaps : ReleaseHolds(r)
         /\ \A g \in DOMAIN Delivery \ overlaps : DeliveryHolds(g))'
    BY <1>1, <1>2, <1>4, OverdrawnParts DEF ShelvesInvariant, ShelfHolds, ReleaseHolds, DeliveryHolds
  <2> QED BY <2>1 DEF NothingOverdrawn, ShelfHolds, ReleaseHolds, DeliveryHolds, NoneTwice
<1> QED BY <1>2, <1>5, <1>6 DEF ShelvesInvariant

LEMMA ShelvesStep ==
    ASSUME ShelvesInvariant, TablesOK', LinesStay, Alone', [Next]_vars
    PROVE  ShelvesInvariant'
<1>1. TablesOK
  BY DEF ShelvesInvariant
<1> QED BY <1>1, Steps, BeginsShelves, GoesShelves, HandsBackShelves, WriterShelves, OthersShelves, Zenon

LEMMA ShelvesStart ==
    ASSUME Init
    PROVE  ShelvesInvariant
<1>1. TablesOK /\ Alone
  BY TablesStart, LinesStart DEF LinesInvariant
<1>2. \A w \in Worker : ~Busy(w)
  BY DEF Init, Busy
<1>3. \A a \in Ask : DOMAIN ask[a].lines = {}
  BY DEF Init, NoAsk
<1>4. \A p \in Place : ShelfHolds(p)
  BY ReturnsAssumption DEF Init, ShelfHolds
<1>5. \A r \in Release : ReleaseHolds(r)
  <2>1. \A r \in Release, i \in Item : ReleaseOf[r].issued[i] \in Nat
    BY ReturnsAssumption
  <2> QED BY <2>1 DEF Init, ReleaseHolds
<1>6. ASSUME NEW g \in DOMAIN Delivery PROVE DeliveryHolds(g)
  <2>1. \A x : x \notin AskLines
    BY <1>3, AskLine
  <2>2. PacksOf(g) \in [{} -> Int] /\ PacksReturned(g) = SumFunction(PacksOf(g))
    BY <1>1, <2>1, PacksTyped DEF PacksOf, ClaimsOf
  <2>3. PacksReturned(g) = 0
    BY <2>2, SumEmpty
  <2>4. Delivery[g].packs \in Nat
    BY <1>1, DeliveryTyped
  <2> QED BY <2>3, <2>4 DEF DeliveryHolds, PacksReturnable
<1> QED BY <1>1, <1>2, <1>3, <1>4, <1>5, <1>6, OverdrawnParts DEF ShelvesInvariant

LEMMA BothStep ==
    ASSUME ShelvesInvariant, LinesInvariant, [Next]_vars
    PROVE  ShelvesInvariant' /\ LinesInvariant'
<1>1. LinesInvariant'
  BY LinesStep
<1>2. TablesOK' /\ LinesStay
  BY TablesStep DEF ShelvesInvariant
<1>3. Alone'
  BY <1>1 DEF LinesInvariant
<1> QED BY <1>1, <1>2, <1>3, ShelvesStep

\* No shelf, no release and no delivery is overdrawn but by handlers, or another
\* document, that use it at the same time, or by an ask that names an item twice
\* (returnToStore, raiseSupplierReturn, binDecidedLines, sendSupplierReturn).
THEOREM NothingIsOverdrawn == Spec => []NothingOverdrawn
<1>1. Init => ShelvesInvariant /\ LinesInvariant
  BY ShelvesStart, LinesStart
<1>2. ShelvesInvariant /\ LinesInvariant /\ [Next]_vars => ShelvesInvariant' /\ LinesInvariant'
  BY BothStep
<1>3. ShelvesInvariant => NothingOverdrawn
  BY DEF ShelvesInvariant
<1> QED BY <1>1, <1>2, <1>3, PTL DEF Spec

-----------------------------------------------------------------------------
(* What the screens of quarantine say. *)

LEMMA ClaimedNat ==
    ASSUME TablesOK, NEW S \in SUBSET AskLines
    PROVE  QtyOver(S) \in Nat
<1>1. IsFiniteSet(S)
  BY AskLinesFinite, FS_Subset
<1> DEFINE f == [al \in S |-> Qty(LineOf(al))]
<1>2. f \in [S -> Nat]
  BY AskLinesFinite
<1> HIDE DEF f
<1>3. SumFunction(f) \in Nat
  BY <1>1, <1>2, SumNat
<1> QED BY <1>3 DEF QtyOver, f

\* The latest of some delivery lines is one of them.
LEMMA LatestIsOne ==
    ASSUME NEW C \in SUBSET DOMAIN Delivery, C # {}
    PROVE  Max(C) \in C
<1>1. PICK k \in Nat : DOMAIN Delivery = 1 .. k
  <2>1. PICK Part : Part = [grn : Nat, item : Item, packs : Nat, size : Nat \ {0}]
    OBVIOUS
  <2>2. Delivery \in Seq(Part)
    BY <2>1, ReturnsAssumption
  <2> QED BY <2>2
<1> DEFINE D == {k - g : g \in C}
<1>2. D \in SUBSET Nat /\ D # {}
  BY <1>1
<1>3. PICK d \in D : \A e \in D : d <= e
  <2> HIDE DEF D
  <2> QED BY <1>2, Smallest
<1>4. PICK g \in C : d = k - g
  BY <1>3
<1>5. \A h \in C : g >= h
  <2> SUFFICES ASSUME NEW h \in C PROVE g >= h
    OBVIOUS
  <2>1. k - h \in D
    OBVIOUS
  <2>2. k - g <= k - h
    BY <1>3, <1>4, <2>1
  <2> QED BY <1>1, <2>2
<1> QED BY <1>5 DEF Max

\* Whole packs of what is free are no more than is free.
LEMMA SuggestedFits ==
    ASSUME TablesOK, NEW i \in Item
    PROVE  /\ Claimed(i) \in Nat /\ held[Quarantine][i] \in Int
           /\ Suggested(i) = 0 \/ Suggested(i) <= held[Quarantine][i] - Claimed(i)
           /\ Suggested(i) > 0 => held[Quarantine][i] - Claimed(i) > 0
           /\ Suggested(i) \in Int
<1>1. Claimed(i) \in Nat
  BY ClaimedNat DEF Claimed
<1>2. held[Quarantine][i] \in Int
  BY DEF TablesOK, Place
<1>3. PICK free \in Int : free = held[Quarantine][i] - Claimed(i)
  BY <1>1, <1>2
<1>4. PICK C \in SUBSET DOMAIN Delivery :
         C = {g \in DOMAIN Delivery : Delivery[g].item = i /\ PacksReturnable(g) > 0}
  OBVIOUS
<1>5. Suggested(i) = IF free <= 0 \/ C = {} THEN 0
                     ELSE Min({free \div Delivery[Max(C)].size, PacksReturnable(Max(C))})
                            * Delivery[Max(C)].size
  BY <1>3, <1>4 DEF Suggested
<1>6. CASE free <= 0 \/ C = {}
  BY <1>1, <1>2, <1>5, <1>6
<1>7. CASE free > 0 /\ C # {}
  <2>1. PICK latest \in DOMAIN Delivery : latest = Max(C)
    BY <1>7, LatestIsOne
  <2>2. PICK size \in Nat, packs \in Int :
           size = Delivery[latest].size /\ size # 0 /\ packs = PacksReturnable(latest)
    BY DeliveryTyped
  <2>3. PICK whole \in Nat : whole = free \div size
    BY <1>7, <2>2
  <2>4. whole * size <= free
    BY <1>7, <2>2, <2>3
  <2>5. PICK n \in Int : n = Min({whole, packs}) /\ n <= whole
    BY MinOfTwo
  <2>6. n * size <= whole * size
    BY <2>2, <2>5
  <2>7. n * size \in Int /\ whole * size \in Int
    BY <2>2
  <2>8. Suggested(i) = n * size
    BY <1>5, <1>7, <2>1, <2>2, <2>3, <2>5
  <2> QED BY <1>1, <1>2, <1>3, <1>7, <2>4, <2>6, <2>7, <2>8
<1> QED BY <1>3, <1>6, <1>7

LEMMA ScreensDoAgree ==
    ASSUME TablesOK
    PROVE  ScreensAgree
<1> SUFFICES ASSUME NEW i \in Item
             PROVE  /\ held[Quarantine][i] >= 0 => QtyOnOpenAsk(i) + QtyFree(i) = held[Quarantine][i]
                    /\ Suggested(i) <= QtyFree(i)
  BY DEF ScreensAgree
<1>1. PICK claimed \in Nat, has \in Int : claimed = Claimed(i) /\ has = held[Quarantine][i]
  BY SuggestedFits
<1>2. QtyFree(i) = IF 0 >= has - claimed THEN 0 ELSE has - claimed
  <2>1. has - claimed \in Int /\ QtyFree(i) = Max({0, has - claimed})
    BY <1>1 DEF QtyFree
  <2> QED BY <2>1, MaxOfTwo
<1>3. QtyOnOpenAsk(i) = IF 0 >= (IF claimed <= has THEN claimed ELSE has) THEN 0
                        ELSE IF claimed <= has THEN claimed ELSE has
  <2>1. PICK m \in Int : m = Min({claimed, has}) /\ m = IF claimed <= has THEN claimed ELSE has
    BY MinOfTwo
  <2>2. QtyOnOpenAsk(i) = Max({0, m})
    BY <1>1, <2>1 DEF QtyOnOpenAsk
  <2> QED BY <2>1, <2>2, MaxOfTwo
<1> QED BY <1>1, <1>2, <1>3, SuggestedFits

\* The lines that still have to leave are those the open asks claim.
LEMMA WaitingIsClaimed ==
    ASSUME LinesInvariant, ShelvesInvariant, overlaps \cap Ask = {}, NEW i,
           ~ \E a \in Ask : ask[a].status \in {"sent", "settled"}
                         /\ \E n \in DOMAIN ask[a].lines : Departures(a, n) = {}
    PROVE  QtyOver(Waiting(i)) = Claimed(i)
<1>1. ASSUME NEW al \in AskLines
      PROVE  Departures(al[1], al[2]) = {} <=>
                 ask[al[1]].status \in {"raised", "approved"} /\ ~LineOf(al).binned
  <2>1. PICK a \in Ask : \E n \in DOMAIN ask[a].lines : al = <<a, n>>
    BY AskLine
  <2>2. PICK n \in DOMAIN ask[a].lines : al = <<a, n>>
    BY <2>1
  <2>3. PICK st, line, gone :
           st = ask[a].status /\ line = ask[a].lines[n] /\ gone = Departures(a, n)
    OBVIOUS
  <2>4. LineOK(st, line, gone)
    BY <2>3 DEF LinesInvariant, AskOK
  <2>5. st \in AskStatuses /\ st # "none"
    BY <2>3 DEF LinesInvariant, ShelvesInvariant, TablesOK, AskRow
  <2>6. st \in {"sent", "settled"} => gone # {}
    BY <2>3
  <2>7. gone = {} <=> st \in {"raised", "approved"} /\ ~line.binned
    BY <2>4, <2>5, <2>6 DEF LineOK, AskStatuses, Answers
  <2> QED BY <2>2, <2>3, <2>7 DEF LineOf
<1>2. Waiting(i) = {al \in AskLines : /\ ask[al[1]].status \in {"raised", "approved"}
                                     /\ ItemOf(LineOf(al)) = i
                                     /\ ~LineOf(al).binned}
  BY <1>1 DEF Waiting
<1> QED BY <1>2 DEF Claimed

LEMMA SuggestsSafely ==
    ASSUME LinesInvariant, ShelvesInvariant
    PROVE  SuggestsOnlyFreeStock
<1>1. TablesOK
  BY DEF LinesInvariant
<1>2. ScreensAgree
  BY <1>1, ScreensDoAgree
<1>3. ASSUME ~ \E a \in Ask : ask[a].status \in {"sent", "settled"}
                         /\ \E n \in DOMAIN ask[a].lines : Departures(a, n) = {},
             overlaps \cap Ask = {}, NEW i \in Item, Suggested(i) > 0
      PROVE  Suggested(i) + QtyOver(Waiting(i)) <= held[Quarantine][i]
  <2>1. QtyOver(Waiting(i)) = Claimed(i)
    BY <1>3, WaitingIsClaimed
  <2> QED BY <1>1, <1>3, <2>1, SuggestedFits
<1> QED BY <1>2, <1>3 DEF SuggestsOnlyFreeStock

\* The two screens of quarantine agree, and what one suggests is not spoken for
\* (quarantineContents, suggestedSupplierReturns).
THEOREM OnlyFreeStockIsSuggested == Spec => []SuggestsOnlyFreeStock
<1>1. Init => ShelvesInvariant /\ LinesInvariant
  BY ShelvesStart, LinesStart
<1>2. ShelvesInvariant /\ LinesInvariant /\ [Next]_vars => ShelvesInvariant' /\ LinesInvariant'
  BY BothStep
<1>3. ShelvesInvariant /\ LinesInvariant => SuggestsOnlyFreeStock
  BY SuggestsSafely
<1> QED BY <1>1, <1>2, <1>3, PTL DEF Spec
=============================================================================
