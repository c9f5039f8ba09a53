---------------------------- MODULE LedgerProofs ----------------------------
(***************************************************************************)
(* Proofs about Ledger for any set of items, locations, connections and     *)
(* documents and any number of transactions; and, at the end, about Pool,   *)
(* the connections those transactions run on, for any pool and any          *)
(* handlers: the only thing that stops the API is as many transactions      *)
(* waiting for a second connection as there are connections, and with fewer *)
(* handlers of that kind nothing does.                                      *)
(***************************************************************************)
EXTENDS Ledger, Pool, SumsProofs

\* Rounding a quotient never leaves the bound the exact quotient respects: a
\* weighted average of prices up to P, as the column rounds it, is at most P.
LEMMA RoundedDivBound ==
    ASSUME NEW x \in Nat, NEW y \in Nat, y > 0
    PROVE  /\ RoundedDiv(x, y) \in Nat
           /\ \A P \in Nat : x <= y * P => RoundedDiv(x, y) <= P
<1> DEFINE n == 2 * x + y
           m == 2 * y
           q == n \div m
           rest == n % m
<1>1. n \in Nat /\ m \in Nat /\ m > 0
  OBVIOUS
<1>2. n = m * q + rest /\ rest \in 0 .. (m - 1) /\ q \in Int
  <2> HIDE DEF n, m
  <2> QED BY <1>1
<1>3. q >= 0
  <2>1. SUFFICES ASSUME q <= -1 PROVE FALSE
    BY <1>2
  <2>2. m * q <= m * (-1)
    <3> HIDE DEF q, m, n
    <3> QED BY <1>1, <1>2, <2>1
  <2>3. m * (-1) = -m
    BY <1>1
  <2> HIDE DEF q, m, n, rest
  <2> QED BY <1>1, <1>2, <2>2, <2>3
<1>4. ASSUME NEW P \in Nat, x <= y * P PROVE q <= P
  <2>1. SUFFICES ASSUME q >= P + 1 PROVE FALSE
    BY <1>2
  <2>2. m * q >= m * (P + 1)
    <3> HIDE DEF q, m, n
    <3> QED BY <1>1, <1>2, <2>1
  <2>3. m * (P + 1) = 2 * (y * P) + m /\ y * P \in Int
    OBVIOUS
  <2>4. n <= 2 * (y * P) + y
    BY <1>4, <2>3
  <2> HIDE DEF q, n, rest
  <2>5. n >= m * q
    BY <1>1, <1>2
  <2> QED BY <1>1, <1>2, <2>2, <2>3, <2>4, <2>5
<1> QED BY <1>2, <1>3, <1>4 DEF RoundedDiv

\* What a receipt makes of a cost row is a cost row.
LEMMA ReceivedType ==
    ASSUME NEW row \in CostRow, NEW qty \in Int, qty > 0, NEW price \in Nat
    PROVE  Received(row, qty, price) \in CostRow
<1>1. CASE row.qty + qty <= 0 \/ row.qty <= 0
  BY <1>1 DEF Received, CostRow
<1>2. CASE ~(row.qty + qty <= 0 \/ row.qty <= 0)
  <2>1. /\ row.qty \in Nat /\ row.avg \in Nat /\ qty \in Nat
        /\ row.qty + qty \in Nat /\ row.qty + qty > 0
    BY <1>2 DEF CostRow
  <2>2. row.qty * row.avg + qty * price \in Nat
    BY <2>1
  <2>3. RoundedDiv(row.qty * row.avg + qty * price, row.qty + qty) \in Nat
    BY <2>1, <2>2, RoundedDivBound
  <2> QED BY <1>2, <2>1, <2>3 DEF Received, CostRow
<1> QED BY <1>1, <1>2

LEMMA SeenType ==
    ASSUME TypeOK, NEW w \in Worker, NEW k \in CostKey
    PROVE  Seen(w, k) \in CostRow
BY DEF TypeOK, Seen

LEMMA IdleType == Idle \in Transaction
<1>1. (CHOOSE l \in Location : TRUE) \in Location
  BY LedgerAssumption
<1>2. NothingMoved \in [CostKey -> Int]
  BY DEF NothingMoved
<1> QED BY <1>1, <1>2 DEF Idle, Transaction, Phase, DocType

LEMMA LineKeyType ==
    ASSUME TypeOK, NEW w \in Worker, NEW l \in run[w].todo
    PROVE  /\ l \in LedgerLine
           /\ LineKey(w, l) \in CostKey
           /\ run[w] \in Transaction
BY DEF TypeOK, Transaction, LedgerLine, LineKey, CostKey

\* Posting a line keeps every shape, given the new version of the cost row has its own.
LEMMA PostLineType ==
    ASSUME TypeOK, NEW w \in Worker, NEW l \in run[w].todo,
           NEW newRow \in CostRow, NEW c \in Nat, PostLine(w, l, newRow, c)
    PROVE  TypeOK'
<1> DEFINE k == LineKey(w, l)
           new == [tx |-> run[w].tx, id |-> run[w].id, doc |-> run[w].doc,
                   no |-> l.no, location |-> run[w].location,
                   section |-> l.section, item |-> l.item, qty |-> l.qty,
                   unitCost |-> c]
<1>1. l \in LedgerLine /\ k \in CostKey /\ run[w] \in Transaction
  BY LineKeyType
<1>2. new \in LedgerRow
  BY <1>1 DEF LedgerRow, LedgerLine, Transaction
<1>3. run' = [run EXCEPT ![w] =
               [run[w] EXCEPT !.pc = "line", !.todo = run[w].todo \ {l},
                              !.net = [run[w].net EXCEPT ![k] = run[w].net[k] + l.qty],
                              !.rows = run[w].rows \cup {new}]]
  BY ZenonT(30) DEF PostLine, TypeOK
<1>4. [run[w] EXCEPT !.pc = "line", !.todo = run[w].todo \ {l},
                     !.net = [run[w].net EXCEPT ![k] = run[w].net[k] + l.qty],
                     !.rows = run[w].rows \cup {new}] \in Transaction
  <2> HIDE DEF k, new
  <2>1. run[w].net[k] + l.qty \in Int
    BY <1>1 DEF Transaction, LedgerLine
  <2> QED BY <1>1, <1>2, <2>1 DEF Transaction, Phase
<1>5. run' \in [Worker -> Transaction]
  BY <1>3, <1>4 DEF TypeOK
<1>7. \A v \in Worker : Reversing(v)' => \A m \in run'[v].todo : m.unitCost \in Nat
  <2> SUFFICES ASSUME NEW v \in Worker, Reversing(v)', NEW m \in run'[v].todo
               PROVE  m.unitCost \in Nat
    OBVIOUS
  <2>1. Reversing(v) /\ m \in run[v].todo
    <3> HIDE DEF k, new
    <3> QED BY <1>1, <1>3 DEF Reversing, TypeOK, Transaction
  <2> QED BY <2>1 DEF TypeOK
<1>6. dirty' \in [CostKey -> CostRow] /\ lock' \in [CostKey -> Worker \cup {Free}]
  BY <1>1 DEF PostLine, TypeOK
<1> QED BY <1>5, <1>6, <1>7 DEF PostLine, TypeOK

\* The end of a transaction keeps every shape of locks, versions and workers.
LEMMA ReleaseType ==
    ASSUME TypeOK, NEW w \in Worker, NEW version, version \in [CostKey -> CostRow],
           Release(w, version)
    PROVE  /\ lock' \in [CostKey -> Worker \cup {Free}]
           /\ dirty' \in [CostKey -> CostRow]
           /\ run' \in [Worker -> Transaction]
           /\ \A v \in Worker : Reversing(v)' => \A l \in run'[v].todo : l.unitCost \in Nat
           /\ lastTx' \in 0 .. MaxTx
<1>1. \A v \in Worker : Reversing(v)' => \A l \in run'[v].todo : l.unitCost \in Nat
  BY DEF TypeOK, Release, Reversing, Idle
<1> QED BY <1>1, IdleType DEF TypeOK, Release

LEMMA RollbackType ==
    ASSUME TypeOK, NEW w \in Worker, Rollback(w) PROVE TypeOK'
<1>1. cost \in [CostKey -> CostRow]
  BY DEF TypeOK
<1> QED BY <1>1, ReleaseType DEF Rollback, TypeOK

\* Type correctness of the ledger.
THEOREM TypeCorrect == Spec => []TypeOK
<1>1. Init => TypeOK
  <2> SUFFICES ASSUME Init PROVE TypeOK
    OBVIOUS
  <2>1. cost \in [CostKey -> CostRow]
    BY DEF Init, CostRow
  <2>2. 0 \in 0 .. MaxTx
    BY LedgerAssumption
  <2>3. \A w \in Worker : ~Reversing(w)
    BY DEF Init, Reversing, Idle
  <2> QED BY <2>1, <2>2, <2>3, IdleType DEF Init, TypeOK, NothingMoved
<1>2. TypeOK /\ [Next]_vars => TypeOK'
  <2> SUFFICES ASSUME TypeOK, [Next]_vars PROVE TypeOK'
    OBVIOUS
  <2>1. ASSUME NEW w \in Worker, NEW d \in Document, Begin(w, d) PROVE TypeOK'
    <3>1. d \in DocumentType
      BY LedgerAssumption
    <3>2. lastTx + 1 \in Nat /\ lastTx' \in 0 .. MaxTx
      BY <2>1, LedgerAssumption DEF Begin, TypeOK
    <3>3. run'[w] \in Transaction
      BY <2>1, <3>1, <3>2, IdleType DEF Begin, TypeOK, Transaction, DocumentType, Phase, Idle
    <3>4. \A v \in Worker : Reversing(v)' => Reversing(v) /\ run'[v] = run[v]
      BY <2>1 DEF Begin, Reversing, TypeOK, Idle
    <3> QED BY <2>1, <3>2, <3>3, <3>4 DEF Begin, TypeOK
  <2>2. ASSUME NEW w \in Worker, NEW r \in rows, BeginReversal(w, r) PROVE TypeOK'
    <3> DEFINE mirror == {[no |-> o.no, section |-> o.section, item |-> o.item,
                           qty |-> -o.qty, unitCost |-> o.unitCost] : o \in Originals(r.id)}
    <3>1. r \in LedgerRow /\ \A o \in Originals(r.id) : o \in LedgerRow
      BY DEF TypeOK, Originals
    <3>2. mirror \subseteq LedgerLine
      BY <3>1 DEF LedgerRow, LedgerLine
    <3>3. lastTx + 1 \in Nat /\ lastTx' \in 0 .. MaxTx
      BY <2>2, LedgerAssumption DEF BeginReversal, TypeOK
    <3>4. run'[w] = [Idle EXCEPT !.pc = "already", !.tx = lastTx + 1, !.id = r.id,
                                 !.doc = r.doc, !.location = r.location,
                                 !.before = rows, !.todo = mirror]
      BY <2>2 DEF BeginReversal, TypeOK
    <3>5. run'[w] \in Transaction
      <4>1. rows \in SUBSET LedgerRow
        BY DEF TypeOK
      <4>2. r.id \in Nat /\ r.doc \in DocType /\ r.location \in Location
        BY <3>1 DEF LedgerRow
      <4> HIDE DEF mirror
      <4> QED BY ZenonT(30), <3>2, <3>3, <3>4, <4>1, <4>2, IdleType DEF Transaction, Phase, Idle
    <3>6. \A l \in mirror : l.unitCost \in Nat
      BY <3>1 DEF LedgerRow
    <3>7. \A v \in Worker \ {w} : run'[v] = run[v]
      BY <2>2 DEF BeginReversal, TypeOK
    <3>8. run'[w].todo = mirror
      <4> HIDE DEF mirror
      <4> QED BY <3>4 DEF Idle
    <3>9. \A v \in Worker : Reversing(v)' => \A l \in run'[v].todo : l.unitCost \in Nat
      <4> HIDE DEF mirror
      <4> QED BY <3>6, <3>7, <3>8 DEF Reversing, TypeOK
    <3> QED BY <2>2, <3>3, <3>5, <3>9 DEF BeginReversal, TypeOK
  <2>3. ASSUME NEW w \in Worker, CheckAlready(w) PROVE TypeOK'
    <3>1. run' \in [Worker -> Transaction]
      BY ZenonT(30), <2>3 DEF CheckAlready, TypeOK, Transaction, Phase
    <3>2. \A v \in Worker : run'[v].tx = run[v].tx /\ run'[v].id = run[v].id /\ run'[v].todo = run[v].todo
      BY <2>3 DEF CheckAlready, TypeOK, Transaction
    <3> QED BY <2>3, <3>1, <3>2 DEF CheckAlready, TypeOK, Reversing
  <2>4. ASSUME NEW w \in Worker, NEW l \in run[w].todo, ReadAverage(w, l) PROVE TypeOK'
    <3>1. Seen(w, LineKey(w, l)).avg \in Nat
      BY LineKeyType, SeenType DEF CostRow
    <3>2. run' \in [Worker -> Transaction]
      <4> DEFINE avg == Seen(w, LineKey(w, l)).avg
      <4>1. run' = [run EXCEPT ![w].pc = "upsert", ![w].unitCost = avg]
        BY <2>4 DEF ReadAverage
      <4>2. avg \in Nat
        BY <3>1
      <4> HIDE DEF avg
      <4>3. run[w] \in Transaction
        BY DEF TypeOK
      <4>4. [run[w] EXCEPT !.pc = "upsert", !.unitCost = avg] \in Transaction
        BY <4>2, <4>3 DEF Transaction, Phase
      <4>5. run' = [run EXCEPT ![w] = [run[w] EXCEPT !.pc = "upsert", !.unitCost = avg]]
        BY <4>1, Zenon
      <4> HIDE DEF avg
      <4> QED BY <4>4, <4>5 DEF TypeOK
    <3>3. \A v \in Worker : run'[v].tx = run[v].tx /\ run'[v].id = run[v].id /\ run'[v].todo = run[v].todo
      BY <2>4 DEF ReadAverage, TypeOK, Transaction
    <3> QED BY <2>4, <3>2, <3>3 DEF ReadAverage, TypeOK, Reversing
  <2>5. ASSUME NEW w \in Worker, NEW l \in run[w].todo, PostReceiptLine(w, l) PROVE TypeOK'
    <3>1. l.qty \in Int /\ l.qty > 0 /\ l.unitCost \in Nat
      BY <2>5, LineKeyType DEF PostReceiptLine, ReceiptLine, LedgerLine
    <3>2. Received(Seen(w, LineKey(w, l)), l.qty, l.unitCost) \in CostRow
      BY <3>1, LineKeyType, SeenType, ReceivedType
    <3> QED BY <2>5, <3>1, <3>2, PostLineType DEF PostReceiptLine
  <2>6. ASSUME NEW w \in Worker, NEW l \in run[w].todo, PostMovementLine(w, l) PROVE TypeOK'
    <3>1. Adjusted(Seen(w, LineKey(w, l)), l.qty) \in CostRow
      BY LineKeyType, SeenType DEF Adjusted, CostRow, LedgerLine
    <3>2. run[w].unitCost \in Nat
      BY DEF TypeOK, Transaction
    <3> QED BY <2>6, <3>1, <3>2, PostLineType DEF PostMovementLine
  <2>7. ASSUME NEW w \in Worker, NEW l \in run[w].todo, PostReversalLine(w, l) PROVE TypeOK'
    <3>1. Adjusted(Seen(w, LineKey(w, l)), l.qty) \in CostRow
      BY LineKeyType, SeenType DEF Adjusted, CostRow, LedgerLine
    <3>2. l.unitCost \in Nat
      BY <2>7 DEF PostReversalLine, TypeOK
    <3> QED BY <2>7, <3>1, <3>2, PostLineType DEF PostReversalLine
  <2>8. ASSUME NEW w \in Worker, Commit(w) PROVE TypeOK'
    <3>1. run[w] \in Transaction /\ dirty \in [CostKey -> CostRow]
      BY DEF TypeOK
    <3>2. cost' \in [CostKey -> CostRow]
      BY <2>8, SeenType DEF Commit
    <3>3. book' \in [CostKey -> Int] /\ rows' \subseteq LedgerRow
      BY <2>8, <3>1 DEF Commit, TypeOK, Transaction
    <3> QED BY <2>8, <3>1, <3>2, <3>3, ReleaseType DEF Commit, TypeOK
  <2>9. ASSUME NEW w \in Worker, Rollback(w) PROVE TypeOK'
    BY <2>9, RollbackType
  <2>10. CASE UNCHANGED vars
    BY <2>10 DEF vars, TypeOK, Reversing
  <2> QED BY <2>1, <2>2, <2>3, <2>4, <2>5, <2>6, <2>7, <2>8, <2>9, <2>10
          DEF Next, Step, Refuse, AbortVictim, Fail
<1> QED BY <1>1, <1>2, PTL DEF Spec

-----------------------------------------------------------------------------
\* A posted line keeps the row locks exclusive, given the holder's version moves
\* by what the line moves.
LEMMA PostLineLocks ==
    ASSUME TypeOK, RowLocks, NEW w \in Worker, NEW l \in run[w].todo,
           NEW newRow \in CostRow, NEW c \in Nat, PostLine(w, l, newRow, c),
           newRow.qty = Seen(w, LineKey(w, l)).qty + l.qty
    PROVE  RowLocks'
<1> DEFINE k == LineKey(w, l)
<1>1. l.qty \in Int /\ k \in CostKey
  BY LineKeyType DEF LedgerLine
<1>2. /\ lock' = [lock EXCEPT ![k] = w]
      /\ dirty' = [dirty EXCEPT ![k] = newRow]
      /\ cost' = cost
      /\ lock[k] \in {Free, w}
  BY DEF PostLine
<1>3. /\ run'[w].pc = "line"
      /\ run'[w].net = [run[w].net EXCEPT ![k] = run[w].net[k] + l.qty]
      /\ \A v \in Worker \ {w} : run'[v] = run[v]
  BY DEF PostLine, TypeOK, Transaction
<1>4. /\ run[w].net \in [CostKey -> Int] /\ lock \in [CostKey -> Worker \cup {Free}]
      /\ dirty \in [CostKey -> CostRow] /\ cost \in [CostKey -> CostRow]
  BY DEF TypeOK, Transaction
<1>5. ASSUME NEW j \in CostKey, j # k
      PROVE  /\ lock'[j] = lock[j] /\ dirty'[j] = dirty[j] /\ cost'[j] = cost[j]
             /\ \A v \in Worker : run'[v].net[j] = run[v].net[j] /\ (Busy(v) => Busy(v)')
  <2> HIDE DEF k
  <2> QED BY <1>1, <1>2, <1>3, <1>4, <1>5 DEF Busy
<1>6. newRow.qty = cost[k].qty + run'[w].net[k]
  <2>1. Seen(w, k).qty = cost[k].qty + run[w].net[k]
    BY <1>1, <1>2, <1>4 DEF RowLocks, Seen, CostRow
  <2>2. run'[w].net[k] = run[w].net[k] + l.qty
    <3> HIDE DEF k
    <3> QED BY <1>1, <1>3, <1>4
  <2> HIDE DEF k
  <2>3. cost[k].qty \in Int /\ run[w].net[k] \in Int
    BY <1>1, <1>4 DEF CostRow
  <2> QED BY <1>1, <2>1, <2>2, <2>3 DEF k
<1>7. \A v \in Worker \ {w} : run'[v].net[k] = 0
  BY <1>1, <1>2, <1>3, LedgerAssumption DEF RowLocks
<1>8. lock'[k] = w /\ dirty'[k] = newRow /\ w # Free
  <2> HIDE DEF k
  <2> QED BY <1>1, <1>2, <1>4, LedgerAssumption
<1> HIDE DEF k
<1>9. ASSUME NEW j \in CostKey
      PROVE  /\ lock'[j] = Free => dirty'[j] = cost'[j]
             /\ \A v \in Worker :
                 /\ lock'[j] = v => Busy(v)' /\ dirty'[j].qty = cost'[j].qty + run'[v].net[j]
                 /\ lock'[j] # v => run'[v].net[j] = 0
  <2>1. CASE j = k
    BY <2>1, <1>2, <1>3, <1>6, <1>7, <1>8 DEF Busy
  <2>2. CASE j # k
    BY <2>2, <1>5 DEF RowLocks
  <2> QED BY <2>1, <2>2
<1> QED BY <1>9 DEF RowLocks

\* The end of a transaction hands its locks back with the committed versions.
LEMMA RollbackLocks ==
    ASSUME TypeOK, RowLocks, NEW w \in Worker, Rollback(w) PROVE RowLocks'
<1>1. /\ lock' = [k \in CostKey |-> IF lock[k] = w THEN Free ELSE lock[k]]
      /\ dirty' = [k \in CostKey |-> IF lock[k] = w THEN cost[k] ELSE dirty[k]]
      /\ cost' = cost
      /\ run'[w] = Idle /\ \A v \in Worker \ {w} : run'[v] = run[v]
  BY DEF Rollback, Release, TypeOK
<1>2. \A k \in CostKey : Idle.net[k] = 0
  BY DEF Idle, NothingMoved
<1> QED BY <1>1, <1>2, LedgerAssumption DEF RowLocks, Busy

LEMMA CommitLocks ==
    ASSUME TypeOK, RowLocks, CostMatchesBook, NEW w \in Worker, Commit(w)
    PROVE  RowLocks' /\ CostMatchesBook'
<1>1. /\ lock' = [k \in CostKey |-> IF lock[k] = w THEN Free ELSE lock[k]]
      /\ dirty' = [k \in CostKey |-> IF lock[k] = w THEN dirty[k] ELSE dirty[k]]
      /\ cost' = [k \in CostKey |-> IF lock[k] = w THEN dirty[k] ELSE cost[k]]
      /\ book' = [k \in CostKey |-> book[k] + run[w].net[k]]
      /\ run'[w] = Idle /\ \A v \in Worker \ {w} : run'[v] = run[v]
  BY DEF Commit, Release, TypeOK, Seen
<1>2. \A k \in CostKey : Idle.net[k] = 0
  BY DEF Idle, NothingMoved
<1>3. RowLocks'
  BY <1>1, <1>2, LedgerAssumption DEF RowLocks, Busy
<1>4. ASSUME NEW k \in CostKey PROVE cost'[k].qty = book'[k]
  <2>1. cost[k].qty = book[k] /\ book[k] \in Int /\ run[w].net[k] \in Int
    BY DEF CostMatchesBook, TypeOK, Transaction
  <2>2. CASE lock[k] = w
    BY <1>1, <2>1, <2>2 DEF RowLocks
  <2>3. CASE lock[k] # w
    BY <1>1, <2>1, <2>3 DEF RowLocks
  <2> QED BY <2>2, <2>3
<1> QED BY <1>3, <1>4 DEF CostMatchesBook

\* A worker that is not at work starts on a document without any lock.
LEMMA BeginLocks ==
    ASSUME TypeOK, RowLocks, NEW w \in Worker, ~Busy(w),
           \A v \in Worker \ {w} : run'[v] = run[v],
           run'[w].net = NothingMoved, UNCHANGED <<lock, dirty, cost>>
    PROVE  RowLocks'
BY DEF RowLocks, Busy, NothingMoved

\* The row locks keep every document on its own version, and item_cost_state
\* carries the sum of the ledger's rows, in every reachable state.
LEMMA LocksAlways == Spec => [](RowLocks /\ CostMatchesBook)
<1> DEFINE I == RowLocks /\ CostMatchesBook
<1>1. Init => I
  <2> SUFFICES ASSUME Init PROVE I
    OBVIOUS
  <2>1. \A w \in Worker, k \in CostKey : lock[k] = Free /\ run[w].net[k] = 0 /\ lock[k] # w
    BY LedgerAssumption DEF Init, Idle, NothingMoved
  <2>2. \A k \in CostKey : cost[k].qty = 0 /\ book[k] = 0
    BY DEF Init, NothingMoved
  <2> QED BY <2>1, <2>2 DEF Init, RowLocks, CostMatchesBook
<1>2. TypeOK /\ I /\ [Next]_vars => I'
  <2> SUFFICES ASSUME TypeOK, RowLocks, CostMatchesBook, [Next]_vars PROVE I'
    OBVIOUS
  <2>1. ASSUME NEW w \in Worker, NEW d \in Document, Begin(w, d) PROVE I'
    <3>1. run'[w].net = NothingMoved /\ \A v \in Worker \ {w} : run'[v] = run[v]
      BY <2>1 DEF Begin, TypeOK, Idle
    <3> QED BY <2>1, <3>1, BeginLocks DEF Begin, CostMatchesBook
  <2>2. ASSUME NEW w \in Worker, NEW r \in rows, BeginReversal(w, r) PROVE I'
    <3>1. run'[w].net = NothingMoved /\ \A v \in Worker \ {w} : run'[v] = run[v]
      <4>1. PICK todo : run' = [run EXCEPT ![w] =
                [Idle EXCEPT !.pc = "already", !.tx = lastTx + 1, !.id = r.id,
                             !.doc = r.doc, !.location = r.location,
                             !.before = rows, !.todo = todo]]
        BY <2>2 DEF BeginReversal
      <4> QED BY <4>1 DEF TypeOK, Idle
    <3> QED BY <2>2, <3>1, BeginLocks DEF BeginReversal, CostMatchesBook
  <2>3. ASSUME NEW w \in Worker, CheckAlready(w) PROVE I'
    <3>1. \A v \in Worker : run'[v].net = run[v].net /\ (Busy(v) => Busy(v)')
      BY <2>3 DEF CheckAlready, TypeOK, Transaction, Busy
    <3> QED BY <2>3, <3>1 DEF CheckAlready, RowLocks, CostMatchesBook
  <2>4. ASSUME NEW w \in Worker, NEW l \in run[w].todo, ReadAverage(w, l) PROVE I'
    <3>1. \A v \in Worker : run'[v].net = run[v].net /\ (Busy(v) => Busy(v)')
      <4>1. \A v \in Worker : run[v] \in Transaction
        BY DEF TypeOK
      <4>2. run[w].pc = "line" /\ \E c : run' = [run EXCEPT ![w] =
                                              [run[w] EXCEPT !.pc = "upsert", !.unitCost = c]]
        BY <2>4 DEF ReadAverage, TypeOK
      <4> QED BY <4>1, <4>2 DEF TypeOK, Transaction, Busy
    <3>2. UNCHANGED <<cost, book, lock, dirty>>
      BY <2>4 DEF ReadAverage
    <3> QED BY <3>1, <3>2 DEF RowLocks, CostMatchesBook
  <2>5. ASSUME NEW w \in Worker, NEW l \in run[w].todo, PostReceiptLine(w, l) PROVE I'
    <3> DEFINE row == Seen(w, LineKey(w, l))
    <3>1. l.qty \in Int /\ l.qty > 0 /\ l.unitCost \in Nat
      BY <2>5, LineKeyType DEF PostReceiptLine, ReceiptLine, LedgerLine
    <3>2. Received(row, l.qty, l.unitCost) \in CostRow
      BY <3>1, LineKeyType, SeenType, ReceivedType
    <3>3. Received(row, l.qty, l.unitCost).qty = row.qty + l.qty
      BY DEF Received
    <3> QED BY <2>5, <3>1, <3>2, <3>3, PostLineLocks
            DEF PostReceiptLine, PostLine, CostMatchesBook
  <2>6. ASSUME NEW w \in Worker, NEW l \in run[w].todo, PostMovementLine(w, l) PROVE I'
    <3> DEFINE row == Seen(w, LineKey(w, l))
    <3>1. row \in CostRow /\ l.qty \in Int /\ run[w].unitCost \in Nat
      BY LineKeyType, SeenType DEF TypeOK, Transaction, LedgerLine
    <3>2. Adjusted(row, l.qty) \in CostRow /\ Adjusted(row, l.qty).qty = row.qty + l.qty
      BY <3>1 DEF Adjusted, CostRow
    <3> QED BY <2>6, <3>1, <3>2, PostLineLocks
            DEF PostMovementLine, PostLine, CostMatchesBook
  <2>7. ASSUME NEW w \in Worker, NEW l \in run[w].todo, PostReversalLine(w, l) PROVE I'
    <3> DEFINE row == Seen(w, LineKey(w, l))
    <3>1. row \in CostRow /\ l.qty \in Int /\ l.unitCost \in Nat
      BY <2>7, LineKeyType, SeenType DEF PostReversalLine, TypeOK, LedgerLine
    <3>2. Adjusted(row, l.qty) \in CostRow /\ Adjusted(row, l.qty).qty = row.qty + l.qty
      BY <3>1 DEF Adjusted, CostRow
    <3> QED BY <2>7, <3>1, <3>2, PostLineLocks
            DEF PostReversalLine, PostLine, CostMatchesBook
  <2>8. ASSUME NEW w \in Worker, Commit(w) PROVE I'
    BY <2>8, CommitLocks
  <2>9. ASSUME NEW w \in Worker, Rollback(w) PROVE I'
    BY <2>9, RollbackLocks DEF Rollback, CostMatchesBook
  <2>10. CASE UNCHANGED vars
    BY <2>10 DEF vars, RowLocks, CostMatchesBook, Busy
  <2> QED BY <2>1, <2>2, <2>3, <2>4, <2>5, <2>6, <2>7, <2>8, <2>9, <2>10
          DEF Next, Step, Refuse, AbortVictim, Fail
<1> QED BY <1>1, <1>2, TypeCorrect, PTL DEF Spec

\* item_cost_state agrees with the ledger whatever documents run at the same time
\* and wherever they fail.
THEOREM CostAgreesWithLedger == Spec => []CostMatchesBook
BY LocksAlways, PTL

-----------------------------------------------------------------------------
\* Averaging a price in never takes an average above both.
LEMMA ReceivedBound ==
    ASSUME NEW row \in CostRow, NEW qty \in Int, qty > 0, NEW price \in Nat
    PROVE  LET avg == Received(row, qty, price).avg
           IN  avg <= row.avg \/ avg <= price
<1>1. CASE row.qty + qty <= 0 \/ row.qty <= 0
  BY <1>1 DEF Received
<1>2. CASE ~(row.qty + qty <= 0 \/ row.qty <= 0)
  <2>1. PICK a, q, p \in Nat : a = row.avg /\ q = row.qty /\ p = qty
    BY <1>2 DEF CostRow
  <2>2. Received(row, qty, price).avg = RoundedDiv(q * a + p * price, q + p)
    BY <1>2, <2>1 DEF Received
  <2>3. q + p > 0 /\ q + p \in Nat /\ q * a + p * price \in Nat
    BY <1>2, <2>1
  <2>4. CASE a <= price
    <3>1. q * a <= q * price
      BY <2>1, <2>4
    <3>2. (q + p) * price = q * price + p * price
      BY <2>1
    <3>3. q * a + p * price <= (q + p) * price
      <4>1. q * a \in Int /\ q * price \in Int /\ p * price \in Int
        BY <2>1
      <4> QED BY <3>1, <3>2, <4>1
    <3> QED BY <2>2, <2>3, <3>3, RoundedDivBound
  <2>5. CASE price <= a
    <3>1. p * price <= p * a
      BY <2>1, <2>5
    <3>2. (q + p) * a = q * a + p * a
      BY <2>1
    <3>3. q * a + p * price <= (q + p) * a
      <4>1. q * a \in Int /\ p * a \in Int /\ p * price \in Int
        BY <2>1
      <4> QED BY <3>1, <3>2, <4>1
    <3> QED BY SMTT(30), <2>1, <2>2, <2>3, <3>3, RoundedDivBound
  <2> QED BY <2>1, <2>4, <2>5
<1> QED BY <1>1, <1>2

\* Posting a line keeps the pending average tied to the holder's receipts.
LEMMA PostLinePending ==
    ASSUME TypeOK, RowLocks, PendingAverages, NEW w \in Worker, NEW l \in run[w].todo,
           NEW newRow \in CostRow, NEW c \in Nat, PostLine(w, l, newRow, c),
           \/ newRow.avg = Seen(w, LineKey(w, l)).avg
           \/ /\ ReceiptLine(w, l)
              /\ newRow.avg <= Seen(w, LineKey(w, l)).avg \/ newRow.avg <= c
    PROVE  PendingAverages'
<1> DEFINE k == LineKey(w, l)
           new == [tx |-> run[w].tx, id |-> run[w].id, doc |-> run[w].doc,
                   no |-> l.no, location |-> run[w].location,
                   section |-> l.section, item |-> l.item, qty |-> l.qty,
                   unitCost |-> c]
           Paid(r, j) == IsReceipt(r) /\ KeyOf(r) = j
<1>1. k \in CostKey /\ l \in LedgerLine /\ run[w] \in Transaction
  BY LineKeyType
<1>2. /\ lock' = [lock EXCEPT ![k] = w]
      /\ dirty' = [dirty EXCEPT ![k] = newRow]
      /\ cost' = cost /\ lock[k] \in {Free, w}
  BY DEF PostLine
<1>3. /\ run'[w].rows = run[w].rows \cup {new}
      /\ \A v \in Worker \ {w} : run'[v] = run[v]
  BY <1>1 DEF PostLine, TypeOK, Transaction
<1>4. /\ lock \in [CostKey -> Worker \cup {Free}]
      /\ dirty \in [CostKey -> CostRow] /\ cost \in [CostKey -> CostRow]
  BY DEF TypeOK
<1>5. lock'[k] = w /\ dirty'[k] = newRow /\ w # Free
  <2> HIDE DEF k
  <2> QED BY <1>1, <1>2, <1>4, LedgerAssumption
<1>6. ReceiptLine(w, l) => Paid(new, k) /\ new.unitCost = c
  BY DEF ReceiptLine, Reversing, IsReceipt, IsReversal, KeyOf, LineKey
<1>7. IF lock[k] = w THEN Seen(w, k) = dirty[k] ELSE Seen(w, k) = cost[k]
  BY DEF Seen
<1>8. /\ newRow.avg \in Nat /\ cost[k].avg \in Nat /\ Seen(w, k).avg \in Nat
  BY <1>1, <1>4, SeenType DEF CostRow
<1>9. /\ Seen(w, k).avg # cost[k].avg => \E r \in run[w].rows : Paid(r, k)
      /\ Seen(w, k).avg > cost[k].avg =>
            \E r \in run[w].rows : Paid(r, k) /\ Seen(w, k).avg <= r.unitCost
  <2>1. CASE lock[k] = w
    BY <1>1, <1>7, <2>1 DEF PendingAverages
  <2>2. CASE lock[k] # w
    BY <1>7, <1>8, <2>2
  <2> QED BY <2>1, <2>2
<1>10. /\ newRow.avg # cost[k].avg => \E r \in run'[w].rows : Paid(r, k)
       /\ newRow.avg > cost[k].avg =>
             \E r \in run'[w].rows : Paid(r, k) /\ newRow.avg <= r.unitCost
  <2>1. CASE newRow.avg = Seen(w, k).avg
    <3> HIDE DEF k, new, Paid
    <3> QED BY <1>3, <1>9, <2>1
  <2>2. CASE ReceiptLine(w, l) /\ newRow.avg <= c
    <3> HIDE DEF k, new, Paid
    <3> QED BY <1>3, <1>6, <2>2
  <2>3. CASE ReceiptLine(w, l) /\ newRow.avg <= Seen(w, k).avg
    <3>1. newRow.avg # cost[k].avg => \E r \in run'[w].rows : Paid(r, k)
      <4> HIDE DEF k, new, Paid
      <4> QED BY <1>3, <1>6, <2>3
    <3>2. ASSUME newRow.avg > cost[k].avg
          PROVE  \E r \in run'[w].rows : Paid(r, k) /\ newRow.avg <= r.unitCost
      <4>1. Seen(w, k).avg > cost[k].avg
        <5> HIDE DEF k, new, Paid
        <5> QED BY <1>8, <2>3, <3>2
      <4>2. PICK r \in run[w].rows : Paid(r, k) /\ Seen(w, k).avg <= r.unitCost
        BY <1>9, <4>1
      <4>3. r.unitCost \in Nat
        BY <1>1 DEF Transaction, LedgerRow
      <4> HIDE DEF k, new, Paid
      <4> QED BY <1>3, <1>8, <2>3, <4>2, <4>3
    <3> QED BY <3>1, <3>2
  <2> QED BY <2>1, <2>2, <2>3
<1>11. ASSUME NEW v \in Worker, NEW j \in CostKey, lock'[j] = v, v # w \/ j # k
       PROVE  lock[j] = v /\ dirty'[j] = dirty[j] /\ run[v].rows \subseteq run'[v].rows
  <2>1. j # k
    BY <1>5, <1>11
  <2> HIDE DEF k, new, Paid
  <2> QED BY <1>1, <1>2, <1>3, <1>4, <1>11, <2>1
<1> HIDE DEF k, new
<1> QED BY <1>2, <1>5, <1>10, <1>11 DEF PendingAverages

\* Pending rows, transaction numbers and the row locks are undisturbed by a step
\* that starts a transaction.
LEMMA BeginPending ==
    ASSUME TypeOK, RowLocks, PendingAverages, FreshRows, NEW w \in Worker, ~Busy(w),
           \A v \in Worker \ {w} : run'[v] = run[v],
           run'[w].rows = {}, run'[w].tx = lastTx + 1, run'[w].pc # "idle",
           lastTx' = lastTx + 1, UNCHANGED <<lock, dirty, cost, rows>>
    PROVE  PendingAverages' /\ FreshRows'
<1>1. lastTx \in Nat /\ (\A r \in rows : r.tx \in Nat) /\ (\A v \in Worker : run[v].tx \in Nat)
  BY DEF TypeOK, LedgerRow, Transaction
<1>2. PendingAverages'
  BY DEF PendingAverages, RowLocks
<1>3. FreshRows'
  BY <1>1 DEF FreshRows, Busy
<1> QED BY <1>2, <1>3

\* A transaction that ends leaves the others' pending rows alone.
LEMMA ReleasePending ==
    ASSUME TypeOK, RowLocks, PendingAverages, NEW w \in Worker,
           NEW version, Release(w, version),
           \A k \in CostKey : lock[k] # w => cost'[k] = cost[k]
    PROVE  PendingAverages'
<1>1. /\ lock' = [k \in CostKey |-> IF lock[k] = w THEN Free ELSE lock[k]]
      /\ dirty' = [k \in CostKey |-> IF lock[k] = w THEN version[k] ELSE dirty[k]]
      /\ \A v \in Worker \ {w} : run'[v] = run[v]
  BY DEF Release, TypeOK
<1>2. ASSUME NEW v \in Worker, NEW k \in CostKey, lock'[k] = v
      PROVE  v # w /\ lock[k] = v /\ dirty'[k] = dirty[k] /\ cost'[k] = cost[k]
  BY <1>1, <1>2, LedgerAssumption
<1> QED BY <1>1, <1>2 DEF PendingAverages

\* The step a running transaction takes keeps its number and its pending rows its own.
LEMMA SameTransactionFresh ==
    ASSUME TypeOK, FreshRows, NEW w \in Worker, Busy(w), run'[w].pc # "idle",
           run'[w].tx = run[w].tx, \A r \in run'[w].rows : r \in run[w].rows \/ r.tx = run[w].tx,
           \A v \in Worker \ {w} : run'[v] = run[v],
           UNCHANGED <<rows, lastTx>>
    PROVE  FreshRows'
BY DEF FreshRows, Busy

LEMMA IdleFresh ==
    ASSUME TypeOK, FreshRows, NEW w \in Worker, Busy(w), run'[w] = Idle,
           \A v \in Worker \ {w} : run'[v] = run[v], UNCHANGED lastTx,
           rows' \subseteq rows \cup run[w].rows
    PROVE  FreshRows'
<1>1. lastTx \in Nat
  BY DEF TypeOK
<1>2. ASSUME NEW r \in rows' PROVE r.tx <= lastTx /\ \A v \in Worker \ {w} : Busy(v) => r.tx # run[v].tx
  <2>1. CASE r \in rows
    BY <2>1 DEF FreshRows
  <2>2. CASE r \in run[w].rows
    BY <2>2 DEF FreshRows
  <2> QED BY <2>1, <2>2
<1> QED BY <1>1, <1>2 DEF FreshRows, Busy, Idle

\* A posted line keeps PendingAverages and FreshRows.
LEMMA PostLineAverages ==
    ASSUME TypeOK, RowLocks, PendingAverages, FreshRows,
           NEW w \in Worker, NEW l \in run[w].todo, Busy(w),
           NEW newRow \in CostRow, NEW c \in Nat, PostLine(w, l, newRow, c),
           \/ newRow.avg = Seen(w, LineKey(w, l)).avg
           \/ /\ ReceiptLine(w, l)
              /\ newRow.avg <= Seen(w, LineKey(w, l)).avg \/ newRow.avg <= c
    PROVE  PendingAverages' /\ FreshRows' /\ UNCHANGED <<rows, cost>>
<1>1. /\ run'[w].pc = "line" /\ run'[w].tx = run[w].tx
      /\ \A r \in run'[w].rows : r \in run[w].rows \/ r.tx = run[w].tx
      /\ \A v \in Worker \ {w} : run'[v] = run[v]
      /\ UNCHANGED <<rows, cost, lastTx>>
  BY DEF PostLine, TypeOK, Transaction
<1>2. FreshRows'
  BY <1>1, SameTransactionFresh
<1> QED BY <1>1, <1>2, PostLinePending

\* The average stays between nothing and the dearest price paid, and only a commit
\* that adds a receipt of the item moves it.
LEMMA AverageStep ==
    ASSUME TypeOK, RowLocks, PendingAverages, FreshRows, AverageNeverAbovePaid, [Next]_vars
    PROVE  /\ PendingAverages' /\ FreshRows' /\ AverageNeverAbovePaid'
           /\ \A k \in CostKey : cost'[k].avg # cost[k].avg =>
                \E r \in rows' \ rows : IsReceipt(r) /\ KeyOf(r) = k
<1> DEFINE Moved == \A k \in CostKey : cost'[k].avg # cost[k].avg =>
                       \E r \in rows' \ rows : IsReceipt(r) /\ KeyOf(r) = k
<1>a. ASSUME PendingAverages', FreshRows', UNCHANGED <<rows, cost>>
      PROVE  PendingAverages' /\ FreshRows' /\ AverageNeverAbovePaid' /\ Moved
  BY <1>a DEF AverageNeverAbovePaid
<1>1. ASSUME NEW w \in Worker, NEW d \in Document, Begin(w, d)
      PROVE  PendingAverages' /\ FreshRows' /\ UNCHANGED <<rows, cost>>
  <2>1. /\ run'[w].rows = {} /\ run'[w].tx = lastTx + 1 /\ run'[w].pc = "line"
        /\ \A v \in Worker \ {w} : run'[v] = run[v]
    BY <1>1 DEF Begin, TypeOK, Idle
  <2> QED BY <1>1, <2>1, BeginPending DEF Begin
<1>2. ASSUME NEW w \in Worker, NEW r \in rows, BeginReversal(w, r)
      PROVE  PendingAverages' /\ FreshRows' /\ UNCHANGED <<rows, cost>>
  <2>1. PICK todo : run' = [run EXCEPT ![w] =
                [Idle EXCEPT !.pc = "already", !.tx = lastTx + 1, !.id = r.id,
                             !.doc = r.doc, !.location = r.location,
                             !.before = rows, !.todo = todo]]
    BY <1>2 DEF BeginReversal
  <2>2. /\ run'[w].rows = {} /\ run'[w].tx = lastTx + 1 /\ run'[w].pc = "already"
        /\ \A v \in Worker \ {w} : run'[v] = run[v]
    BY <2>1 DEF TypeOK, Idle
  <2> QED BY <1>2, <2>2, BeginPending DEF BeginReversal
<1>3. ASSUME NEW w \in Worker, Busy(w), run'[w].pc # "idle",
             run'[w].tx = run[w].tx, run'[w].rows = run[w].rows,
             \A v \in Worker \ {w} : run'[v] = run[v],
             UNCHANGED <<rows, cost, lock, dirty, lastTx>>
      PROVE  PendingAverages' /\ FreshRows' /\ UNCHANGED <<rows, cost>>
  <2>1. FreshRows'
    BY <1>3, SameTransactionFresh
  <2>2. \A v \in Worker : run'[v].rows = run[v].rows
    BY <1>3
  <2>3. PendingAverages'
    BY <1>3, <2>2 DEF PendingAverages
  <2> QED BY <1>3, <2>1, <2>3
<1>4. ASSUME NEW w \in Worker, CheckAlready(w)
      PROVE  PendingAverages' /\ FreshRows' /\ UNCHANGED <<rows, cost>>
  <2>1. /\ Busy(w) /\ run'[w].pc = "line" /\ run'[w].tx = run[w].tx
        /\ run'[w].rows = run[w].rows /\ \A v \in Worker \ {w} : run'[v] = run[v]
    BY <1>4 DEF CheckAlready, TypeOK, Transaction, Busy
  <2> QED BY <1>3, <1>4, <2>1 DEF CheckAlready
<1>5. ASSUME NEW w \in Worker, NEW l \in run[w].todo, ReadAverage(w, l)
      PROVE  PendingAverages' /\ FreshRows' /\ UNCHANGED <<rows, cost>>
  <2>1. PICK c : run' = [run EXCEPT ![w] = [run[w] EXCEPT !.pc = "upsert", !.unitCost = c]]
    BY <1>5 DEF ReadAverage, TypeOK
  <2>2. /\ Busy(w) /\ run'[w].pc = "upsert" /\ run'[w].tx = run[w].tx
        /\ run'[w].rows = run[w].rows /\ \A v \in Worker \ {w} : run'[v] = run[v]
    BY <1>5, <2>1 DEF ReadAverage, TypeOK, Transaction, Busy
  <2>3. UNCHANGED <<rows, cost, lock, dirty, lastTx>>
    BY <1>5 DEF ReadAverage
  <2> QED BY <1>3, <2>2, <2>3
<1>6. ASSUME NEW w \in Worker, NEW l \in run[w].todo, PostReceiptLine(w, l)
      PROVE  PendingAverages' /\ FreshRows' /\ UNCHANGED <<rows, cost>>
  <2> DEFINE row == Seen(w, LineKey(w, l))
  <2>1. l.qty \in Int /\ l.qty > 0 /\ l.unitCost \in Nat /\ row \in CostRow
    BY <1>6, LineKeyType, SeenType DEF PostReceiptLine, ReceiptLine, LedgerLine
  <2>2. Received(row, l.qty, l.unitCost) \in CostRow
    BY <2>1, ReceivedType
  <2>3. LET avg == Received(row, l.qty, l.unitCost).avg
        IN  avg <= row.avg \/ avg <= l.unitCost
    BY <2>1, ReceivedBound
  <2> QED BY <1>6, <2>1, <2>2, <2>3, PostLineAverages DEF PostReceiptLine, Busy
<1>7. ASSUME NEW w \in Worker, NEW l \in run[w].todo, PostMovementLine(w, l)
      PROVE  PendingAverages' /\ FreshRows' /\ UNCHANGED <<rows, cost>>
  <2> DEFINE row == Seen(w, LineKey(w, l))
  <2>1. row \in CostRow /\ l.qty \in Int /\ run[w].unitCost \in Nat
    BY LineKeyType, SeenType DEF TypeOK, Transaction, LedgerLine
  <2>2. Adjusted(row, l.qty) \in CostRow /\ Adjusted(row, l.qty).avg = row.avg
    BY <2>1 DEF Adjusted, CostRow
  <2> QED BY <1>7, <2>1, <2>2, PostLineAverages DEF PostMovementLine, Busy
<1>8. ASSUME NEW w \in Worker, NEW l \in run[w].todo, PostReversalLine(w, l)
      PROVE  PendingAverages' /\ FreshRows' /\ UNCHANGED <<rows, cost>>
  <2> DEFINE row == Seen(w, LineKey(w, l))
  <2>1. row \in CostRow /\ l.qty \in Int /\ l.unitCost \in Nat
    BY <1>8, LineKeyType, SeenType DEF PostReversalLine, TypeOK, LedgerLine
  <2>2. Adjusted(row, l.qty) \in CostRow /\ Adjusted(row, l.qty).avg = row.avg
    BY <2>1 DEF Adjusted, CostRow
  <2> QED BY <1>8, <2>1, <2>2, PostLineAverages DEF PostReversalLine, Busy
<1>9. ASSUME NEW w \in Worker, Rollback(w)
      PROVE  PendingAverages' /\ FreshRows' /\ UNCHANGED <<rows, cost>>
  <2>1. /\ run'[w] = Idle /\ \A v \in Worker \ {w} : run'[v] = run[v]
        /\ Busy(w) /\ UNCHANGED <<rows, cost, lastTx>>
    BY <1>9 DEF Rollback, Release, TypeOK
  <2> QED BY <1>9, <2>1, IdleFresh, ReleasePending DEF Rollback
<1>10. ASSUME NEW w \in Worker, Commit(w)
       PROVE  PendingAverages' /\ FreshRows' /\ AverageNeverAbovePaid' /\ Moved
  <2>1. /\ run'[w] = Idle /\ \A v \in Worker \ {w} : run'[v] = run[v]
        /\ Busy(w) /\ UNCHANGED lastTx /\ rows' = rows \cup run[w].rows
        /\ cost' = [k \in CostKey |-> IF lock[k] = w THEN dirty[k] ELSE cost[k]]
    BY <1>10 DEF Commit, Release, TypeOK, Busy, Seen
  <2>2. PendingAverages' /\ FreshRows'
    BY <1>10, <2>1, IdleFresh, ReleasePending DEF Commit
  <2>3. Moved
    <3> SUFFICES ASSUME NEW k \in CostKey, cost'[k].avg # cost[k].avg
                 PROVE  \E r \in rows' \ rows : IsReceipt(r) /\ KeyOf(r) = k
      OBVIOUS
    <3>1. PICK r \in run[w].rows : IsReceipt(r) /\ KeyOf(r) = k
      BY <2>1 DEF PendingAverages
    <3>2. r \notin rows
      BY <2>1 DEF FreshRows
    <3> QED BY <2>1, <3>1, <3>2
  <2>4. AverageNeverAbovePaid'
    <3> SUFFICES ASSUME NEW k \in CostKey, cost'[k].avg # 0
                 PROVE  \E r \in rows' : IsReceipt(r) /\ KeyOf(r) = k /\ cost'[k].avg <= r.unitCost
      BY DEF AverageNeverAbovePaid
    <3>1. cost[k].avg \in Nat /\ dirty[k].avg \in Nat
      BY DEF TypeOK, CostRow
    <3>2. CASE cost'[k].avg <= cost[k].avg
      <4>1. PICK r \in rows : IsReceipt(r) /\ KeyOf(r) = k /\ cost[k].avg <= r.unitCost
        BY <2>1, <3>1, <3>2 DEF AverageNeverAbovePaid
      <4>2. r.unitCost \in Nat /\ cost'[k].avg \in Nat
        BY <2>1, <3>1 DEF TypeOK, LedgerRow
      <4> QED BY <2>1, <3>1, <3>2, <4>1, <4>2
    <3>3. CASE ~(cost'[k].avg <= cost[k].avg)
      <4>1. lock[k] = w /\ dirty[k].avg > cost[k].avg /\ cost'[k] = dirty[k]
        BY <2>1, <3>1, <3>3
      <4> QED BY <2>1, <4>1 DEF PendingAverages
    <3> QED BY <3>2, <3>3
  <2> QED BY <2>2, <2>3, <2>4
<1>11. CASE UNCHANGED vars
  <2>1. PendingAverages' /\ FreshRows' /\ UNCHANGED <<rows, cost>>
    BY <1>11 DEF vars, PendingAverages, FreshRows, Busy
  <2> QED BY <1>a, <2>1
<1>12. CASE Next
  BY <1>12, <1>a, <1>1, <1>2, <1>4, <1>5, <1>6, <1>7, <1>8, <1>9, <1>10
     DEF Next, Step, Refuse, AbortVictim, Fail
<1> QED BY <1>11, <1>12

\* The average of an item is never above the dearest price paid for it, and only
\* receipts move it.
THEOREM AveragesComeFromReceipts ==
    Spec => []AverageNeverAbovePaid /\ OnlyReceiptsMoveAverage
<1>1. Init => RowLocks /\ PendingAverages /\ FreshRows /\ AverageNeverAbovePaid
  <2> SUFFICES ASSUME Init
               PROVE  RowLocks /\ PendingAverages /\ FreshRows /\ AverageNeverAbovePaid
    OBVIOUS
  <2>1. \A w \in Worker, k \in CostKey : lock[k] = Free /\ lock[k] # w /\ run[w].net[k] = 0
    BY LedgerAssumption DEF Init, Idle, NothingMoved
  <2>2. \A w \in Worker : run[w].rows = {} /\ run[w].tx = 0 /\ ~Busy(w)
    BY DEF Init, Idle, Busy
  <2>3. \A k \in CostKey : cost[k].avg = 0 /\ dirty[k] = cost[k]
    BY DEF Init
  <2> QED BY <2>1, <2>2, <2>3
          DEF Init, RowLocks, PendingAverages, FreshRows, AverageNeverAbovePaid
<1>2. TypeOK /\ RowLocks /\ PendingAverages /\ FreshRows /\ AverageNeverAbovePaid /\ [Next]_vars
        => PendingAverages' /\ FreshRows' /\ AverageNeverAbovePaid'
  BY AverageStep
<1>3. TypeOK /\ RowLocks /\ PendingAverages /\ FreshRows /\ AverageNeverAbovePaid /\ [Next]_vars
        => [\A k \in CostKey : cost'[k].avg # cost[k].avg =>
                \E r \in rows' \ rows : IsReceipt(r) /\ KeyOf(r) = k]_vars
  BY AverageStep
<1> QED BY <1>1, <1>2, <1>3, TypeCorrect, LocksAlways, PTL DEF Spec, OnlyReceiptsMoveAverage
-----------------------------------------------------------------------------
(* What a transaction has read of another's work, and what that is worth when it   *)
(* commits.                                                                        *)

\* A transaction under way began with rows that are still there, writes one
\* document, whose lines are numbered, and reverses nothing that it saw reversed.
Underway(w) ==
    /\ run[w].before \subseteq rows
    /\ \A r \in run[w].rows : r.id = run[w].id
    /\ ~Reversing(w) => \A l, m \in run[w].todo : l.no = m.no => l = m
    /\ run[w].pc = "upsert" => ~Reversing(w)
    /\ Reversing(w) /\ run[w].pc = "line" =>
          \A q \in run[w].before : IsReversal(q) => q.id # run[w].id

\* A price is the average in force, or a receipt has come since the transaction began.
AtAverage(w, k, price) ==
    \/ price = cost[k].avg
    \/ \E q \in (rows \cup run[w].rows) \ run[w].before : IsReceipt(q) /\ KeyOf(q) = k

\* The movements a transaction has posted, and the one it is about to post.
Priced(w) ==
    /\ \A r \in run[w].rows :
          ~IsReceipt(r) /\ ~IsReversal(r) => AtAverage(w, KeyOf(r), r.unitCost)
    /\ run[w].pc = "upsert" =>
          \E l \in run[w].todo : NextLine(w, l) /\ AtAverage(w, LineKey(w, l), run[w].unitCost)

ReadingsHold == \A w \in Worker : Busy(w) => Underway(w) /\ Priced(w)

LEMMA AverageStands ==
    ASSUME NEW v \in Worker, NEW k \in CostKey, NEW price, AtAverage(v, k, price),
           run[v].before \subseteq rows, rows \subseteq rows',
           run'[v].before = run[v].before, run[v].rows \subseteq run'[v].rows,
           cost'[k].avg # cost[k].avg => \E r \in rows' \ rows : IsReceipt(r) /\ KeyOf(r) = k
    PROVE  AtAverage(v, k, price)'
<1>1. CASE price = cost[k].avg /\ cost'[k].avg # cost[k].avg
  <2>1. PICK q \in rows' \ rows : IsReceipt(q) /\ KeyOf(q) = k
    BY <1>1
  <2>2. q \in (rows' \cup run'[v].rows) \ run'[v].before
    BY <2>1
  <2> QED BY <2>1, <2>2 DEF AtAverage
<1>2. CASE price = cost[k].avg /\ cost'[k].avg = cost[k].avg
  BY <1>2 DEF AtAverage
<1>3. CASE price # cost[k].avg
  <2>1. PICK q \in (rows \cup run[v].rows) \ run[v].before : IsReceipt(q) /\ KeyOf(q) = k
    BY <1>3 DEF AtAverage
  <2>2. q \in (rows' \cup run'[v].rows) \ run'[v].before
    BY <2>1
  <2> QED BY <2>1, <2>2 DEF AtAverage
<1> QED BY <1>1, <1>2, <1>3

\* What the others know stays true whatever one transaction does.
LEMMA OthersRead ==
    ASSUME TypeOK, NEW v \in Worker, Underway(v), Priced(v), run'[v] = run[v],
           rows \subseteq rows',
           \A k \in CostKey : cost'[k].avg # cost[k].avg =>
               \E r \in rows' \ rows : IsReceipt(r) /\ KeyOf(r) = k
    PROVE  Underway(v)' /\ Priced(v)'
<1>1. Underway(v)'
  BY DEF Underway, Reversing
<1>2. ASSUME NEW k \in CostKey, NEW price, AtAverage(v, k, price) PROVE AtAverage(v, k, price)'
  BY <1>2, AverageStands DEF Underway
<1>3. /\ \A r \in run[v].rows : KeyOf(r) \in CostKey
      /\ \A l \in run[v].todo : LineKey(v, l) \in CostKey
  <2>1. run[v] \in Transaction
    BY DEF TypeOK
  <2>2. \A r \in run[v].rows : r \in LedgerRow
    BY <2>1 DEF Transaction
  <2>3. \A r \in LedgerRow : KeyOf(r) \in CostKey
    BY DEF LedgerRow, KeyOf, CostKey
  <2> QED BY <2>2, <2>3, LineKeyType
<1>4. \A l : (NextLine(v, l)' <=> NextLine(v, l)) /\ LineKey(v, l)' = LineKey(v, l)
  <2>1. Reversing(v)' <=> Reversing(v)
    BY DEF Reversing
  <2>2. \A l : LineKey(v, l)' = LineKey(v, l)
    BY <2>1 DEF LineKey
  <2>3. \A l : NextLine(v, l)' <=> NextLine(v, l)
    BY <2>1 DEF NextLine
  <2> QED BY <2>2, <2>3
<1>5. \A r \in run'[v].rows : ~IsReceipt(r) /\ ~IsReversal(r) => AtAverage(v, KeyOf(r), r.unitCost)'
  BY <1>2, <1>3 DEF Priced
<1>6. ASSUME run'[v].pc = "upsert"
      PROVE  \E l \in run'[v].todo : NextLine(v, l)' /\ AtAverage(v, LineKey(v, l), run[v].unitCost)'
  <2>1. PICK l \in run[v].todo : NextLine(v, l) /\ AtAverage(v, LineKey(v, l), run[v].unitCost)
    BY <1>6 DEF Priced
  <2> QED BY <1>2, <1>3, <1>4, <2>1
<1>7. Priced(v)'
  BY <1>4, <1>5, <1>6 DEF Priced
<1> QED BY <1>1, <1>7

\* A posted line is a receipt, a correction, or valued at the average in force.
LEMMA PostLineReads ==
    ASSUME TypeOK, NEW w \in Worker, NEW l \in run[w].todo, Underway(w), Priced(w),
           NEW newRow \in CostRow, NEW c \in Nat, PostLine(w, l, newRow, c),
           ReceiptLine(w, l) \/ Reversing(w) \/ AtAverage(w, LineKey(w, l), c),
           Reversing(w) => run[w].pc = "line"
    PROVE  Underway(w)' /\ Priced(w)'
<1> DEFINE new == [tx |-> run[w].tx, id |-> run[w].id, doc |-> run[w].doc,
                   no |-> l.no, location |-> run[w].location,
                   section |-> l.section, item |-> l.item, qty |-> l.qty,
                   unitCost |-> c]
<1>1. /\ run'[w].rows = run[w].rows \cup {new} /\ run'[w].pc = "line"
      /\ run'[w].before = run[w].before /\ run'[w].id = run[w].id /\ run'[w].tx = run[w].tx
      /\ run'[w].todo \subseteq run[w].todo
      /\ UNCHANGED <<rows, cost>>
  BY DEF PostLine, TypeOK, Transaction
<1>2. /\ new.id = run[w].id /\ KeyOf(new) = LineKey(w, l) /\ new.unitCost = c
      /\ IsReceipt(new) \/ IsReversal(new) \/ AtAverage(w, LineKey(w, l), c)
  BY DEF ReceiptLine, Reversing, IsReceipt, IsReversal, KeyOf, LineKey
<1> HIDE DEF new
<1>3. Underway(w)'
  BY <1>1, <1>2 DEF Underway, Reversing
<1>4. ASSUME NEW k \in CostKey, NEW price, AtAverage(w, k, price) PROVE AtAverage(w, k, price)'
  BY <1>1, <1>4, AverageStands DEF Underway
<1>5. /\ \A r \in run[w].rows : KeyOf(r) \in CostKey
      /\ LineKey(w, l) \in CostKey
  BY LineKeyType DEF TypeOK, Transaction, LedgerRow, KeyOf, CostKey
<1>6. ASSUME NEW r \in run'[w].rows, ~IsReceipt(r), ~IsReversal(r)
      PROVE  AtAverage(w, KeyOf(r), r.unitCost)'
  <2>1. CASE r \in run[w].rows
    BY <1>4, <1>5, <1>6, <2>1 DEF Priced
  <2>2. CASE r = new
    BY <1>2, <1>4, <1>5, <1>6, <2>2
  <2> QED BY <1>1, <2>1, <2>2
<1> QED BY <1>1, <1>3, <1>6 DEF Priced

\* What a transaction sees of an average is the committed one, or its own receipt's.
LEMMA SeenIsFair ==
    ASSUME TypeOK, RowLocks, PendingAverages, FreshRows, NEW w \in Worker, Busy(w),
           Underway(w), NEW k \in CostKey
    PROVE  AtAverage(w, k, Seen(w, k).avg)
<1>1. CASE lock[k] = w /\ dirty[k].avg # cost[k].avg
  <2>1. PICK r \in run[w].rows : IsReceipt(r) /\ KeyOf(r) = k
    BY <1>1 DEF PendingAverages
  <2>2. r \notin run[w].before
    BY <2>1 DEF FreshRows, Underway
  <2> QED BY <2>1, <2>2 DEF AtAverage
<1>2. CASE lock[k] # w \/ dirty[k].avg = cost[k].avg
  BY <1>2 DEF AtAverage, Seen
<1> QED BY <1>1, <1>2

LEMMA ReadingsStep ==
    ASSUME TypeOK, ReadingsHold, NEW w \in Worker, \A v \in Worker \ {w} : run'[v] = run[v],
           rows \subseteq rows',
           \A k \in CostKey : cost'[k].avg # cost[k].avg =>
               \E r \in rows' \ rows : IsReceipt(r) /\ KeyOf(r) = k,
           ~Busy(w)' \/ (Underway(w)' /\ Priced(w)')
    PROVE  ReadingsHold'
<1> SUFFICES ASSUME NEW v \in Worker, Busy(v)' PROVE Underway(v)' /\ Priced(v)'
  BY DEF ReadingsHold
<1>1. CASE v = w
  BY <1>1
<1>2. CASE v # w
  <2>1. run'[v] = run[v] /\ Busy(v)
    BY <1>2 DEF Busy
  <2>2. Underway(v) /\ Priced(v)
    BY <2>1 DEF ReadingsHold
  <2> QED BY <2>1, <2>2, OthersRead
<1> QED BY <1>1, <1>2

LEMMA ReadingsNext ==
    ASSUME TypeOK, RowLocks, PendingAverages, FreshRows, AverageNeverAbovePaid,
           ReadingsHold, [Next]_vars
    PROVE  ReadingsHold'
<1>1. \A k \in CostKey : cost'[k].avg # cost[k].avg =>
          \E r \in rows' \ rows : IsReceipt(r) /\ KeyOf(r) = k
  BY AverageStep
<1>2. ASSUME NEW w \in Worker, \A v \in Worker \ {w} : run'[v] = run[v], rows \subseteq rows',
             ~Busy(w)' \/ (Underway(w)' /\ Priced(w)')
      PROVE  ReadingsHold'
  BY <1>1, <1>2, ReadingsStep
<1>3. ASSUME NEW w \in Worker, NEW d \in Document, Begin(w, d) PROVE ReadingsHold'
  <2>1. /\ run'[w].rows = {} /\ run'[w].tx = run'[w].id /\ run'[w].pc = "line"
        /\ run'[w].before = rows /\ run'[w].todo = d.lines
        /\ \A v \in Worker \ {w} : run'[v] = run[v]
        /\ rows' = rows
    BY <1>3 DEF Begin, TypeOK, Idle
  <2>2. \A l, m \in d.lines : l.no = m.no => l = m
    BY LedgerAssumption
  <2>3. Underway(w)' /\ Priced(w)'
    BY <2>1, <2>2 DEF Underway, Priced, Reversing
  <2> QED BY <1>2, <2>1, <2>3
<1>4. ASSUME NEW w \in Worker, NEW r \in rows, BeginReversal(w, r) PROVE ReadingsHold'
  <2>1. PICK todo : run' = [run EXCEPT ![w] =
                [Idle EXCEPT !.pc = "already", !.tx = lastTx + 1, !.id = r.id,
                             !.doc = r.doc, !.location = r.location,
                             !.before = rows, !.todo = todo]]
    BY <1>4 DEF BeginReversal
  <2>2. /\ run'[w].rows = {} /\ run'[w].tx = lastTx + 1 /\ run'[w].id = r.id
        /\ run'[w].pc = "already" /\ run'[w].before = rows
        /\ \A v \in Worker \ {w} : run'[v] = run[v]
    BY <2>1 DEF TypeOK, Idle
  <2>3. r.tx = r.id /\ r.tx <= lastTx /\ r.tx \in Nat /\ lastTx \in Nat /\ rows' = rows
    BY <1>4 DEF BeginReversal, Originals, IsReversal, FreshRows, TypeOK, LedgerRow
  <2>4. lastTx + 1 # r.id
    BY <2>3
  <2>5. Underway(w)' /\ Priced(w)'
    BY <2>2, <2>3, <2>4 DEF Underway, Priced, Reversing
  <2> QED BY <1>2, <2>2, <2>3, <2>5
<1>5. ASSUME NEW w \in Worker, CheckAlready(w) PROVE ReadingsHold'
  <2>1. /\ run[w].pc = "already" /\ run'[w] = [run[w] EXCEPT !.pc = "line"]
        /\ \A v \in Worker \ {w} : run'[v] = run[v]
        /\ UNCHANGED <<rows, cost>> /\ ~AlreadyReversed(run[w].id)
    BY <1>5 DEF CheckAlready, TypeOK
  <2>2. Underway(w) /\ Priced(w) /\ run[w] \in Transaction
    BY <2>1 DEF ReadingsHold, Busy, TypeOK
  <2>3. /\ run'[w].rows = run[w].rows /\ run'[w].tx = run[w].tx /\ run'[w].id = run[w].id
        /\ run'[w].pc = "line" /\ run'[w].before = run[w].before /\ run'[w].todo = run[w].todo
    BY <2>1, <2>2 DEF Transaction
  <2>4. Underway(w)'
    BY <2>1, <2>2, <2>3 DEF Underway, Reversing, AlreadyReversed
  <2>5. Priced(w)'
    BY <2>1, <2>2, <2>3 DEF Priced, AtAverage
  <2> QED BY <1>2, <2>1, <2>4, <2>5
<1>6. ASSUME NEW w \in Worker, NEW l \in run[w].todo, ReadAverage(w, l) PROVE ReadingsHold'
  <2>1. PICK c : c = Seen(w, LineKey(w, l)).avg
    OBVIOUS
  <2>2. run' = [run EXCEPT ![w] = [run[w] EXCEPT !.pc = "upsert", !.unitCost = c]]
    BY <1>6, <2>1 DEF ReadAverage, TypeOK
  <2>3. /\ run[w].pc = "line" /\ ~Reversing(w) /\ NextLine(w, l) /\ UNCHANGED <<rows, cost>>
    BY <1>6 DEF ReadAverage
  <2>4. Underway(w) /\ Priced(w) /\ run[w] \in Transaction /\ Busy(w)
    BY <2>3 DEF ReadingsHold, Busy, TypeOK
  <2>5. /\ run'[w].rows = run[w].rows /\ run'[w].tx = run[w].tx /\ run'[w].id = run[w].id
        /\ run'[w].pc = "upsert" /\ run'[w].before = run[w].before /\ run'[w].todo = run[w].todo
        /\ run'[w].unitCost = c /\ run'[w].location = run[w].location
        /\ \A v \in Worker \ {w} : run'[v] = run[v]
    BY <2>2, <2>4 DEF Transaction, TypeOK
  <2>6. Underway(w)'
    BY <2>3, <2>4, <2>5 DEF Underway, Reversing
  <2>7. LineKey(w, l) \in CostKey
    BY LineKeyType
  <2>8. AtAverage(w, LineKey(w, l), c)
    BY <2>1, <2>4, <2>7, SeenIsFair
  <2>9. NextLine(w, l)' /\ AtAverage(w, LineKey(w, l), run[w].unitCost)'
    BY <2>3, <2>5, <2>8 DEF NextLine, LineKey, Reversing, AtAverage
  <2>10. Priced(w)'
    BY <2>3, <2>4, <2>5, <2>9 DEF Priced, AtAverage
  <2> QED BY <1>2, <2>3, <2>5, <2>6, <2>10
<1>7. ASSUME NEW w \in Worker, NEW l \in run[w].todo, NEW newRow \in CostRow, NEW c \in Nat,
             PostLine(w, l, newRow, c), Busy(w),
             ReceiptLine(w, l) \/ Reversing(w) \/ AtAverage(w, LineKey(w, l), c),
             Reversing(w) => run[w].pc = "line"
      PROVE  ReadingsHold'
  <2>1. Underway(w) /\ Priced(w)
    BY <1>7 DEF ReadingsHold
  <2>2. Underway(w)' /\ Priced(w)'
    BY <1>7, <2>1, PostLineReads
  <2>3. (\A v \in Worker \ {w} : run'[v] = run[v]) /\ rows' = rows
    BY <1>7 DEF PostLine, TypeOK
  <2> QED BY <1>2, <2>2, <2>3
<1>8. ASSUME NEW w \in Worker, NEW l \in run[w].todo, PostReceiptLine(w, l) PROVE ReadingsHold'
  <2> DEFINE row == Seen(w, LineKey(w, l))
  <2>1. l.qty \in Int /\ l.qty > 0 /\ l.unitCost \in Nat /\ row \in CostRow
    BY <1>8, LineKeyType, SeenType DEF PostReceiptLine, ReceiptLine, LedgerLine
  <2>2. Received(row, l.qty, l.unitCost) \in CostRow
    BY <2>1, ReceivedType
  <2>3. /\ PostLine(w, l, Received(row, l.qty, l.unitCost), l.unitCost)
        /\ run[w].pc = "line" /\ Busy(w) /\ ReceiptLine(w, l)
    BY <1>8 DEF PostReceiptLine, Busy
  <2> QED BY <1>7, <2>1, <2>2, <2>3
<1>9. ASSUME NEW w \in Worker, NEW l \in run[w].todo, PostMovementLine(w, l) PROVE ReadingsHold'
  <2> DEFINE row == Seen(w, LineKey(w, l))
  <2>1. row \in CostRow /\ l.qty \in Int /\ run[w].unitCost \in Nat
    BY LineKeyType, SeenType DEF TypeOK, Transaction, LedgerLine
  <2>2. Adjusted(row, l.qty) \in CostRow
    BY <2>1 DEF Adjusted, CostRow
  <2>3. /\ PostLine(w, l, Adjusted(row, l.qty), run[w].unitCost)
        /\ run[w].pc = "upsert" /\ Busy(w) /\ NextLine(w, l)
    BY <1>9 DEF PostMovementLine, Busy
  <2>4. Underway(w) /\ Priced(w) /\ ~Reversing(w)
    BY <2>3 DEF ReadingsHold, Underway
  <2>5. PICK m \in run[w].todo : NextLine(w, m) /\ AtAverage(w, LineKey(w, m), run[w].unitCost)
    BY <2>3, <2>4 DEF Priced
  <2>6. m.no <= l.no /\ l.no <= m.no /\ l.no \in Nat /\ m.no \in Nat
    BY <2>3, <2>4, <2>5, LineKeyType DEF NextLine, LedgerLine
  <2>7. m = l
    BY <2>4, <2>6 DEF Underway
  <2> QED BY <1>7, <2>1, <2>2, <2>3, <2>4, <2>5, <2>7
<1>10. ASSUME NEW w \in Worker, NEW l \in run[w].todo, PostReversalLine(w, l) PROVE ReadingsHold'
  <2> DEFINE row == Seen(w, LineKey(w, l))
  <2>1. row \in CostRow /\ l.qty \in Int /\ l.unitCost \in Nat
    BY <1>10, LineKeyType, SeenType DEF PostReversalLine, TypeOK, LedgerLine
  <2>2. Adjusted(row, l.qty) \in CostRow
    BY <2>1 DEF Adjusted, CostRow
  <2>3. /\ PostLine(w, l, Adjusted(row, l.qty), l.unitCost)
        /\ run[w].pc = "line" /\ Busy(w) /\ Reversing(w)
    BY <1>10 DEF PostReversalLine, Busy
  <2> QED BY <1>7, <2>1, <2>2, <2>3
<1>11. ASSUME NEW w \in Worker, Commit(w) \/ Rollback(w) PROVE ReadingsHold'
  <2>1. /\ run'[w] = Idle /\ \A v \in Worker \ {w} : run'[v] = run[v]
        /\ rows \subseteq rows'
    BY <1>11 DEF Commit, Rollback, Release, TypeOK
  <2>2. ~Busy(w)'
    BY <2>1 DEF Busy, Idle
  <2> QED BY <1>2, <2>1, <2>2
<1>12. CASE UNCHANGED vars
  BY <1>12 DEF vars, ReadingsHold, Busy, Underway, Priced, AtAverage, NextLine, LineKey, Reversing
<1>13. CASE Next
  BY <1>13, <1>3, <1>4, <1>5, <1>6, <1>8, <1>9, <1>10, <1>11
     DEF Next, Step, Refuse, AbortVictim, Fail
<1> QED BY <1>12, <1>13

\* Only a commit adds rows, and those are its own.
LEMMA OnlyCommitsAdd ==
    ASSUME TypeOK, FreshRows, [Next]_vars, NEW r \in rows' \ rows
    PROVE  \E w \in Worker : /\ Commit(w) /\ r \in run[w].rows /\ r.tx = run[w].tx
                             /\ rows' = rows \cup run[w].rows
<1>1. CASE \E w \in Worker : Commit(w)
  BY <1>1 DEF Commit, FreshRows
<1>2. CASE ~\E w \in Worker : Commit(w)
  <2>1. \A w, d, o : Begin(w, d) \/ BeginReversal(w, o) => rows' = rows
    BY DEF Begin, BeginReversal
  <2>2. \A w : CheckAlready(w) \/ Rollback(w) => rows' = rows
    BY DEF CheckAlready, Rollback
  <2>3. \A w, l : ReadAverage(w, l) \/ PostReceiptLine(w, l) \/ PostMovementLine(w, l)
                    \/ PostReversalLine(w, l) => rows' = rows
    BY DEF ReadAverage, PostReceiptLine, PostMovementLine, PostReversalLine, PostLine
  <2>4. ASSUME Next PROVE rows' = rows
    BY <1>2, <2>1, <2>2, <2>3, <2>4 DEF Next, Step, Refuse, AbortVictim, Fail
  <2> QED BY <2>4 DEF vars
<1> QED BY <1>1, <1>2

\* What transactions know, in every reachable state.
LEMMA ReadingsAlways ==
    Spec => [](PendingAverages /\ FreshRows /\ AverageNeverAbovePaid /\ ReadingsHold)
<1>1. Init => PendingAverages /\ FreshRows /\ AverageNeverAbovePaid /\ ReadingsHold
  <2> SUFFICES ASSUME Init
               PROVE  PendingAverages /\ FreshRows /\ AverageNeverAbovePaid /\ ReadingsHold
    OBVIOUS
  <2>1. \A w \in Worker, k \in CostKey : lock[k] = Free /\ lock[k] # w
    BY LedgerAssumption DEF Init
  <2>2. \A w \in Worker : run[w].rows = {} /\ run[w].tx = 0 /\ ~Busy(w)
    BY DEF Init, Idle, Busy
  <2>3. \A k \in CostKey : cost[k].avg = 0 /\ dirty[k] = cost[k]
    BY DEF Init
  <2> QED BY <2>1, <2>2, <2>3
          DEF Init, PendingAverages, FreshRows, AverageNeverAbovePaid, ReadingsHold
<1>2. TypeOK /\ RowLocks /\ PendingAverages /\ FreshRows /\ AverageNeverAbovePaid /\ ReadingsHold
        /\ [Next]_vars
        => PendingAverages' /\ FreshRows' /\ AverageNeverAbovePaid' /\ ReadingsHold'
  BY AverageStep, ReadingsNext
<1> QED BY <1>1, <1>2, TypeCorrect, LocksAlways, PTL DEF Spec

\* A document is undone twice, and a movement valued at an average that is gone, only
\* by transactions that overlap with another's.
THEOREM StaleReadingsOverlap == Spec => StaleOnlyTogether
<1>1. TypeOK /\ FreshRows /\ ReadingsHold /\ [Next]_vars
        => [\A r \in rows' \ rows, q \in rows :
              (IsReversal(r) /\ IsReversal(q) /\ q.id = r.id) =>
                  \E w \in Worker : run[w].tx = r.tx /\ q \notin run[w].before]_vars
  <2> SUFFICES ASSUME TypeOK, FreshRows, ReadingsHold, [Next]_vars,
                      NEW r \in rows' \ rows, NEW q \in rows,
                      IsReversal(r), IsReversal(q), q.id = r.id
               PROVE  \E w \in Worker : run[w].tx = r.tx /\ q \notin run[w].before
    OBVIOUS
  <2>1. PICK w \in Worker : Commit(w) /\ r \in run[w].rows /\ r.tx = run[w].tx
    BY OnlyCommitsAdd
  <2>2. run[w].pc = "line" /\ Underway(w)
    BY <2>1 DEF Commit, ReadingsHold, Busy
  <2>3. Reversing(w) /\ q.id = run[w].id
    BY <2>1, <2>2 DEF Underway, Reversing, IsReversal
  <2> QED BY <2>1, <2>2, <2>3 DEF Underway
<1>2. TypeOK /\ FreshRows /\ ReadingsHold /\ [Next]_vars
        => [\A r \in rows' \ rows :
              (~IsReceipt(r) /\ ~IsReversal(r)) =>
                  \/ r.unitCost = cost[KeyOf(r)].avg
                  \/ \E w \in Worker :
                      /\ run[w].tx = r.tx
                      /\ \E q \in rows' \ run[w].before : IsReceipt(q) /\ KeyOf(q) = KeyOf(r)]_vars
  <2> SUFFICES ASSUME TypeOK, FreshRows, ReadingsHold, [Next]_vars,
                      NEW r \in rows' \ rows, ~IsReceipt(r), ~IsReversal(r)
               PROVE  \/ r.unitCost = cost[KeyOf(r)].avg
                      \/ \E w \in Worker :
                          /\ run[w].tx = r.tx
                          /\ \E q \in rows' \ run[w].before : IsReceipt(q) /\ KeyOf(q) = KeyOf(r)
    OBVIOUS
  <2>1. PICK w \in Worker : /\ Commit(w) /\ r \in run[w].rows /\ r.tx = run[w].tx
                            /\ rows' = rows \cup run[w].rows
    BY OnlyCommitsAdd
  <2>2. Priced(w)
    BY <2>1 DEF Commit, ReadingsHold, Busy
  <2>3. AtAverage(w, KeyOf(r), r.unitCost)
    BY <2>1, <2>2 DEF Priced
  <2> QED BY <2>1, <2>3 DEF AtAverage
<1> QED BY <1>1, <1>2, TypeCorrect, ReadingsAlways, PTL
        DEF Spec, StaleOnlyTogether, ReversedTwiceOnlyTogether, ValuedAtCurrentAverage

-----------------------------------------------------------------------------
(* What a reversal undoes: sums of rows, then the invariant that a reversal under *)
(* way mirrors its document line by line and a committed one has done so.        *)

LEMMA QtyOfNone == QtyOf({}) = 0
<1>1. [r \in {} |-> r.qty] \in [{} -> Int]
  OBVIOUS
<1> QED BY <1>1, SumEmpty DEF QtyOf

LEMMA QtyOfAnd ==
    ASSUME NEW S \in SUBSET LedgerRow, IsFiniteSet(S), NEW x \in LedgerRow, x \notin S
    PROVE  QtyOf(S \cup {x}) = QtyOf(S) + x.qty /\ QtyOf(S) \in Int
<1> DEFINE f == [r \in S \cup {x} |-> r.qty]
           g == [r \in S |-> r.qty]
<1>1. IsFiniteSet(S \cup {x})
  BY FS_AddElement
<1>2. f \in [S \cup {x} -> Int] /\ g \in [S -> Int] /\ x \in S \cup {x} /\ f[x] = x.qty /\ x.qty \in Int
  BY DEF LedgerRow
<1>3. [y \in (S \cup {x}) \ {x} |-> f[y]] = g
  OBVIOUS
<1>4. QtyOf(S \cup {x}) = SumFunction(f) /\ QtyOf(S) = SumFunction(g)
  BY DEF QtyOf
<1> HIDE DEF f, g
<1>5. SumFunction(f) = f[x] + SumFunction(g)
  BY <1>1, <1>2, <1>3, SumTake
<1>6. SumFunction(g) \in Int
  BY <1>2, SumType
<1> QED BY <1>2, <1>4, <1>5, <1>6

LEMMA QtyOfBoth ==
    ASSUME NEW S \in SUBSET LedgerRow, NEW T \in SUBSET LedgerRow,
           IsFiniteSet(S), IsFiniteSet(T), S \cap T = {}
    PROVE  QtyOf(S \cup T) = QtyOf(S) + QtyOf(T)
<1> DEFINE f == [r \in S \cup T |-> r.qty]
           g == [r \in S |-> r.qty]
           h == [r \in T |-> r.qty]
<1>1. IsFiniteSet(S \cup T)
  BY FS_Union
<1>2. f \in [S \cup T -> Int] /\ S \in SUBSET (S \cup T)
  BY DEF LedgerRow
<1>3. [y \in S |-> f[y]] = g /\ [y \in (S \cup T) \ S |-> f[y]] = h
  <2>1. (S \cup T) \ S = T
    OBVIOUS
  <2> QED BY <2>1
<1>4. QtyOf(S \cup T) = SumFunction(f) /\ QtyOf(S) = SumFunction(g) /\ QtyOf(T) = SumFunction(h)
  BY DEF QtyOf
<1> HIDE DEF f, g, h
<1>5. SumFunction(f) = SumFunction(g) + SumFunction(h)
  BY <1>1, <1>2, <1>3, SumSplit
<1> QED BY <1>4, <1>5

\* The row, and the line before it is posted, that undoes o in transaction tx.
Mirror(o, tx) ==
    [tx |-> tx, id |-> o.id, doc |-> o.doc, no |-> o.no, location |-> o.location,
     section |-> o.section, item |-> o.item, qty |-> -o.qty, unitCost |-> o.unitCost]
MirrorLine(o) ==
    [no |-> o.no, section |-> o.section, item |-> o.item, qty |-> -o.qty,
     unitCost |-> o.unitCost]

MirroredBy(A, tx) == {Mirror(o, tx) : o \in A}

\* Rows and what undoes them add up to nothing.
LEMMA MirrorCancels ==
    ASSUME NEW A \in SUBSET LedgerRow, IsFiniteSet(A), NEW tx \in Nat,
           \A o, p \in A : o.no = p.no => o = p
    PROVE  QtyOf(MirroredBy(A, tx)) = -QtyOf(A) /\ IsFiniteSet(MirroredBy(A, tx)) /\ QtyOf(A) \in Int
<1> DEFINE H == {T \in SUBSET A : /\ QtyOf(MirroredBy(T, tx)) = -QtyOf(T) /\ QtyOf(T) \in Int
                                  /\ IsFiniteSet(MirroredBy(T, tx))}
<1>1. ASSUME NEW T \in SUBSET A, \A U \in SUBSET T : U # T => U \in H PROVE T \in H
  <2>1. CASE T = {}
    <3>1. MirroredBy(T, tx) = {}
      BY <2>1 DEF MirroredBy
    <3> QED BY <2>1, <3>1, QtyOfNone, FS_EmptySet
  <2>2. CASE T # {}
    <3>1. PICK x \in T : TRUE
      BY <2>2
    <3> DEFINE U == T \ {x}
    <3>2. U \in H /\ T = U \cup {x} /\ x \notin U /\ U \in SUBSET LedgerRow /\ IsFiniteSet(U) /\ x \in LedgerRow
      BY <1>1, <3>1, FS_Subset
    <3>3. MirroredBy(T, tx) = MirroredBy(U, tx) \cup {Mirror(x, tx)}
      BY <3>2 DEF MirroredBy
    <3>4. Mirror(x, tx) \notin MirroredBy(U, tx)
      <4> SUFFICES ASSUME NEW o \in U, Mirror(o, tx) = Mirror(x, tx) PROVE FALSE
        BY DEF MirroredBy
      <4>1. o.no = x.no
        BY DEF Mirror
      <4> QED BY <3>1, <4>1
    <3>5. Mirror(x, tx) \in LedgerRow /\ Mirror(x, tx).qty = -x.qty /\ x.qty \in Int
      BY <3>2 DEF Mirror, LedgerRow
    <3>6. MirroredBy(U, tx) \in SUBSET LedgerRow
      BY DEF MirroredBy, Mirror, LedgerRow
    <3>7. IsFiniteSet(MirroredBy(U, tx)) /\ QtyOf(MirroredBy(U, tx)) = -QtyOf(U) /\ QtyOf(U) \in Int
      BY <3>2
    <3> HIDE DEF U, H
    <3>8. QtyOf(T) = QtyOf(U) + x.qty
      BY <3>2, QtyOfAnd
    <3>9. QtyOf(MirroredBy(T, tx)) = QtyOf(MirroredBy(U, tx)) + Mirror(x, tx).qty
      BY <3>3, <3>4, <3>5, <3>6, <3>7, QtyOfAnd
    <3>10. IsFiniteSet(MirroredBy(T, tx))
      BY <3>3, <3>7, FS_AddElement
    <3>11. QtyOf(MirroredBy(T, tx)) = -QtyOf(T) /\ QtyOf(T) \in Int
      BY <3>5, <3>7, <3>8, <3>9
    <3> QED BY <3>10, <3>11 DEF H
  <2> QED BY <2>1, <2>2
<1>2. SUBSET A \subseteq H
  <2> HIDE DEF H
  <2> QED BY <1>1, SetInduction
<1> QED BY <1>2

Of(S, k) == {r \in S : KeyOf(r) = k}

\* A transaction writes one row per line, of one document at one location, and
\* knows what it has moved.
Tidy(t) ==
    /\ IsFiniteSet(t.rows)
    /\ \A r \in t.rows : r.tx = t.tx /\ r.id = t.id /\ r.doc = t.doc /\ r.location = t.location
    /\ \A r, q \in t.rows : r.no = q.no => r = q
    /\ \A l, m \in t.todo : l.no = m.no => l = m
    /\ \A r \in t.rows, l \in t.todo : r.no # l.no
    /\ \A k \in CostKey : t.net[k] = QtyOf(Of(t.rows, k))

\* A reversal has each of the originals O to undo or has undone it, and nothing else.
Undoing(t, O) ==
    t.tx # t.id =>
        /\ O # {}
        /\ \A o \in O : o.doc = t.doc /\ o.location = t.location
        /\ \A l \in t.todo : \E o \in O : l = MirrorLine(o)
        /\ \A r \in t.rows : \E o \in O : r = Mirror(o, t.tx)
        /\ \A o \in O : MirrorLine(o) \in t.todo \/ Mirror(o, t.tx) \in t.rows

\* A committed transaction wrote one document at one location, a row per line; and
\* the book is the sum of the rows.
Kept ==
    /\ IsFiniteSet(rows)
    /\ \A r, q \in rows : r.tx = q.tx =>
          /\ r.id = q.id /\ r.doc = q.doc /\ r.location = q.location
          /\ r.no = q.no => r = q
    /\ \A k \in CostKey : book[k] = QtyOf(Of(rows, k))

\* A committed reversal undid the whole document.
UndoneWhole ==
    \A r \in rows : IsReversal(r) =>
        /\ \E o \in Originals(r.id) : r = Mirror(o, r.tx)
        /\ \A o \in Originals(r.id) : Mirror(o, r.tx) \in rows

Correction(w) == Tidy(run[w]) /\ Undoing(run[w], Originals(run[w].id))
Corrections == Kept /\ UndoneWhole /\ \A w \in Worker : Correction(w)

LEMMA OfType ==
    ASSUME NEW S \in SUBSET LedgerRow, IsFiniteSet(S), NEW k
    PROVE  Of(S, k) \in SUBSET LedgerRow /\ IsFiniteSet(Of(S, k))
BY FS_Subset DEF Of

\* The invariant says what is claimed.
LEMMA CorrectionsCancel ==
    ASSUME TypeOK, Corrections PROVE ReversalCancels
<1>1. \A k \in CostKey : book[k] = QtyOf({r \in rows : KeyOf(r) = k})
  BY DEF Corrections, Kept, Of
<1>2. ASSUME NEW o \in rows,
             Cardinality({r.tx : r \in {q \in rows : q.id = o.id /\ IsReversal(q)}}) = 1
      PROVE  QtyOf({r \in rows : r.id = o.id /\ r.section = o.section /\ r.item = o.item}) = 0
  <2> DEFINE R == {q \in rows : q.id = o.id /\ IsReversal(q)}
             X == {r.tx : r \in R}
             E == {r \in rows : r.id = o.id /\ r.section = o.section /\ r.item = o.item}
             A == {r \in E : ~IsReversal(r)}
             B == {r \in E : IsReversal(r)}
  <2>0. IsFiniteSet(rows) /\ rows \in SUBSET LedgerRow
    BY DEF Corrections, Kept, TypeOK
  <2>1. IsFiniteSet(R) /\ IsFiniteSet(A) /\ A \in SUBSET LedgerRow /\ B \in SUBSET LedgerRow
    BY <2>0, FS_Subset
  <2>2. IsFiniteSet(X)
    <3> DEFINE f == [r \in R |-> r.tx]
    <3>1. f \in Surjection(R, X)
      BY DEF Surjection
    <3> HIDE DEF f, R, X
    <3> QED BY <2>1, <3>1, FS_Surjection
  <2>3. PICK x : X = {x}
    BY <1>2, <2>2, FS_Singleton
  <2>4. x \in Nat
    BY <2>0, <2>3 DEF LedgerRow
  <2>5. \A p, q \in A : p.no = q.no => p = q
    BY DEF Corrections, Kept, IsReversal
  <2>6. ASSUME NEW a \in A PROVE Mirror(a, x) \in B
    <3>1. PICK r \in R : r.tx = x
      BY <2>3
    <3>2. r \in rows /\ IsReversal(r) /\ r.id = o.id
      OBVIOUS
    <3>3. a \in Originals(r.id)
      BY <3>2 DEF Originals
    <3>4. Mirror(a, x) \in rows
      BY <3>1, <3>2, <3>3 DEF Corrections, UndoneWhole
    <3>5. IsReversal(Mirror(a, x))
      BY <3>1, <3>2 DEF IsReversal, Mirror
    <3> QED BY <3>4, <3>5 DEF Mirror
  <2>7. ASSUME NEW b \in B PROVE b \in MirroredBy(A, x)
    <3>1. b.tx = x
      BY <2>3
    <3>2. PICK a \in Originals(b.id) : b = Mirror(a, b.tx)
      BY DEF Corrections, UndoneWhole
    <3>3. a.section = b.section /\ a.item = b.item
      BY <3>2 DEF Mirror
    <3>4. a \in A
      BY <3>2, <3>3 DEF Originals
    <3> QED BY <3>1, <3>2, <3>4 DEF MirroredBy
  <2>8. B = MirroredBy(A, x)
    <3> HIDE DEF A, B
    <3> QED BY <2>6, <2>7 DEF MirroredBy
  <2>9. E = A \cup B /\ A \cap B = {}
    OBVIOUS
  <2> HIDE DEF A, B
  <2>10. QtyOf(B) = -QtyOf(A) /\ IsFiniteSet(B) /\ QtyOf(A) \in Int
    BY <2>1, <2>4, <2>5, <2>8, MirrorCancels
  <2>11. QtyOf(A \cup B) = QtyOf(A) + QtyOf(B)
    BY <2>1, <2>9, <2>10, QtyOfBoth
  <2> HIDE DEF E
  <2>12. QtyOf(E) = 0
    BY <2>9, <2>10, <2>11
  <2> QED BY <2>12 DEF E
<1> QED BY <1>1, <1>2 DEF ReversalCancels

\* A line of t becomes a row.
LEMMA PostLineTidy ==
    ASSUME NEW t \in Transaction, Tidy(t), NEW l \in t.todo, NEW new \in LedgerRow,
           new.tx = t.tx, new.id = t.id, new.doc = t.doc, new.location = t.location,
           new.no = l.no, new.qty = l.qty,
           NEW u, u.tx = t.tx, u.id = t.id, u.doc = t.doc, u.location = t.location,
           u.todo = t.todo \ {l}, u.rows = t.rows \cup {new},
           u.net = [t.net EXCEPT ![KeyOf(new)] = t.net[KeyOf(new)] + l.qty]
    PROVE  Tidy(u)
<1>1. /\ IsFiniteSet(t.rows) /\ t.rows \in SUBSET LedgerRow /\ t.net \in [CostKey -> Int]
      /\ KeyOf(new) \in CostKey
  BY DEF Tidy, Transaction, KeyOf, CostKey, LedgerRow
<1>2. new \notin t.rows
  BY DEF Tidy
<1>3. IsFiniteSet(u.rows)
  BY <1>1, FS_AddElement
<1>4. /\ \A r \in u.rows : r.tx = u.tx /\ r.id = u.id /\ r.doc = u.doc /\ r.location = u.location
      /\ \A l1, m \in u.todo : l1.no = m.no => l1 = m
  BY DEF Tidy
<1>5. \A r, q \in u.rows : r.no = q.no => r = q
  BY DEF Tidy
<1>6. \A r \in u.rows, m \in u.todo : r.no # m.no
  BY DEF Tidy
<1>7. ASSUME NEW k \in CostKey PROVE u.net[k] = QtyOf(Of(u.rows, k))
  <2>1. t.net[k] = QtyOf(Of(t.rows, k))
    BY DEF Tidy
  <2>2. CASE k = KeyOf(new)
    <3>1. Of(u.rows, k) = Of(t.rows, k) \cup {new} /\ new \notin Of(t.rows, k)
      BY <1>2, <2>2 DEF Of
    <3>2. Of(t.rows, k) \in SUBSET LedgerRow /\ IsFiniteSet(Of(t.rows, k))
      BY <1>1, OfType
    <3>3. QtyOf(Of(u.rows, k)) = QtyOf(Of(t.rows, k)) + new.qty
      BY <3>1, <3>2, QtyOfAnd
    <3>4. u.net[k] = t.net[k] + l.qty
      BY <1>1, <2>2
    <3> QED BY <2>1, <3>3, <3>4
  <2>3. CASE k # KeyOf(new)
    <3>1. Of(u.rows, k) = Of(t.rows, k)
      BY <2>3 DEF Of
    <3>2. u.net[k] = t.net[k]
      BY <1>1, <2>3
    <3> QED BY <2>1, <3>1, <3>2
  <2> QED BY <2>2, <2>3
<1> QED BY <1>3, <1>4, <1>5, <1>6, <1>7 DEF Tidy

LEMMA PostLineUndoes ==
    ASSUME NEW t \in Transaction, NEW O \in SUBSET LedgerRow, Undoing(t, O),
           NEW l \in t.todo, NEW new,
           t.tx # t.id => \A o \in O : (o.doc = t.doc /\ o.location = t.location /\ l = MirrorLine(o))
                                         => new = Mirror(o, t.tx),
           NEW u, u.tx = t.tx, u.id = t.id, u.doc = t.doc, u.location = t.location,
           u.todo = t.todo \ {l}, u.rows = t.rows \cup {new}
    PROVE  Undoing(u, O)
<1> SUFFICES ASSUME u.tx # u.id
             PROVE  /\ O # {}
                    /\ \A o \in O : o.doc = u.doc /\ o.location = u.location
                    /\ \A m \in u.todo : \E o \in O : m = MirrorLine(o)
                    /\ \A r \in u.rows : \E o \in O : r = Mirror(o, u.tx)
                    /\ \A o \in O : MirrorLine(o) \in u.todo \/ Mirror(o, u.tx) \in u.rows
  BY DEF Undoing
<1>1. /\ O # {}
      /\ \A o \in O : o.doc = t.doc /\ o.location = t.location
      /\ \A m \in t.todo : \E o \in O : m = MirrorLine(o)
      /\ \A r \in t.rows : \E o \in O : r = Mirror(o, t.tx)
      /\ \A o \in O : MirrorLine(o) \in t.todo \/ Mirror(o, t.tx) \in t.rows
  BY DEF Undoing
<1>2. \A o \in O : l = MirrorLine(o) => new = Mirror(o, t.tx)
  BY <1>1
<1>3. \A r \in u.rows : \E o \in O : r = Mirror(o, u.tx)
  BY <1>1, <1>2
<1>4. \A o \in O : MirrorLine(o) \in u.todo \/ Mirror(o, u.tx) \in u.rows
  BY <1>1, <1>2
<1> QED BY <1>1, <1>3, <1>4

LEMMA IdleCorrect == Tidy(Idle) /\ \A O : Undoing(Idle, O)
<1>1. /\ Idle.tx = 0 /\ Idle.id = 0 /\ Idle.rows = {} /\ Idle.todo = {}
      /\ \A k \in CostKey : Idle.net[k] = 0
  BY DEF Idle, NothingMoved
<1>2. \A k : Of({}, k) = {}
  BY DEF Of
<1> QED BY <1>1, <1>2, QtyOfNone, FS_EmptySet DEF Tidy, Undoing

\* A step of one transaction that commits nothing.
LEMMA NothingCommitted ==
    ASSUME Corrections, NEW w \in Worker, \A v \in Worker \ {w} : run'[v] = run[v],
           UNCHANGED <<rows, book>>,
           Tidy(run'[w]), Undoing(run'[w], Originals(run'[w].id))
    PROVE  Corrections'
<1>1. \A x : Originals(x)' = Originals(x)
  BY DEF Originals
<1>2. Kept'
  BY DEF Corrections, Kept
<1>3. UndoneWhole'
  BY <1>1 DEF Corrections, UndoneWhole
<1>4. ASSUME NEW v \in Worker PROVE Correction(v)'
  <2>1. Tidy(run'[v]) /\ Undoing(run'[v], Originals(run'[v].id))
    BY DEF Corrections, Correction
  <2> QED BY <1>1, <2>1 DEF Correction
<1> QED BY <1>2, <1>3, <1>4 DEF Corrections

\* The document of a commit is new, or its rows are a reversal's: the originals of
\* a document that has some stay what they are.
LEMMA OriginalsStay ==
    ASSUME TypeOK, FreshRows, Corrections, NEW w \in Worker, Commit(w), NEW x,
           Originals(x) # {}
    PROVE  Originals(x)' = Originals(x)
<1>1. rows' = rows \cup run[w].rows /\ Busy(w)
  BY DEF Commit, Busy
<1>2. \A r \in run[w].rows : r.tx = run[w].tx
  BY DEF FreshRows
<1>3. PICK o \in Originals(x) : o \in rows /\ o.tx = x
  BY DEF Originals, IsReversal
<1>4. x # run[w].tx
  BY <1>1, <1>3 DEF FreshRows
<1>5. \A r \in run[w].rows : ~(r.id = x /\ ~IsReversal(r))
  BY <1>2, <1>4 DEF IsReversal
<1> QED BY <1>1, <1>5 DEF Originals

LEMMA CommitCorrects ==
    ASSUME TypeOK, FreshRows, Corrections, NEW w \in Worker, Commit(w)
    PROVE  Corrections'
<1> DEFINE t == run[w]
<1>1. /\ rows' = rows \cup t.rows /\ Busy(w) /\ t.todo = {}
      /\ book' = [k \in CostKey |-> book[k] + t.net[k]]
      /\ run'[w] = Idle /\ \A v \in Worker \ {w} : run'[v] = run[v]
  BY DEF Commit, Release, Busy, TypeOK
<1>2. Tidy(t) /\ Undoing(t, Originals(t.id)) /\ Kept /\ UndoneWhole
  BY DEF Corrections, Correction
<1>3. /\ \A r \in t.rows : r.tx = t.tx
      /\ \A r \in rows : r.tx # t.tx
      /\ rows \in SUBSET LedgerRow /\ t.rows \in SUBSET LedgerRow
      /\ book \in [CostKey -> Int] /\ t.net \in [CostKey -> Int]
  BY <1>1 DEF FreshRows, TypeOK, Transaction
<1>4. Kept'
  <2>1. IsFiniteSet(rows) /\ IsFiniteSet(t.rows)
    BY <1>2 DEF Kept, Tidy
  <2>2. IsFiniteSet(rows')
    BY <1>1, <2>1, FS_Union
  <2>3. \A r, q \in rows' : r.tx = q.tx =>
          /\ r.id = q.id /\ r.doc = q.doc /\ r.location = q.location
          /\ r.no = q.no => r = q
    <3>1. \A r, q \in rows : r.tx = q.tx =>
            /\ r.id = q.id /\ r.doc = q.doc /\ r.location = q.location
            /\ r.no = q.no => r = q
      BY <1>2 DEF Kept
    <3>2. \A r, q \in t.rows :
            /\ r.id = q.id /\ r.doc = q.doc /\ r.location = q.location
            /\ r.no = q.no => r = q
      BY <1>2 DEF Tidy
    <3> HIDE DEF t
    <3> QED BY <1>1, <1>3, <3>1, <3>2
  <2>4. ASSUME NEW k \in CostKey PROVE book'[k] = QtyOf(Of(rows', k))
    <3>1. Of(rows', k) = Of(rows, k) \cup Of(t.rows, k)
      BY <1>1 DEF Of
    <3>2. Of(rows, k) \cap Of(t.rows, k) = {}
      BY <1>3 DEF Of
    <3>3. /\ Of(rows, k) \in SUBSET LedgerRow /\ IsFiniteSet(Of(rows, k))
          /\ Of(t.rows, k) \in SUBSET LedgerRow /\ IsFiniteSet(Of(t.rows, k))
      BY <1>3, <2>1, OfType
    <3>4. QtyOf(Of(rows', k)) = QtyOf(Of(rows, k)) + QtyOf(Of(t.rows, k))
      BY <3>1, <3>2, <3>3, QtyOfBoth
    <3>5. book[k] = QtyOf(Of(rows, k)) /\ t.net[k] = QtyOf(Of(t.rows, k))
      BY <1>2 DEF Kept, Tidy
    <3> QED BY <1>1, <3>4, <3>5
  <2> QED BY <2>2, <2>3, <2>4 DEF Kept
<1>5. ASSUME NEW r \in rows', IsReversal(r)
      PROVE  /\ \E o \in Originals(r.id)' : r = Mirror(o, r.tx)
             /\ \A o \in Originals(r.id)' : Mirror(o, r.tx) \in rows'
  <2>1. CASE r \in rows
    <3>1. /\ \E o \in Originals(r.id) : r = Mirror(o, r.tx)
          /\ \A o \in Originals(r.id) : Mirror(o, r.tx) \in rows
      BY <1>2, <1>5, <2>1 DEF UndoneWhole
    <3>2. Originals(r.id)' = Originals(r.id)
      BY <3>1, OriginalsStay
    <3> QED BY <1>1, <3>1, <3>2
  <2>2. CASE r \in t.rows
    <3>1. r.tx = t.tx /\ r.id = t.id /\ t.tx # t.id
      BY <1>2, <1>5, <2>2 DEF Tidy, IsReversal
    <3>2. /\ \E o \in Originals(t.id) : r = Mirror(o, t.tx)
          /\ \A o \in Originals(t.id) : Mirror(o, t.tx) \in t.rows
      BY <1>1, <1>2, <2>2, <3>1 DEF Undoing
    <3>3. Originals(r.id)' = Originals(r.id)
      BY <3>1, <3>2, OriginalsStay
    <3> QED BY <1>1, <3>1, <3>2, <3>3
  <2> QED BY <1>1, <2>1, <2>2
<1>6. UndoneWhole'
  BY <1>5 DEF UndoneWhole
<1>7. ASSUME NEW v \in Worker PROVE Correction(v)'
  <2>1. CASE v = w
    BY <1>1, <2>1, IdleCorrect DEF Correction
  <2>2. CASE v # w
    <3>1. run'[v] = run[v] /\ Tidy(run[v]) /\ Undoing(run[v], Originals(run[v].id))
      BY <1>1, <2>2 DEF Corrections, Correction
    <3>2. Undoing(run[v], Originals(run[v].id)')
      <4>1. CASE run[v].tx = run[v].id
        BY <4>1 DEF Undoing
      <4>2. CASE run[v].tx # run[v].id
        <5>1. Originals(run[v].id) # {}
          BY <3>1, <4>2 DEF Undoing
        <5>2. PICK x : x = run[v].id
          OBVIOUS
        <5>3. Originals(x)' = Originals(x)
          BY <5>1, <5>2, OriginalsStay
        <5> QED BY <3>1, <5>2, <5>3
      <4> QED BY <4>1, <4>2
    <3> QED BY <3>1, <3>2 DEF Correction
  <2> QED BY <2>1, <2>2
<1> QED BY <1>4, <1>6, <1>7 DEF Corrections

LEMMA PostLineCorrects ==
    ASSUME TypeOK, Corrections, NEW w \in Worker, NEW l \in run[w].todo,
           NEW newRow, NEW c \in Nat, PostLine(w, l, newRow, c),
           Reversing(w) => c = l.unitCost
    PROVE  Corrections'
<1> DEFINE k == LineKey(w, l)
           t == run[w]
           u == run'[w]
           new == [tx |-> t.tx, id |-> t.id, doc |-> t.doc, no |-> l.no,
                   location |-> t.location, section |-> l.section, item |-> l.item,
                   qty |-> l.qty, unitCost |-> c]
           O == Originals(t.id)
<1>1. t \in Transaction /\ l \in LedgerLine /\ k \in CostKey
  BY LineKeyType
<1>2. new \in LedgerRow
  BY <1>1 DEF LedgerRow, LedgerLine, Transaction
<1>3. KeyOf(new) = k
  BY DEF KeyOf, LineKey
<1>4. /\ u.tx = t.tx /\ u.id = t.id /\ u.doc = t.doc /\ u.location = t.location
      /\ u.todo = t.todo \ {l} /\ u.rows = t.rows \cup {new}
      /\ u.net = [t.net EXCEPT ![k] = t.net[k] + l.qty]
      /\ \A v \in Worker \ {w} : run'[v] = run[v]
  <2>1. /\ u.tx = t.tx /\ u.id = t.id /\ u.doc = t.doc /\ u.location = t.location
        /\ \A v \in Worker \ {w} : run'[v] = run[v]
    BY <1>1 DEF PostLine, TypeOK, Transaction
  <2>2. u.todo = t.todo \ {l}
    BY <1>1 DEF PostLine, TypeOK, Transaction
  <2>3. u.rows = t.rows \cup {new}
    BY <1>1 DEF PostLine, TypeOK, Transaction
  <2>4. u.net = [t.net EXCEPT ![k] = t.net[k] + l.qty]
    BY <1>1 DEF PostLine, TypeOK, Transaction
  <2> QED BY <2>1, <2>2, <2>3, <2>4
<1>5. /\ new.tx = t.tx /\ new.id = t.id /\ new.doc = t.doc /\ new.location = t.location
      /\ new.no = l.no /\ new.qty = l.qty
  OBVIOUS
<1>6. Tidy(t) /\ Undoing(t, O)
  BY DEF Corrections, Correction
<1>7. O \in SUBSET LedgerRow /\ \A o \in O : o.id = t.id
  BY DEF Originals, TypeOK
<1>8. t.tx # t.id => \A o \in O : (o.doc = t.doc /\ o.location = t.location /\ l = MirrorLine(o))
                                   => new = Mirror(o, t.tx)
  BY <1>7 DEF Reversing, MirrorLine, Mirror
<1>9. l \in t.todo
  OBVIOUS
<1> HIDE DEF t, u, k, O, new
<1>10. Undoing(u, O)
  BY <1>1, <1>4, <1>6, <1>7, <1>8, <1>9, PostLineUndoes
<1>11. Tidy(u)
  BY <1>1, <1>2, <1>3, <1>4, <1>5, <1>6, <1>9, PostLineTidy
<1>12. Undoing(u, Originals(u.id))
  BY <1>4, <1>10 DEF O
<1>13. UNCHANGED <<rows, book>>
  BY DEF PostLine
<1> QED BY <1>4, <1>11, <1>12, <1>13, NothingCommitted DEF u

\* A step that only moves the transaction's place in the code.
LEMMA OnlyThePlaceMoves ==
    ASSUME Corrections, NEW w \in Worker,
           /\ run'[w].tx = run[w].tx /\ run'[w].id = run[w].id /\ run'[w].doc = run[w].doc
           /\ run'[w].location = run[w].location /\ run'[w].todo = run[w].todo
           /\ run'[w].rows = run[w].rows /\ run'[w].net = run[w].net,
           \A v \in Worker \ {w} : run'[v] = run[v],
           UNCHANGED <<rows, book>>
    PROVE  Corrections'
<1>1. Tidy(run[w]) /\ Undoing(run[w], Originals(run[w].id))
  BY DEF Corrections, Correction
<1>2. Tidy(run'[w])
  BY <1>1 DEF Tidy
<1>3. Undoing(run'[w], Originals(run'[w].id))
  BY <1>1 DEF Undoing
<1> QED BY <1>2, <1>3, NothingCommitted

LEMMA CorrectionsStep ==
    ASSUME TypeOK, FreshRows, ReadingsHold, Corrections, [Next]_vars
    PROVE  Corrections'
<1>1. ASSUME NEW w \in Worker, NEW d \in Document, Begin(w, d) PROVE Corrections'
  <2>1. /\ run'[w].rows = {} /\ run'[w].tx = run'[w].id /\ run'[w].net = NothingMoved
        /\ run'[w].todo = d.lines
        /\ \A v \in Worker \ {w} : run'[v] = run[v]
        /\ UNCHANGED <<rows, book>>
    BY <1>1 DEF Begin, TypeOK, Idle
  <2>2. \A l, m \in d.lines : l.no = m.no => l = m
    BY LedgerAssumption
  <2>3. \A k \in CostKey : NothingMoved[k] = QtyOf(Of({}, k))
    BY QtyOfNone DEF NothingMoved, Of
  <2>4. Tidy(run'[w])
    BY <2>1, <2>2, <2>3, FS_EmptySet DEF Tidy
  <2>5. Undoing(run'[w], Originals(run'[w].id))
    BY <2>1 DEF Undoing
  <2> QED BY <2>1, <2>4, <2>5, NothingCommitted
<1>2. ASSUME NEW w \in Worker, NEW r \in rows, BeginReversal(w, r) PROVE Corrections'
  <2>1. PICK O : O = Originals(r.id)
    OBVIOUS
  <2> DEFINE mirrors == {MirrorLine(o) : o \in O}
  <2>2. run' = [run EXCEPT ![w] =
                [Idle EXCEPT !.pc = "already", !.tx = lastTx + 1, !.id = r.id,
                             !.doc = r.doc, !.location = r.location,
                             !.before = rows, !.todo = mirrors]]
    BY <1>2, <2>1 DEF BeginReversal, MirrorLine
  <2> HIDE DEF mirrors
  <2>3. /\ run'[w].rows = {} /\ run'[w].id = r.id /\ run'[w].net = NothingMoved
        /\ run'[w].doc = r.doc /\ run'[w].location = r.location /\ run'[w].todo = mirrors
        /\ \A v \in Worker \ {w} : run'[v] = run[v]
    BY <2>2 DEF TypeOK, Idle
  <2>4. UNCHANGED <<rows, book>> /\ r \in O
    BY <1>2, <2>1 DEF BeginReversal
  <2>5. \A o \in O : o \in rows /\ o.tx = r.id
    BY <2>1 DEF Originals, IsReversal
  <2>6. \A o \in O : o.doc = r.doc /\ o.location = r.location
    BY <2>4, <2>5 DEF Corrections, Kept
  <2>7. \A o, p \in O : o.no = p.no => o = p
    BY <2>5 DEF Corrections, Kept
  <2>8. \A l, m \in mirrors : l.no = m.no => l = m
    BY <2>7 DEF mirrors, MirrorLine
  <2>9. \A k \in CostKey : NothingMoved[k] = QtyOf(Of({}, k))
    BY QtyOfNone DEF NothingMoved, Of
  <2>10. Tidy(run'[w])
    BY <2>3, <2>8, <2>9, FS_EmptySet DEF Tidy
  <2>11. Undoing(run'[w], O)
    BY <2>3, <2>4, <2>6 DEF Undoing, mirrors
  <2> QED BY <2>1, <2>3, <2>4, <2>10, <2>11, NothingCommitted
<1>3. ASSUME NEW w \in Worker, CheckAlready(w) PROVE Corrections'
  <2>1. /\ run'[w].tx = run[w].tx /\ run'[w].id = run[w].id /\ run'[w].doc = run[w].doc
        /\ run'[w].location = run[w].location /\ run'[w].todo = run[w].todo
        /\ run'[w].rows = run[w].rows /\ run'[w].net = run[w].net
    BY <1>3 DEF CheckAlready, TypeOK, Transaction
  <2>2. (\A v \in Worker \ {w} : run'[v] = run[v]) /\ UNCHANGED <<rows, book>>
    BY <1>3 DEF CheckAlready, TypeOK
  <2> QED BY <2>1, <2>2, OnlyThePlaceMoves
<1>4. ASSUME NEW w \in Worker, NEW l \in run[w].todo, ReadAverage(w, l) PROVE Corrections'
  <2>1. PICK c : c = Seen(w, LineKey(w, l)).avg
    OBVIOUS
  <2>2. run' = [run EXCEPT ![w] = [run[w] EXCEPT !.pc = "upsert", !.unitCost = c]]
    BY <1>4, <2>1 DEF ReadAverage, TypeOK
  <2>3. /\ run'[w].tx = run[w].tx /\ run'[w].id = run[w].id /\ run'[w].doc = run[w].doc
        /\ run'[w].location = run[w].location /\ run'[w].todo = run[w].todo
        /\ run'[w].rows = run[w].rows /\ run'[w].net = run[w].net
    BY <2>2 DEF TypeOK, Transaction
  <2>4. (\A v \in Worker \ {w} : run'[v] = run[v]) /\ UNCHANGED <<rows, book>>
    BY <1>4, <2>2 DEF ReadAverage, TypeOK
  <2> QED BY <2>3, <2>4, OnlyThePlaceMoves
<1>5. ASSUME NEW w \in Worker, NEW l \in run[w].todo, PostReceiptLine(w, l) PROVE Corrections'
  <2>1. l.unitCost \in Nat /\ ~Reversing(w)
    BY <1>5, LineKeyType DEF PostReceiptLine, ReceiptLine, LedgerLine
  <2> QED BY <1>5, <2>1, PostLineCorrects DEF PostReceiptLine
<1>6. ASSUME NEW w \in Worker, NEW l \in run[w].todo, PostMovementLine(w, l) PROVE Corrections'
  <2>1. run[w].unitCost \in Nat
    BY DEF TypeOK, Transaction
  <2>2. ~Reversing(w)
    BY <1>6 DEF PostMovementLine, ReadingsHold, Busy, Underway
  <2> QED BY <1>6, <2>1, <2>2, PostLineCorrects DEF PostMovementLine
<1>7. ASSUME NEW w \in Worker, NEW l \in run[w].todo, PostReversalLine(w, l) PROVE Corrections'
  <2>1. l.unitCost \in Nat
    BY <1>7 DEF PostReversalLine, TypeOK
  <2> QED BY <1>7, <2>1, PostLineCorrects DEF PostReversalLine
<1>8. ASSUME NEW w \in Worker, Commit(w) PROVE Corrections'
  BY <1>8, CommitCorrects
<1>9. ASSUME NEW w \in Worker, Rollback(w) PROVE Corrections'
  <2>1. /\ run'[w] = Idle /\ \A v \in Worker \ {w} : run'[v] = run[v]
        /\ UNCHANGED <<rows, book>>
    BY <1>9 DEF Rollback, Release, TypeOK
  <2> QED BY <2>1, IdleCorrect, NothingCommitted
<1>10. CASE UNCHANGED vars
  <2>1. \A w \in Worker : run'[w] = run[w] /\ Tidy(run[w]) /\ Undoing(run[w], Originals(run[w].id))
    BY <1>10 DEF vars, Corrections, Correction
  <2>2. UNCHANGED <<rows, book>>
    BY <1>10 DEF vars
  <2> QED BY <1>10 DEF vars, Corrections, Kept, UndoneWhole, Correction, Originals
<1> QED BY <1>1, <1>2, <1>3, <1>4, <1>5, <1>6, <1>7, <1>8, <1>9, <1>10
        DEF Next, Step, Refuse, AbortVictim, Fail

\* A document that was reversed once has moved nothing, whatever ran beside the
\* document and its reversal, and the stock is the sum of the rows.
THEOREM ReversalUndoesDocument == Spec => []ReversalCancels
<1>1. Init => Corrections
  <2> SUFFICES ASSUME Init PROVE Corrections
    OBVIOUS
  <2>1. rows = {} /\ (\A w \in Worker : run[w] = Idle) /\ \A k \in CostKey : book[k] = 0
    BY DEF Init, NothingMoved
  <2>2. \A k : Of({}, k) = {}
    BY DEF Of
  <2>3. Kept
    BY <2>1, <2>2, QtyOfNone, FS_EmptySet DEF Kept
  <2>4. \A w \in Worker : Correction(w)
    BY <2>1, IdleCorrect DEF Correction
  <2> QED BY <2>1, <2>3, <2>4 DEF Corrections, UndoneWhole
<1>2. TypeOK /\ FreshRows /\ ReadingsHold /\ Corrections /\ [Next]_vars => Corrections'
  BY CorrectionsStep
<1>3. TypeOK /\ Corrections => ReversalCancels
  BY CorrectionsCancel
<1> QED BY <1>1, <1>2, <1>3, TypeCorrect, ReadingsAlways, PTL DEF Spec

-----------------------------------------------------------------------------
(* The pool of connections. *)

LEMMA InitHoldings == PoolInit => PoolInvariant
BY DEF PoolInit, PoolInvariant, PoolTypeOK, Holdings, HoldsWhatItNeeds, Exclusive

\* One lemma per action; each says what becomes of the one handler it moves.
LEMMA AskHolds ==
    ASSUME PoolInvariant, NEW h \in Handler, NEW n \in NestedReads[h], Ask(h, n)
    PROVE  PoolInvariant'
<1>1. n \in Nat
  BY PoolAssumption
<1>2. PoolTypeOK'
  BY <1>1 DEF PoolInvariant, PoolTypeOK, Ask
<1>3. n > 0 => h \in Openers
  BY DEF Openers
<1>4. HoldsWhatItNeeds'
  BY <1>1, <1>3 DEF PoolInvariant, PoolTypeOK, Ask, Holdings, HoldsWhatItNeeds
<1>5. Exclusive'
  BY DEF PoolInvariant, Ask, Holdings, Exclusive
<1> QED BY <1>2, <1>4, <1>5 DEF PoolInvariant, Holdings

LEMMA AskAgainHolds ==
    ASSUME PoolInvariant, NEW h \in Handler, AskAgain(h)
    PROVE  PoolInvariant'
<1>1. PoolTypeOK'
  BY DEF PoolInvariant, PoolTypeOK, AskAgain
<1>2. HoldsWhatItNeeds'
  BY DEF PoolInvariant, PoolTypeOK, AskAgain, Holdings, HoldsWhatItNeeds
<1>3. Exclusive'
  BY DEF PoolInvariant, AskAgain, Holdings, Exclusive
<1> QED BY <1>1, <1>2, <1>3 DEF PoolInvariant, Holdings

\* Only a connection nobody has is handed out.
LEMMA GrantFirstHolds ==
    ASSUME PoolInvariant, NEW c \in Connection, GrantFirst(c)
    PROVE  PoolInvariant'
<1> DEFINE h == Head(queue)
<1>1. h \in Handler /\ Tail(queue) \in Seq(Handler)
  BY DEF PoolInvariant, PoolTypeOK, GrantFirst
<1>2. c # None /\ \A g \in Handler : first[g] # c /\ second[g] # c
  BY PoolAssumption DEF GrantFirst, FreeConnections
<1>3. /\ pc[h] = "queued" /\ pc' = [pc EXCEPT ![h] = "tx"]
      /\ first' = [first EXCEPT ![h] = c] /\ queue' = Tail(queue)
      /\ UNCHANGED <<second, left>>
  BY DEF GrantFirst
<1> HIDE DEF h
<1>4. PoolTypeOK'
  BY <1>1, <1>3 DEF PoolInvariant, PoolTypeOK
<1>5. HoldsWhatItNeeds'
  BY <1>1, <1>2, <1>3 DEF PoolInvariant, PoolTypeOK, Holdings, HoldsWhatItNeeds
<1>6. second[h] = None
  BY <1>1, <1>3 DEF PoolInvariant, Holdings, HoldsWhatItNeeds
<1>7. Exclusive'
  BY <1>1, <1>2, <1>3, <1>6 DEF PoolInvariant, PoolTypeOK, Holdings, Exclusive
<1> QED BY <1>4, <1>5, <1>7 DEF PoolInvariant, Holdings

LEMMA GrantSecondHolds ==
    ASSUME PoolInvariant, NEW c \in Connection, GrantSecond(c)
    PROVE  PoolInvariant'
<1> DEFINE h == Head(queue)
<1>1. h \in Handler /\ Tail(queue) \in Seq(Handler)
  BY DEF PoolInvariant, PoolTypeOK, GrantSecond
<1>2. c # None /\ \A g \in Handler : first[g] # c /\ second[g] # c
  BY PoolAssumption DEF GrantSecond, FreeConnections
<1>3. /\ pc[h] = "nested" /\ pc' = [pc EXCEPT ![h] = "both"]
      /\ second' = [second EXCEPT ![h] = c] /\ queue' = Tail(queue)
      /\ UNCHANGED <<first, left>>
  BY DEF GrantSecond
<1> HIDE DEF h
<1>4. PoolTypeOK'
  BY <1>1, <1>3 DEF PoolInvariant, PoolTypeOK
<1>5. HoldsWhatItNeeds'
  BY <1>1, <1>2, <1>3 DEF PoolInvariant, PoolTypeOK, Holdings, HoldsWhatItNeeds
<1>6. Exclusive'
  BY <1>1, <1>2, <1>3 DEF PoolInvariant, PoolTypeOK, Holdings, Exclusive
<1> QED BY <1>4, <1>5, <1>6 DEF PoolInvariant, Holdings

LEMMA ReadDoneHolds ==
    ASSUME PoolInvariant, NEW h \in Handler, ReadDone(h)
    PROVE  PoolInvariant'
<1>1. left[h] \in Nat /\ left[h] > 0 /\ h \in Openers
  BY DEF PoolInvariant, PoolTypeOK, ReadDone, Holdings, HoldsWhatItNeeds
<1>2. PoolTypeOK'
  BY <1>1 DEF PoolInvariant, PoolTypeOK, ReadDone
<1>3. HoldsWhatItNeeds'
  BY <1>1 DEF PoolInvariant, PoolTypeOK, ReadDone, Holdings, HoldsWhatItNeeds
<1>4. Exclusive'
  BY PoolAssumption DEF PoolInvariant, PoolTypeOK, ReadDone, Holdings, Exclusive
<1> QED BY <1>2, <1>3, <1>4 DEF PoolInvariant, Holdings

LEMMA GiveBackHolds ==
    ASSUME PoolInvariant, NEW h \in Handler, pc[h] \in {"tx", "both"}, GiveBack(h)
    PROVE  PoolInvariant'
<1>1. PoolTypeOK'
  BY DEF PoolInvariant, PoolTypeOK, GiveBack
<1>2. HoldsWhatItNeeds'
  BY DEF PoolInvariant, PoolTypeOK, GiveBack, Holdings, HoldsWhatItNeeds
<1>3. Exclusive'
  BY PoolAssumption DEF PoolInvariant, PoolTypeOK, GiveBack, Holdings, Exclusive
<1> QED BY <1>1, <1>2, <1>3 DEF PoolInvariant, Holdings

LEMMA InvariantAlways == PoolSpec => []PoolInvariant
<1>1. PoolInvariant /\ [PoolNext]_poolVars => PoolInvariant'
  <2> SUFFICES ASSUME PoolInvariant, [PoolNext]_poolVars PROVE PoolInvariant'
    OBVIOUS
  <2>1. CASE Grant
    BY <2>1, GrantFirstHolds, GrantSecondHolds DEF Grant
  <2>2. CASE \E h \in Handler : \E n \in NestedReads[h] : Ask(h, n)
    BY <2>2, AskHolds
  <2>3. CASE \E h \in Handler : Proceed(h)
    BY <2>3, AskAgainHolds, ReadDoneHolds, GiveBackHolds DEF Proceed, Done
  <2>4. CASE \E h \in Handler : StatementFails(h)
    BY <2>4, GiveBackHolds DEF StatementFails
  <2>5. CASE UNCHANGED poolVars
    BY <2>5 DEF poolVars, PoolInvariant, PoolTypeOK, Holdings, HoldsWhatItNeeds, Exclusive
  <2> QED BY <2>1, <2>2, <2>3, <2>4, <2>5 DEF PoolNext
<1> QED BY <1>1, InitHoldings, PTL DEF PoolSpec

\* A handler has exactly the connections its place in the code needs, no
\* connection serves two of them, and the API can stop only when every connection
\* is kept by a transaction of openCount that waits for one more.
THEOREM StopsOnlyOneWay == PoolSpec => [](PoolInvariant /\ StuckOnlyByOpens)
<1>1. PoolInvariant => StuckOnlyByOpens
  <2> SUFFICES ASSUME PoolInvariant, Stuck, NEW c \in Connection
               PROVE  \E h \in Handler : pc[h] = "nested" /\ first[h] = c
    BY DEF StuckOnlyByOpens, FullOfOpens
  <2>1. PICK h \in Handler : first[h] = c \/ second[h] = c
    BY DEF Stuck, FreeConnections
  <2>2. c # None /\ pc[h] \notin {"tx", "both"}
    BY PoolAssumption DEF Stuck
  <2>3. second[h] # c
    BY <2>2 DEF PoolInvariant, Holdings, HoldsWhatItNeeds
  <2> QED BY <2>1, <2>2, <2>3 DEF PoolInvariant, Holdings, HoldsWhatItNeeds
<1> QED BY <1>1, InvariantAlways, PTL DEF PoolInvariant

\* When fewer people can open counts than the pool has connections, the API never
\* stops: full pools of any other requests pass.
THEOREM FewOpenersNeverStop ==
    ASSUME IsFiniteSet(Handler), IsFiniteSet(Connection),
           Cardinality(Openers) < Cardinality(Connection)
    PROVE  PoolSpec => []~Stuck
<1>1. PoolInvariant /\ StuckOnlyByOpens => ~Stuck
  <2> SUFFICES ASSUME PoolInvariant, FullOfOpens PROVE FALSE
    BY DEF StuckOnlyByOpens
  <2> DEFINE keeper == [c \in Connection |-> CHOOSE h \in Handler : pc[h] = "nested" /\ first[h] = c]
  <2>1. \A c \in Connection :
          keeper[c] \in Handler /\ pc[keeper[c]] = "nested" /\ first[keeper[c]] = c
    BY DEF FullOfOpens
  <2>2. keeper \in [Connection -> Openers]
    <3> SUFFICES ASSUME NEW c \in Connection PROVE keeper[c] \in Openers
      OBVIOUS
    <3> QED BY <2>1 DEF PoolInvariant, Holdings, HoldsWhatItNeeds
  <2>3. \A c, d \in Connection : keeper[c] = keeper[d] => c = d
    BY <2>1, Zenon
  <2> HIDE DEF keeper
  <2>4. keeper \in Injection(Connection, Openers)
    BY <2>2, <2>3 DEF Injection, IsInjective
  <2>5. IsFiniteSet(Openers)
    BY FS_Subset DEF Openers
  <2>6. Cardinality(Connection) <= Cardinality(Openers)
    BY <2>4, <2>5, FS_Injection, Zenon
  <2>7. Cardinality(Connection) \in Nat /\ Cardinality(Openers) \in Nat
    BY <2>5, FS_CardinalityType
  <2> QED BY <2>6, <2>7
<1> QED BY <1>1, StopsOnlyOneWay, InvariantAlways, PTL

=============================================================================
