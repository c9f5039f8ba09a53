------------------------------- MODULE Ledger -------------------------------
(***************************************************************************)
(* The stock ledger (api/src/services/ledger.ts) at the grain of its SQL    *)
(* statements.  Every document of the system -- delivery, issue, wastage,   *)
(* count, transfer, return -- reaches the stock through postDocument or     *)
(* reverseDocument, each inside a READ COMMITTED transaction of the         *)
(* document that calls it.  A transaction here is one database connection   *)
(* (a Worker) that walks the lines of one document: it locks the            *)
(* item_cost_state row of each line when it upserts it, keeps the locks and *)
(* its uncommitted rows until it commits, and may be rolled back at any     *)
(* statement by an error, by a lost connection or as the victim of a        *)
(* deadlock.                                                                *)
(*                                                                          *)
(* Quantities and prices are integers in the smallest unit the columns hold *)
(* (numeric(14,3) and numeric(14,4)); the average is rounded as the column  *)
(* rounds it.                                                               *)
(***************************************************************************)
EXTENDS Integers, FiniteSets, Functions

CONSTANTS
    Item, Section, Location, \* master data, never changed here
    Worker,                  \* connections of the pool that run a document
    Document,                \* the documents the services may post
    MaxTx,                   \* bound: transactions ever started
    Free                     \* "no transaction holds this row's lock"

DocType == {"grn", "issue", "return", "wastage", "transfer", "count", "opening"}

\* Movements that establish or change cost; everything else consumes it.
RECEIPT_DOCS == {"grn", "opening"}

\* The documents POST /documents/:doc/:id/reverse takes.
Reversible == {"grn", "issue", "wastage", "transfer", "count", "opening"}

\* unitCost of a line whose service left it undefined.
Unpriced == -1

\* qty is signed: negative removes stock.  no is the position of the line.
LedgerLine == [no : Nat, section : Section, item : Item, qty : Int,
               unitCost : Nat \cup {Unpriced}]

DocumentType == [doc : DocType, location : Location, lines : SUBSET LedgerLine]

ASSUME LedgerAssumption ==
    /\ MaxTx \in Nat
    /\ Location # {}
    /\ Free \notin Worker
    /\ Document \subseteq DocumentType
    /\ \A d \in Document : \A l, m \in d.lines : l.no = m.no => l = m

CostKey == Location \X Item

\* A row of stock_ledger.  tx is the transaction that wrote it and <<doc, id>>
\* the document it belongs to: the id of a document is the transaction that
\* first posted it, so is_reversal is tx # id, and the row a reversal row
\* points at (reverses_id) is the one of the same document and line with tx = id.
LedgerRow == [tx : Nat, id : Nat, doc : DocType, no : Nat, location : Location,
              section : Section, item : Item, qty : Int, unitCost : Nat]

\* A row of item_cost_state.  A missing row behaves in every statement as one
\* with nothing on hand at average 0.
CostRow == [qty : Int, avg : Nat]

\* What a worker is doing.  "already" is reverseDocument between its two
\* selects, "line" is about to handle a line, "upsert" has read the average for
\* line and is about to write it.  todo holds the lines still to post; before is
\* history, the rows that were committed when the transaction began.
Phase == {"idle", "already", "line", "upsert"}

Transaction == [pc : Phase, tx : Nat, id : Nat, doc : DocType,
                location : Location, todo : SUBSET LedgerLine,
                unitCost : Nat, rows : SUBSET LedgerRow, net : [CostKey -> Int],
                before : SUBSET LedgerRow]

VARIABLES
    rows,    \* stock_ledger, committed
    cost,    \* item_cost_state, committed
    book,    \* sum of qty over the committed rows of a location and item
    lock,    \* who holds the row lock of item_cost_state[key]
    dirty,   \* the version of item_cost_state[key] its holder has written
    run,     \* what each worker is doing
    lastTx   \* transactions started so far

vars == <<rows, cost, book, lock, dirty, run, lastTx>>

NothingMoved == [k \in CostKey |-> 0]

IsReversal(r) == r.tx # r.id
IsReceipt(r)  == r.doc \in RECEIPT_DOCS /\ r.qty > 0 /\ ~IsReversal(r)
KeyOf(r)      == <<r.location, r.item>>

Originals(id) == {r \in rows : r.id = id /\ ~IsReversal(r)}

Busy(w)      == run[w].pc # "idle"
Reversing(w) == run[w].tx # run[w].id
LineKey(w, l) == <<run[w].location, l.item>>

\* postDocument walks its lines in order; the select of reverseDocument has no
\* order by, so a reversal may take them in any order.
NextLine(w, l) ==
    /\ l \in run[w].todo
    /\ Reversing(w) \/ \A m \in run[w].todo : l.no <= m.no

ReceiptLine(w, l) ==
    run[w].doc \in RECEIPT_DOCS /\ l.qty > 0 /\ ~Reversing(w)

\* numeric division rounded half up to the column's scale; y > 0 and x >= 0.
RoundedDiv(x, y) == (2 * x + y) \div (2 * y)

\* The CASE of applyReceiptCost: what a receipt of qty at price makes of a row.
Received(row, qty, price) ==
    [qty |-> row.qty + qty,
     avg |-> IF row.qty + qty <= 0 \/ row.qty <= 0 THEN price
             ELSE RoundedDiv(row.qty * row.avg + qty * price, row.qty + qty)]

\* Mutant: the average is forgotten when the last of the stock leaves.
AdjustedForgets(row, qty) ==
    [qty |-> row.qty + qty, avg |-> IF row.qty + qty = 0 THEN 0 ELSE row.avg]

\* adjustQtyOnHand: the average stays.
Adjusted(row, qty) == [row EXCEPT !.qty = @ + qty]

\* A statement sees the transaction's own writes and what others committed.
Seen(w, k) == IF lock[k] = w THEN dirty[k] ELSE cost[k]

-----------------------------------------------------------------------------
Idle == [pc |-> "idle", tx |-> 0, id |-> 0, doc |-> "issue",
         location |-> CHOOSE l \in Location : TRUE, todo |-> {},
         unitCost |-> 0, rows |-> {}, net |-> NothingMoved, before |-> {}]

Init ==
    /\ rows = {}
    /\ cost = [k \in CostKey |-> [qty |-> 0, avg |-> 0]]
    /\ book = NothingMoved
    /\ lock = [k \in CostKey |-> Free]
    /\ dirty = cost
    /\ run = [w \in Worker |-> Idle]
    /\ lastTx = 0

\* A document service opens its transaction, writes the document row and calls
\* postDocument, which refuses an empty document before it writes anything.
Begin(w, d) ==
    /\ ~Busy(w)
    /\ lastTx < MaxTx
    /\ d.lines # {}
    /\ lastTx' = lastTx + 1
    /\ run' = [run EXCEPT ![w] =
                [Idle EXCEPT !.pc = "line", !.tx = lastTx + 1, !.id = lastTx + 1,
                             !.doc = d.doc, !.location = d.location,
                             !.todo = d.lines, !.before = rows]]
    /\ UNCHANGED <<rows, cost, book, lock, dirty>>

\* Mutant: the mirrored rows keep the sign of the originals.
BeginReversalSameSign(w, r) ==
    /\ ~Busy(w)
    /\ lastTx < MaxTx
    /\ r \in Originals(r.id) /\ r.doc \in Reversible
    /\ lastTx' = lastTx + 1
    /\ run' = [run EXCEPT ![w] =
                [Idle EXCEPT !.pc = "already", !.tx = lastTx + 1, !.id = r.id,
                             !.doc = r.doc, !.location = r.location, !.before = rows,
                             !.todo = {[no |-> o.no, section |-> o.section,
                                        item |-> o.item, qty |-> o.qty,
                                        unitCost |-> o.unitCost] : o \in Originals(r.id)}]]
    /\ UNCHANGED <<rows, cost, book, lock, dirty>>

\* Management reverses a document; reverseDocument selects its original rows,
\* none is an error.
BeginReversal(w, r) ==
    /\ ~Busy(w)
    /\ lastTx < MaxTx
    /\ r \in Originals(r.id) /\ r.doc \in Reversible
    /\ lastTx' = lastTx + 1
    /\ run' = [run EXCEPT ![w] =
                [Idle EXCEPT !.pc = "already", !.tx = lastTx + 1, !.id = r.id,
                             !.doc = r.doc, !.location = r.location, !.before = rows,
                             !.todo = {[no |-> o.no, section |-> o.section,
                                        item |-> o.item, qty |-> -o.qty,
                                        unitCost |-> o.unitCost] : o \in Originals(r.id)}]]
    /\ UNCHANGED <<rows, cost, book, lock, dirty>>

\* The select of rows that already reverse one of the originals.
AlreadyReversed(id) == \E r \in rows : r.id = id /\ IsReversal(r)

\* Mutant: nobody looks for an earlier reversal.
CheckNothing(w) ==
    /\ run[w].pc = "already"
    /\ run' = [run EXCEPT ![w].pc = "line"]
    /\ UNCHANGED <<rows, cost, book, lock, dirty, lastTx>>

CheckAlready(w) ==
    /\ run[w].pc = "already"
    /\ ~AlreadyReversed(run[w].id)
    /\ run' = [run EXCEPT ![w].pc = "line"]
    /\ UNCHANGED <<rows, cost, book, lock, dirty, lastTx>>

\* currentAverageCost of a movement that is not a receipt.  A zero quantity is
\* refused first.
ReadAverage(w, l) ==
    /\ run[w].pc = "line"
    /\ NextLine(w, l)
    /\ ~Reversing(w) /\ ~ReceiptLine(w, l) /\ l.qty # 0
    /\ run' = [run EXCEPT ![w].pc = "upsert",
                          ![w].unitCost = Seen(w, LineKey(w, l)).avg]
    /\ UNCHANGED <<rows, cost, book, lock, dirty, lastTx>>

\* The upsert of item_cost_state, which waits for the row's lock, and the
\* insert of the ledger row, which waits for nothing.
PostLine(w, l, newRow, unitCost) ==
    LET k == LineKey(w, l) IN
    /\ lock[k] \in {Free, w}
    /\ lock' = [lock EXCEPT ![k] = w]
    /\ dirty' = [dirty EXCEPT ![k] = newRow]
    /\ run' = [run EXCEPT
                ![w].pc = "line",
                ![w].todo = @ \ {l},
                ![w].net[k] = @ + l.qty,
                ![w].rows = @ \cup
                   {[tx |-> run[w].tx, id |-> run[w].id, doc |-> run[w].doc,
                     no |-> l.no, location |-> run[w].location,
                     section |-> l.section, item |-> l.item, qty |-> l.qty,
                     unitCost |-> unitCost]}]
    /\ UNCHANGED <<rows, cost, book, lastTx>>

\* A receipt line: applyReceiptCost, valued at the price actually paid.
PostReceiptLine(w, l) ==
    /\ run[w].pc = "line"
    /\ NextLine(w, l) /\ ReceiptLine(w, l)
    /\ l.unitCost # Unpriced
    /\ PostLine(w, l, Received(Seen(w, LineKey(w, l)), l.qty, l.unitCost), l.unitCost)

\* Any other line: adjustQtyOnHand, valued at the average read before it.
PostMovementLine(w, l) ==
    /\ run[w].pc = "upsert"
    /\ NextLine(w, l)
    /\ PostLine(w, l, Adjusted(Seen(w, LineKey(w, l)), l.qty), run[w].unitCost)

\* Mutant: the mirrored rows do not reach item_cost_state.
PostReversalLineOnly(w, l) ==
    /\ run[w].pc = "line" /\ Reversing(w)
    /\ NextLine(w, l)
    /\ PostLine(w, l, Seen(w, LineKey(w, l)), l.unitCost)

\* A mirrored row, valued as the row it undoes.
PostReversalLine(w, l) ==
    /\ run[w].pc = "line" /\ Reversing(w)
    /\ NextLine(w, l)
    /\ PostLine(w, l, Adjusted(Seen(w, LineKey(w, l)), l.qty), l.unitCost)

Release(w, version) ==
    /\ lock' = [k \in CostKey |-> IF lock[k] = w THEN Free ELSE lock[k]]
    /\ dirty' = [k \in CostKey |-> IF lock[k] = w THEN version[k] ELSE dirty[k]]
    /\ run' = [run EXCEPT ![w] = Idle]
    /\ UNCHANGED lastTx

Commit(w) ==
    /\ run[w].pc = "line" /\ run[w].todo = {}
    /\ rows' = rows \cup run[w].rows
    /\ cost' = [k \in CostKey |-> Seen(w, k)]
    /\ book' = [k \in CostKey |-> book[k] + run[w].net[k]]
    /\ Release(w, dirty)

Rollback(w) ==
    /\ Busy(w)
    /\ Release(w, cost)
    /\ UNCHANGED <<rows, cost, book>>

\* The errors postDocument and reverseDocument raise once they are under way.
Refusal(w) ==
    \/ /\ run[w].pc = "already"
       /\ AlreadyReversed(run[w].id)
    \/ /\ run[w].pc = "line" /\ ~Reversing(w)
       /\ \E l \in run[w].todo :
            /\ NextLine(w, l)
            /\ l.qty = 0 \/ (ReceiptLine(w, l) /\ l.unitCost = Unpriced)

Refuse(w) == Refusal(w) /\ Rollback(w)

\* An error elsewhere in the caller's transaction, or the connection is lost.
Fail(w) == Rollback(w)

\* w's next statement needs a row u holds.
WaitsFor(w, u) ==
    /\ u # w
    /\ \E l \in run[w].todo :
         /\ NextLine(w, l)
         /\ \/ run[w].pc = "upsert"
            \/ run[w].pc = "line" /\ Reversing(w)
            \/ run[w].pc = "line" /\ ReceiptLine(w, l)
         /\ lock[LineKey(w, l)] = u

\* Mutant: the database never looks for a cycle of waiters.
NeverDeadlocked(w) == FALSE

Deadlocked(w) ==
    \E C \in SUBSET Worker :
        /\ w \in C
        /\ \A u \in C : (\E v \in C : WaitsFor(u, v)) /\ (\E v \in C : WaitsFor(v, u))

\* PostgreSQL aborts one transaction of a cycle of waiters.
AbortVictim(w) == Deadlocked(w) /\ Rollback(w)

Step(w) ==
    \/ CheckAlready(w)
    \/ \E l \in run[w].todo : ReadAverage(w, l)
    \/ \E l \in run[w].todo : PostReceiptLine(w, l)
    \/ \E l \in run[w].todo : PostMovementLine(w, l)
    \/ \E l \in run[w].todo : PostReversalLine(w, l)
    \/ Commit(w)
    \/ Refuse(w)
    \/ AbortVictim(w)

Next ==
    \E w \in Worker :
        \/ \E d \in Document : Begin(w, d)
        \/ \E r \in rows : BeginReversal(w, r)
        \/ Step(w)
        \/ Fail(w)

Spec == Init /\ [][Next]_vars

\* A running transaction goes on by itself: the service awaits each statement
\* and nothing in the handler waits for a person.
FairSpec == Spec /\ \A w \in Worker : WF_vars(Step(w))

-----------------------------------------------------------------------------
\* Every variable has its shape, the uncommitted versions and rows included, and
\* a mirrored line carries the price of the row it undoes.
TypeOK ==
    /\ rows \subseteq LedgerRow
    /\ cost \in [CostKey -> CostRow]
    /\ book \in [CostKey -> Int]
    /\ lock \in [CostKey -> Worker \cup {Free}]
    /\ dirty \in [CostKey -> CostRow]
    /\ run \in [Worker -> Transaction]
    /\ \A w \in Worker : Reversing(w) => \A l \in run[w].todo : l.unitCost \in Nat
    /\ lastTx \in 0 .. MaxTx

\* The quantity item_cost_state carries for a location is the ledger's own sum:
\* no order of two documents, no rollback and no reversal makes the figure that
\* values the stock differ from the stock.
CostMatchesBook == \A k \in CostKey : cost[k].qty = book[k]

\* A sum(qty_base) over rows, as current_stock takes it.
QtyOf(S) == SumFunction([r \in S |-> r.qty])

\* A reversal undoes the whole document: what a document reversed once moved in
\* and out of each section nets to zero.  And the stock, which is kept here as it
\* commits, is the sum the view takes over the committed rows, so that the stock is
\* back too.
ReversalCancels ==
    /\ \A k \in CostKey : book[k] = QtyOf({r \in rows : KeyOf(r) = k})
    /\ \A o \in rows :
        Cardinality({r.tx : r \in {q \in rows : q.id = o.id /\ IsReversal(q)}}) = 1 =>
            QtyOf({r \in rows : r.id = o.id /\ r.section = o.section /\ r.item = o.item}) = 0

\* What a connection has written and not committed: a cost row nobody holds is
\* the committed one, and a held one differs from it by what its holder alone has
\* posted there, so no two documents ever work on the same version.
RowLocks ==
    \A k \in CostKey :
        /\ lock[k] = Free => dirty[k] = cost[k]
        /\ \A w \in Worker :
            /\ lock[k] = w => Busy(w) /\ dirty[k].qty = cost[k].qty + run[w].net[k]
            /\ lock[k] # w => run[w].net[k] = 0

\* The average is never above the dearest price paid for the item there, however
\* receipts, issues below zero, reversals and rounding interleave.
AverageNeverAbovePaid ==
    \A k \in CostKey :
        \/ cost[k].avg = 0
        \/ \E r \in rows : IsReceipt(r) /\ KeyOf(r) = k /\ cost[k].avg <= r.unitCost

\* "Issues, wastage and count adjustments read the average and must not move it":
\* the average of an item changes only in the commit that adds a receipt of it.
OnlyReceiptsMoveAverage ==
    [][\A k \in CostKey :
        cost'[k].avg # cost[k].avg =>
            \E r \in rows' \ rows : IsReceipt(r) /\ KeyOf(r) = k]_vars

\* An uncommitted average differs from the committed one only by the holder's own
\* receipts of the item, and is above it only up to the dearest of them.
PendingAverages ==
    \A w \in Worker, k \in CostKey :
        lock[k] = w =>
            /\ dirty[k].avg # cost[k].avg =>
                  \E r \in run[w].rows : IsReceipt(r) /\ KeyOf(r) = k
            /\ dirty[k].avg > cost[k].avg =>
                  \E r \in run[w].rows :
                      IsReceipt(r) /\ KeyOf(r) = k /\ dirty[k].avg <= r.unitCost

\* Rows carry the number of the transaction that wrote them, which no other
\* transaction, running or committed, shares.
FreshRows ==
    /\ \A r \in rows : r.tx <= lastTx
    /\ \A w \in Worker :
        /\ run[w].tx <= lastTx
        /\ \A r \in run[w].rows : Busy(w) /\ r.tx = run[w].tx
        /\ Busy(w) => \A r \in rows : r.tx # run[w].tx
        /\ \A v \in Worker \ {w} : Busy(w) /\ Busy(v) => run[w].tx # run[v].tx

\* What is uncommitted: the three facts above together.
Uncommitted == RowLocks /\ PendingAverages /\ FreshRows

\* A document is reversed again only by a reversal that was already under way when
\* the other one committed.
ReversedTwiceOnlyTogether ==
    [][\A r \in rows' \ rows, q \in rows :
        (IsReversal(r) /\ IsReversal(q) /\ q.id = r.id) =>
            \E w \in Worker : run[w].tx = r.tx /\ q \notin run[w].before]_vars

\* "Every other movement records the weighted average at the time it happened":
\* a movement that is not a receipt is committed with the average in force, unless
\* a receipt of the item was committed after its transaction began.
ValuedAtCurrentAverage ==
    [][\A r \in rows' \ rows :
        (~IsReceipt(r) /\ ~IsReversal(r)) =>
            \/ r.unitCost = cost[KeyOf(r)].avg
            \/ \E w \in Worker :
                /\ run[w].tx = r.tx
                /\ \E q \in rows' \ run[w].before : IsReceipt(q) /\ KeyOf(q) = KeyOf(r)]_vars

\* What one transaction decides on an old reading of another's work it decides only
\* while the two overlap: a document is not undone twice (FR-DOC-03) and a movement
\* not valued at an average that is gone by handlers that follow each other.
StaleOnlyTogether == ReversedTwiceOnlyTogether /\ ValuedAtCurrentAverage

\* Every transaction ends, with a commit or a rollback: lines taken in opposite
\* orders by two documents can make them wait for each other but not for ever.
EveryTransactionEnds == \A w \in Worker : Busy(w) ~> ~Busy(w)
=============================================================================
