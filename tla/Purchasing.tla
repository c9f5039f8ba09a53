----------------------------- MODULE Purchasing -----------------------------
(***************************************************************************)
(* Purchase orders and the deliveries that fill them                        *)
(* (api/src/services/purchasing.ts and grn.ts): an order is raised, decided *)
(* by management, filled by one delivery or several, each booked in the     *)
(* transaction that moves the stock, and finished when every line is        *)
(* covered or when management says so.  A delivery also keeps the history   *)
(* of the prices its supplier charges.                                      *)
(*                                                                          *)
(* Every request is a Handler.  Deciding and closing read the order outside *)
(* their transaction.  A delivery reads it inside, without locks, and the   *)
(* rows it updates stay locked until it commits: a lock is taken in the     *)
(* last step that could come after it, which loses no interleaving, and     *)
(* what a transaction has written and not committed is kept by its handler.  *)
(***************************************************************************)
EXTENDS Integers, Sequences, FiniteSetsExt

CONSTANTS
    Order, Supplier, Handler,
    Goods, Pack,
    ItemOf, Size, \* of each pack: its item, and how many stock units it holds
    Asked,        \* lines of a new order: sequences of [pack, qty]
    Delivered,    \* lines of a delivery: sequences of [pack, qty, price]
    MaxJobs      \* bound: handlers started besides the raising of orders

OrderLine == [pack : Pack, qty : Nat \ {0}]
DeliveryLine == [pack : Pack, qty : Nat \ {0}, price : Nat]
NoOrder == "no order"
NoSupplier == "no supplier"

ASSUME PurchasingAssumption ==
    /\ NoOrder \notin Order
    /\ ItemOf \in [Pack -> Goods]
    /\ Size \in [Pack -> Nat \ {0}]
    /\ \A lines \in Asked : lines \in Seq(OrderLine) /\ lines # << >>
    /\ \A lines \in Delivered : lines \in Seq(DeliveryLine) /\ lines # << >>
    /\ MaxJobs \in Nat

VARIABLES
    order,   \* purchase_orders and purchase_order_lines
    grns,    \* grn, grn_lines and the grn documents of the ledger
    prices,  \* supplier_prices
    serial,  \* the last id given to a delivery
    job, jobs, \* what each handler is doing, and how many were started
    crossed \* history: the orders two handlers worked on at the same time, and
             \* the suppliers two deliveries of which were entered at the same time

purchasingVars == <<order, grns, prices, serial, job, jobs, crossed>>

NoJob == [pc |-> "idle"]
Decisions == {"approved", "rejected", "ordered", "done"}
Finished == {"rejected", "done"}
OPEN_STATUSES == {"requested", "approved", "ordered"}
RECEIVABLE == {"approved", "ordered"}

NoSuchOrder == [status |-> "none", supplier |-> NoSupplier, lines |-> << >>,
                received |-> << >>, closed |-> FALSE, byHand |-> FALSE]

\* The conversion from packs to stock units, made once.
Base(line) == line.qty * Size[line.pack]

LinesOf(i, lines) == {n \in DOMAIN lines : ItemOf[lines[n].pack] = i}
ItemsOf(lines) == {ItemOf[lines[n].pack] : n \in DOMAIN lines}

\* What some lines hold of an item, in stock units.
TotalOf(i, lines) == SumFunction([n \in LinesOf(i, lines) |-> Base(lines[n])])

-----------------------------------------------------------------------------
SameItem(lines, n) == LinesOf(ItemOf[lines[n].pack], lines)

Outstanding(lines, received, n) == Max({0, Base(lines[n]) - received[n]})

\* What line n of an order takes of a delivery: of what the earlier lines of its
\* item leave, what it still wants, and the last line of the item all of it.
Take(lines, received, delivery, n) ==
    LET earlier == {m \in SameItem(lines, n) : m < n}
        arrived == Max({0, TotalOf(ItemOf[lines[n].pack], delivery)
                             - SumFunction([m \in earlier |-> Outstanding(lines, received, m)])})
    IN IF n = Max(SameItem(lines, n)) THEN arrived
       ELSE Min({arrived, Outstanding(lines, received, n)})

\* The lines a delivery updates, with the quantity it writes in each.
Fills(lines, received, delivery) ==
    [n \in {m \in DOMAIN lines : Take(lines, received, delivery, m) > 0} |->
        received[n] + Take(lines, received, delivery, n)]

Covered(lines, received) == \A n \in DOMAIN lines : received[n] >= Base(lines[n])

\* partReceived of GET /purchase-orders: something came, and something is still to come.
PartReceived(o) ==
    LET po == order[o] IN
    /\ \E n \in DOMAIN po.lines : po.received[n] > 0
    /\ \E n \in DOMAIN po.lines : Outstanding(po.lines, po.received, n) > 0

\* What a transaction reads of the lines: the committed rows and its own.
WithFills(received, fills) ==
    [n \in DOMAIN received |-> IF n \in DOMAIN fills THEN fills[n] ELSE received[n]]

-----------------------------------------------------------------------------
Rows(s, p) == {row \in prices : row.supplier = s /\ row.pack = p}

\* Mutant: of two prices of one day, either may be taken for the last.
LastPriceFirst(s, p) ==
    IF Rows(s, p) = {} THEN -1
    ELSE (CHOOSE row \in Rows(s, p) : \A other \in Rows(s, p) : other.grn >= row.grn).price

\* The price the supplier charged last for the pack, -1 when it never did.
LastPrice(s, p) ==
    IF Rows(s, p) = {} THEN -1
    ELSE (CHOOSE row \in Rows(s, p) :
            \A other \in Rows(s, p) :
                \/ other.grn < row.grn
                \/ other.grn = row.grn /\ other.line <= row.line).price

\* The rows a delivery adds: one for each line with another price than the last.
NewPrices(d) ==
    {[grn |-> d.no, line |-> n, supplier |-> d.supplier,
      pack |-> d.lines[n].pack, price |-> d.lines[n].price] :
        n \in {m \in DOMAIN d.lines : d.lines[m].price # d.last[d.lines[m].pack]}}

-----------------------------------------------------------------------------
PurchasingInit ==
    /\ order = [o \in Order |-> NoSuchOrder]
    /\ grns = {}
    /\ prices = {}
    /\ serial = 0
    /\ job = [w \in Handler |-> NoJob]
    /\ jobs = 0
    /\ crossed = {}

Busy == {w \in Handler : job[w] # NoJob}

TakeUp(w, c) ==
    /\ job[w] = NoJob
    /\ jobs < MaxJobs
    /\ jobs' = jobs + 1
    /\ job' = [job EXCEPT ![w] = c]
    /\ crossed' = crossed
         \cup {o \in Order : o = c.order /\ \E v \in Busy : job[v].order = o}
         \cup {s \in Supplier : c.op = "deliver" /\ c.supplier = s
                 /\ \E v \in Busy : job[v].op = "deliver" /\ job[v].supplier = s}

Finish(w) ==
    /\ job' = [job EXCEPT ![w] = NoJob]
    /\ UNCHANGED <<jobs, crossed>>

GoTo(w, c) ==
    /\ job' = [job EXCEPT ![w] = c]
    /\ UNCHANGED <<order, grns, prices, jobs, crossed>>

\* POST /purchase-orders: nothing it reads can change under it.
Raise(o, s, lines) ==
    /\ order[o].status = "none"
    /\ order' = [order EXCEPT ![o] =
                   [NoSuchOrder EXCEPT !.status = "requested", !.supplier = s, !.lines = lines,
                                       !.received = [n \in DOMAIN lines |-> 0]]]
    /\ UNCHANGED <<grns, prices, serial, job, jobs, crossed>>

\* Mutant: an order that is done can be decided again.
MayDecideDone(o, decision, s) ==
    /\ order[o].status \in OPEN_STATUSES \cup {"done"}
    /\ decision = "ordered" => s # NoSupplier \/ order[o].supplier # NoSupplier

MayDecide(o, decision, s) ==
    /\ order[o].status \in OPEN_STATUSES
    /\ decision = "ordered" => s # NoSupplier \/ order[o].supplier # NoSupplier

\* POST /purchase-orders/:id/decide: the checks.  A body that names no supplier
\* leaves the one that was read.
StartDecide(w, o, decision, s) ==
    /\ MayDecide(o, decision, s)
    /\ TakeUp(w, [pc |-> "write", op |-> "decide", order |-> o, decision |-> decision,
                 supplier |-> IF s # NoSupplier THEN s ELSE order[o].supplier])
    /\ UNCHANGED <<order, grns, prices, serial>>

\* The transaction of decidePurchaseOrder.
WriteDecide(w) ==
    LET c == job[w] IN
    /\ c.pc = "write" /\ c.op = "decide"
    /\ order' = [order EXCEPT ![c.order].status = c.decision,
                              ![c.order].supplier = c.supplier,
                              ![c.order].closed = c.decision \in Finished,
                              ![c.order].byHand = c.decision \in Finished]
    /\ Finish(w)
    /\ UNCHANGED <<grns, prices, serial>>

\* POST /purchase-orders/:id/close: the check.
StartClose(w, o) ==
    /\ order[o].status \in OPEN_STATUSES
    /\ TakeUp(w, [pc |-> "write", op |-> "close", order |-> o])
    /\ UNCHANGED <<order, grns, prices, serial>>

\* The transaction of closePurchaseOrderShort.
WriteClose(w) ==
    LET c == job[w] IN
    /\ c.pc = "write" /\ c.op = "close"
    /\ order' = [order EXCEPT ![c.order].status = "done",
                              ![c.order].closed = TRUE,
                              ![c.order].byHand = TRUE]
    /\ Finish(w)
    /\ UNCHANGED <<grns, prices, serial>>

\* POST /grn with a new key, against an order or not: the look at the last prices.
StartDelivery(w, o, s, lines) ==
    /\ o # NoOrder => order[o].status # "none"
    /\ TakeUp(w, [pc |-> "record", op |-> "deliver", order |-> o, supplier |-> s, lines |-> lines,
                 last |-> [p \in Pack |-> LastPrice(s, p)],
                 no |-> 0, fills |-> << >>, complete |-> FALSE])
    /\ UNCHANGED <<order, grns, prices, serial>>

\* The transaction begins: the delivery, its lines and its prices are inserted.
Record(w) ==
    LET d == job[w] IN
    /\ d.pc = "record"
    /\ serial' = serial + 1
    /\ GoTo(w, [d EXCEPT !.no = serial + 1, !.pc = IF d.order = NoOrder THEN "commit" ELSE "order"])

\* applyReceiptToPo reads the order: it must be receivable, and this supplier's.
ReadOrder(w) ==
    LET d == job[w] IN
    /\ d.pc = "order"
    /\ order[d.order].status \in RECEIVABLE
    /\ order[d.order].supplier \in {NoSupplier, d.supplier}
    /\ GoTo(w, [d EXCEPT !.pc = "lines"])
    /\ UNCHANGED serial

\* It reads the lines and works out what each of them takes.
ReadLines(w) ==
    LET d == job[w]
        po == order[d.order]
    IN
    /\ d.pc = "lines"
    /\ GoTo(w, [d EXCEPT !.pc = "fill", !.fills = Fills(po.lines, po.received, d.lines)])
    /\ UNCHANGED serial

\* The lines another delivery has updated and not committed.
LockedLines(w, o) ==
    UNION {DOMAIN job[v].fills :
             v \in {u \in Busy \ {w} : job[u].op = "deliver" /\ job[u].pc = "commit"
                                         /\ job[u].order = o}}

\* It updates them, waiting for their rows, and reads the lines again.
Fill(w) ==
    LET d == job[w]
        po == order[d.order]
    IN
    /\ d.pc = "fill"
    /\ DOMAIN d.fills \cap LockedLines(w, d.order) = {}
    /\ GoTo(w, [d EXCEPT !.pc = "commit",
                         !.complete = Covered(po.lines, WithFills(po.received, d.fills))])
    /\ UNCHANGED serial

\* The order's status, the ledger document, and the end of the transaction.
Commit(w) ==
    LET d == job[w] IN
    /\ d.pc = "commit"
    /\ order' = IF d.order = NoOrder THEN order
                ELSE [order EXCEPT
                        ![d.order].received = WithFills(@, d.fills),
                        ![d.order].status = IF d.complete THEN "done" ELSE "ordered",
                        ![d.order].closed = @ \/ d.complete,
                        ![d.order].byHand = @ /\ ~d.complete]
    /\ grns' = grns \cup {[no |-> d.no, order |-> d.order, supplier |-> d.supplier,
                           lines |-> d.lines]}
    /\ prices' = prices \cup NewPrices(d)
    /\ Finish(w)
    /\ UNCHANGED serial

\* An error, a refusal inside the transaction, or a client or process that is gone:
\* what was not committed never happened.
Lose(w) ==
    /\ job[w] # NoJob
    /\ Finish(w)
    /\ UNCHANGED <<order, grns, prices, serial>>

PurchasingNext ==
    \/ \E o \in Order, s \in Supplier \cup {NoSupplier} : \E lines \in Asked : Raise(o, s, lines)
    \/ \E w \in Handler :
        \/ \E o \in Order :
            \/ \E decision \in Decisions, s \in Supplier \cup {NoSupplier} :
                 StartDecide(w, o, decision, s)
            \/ StartClose(w, o)
        \/ \E o \in Order \cup {NoOrder}, s \in Supplier : \E lines \in Delivered :
             StartDelivery(w, o, s, lines)
        \/ WriteDecide(w) \/ WriteClose(w)
        \/ Record(w) \/ ReadOrder(w) \/ ReadLines(w) \/ Fill(w) \/ Commit(w)
        \/ Lose(w)

PurchasingSpec == PurchasingInit /\ [][PurchasingNext]_purchasingVars

-----------------------------------------------------------------------------
\* What the deliveries booked against an order brought of an item.
BroughtFor(o, i) ==
    SumFunction([g \in {g \in grns : g.order = o} |-> TotalOf(i, g.lines)])

\* "Each line accumulates what has arrived" (purchasing.ts:20): what the lines of an
\* item have received is what all the deliveries booked against the order brought of
\* it, in whatever packs, the surplus included.
ReceivedAsDelivered(o) ==
    \A i \in ItemsOf(order[o].lines) :
        BroughtFor(o, i) = SumFunction([n \in LinesOf(i, order[o].lines) |-> order[o].received[n]])

\* What the list calls part received is an order whose deliveries brought something,
\* and not all of it: line by line it says what the whole says.
PartSaidAsItIs(o) ==
    LET items == ItemsOf(order[o].lines) IN
    PartReceived(o) <=> /\ \E i \in items : BroughtFor(o, i) > 0
                        /\ \E i \in items : BroughtFor(o, i) < TotalOf(i, order[o].lines)

\* "It closes itself only when every line is covered" (purchasing.ts:21): an order
\* that deliveries have brought in full is done, whatever packs they came in, and one
\* that is short of any item is open for the balance until management says otherwise.
DoneWhenDelivered(o) ==
    LET po == order[o]
        inFull == \A n \in DOMAIN po.lines :
                    BroughtFor(o, ItemOf[po.lines[n].pack])
                      >= TotalOf(ItemOf[po.lines[n].pack], po.lines)
    IN po.status # "none" /\ ~po.byHand => (inFull <=> po.status = "done")

\* A finished order is finished: it is never opened again, its lines stand as they
\* are, and closed_at says which orders are finished.
FinishedForGood(o) ==
    /\ order[o].status \in Finished =>
        /\ order'[o].status = order[o].status
        /\ order'[o].received = order[o].received
    /\ order'[o].closed <=> order'[o].status \in Finished

\* An order runs its course: what it says has arrived is what did, it is done exactly
\* when that is all of it, and then for good.  Only handlers of the order that
\* overlap can break any of it.
OrderRunsItsCourse ==
    /\ [](\A o \in Order \ crossed :
            ReceivedAsDelivered(o) /\ PartSaidAsItIs(o) /\ DoneWhenDelivered(o))
    /\ [][\A o \in Order \ crossed' : FinishedForGood(o)]_purchasingVars

\* "The higher id is the later row" (grn.ts:110): for a pack its supplier delivers,
\* the last row of the price history is what the last delivery charged, when that
\* delivery names the pack once and no two of the supplier's overlapped.
PriceHistoryKeepsUp ==
    \A s \in Supplier \ crossed, p \in Pack :
        LET charged == {g \in grns : g.supplier = s /\ \E n \in DOMAIN g.lines : g.lines[n].pack = p}
            latest == CHOOSE g \in charged : \A h \in charged : h.no <= g.no
            priced == {row \in prices : row.supplier = s /\ row.pack = p}
            last == CHOOSE row \in priced :
                      \A other \in priced :
                          \/ other.grn < row.grn
                          \/ other.grn = row.grn /\ other.line <= row.line
            named == {n \in DOMAIN latest.lines : latest.lines[n].pack = p}
        IN (charged # {} /\ Cardinality(named) = 1) =>
              /\ priced # {}
              /\ \A n \in named : last.price = latest.lines[n].price
=============================================================================
