---------------------------- MODULE TradeReports ----------------------------
(***************************************************************************)
(* The reports about dealing with suppliers and serving the sections:      *)
(* price movement (services/reports.ts C), orders still out, service       *)
(* level, suppliers and returns (services/reports-ops.ts F, G, H and       *)
(* returns), the supplier price list (routes/setup.ts) and the list of     *)
(* returns (routes/returns.ts).  The papers they read move here in whole   *)
(* steps; how two of those steps interleave is the business of Purchasing, *)
(* Returns and Requests.  Prices, orders, asks and returns share no row,   *)
(* so a behaviour follows one kind of paper.                               *)
(***************************************************************************)
EXTENDS Integers, Sequences, FiniteSetsExt, Functions

CONSTANTS Suppliers, Reasons, Amounts,
          WarnPct,      \* PRICE_WARN_PCT, the warning at the door
          MovePct,      \* minPct of the price movement report
          Window,       \* days a report looks back, today left out
          LastDay, MaxRows, MaxPapers   \* bounds: days, price rows, papers

ASSUME TradeReportsAssumption ==
    /\ IsFiniteSet(Suppliers) /\ IsFiniteSet(Reasons) /\ Amounts \subseteq Nat
    /\ WarnPct \in Nat \ {0} /\ MovePct \in 0..WarnPct
    /\ Window \in Nat /\ LastDay \in Nat /\ MaxRows \in Nat /\ MaxPapers \in Nat

VARIABLES paper,      \* which kind of paper this behaviour follows
          today,
          prices,     \* supplier_prices of one supplier and pack, by id
          deliveries, \* what was paid, and against what it was judged
          orders,     \* purchase_orders
          asks,       \* issues with their line
          returns     \* supplier_returns with their lines

tradeVars == <<paper, today, prices, deliveries, orders, asks, returns>>

Nobody == "nobody"
Never  == -1
InWindow == (today - Window)..today     \* resolveRange

Sum(f(_), S) == SumFunction([x \in S |-> f(x)])

-----------------------------------------------------------------------------
(* Prices. *)

Change(old, new) == IF new >= old THEN new - old ELSE old - new
Before(m, n) == prices[m].from < prices[n].from \/ (prices[m].from = prices[n].from /\ m < n)

(* Mutant: of two prices of one day, the first stays the latest. *)
LatestByDate ==
    CHOOSE n \in DOMAIN prices : \A m \in DOMAIN prices \ {n} :
        prices[m].from < prices[n].from \/ (prices[m].from = prices[n].from /\ n < m)
(* The latest row by effective_from and id: createGrn's previous price and what
   GET /suppliers/:id/last-prices shows at the door. *)
Latest == CHOOSE n \in DOMAIN prices : \A m \in DOMAIN prices \ {n} : Before(m, n)
LastPrice == IF prices = <<>> THEN Never ELSE prices[Latest].price

PriceWarning(old, new) == old > 0 /\ 100 * Change(old, new) >= WarnPct * old

(* createGrn: judged against the last price, recorded when it differs. *)
DeliverAt(price) ==
    /\ Len(deliveries) < MaxPapers
    /\ deliveries' = Append(deliveries,
           [price |-> price, last |-> LastPrice, day |-> today, rows |-> Len(prices),
            warned |-> PriceWarning(LastPrice, price)])
    /\ prices' = IF price = LastPrice THEN prices
                 ELSE Append(prices, [price |-> price, from |-> today, agreed |-> FALSE])

(* POST /setup/suppliers/:id/prices: a price agreed from any day. *)
AgreePrice(price, from) ==
    /\ Len(prices) < MaxRows
    /\ prices' = Append(prices, [price |-> price, from |-> from, agreed |-> TRUE])
    /\ UNCHANGED deliveries

(* C: each row against the one before it. *)
Lag(n) == LET earlier == {m \in DOMAIN prices : Before(m, n)}
          IN  IF earlier = {} THEN Never
              ELSE prices[CHOOSE m \in earlier : \A k \in earlier \ {m} : Before(k, m)].price
PriceMovement(from, to) ==
    {[day |-> prices[n].from, previous |-> Lag(n), price |-> prices[n].price] :
        n \in {m \in DOMAIN prices : /\ prices[m].from \in from..to
                                     /\ Lag(m) > 0
                                     /\ 100 * Change(Lag(m), prices[m].price) >= MovePct * Lag(m)}}

-----------------------------------------------------------------------------
(* Orders. *)

OPEN_STATUSES == {"requested", "approved", "ordered"}
FINISHED      == {"rejected", "done"}
RECEIVABLE    == {"approved", "ordered"}

(* How late the open list says an order is; late keeps, of an order that is
   closed, whether it said so then. *)
DaysLate(o) == IF orders[o].needed = Never THEN 0 ELSE Max({0, today - orders[o].needed})

RaiseOrder(supplier, needed) ==
    /\ Len(orders) < MaxPapers
    /\ orders' = Append(orders,
           [status |-> "requested", supplier |-> supplier, raised |-> today,
            needed |-> needed, closed |-> Never, late |-> FALSE, asked |-> 2, received |-> 0])

DecideOrder(o, decision, supplier) ==
    LET named == IF supplier = Nobody THEN orders[o].supplier ELSE supplier
    IN  /\ orders[o].status \in OPEN_STATUSES
        /\ decision = "ordered" => named # Nobody
        /\ orders' = [orders EXCEPT ![o].status = decision, ![o].supplier = named,
                          ![o].closed = IF decision \in FINISHED THEN today ELSE Never,
                          ![o].late   = decision \in FINISHED /\ DaysLate(o) > 0]

ReceiveOrder(o, qty) ==
    LET received == orders[o].received + qty
    IN  /\ orders[o].status \in RECEIVABLE
        /\ orders' = [orders EXCEPT ![o].received = received,
                          ![o].status = IF received >= orders[o].asked THEN "done" ELSE "ordered",
                          ![o].closed = IF received >= orders[o].asked THEN today ELSE @,
                          ![o].late   = received >= orders[o].asked /\ DaysLate(o) > 0]

(* F *)
OpenPurchaseOrders ==
    {o \in DOMAIN orders : orders[o].status \in OPEN_STATUSES /\ orders[o].raised \in InWindow}
OutstandingValue(o) == Max({0, orders[o].asked - orders[o].received})

(* H, the half about orders. *)
Ordered(s) == {o \in DOMAIN orders : orders[o].supplier = s /\ orders[o].raised \in InWindow}
(* Mutant: due on the day is late on the day. *)
LateFromTheDay(s) ==
    {o \in Ordered(s) : /\ orders[o].closed # Never /\ orders[o].needed # Never
                        /\ orders[o].closed >= orders[o].needed}
LateOrders(s) ==
    {o \in Ordered(s) : /\ orders[o].closed # Never /\ orders[o].needed # Never
                        /\ orders[o].closed > orders[o].needed}
OrderFill(s) == [ordered  |-> Sum(LAMBDA o : orders[o].asked, Ordered(s)),
                 received |-> Sum(LAMBDA o : orders[o].received, Ordered(s))]

-----------------------------------------------------------------------------
(* Asks of the sections. *)

Ask ==
    /\ Len(asks) < MaxPapers
    /\ asks' = Append(asks, [status |-> "requested", at |-> today, asked |-> 2, issued |-> 0])
Release(a, qty) ==
    /\ asks[a].status = "requested"
    /\ asks' = [asks EXCEPT ![a].status = "released", ![a].issued = qty]
Cancel(a) ==
    /\ asks[a].status = "requested"
    /\ asks' = [asks EXCEPT ![a].status = "cancelled"]

(* G *)
Served       == {a \in DOMAIN asks : asks[a].status # "cancelled" /\ asks[a].at \in InWindow}
StillWaiting == {a \in Served : asks[a].status = "requested"}
LinesInFull  == {a \in Served : asks[a].issued >= asks[a].asked}
LinesShort   == {a \in Served : asks[a].issued < asks[a].asked}

-----------------------------------------------------------------------------
(* Returns. *)

LineCredit == 2   \* packs times the price paid, of every line

RaiseReturn(supplier, reason, lines) ==
    /\ Len(returns) < MaxPapers
    /\ returns' = Append(returns,
           [status |-> "raised", supplier |-> supplier, reason |-> reason, raised |-> today,
            decision |-> [l \in 1..lines |-> "none"], binned |-> FALSE,
            outcome |-> "none", credit |-> 0])

DecideReturn(r, decision) ==
    /\ returns[r].status = "raised"
    /\ returns' = [returns EXCEPT ![r].status = "approved", ![r].decision = decision]

Marked(r, decision) ==
    {l \in DOMAIN returns[r].decision : returns[r].decision[l] = decision}

(* binDecidedLines with settleIfFinished. *)
BinReturn(r) ==
    /\ returns[r].status \in {"approved", "sent", "settled"}
    /\ Marked(r, "waste") # {} /\ ~returns[r].binned
    /\ returns' = [returns EXCEPT ![r].binned = TRUE,
           ![r].status  = IF Marked(r, "vendor") = {} THEN "settled" ELSE @,
           ![r].outcome = IF Marked(r, "vendor") = {} THEN "written_off" ELSE @]

SendReturn(r) ==
    /\ returns[r].status = "approved" /\ Marked(r, "vendor") # {}
    /\ returns' = [returns EXCEPT ![r].status = "sent"]

SettleReturn(r, outcome, credit) ==
    /\ returns[r].status = "sent"
    /\ returns' = [returns EXCEPT ![r].status = "settled", ![r].outcome = outcome,
                                  ![r].credit = credit]

Asked(r) == LineCredit * Len(returns[r].decision)
(* GET /supplier-returns: what is claimed, and what was written off. *)
ExpectedCredit(r) == LineCredit * Cardinality(DOMAIN returns[r].decision \ Marked(r, "waste"))

Counted == {r \in DOMAIN returns : returns[r].status # "rejected" /\ returns[r].raised \in InWindow}
Credits(R) ==
    Sum(LAMBDA r : returns[r].credit,
        {r \in R : returns[r].status = "settled" /\ returns[r].outcome = "credit"})
(* H, the half about returns, and returnsByReason. *)
BySupplier(s) == {r \in Counted : returns[r].supplier = s}
(* Mutant: the reason table counts an ask once it is decided. *)
ByReasonDecided(c) == {r \in Counted : returns[r].reason = c /\ returns[r].status # "raised"}
ByReason(c) == {r \in Counted : returns[r].reason = c}
ReturnedValue(R) == Sum(Asked, R)
(* openReturns: the chase list; the card above it sums the reasons. *)
OpenReturns ==
    {r \in DOMAIN returns : /\ returns[r].status \in {"raised", "approved", "sent"}
                            /\ returns[r].raised \in InWindow}
returnsOutstanding ==
    Sum(LAMBDA c : ReturnedValue(ByReason(c)) - Credits(ByReason(c)), Reasons)

-----------------------------------------------------------------------------
Others(kind) == paper = kind /\ UNCHANGED <<paper, today>>

NextDay == today < LastDay /\ today' = today + 1
        /\ UNCHANGED <<paper, prices, deliveries, orders, asks, returns>>

TradeInit ==
    /\ paper \in {"price", "order", "ask", "return"}
    /\ today = 0
    /\ prices = <<>> /\ deliveries = <<>> /\ orders = <<>> /\ asks = <<>> /\ returns = <<>>

TradeNext ==
    \/ NextDay
    \/ /\ Others("price") /\ UNCHANGED <<orders, asks, returns>>
       /\ \E price \in Amounts :
             DeliverAt(price) \/ \E from \in 0..LastDay : AgreePrice(price, from)
    \/ /\ Others("order") /\ UNCHANGED <<prices, deliveries, asks, returns>>
       /\ \/ \E s \in Suppliers \cup {Nobody}, needed \in today..LastDay \cup {Never} :
                RaiseOrder(s, needed)
          \/ \E o \in DOMAIN orders :
                \/ \E d \in {"approved", "ordered", "rejected", "done"}, s \in Suppliers \cup {Nobody} :
                      DecideOrder(o, d, s)
                \/ \E qty \in 1..2 : ReceiveOrder(o, qty)
    \/ /\ Others("ask") /\ UNCHANGED <<prices, deliveries, orders, returns>>
       /\ Ask \/ \E a \in DOMAIN asks : Cancel(a) \/ \E qty \in 0..2 : Release(a, qty)
    \/ /\ Others("return") /\ UNCHANGED <<prices, deliveries, orders, asks>>
       /\ \/ \E s \in Suppliers, c \in Reasons, lines \in 1..2 : RaiseReturn(s, c, lines)
          \/ \E r \in DOMAIN returns :
                \/ \E d \in [DOMAIN returns[r].decision -> {"vendor", "waste"}] : DecideReturn(r, d)
                \/ BinReturn(r) \/ SendReturn(r)
                \/ \E o \in {"credit", "replacement", "written_off"}, v \in {1, 3} :
                      SettleReturn(r, o, v)

-----------------------------------------------------------------------------
(* Properties. *)

(* A price that startled the store at the door is in the price movement report
   of that day, between the same two figures, and a movement the report lists
   past the warning mark that a delivery recorded was warned of at the door;
   except where the office had entered an agreed price, which may start on any
   day, later than the delivery or, afterwards, earlier. *)
JumpsAreReported ==
    \A d \in DOMAIN deliveries :
        LET it   == deliveries[d]
            bent == \/ \E n \in 1..it.rows : prices[n].agreed /\ prices[n].from > it.day
                    \/ \E n \in (it.rows + 1)..Len(prices) : prices[n].agreed /\ prices[n].from < it.day
        IN  it.last > 0 /\ ~bent =>
              /\ it.warned =>
                    [day |-> it.day, previous |-> it.last, price |-> it.price]
                        \in PriceMovement(it.day, it.day)
              /\ it.price # it.last /\ ~it.warned =>
                    \A m \in PriceMovement(it.day, it.day) :
                        m.previous = it.last /\ m.price = it.price
                            => 100 * Change(m.previous, m.price) < WarnPct * m.previous

(* The money of the returns adds up the same way by supplier and by reason, and
   what the card says is outstanding is the open claims, what suppliers settled
   short, and the goods that were binned, which no supplier owes. *)
MoneyAddsUp ==
    LET settled == Counted \ OpenReturns
        Wasted(r) == Asked(r) - ExpectedCredit(r)
    IN  /\ Sum(LAMBDA s : ReturnedValue(BySupplier(s)) - Credits(BySupplier(s)), Suppliers)
               = returnsOutstanding
        /\ returnsOutstanding = Sum(ExpectedCredit, OpenReturns)
               + (Sum(ExpectedCredit, settled) - Credits(settled)) + Sum(Wasted, Counted)

(* Nothing unfinished drops off its chase list while it is younger than the
   window, nothing finished stays on one, and an order that was late on the list
   when it closed is held against its supplier, and no other order is. *)
ChasedUntilFinished ==
    /\ \A o \in DOMAIN orders : today - orders[o].raised <= Window =>
          IF orders[o].closed = Never
          THEN o \in OpenPurchaseOrders /\ (OutstandingValue(o) > 0)
          ELSE /\ o \notin OpenPurchaseOrders
               /\ \A s \in Suppliers : orders[o].supplier = s =>
                     (o \in LateOrders(s)) = orders[o].late
    /\ \A r \in DOMAIN returns : today - returns[r].raised <= Window =>
          (r \in OpenReturns) = (returns[r].outcome = "none")
    /\ \A a \in DOMAIN asks : today - asks[a].at <= Window /\ asks[a].status # "cancelled" =>
          /\ (a \in StillWaiting) = (asks[a].status = "requested")
          /\ (a \in LinesInFull) # (a \in LinesShort)
          /\ a \in StillWaiting => a \in LinesShort

(* The reports a manager chases money with lose none of it and forget nobody. *)
TradeAddsUp == MoneyAddsUp /\ ChasedUntilFinished
=============================================================================
