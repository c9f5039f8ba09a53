------------------------------ MODULE MCLedger ------------------------------
(***************************************************************************)
(* Instances of Ledger for TLC: one store, one kitchen, one location and    *)
(* the documents below, chosen so that prices differ (the average moves and *)
(* rounds), stock goes below zero (the branch of applyReceiptCost that      *)
(* drops the old average), two documents take the same items in opposite    *)
(* orders (deadlock) and a service passes a line postDocument refuses; and  *)
(* of Pool: two connections, two people opening counts and two other        *)
(* requests.  A behaviour is about the one or the other.                    *)
(***************************************************************************)
EXTENDS Ledger, Pool

CONSTANTS Lounge, Store, Kitchen, Rice, Oil,
          Counter  \* handlers that open counts

VARIABLE part  \* "ledger" or "pool"

\* A full count reads once through db inside its transaction, a daily one twice.
Reads == [h \in Handler |-> IF h \in Counter THEN {0, 1, 2} ELSE {0}]

Line(no, s, i, q, c) == [no |-> no, section |-> s, item |-> i, qty |-> q, unitCost |-> c]
Doc(kind, lines) == [doc |-> kind, location |-> Lounge, lines |-> lines]

CheapRice == Doc("grn", {Line(1, Store, Rice, 1, 2)})
DearRice  == Doc("grn", {Line(1, Store, Rice, 2, 5)})
Issue     == Doc("issue", {Line(1, Store, Rice, -2, Unpriced), Line(2, Kitchen, Rice, 2, Unpriced)})
Waste     == Doc("wastage", {Line(1, Kitchen, Rice, -2, Unpriced)})
RiceOil   == Doc("grn", {Line(1, Store, Rice, 1, 4), Line(2, Store, Oil, 1, 1)})
OilRice   == Doc("count", {Line(1, Store, Oil, -1, Unpriced), Line(2, Store, Rice, 1, Unpriced)})
NoPrice   == Doc("opening", {Line(1, Store, Oil, 1, 3), Line(2, Store, Rice, 1, Unpriced)})
ZeroLine  == Doc("transfer", {Line(1, Store, Rice, -1, Unpriced), Line(2, Kitchen, Rice, 0, Unpriced)})

TwoItemDocuments == {DearRice, Waste, RiceOil, OilRice, NoPrice}

bothVars == <<part, vars, poolVars>>

BothInit == part \in {"ledger", "pool"} /\ Init /\ PoolInit

BothNext ==
    /\ part' = part
    /\ \/ part = "ledger" /\ Next /\ UNCHANGED poolVars
       \/ part = "pool" /\ PoolNext /\ UNCHANGED vars

\* Each part with the fairness its module states.
BothSpec ==
    /\ BothInit /\ [][BothNext]_bothVars
    /\ \A w \in Worker : WF_vars(Step(w))
    /\ WF_poolVars(Grant) /\ \A h \in Handler : WF_poolVars(Proceed(h))
=============================================================================
