----------------------------- MODULE MCRequests -----------------------------
(***************************************************************************)
(* Instances of Requests and of Purchasing for TLC, the two flows between   *)
(* the store and its neighbours.  Requests: a store, a kitchen, the         *)
(* quarantine, two items, two storekeepers and a chef; the store holds less *)
(* than two requests ask for, so that partial releases happen, and one body *)
(* names an item on two lines.  Purchasing: gin comes in bottles and in     *)
(* crates of two, rum in bottles of its own.  A behaviour is about the one  *)
(* or the other.                                                            *)
(***************************************************************************)
EXTENDS Requests, Purchasing, TLC

CONSTANTS
    Kitchen, Quarantine, Rice, Oil, keeper, deputy, chef,
    Gin, Rum, Bottle, Crate, RumBottle

VARIABLE part  \* "requests" or "purchasing"

-----------------------------------------------------------------------------
L(i, q) == [item |-> i, qty |-> q]

\* The storekeepers belong to the quarantine as well as to the store.
Owners == [s \in Section |-> IF s = Kitchen THEN {chef} ELSE {keeper, deputy}]

\* The storekeepers work with every section, the chef with the kitchen.
Insiders == [s \in Section |-> IF s = Kitchen THEN {keeper, deputy, chef} ELSE {keeper, deputy}]

SomeRice == [i \in Item |-> IF i = Rice THEN 3 ELSE 1]

TwoLines == {<<L(Rice, 2), L(Oil, 1)>>, <<L(Rice, 2), L(Rice, 2)>>}

\* Bodies: everything as asked, or more of the first line than the store holds.
AsAsked == << >>
OrMore == {AsAsked, 1 :> 4}

-----------------------------------------------------------------------------
Contents == Bottle :> Gin @@ Crate :> Gin @@ RumBottle :> Rum
TwoInACrate == Bottle :> 1 @@ Crate :> 2 @@ RumBottle :> 1

\* Gin in both packs, and rum.
GinTwiceAndRum ==
    {<<[pack |-> Bottle, qty |-> 1], [pack |-> Crate, qty |-> 1], [pack |-> RumBottle, qty |-> 1]>>}

\* All the gin in crates with one too many, rum at two prices, gin and rum together.
Lorries ==
    {<<[pack |-> Crate, qty |-> 2, price |-> 1]>>,
     <<[pack |-> RumBottle, qty |-> 1, price |-> 2], [pack |-> RumBottle, qty |-> 1, price |-> 1]>>,
     <<[pack |-> Bottle, qty |-> 1, price |-> 1], [pack |-> RumBottle, qty |-> 1, price |-> 2]>>}

-----------------------------------------------------------------------------
bothVars == <<part, vars, purchasingVars>>

BothInit == part \in {"requests", "purchasing"} /\ Init /\ PurchasingInit

BothNext ==
    /\ part' = part
    /\ \/ part = "requests" /\ Next /\ UNCHANGED purchasingVars
       \/ part = "purchasing" /\ PurchasingNext /\ UNCHANGED vars

BothSpec == BothInit /\ [][BothNext]_bothVars

\* No definition names a request, a key, an order, a supplier or a handler, and
\* Owners and Insiders treat the two storekeepers alike.
Symmetry ==
    UNION {Permutations(S) : S \in {Storekeeper, Request, Key, Worker, Order, Supplier, Handler}}
=============================================================================
