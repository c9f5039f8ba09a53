------------------------------ MODULE MCRooms ------------------------------
(***************************************************************************)
(* Instances for TLC of Rooms and of Counts, which is about one section.    *)
(* Rooms: a store and a kitchen at one branch and a kitchen at the other.   *)
(* Counts: the bar counts gin, which is critical, and rum, of which it has  *)
(* no row yet.  A behaviour is about the one or the other.                  *)
(***************************************************************************)
EXTENDS Rooms, Counts, TLC

CONSTANTS Main, Kitchen, Beach, Town, Galle, fish, Gin, Rum, barman, manager

VARIABLE part  \* "rooms" or "counts"

TwoBranches == Main :> Town @@ Kitchen :> Town @@ Beach :> Galle

\* A count finds fish missing at the other branch, from a section that can be closed.
FoundMissing == {[section |-> Beach, item |-> fish, qty |-> -1]}

TwoGin == Gin :> 2
GinAlone == {{Gin}}

\* A bottle of gin is issued, one of rum delivered.
OutAndIn == {<<Gin, -1>>, <<Rum, 1>>}

bothVars == <<part, vars, roomsVars>>

BothInit == part \in {"rooms", "counts"} /\ Init /\ RoomsInit

BothNext ==
    /\ part' = part
    /\ \/ part = "rooms" /\ RoomsNext /\ UNCHANGED vars
       \/ part = "counts" /\ Next /\ UNCHANGED roomsVars

BothSpec == BothInit /\ [][BothNext]_bothVars

\* No definition names a count or a handler.
Symmetry == UNION {Permutations(S) : S \in {Count, Worker, Agent}}
=============================================================================
