------------------------------- MODULE MCSetup -------------------------------
(***************************************************************************)
(* Instances of Branches for TLC: an item in two packs, room for one more,  *)
(* a category and a supplier that can each get a second, two branches.  The *)
(* catalogue and the branches share only the workers, so a behaviour is     *)
(* about one of them.                                                       *)
(***************************************************************************)
EXTENDS Branches, TLC

CONSTANTS rice, box, sack, can, dry, wet, oil, w1, w2, b1, b2, s1, s2, o1

OneItem == rice :> [category |-> dry, unit |-> "g", active |-> TRUE]
TwoPacks == box :> [item |-> rice, size |-> 1, default |-> TRUE, active |-> TRUE]
         @@ sack :> [item |-> rice, size |-> 2, default |-> FALSE, active |-> TRUE]

OneSupplier == s1 :> [name |-> "ace", active |-> TRUE]

VARIABLE half   \* the half of the setup screens this behaviour is about

HalfInit == half \in {"catalogue", "branches"} /\ Init
HalfNext ==
    /\ UNCHANGED half
    /\ \/ half = "catalogue" /\ CatalogueNext /\ UNCHANGED <<branch, section>>
       \/ half = "branches" /\ BranchesNext
HalfSpec == HalfInit /\ [][HalfNext]_<<half, vars>>

Symmetry == Permutations(Worker) \cup Permutations(Branch)
=============================================================================
