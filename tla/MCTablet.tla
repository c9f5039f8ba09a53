------------------------------ MODULE MCTablet ------------------------------
(***************************************************************************)
(* Instances of Tablet for TLC: an admin and one member of staff, who can   *)
(* become one, a login to be added under a name that is taken, two PINs.    *)
(***************************************************************************)
EXTENDS Tablet, TLC

CONSTANTS ann, ben, kamal, new, P1, P2, N1, N2, N3, c1, c2, w1, w2

Login(name, role, home, pin) ==
    [name |-> name, role |-> role, home |-> home, pin |-> pin, active |-> TRUE]

Staff == ann :> Login(N1, "admin", Everywhere, P1) @@ kamal :> Login(N3, "staff", Door, P1)

Body(role, pin, active) == [role |-> role, pin |-> pin, active |-> active]
\* Off, on, less to say and a new PIN, more to say.
SwitchBodies == {Body(Keep, Keep, "off"), Body(Keep, Keep, "on"), Body("staff", P2, Keep), Body("admin", Keep, Keep)}
Hired == {Login(N3, "staff", Door, P1)}
=============================================================================
