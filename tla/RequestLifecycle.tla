-------------------------- MODULE RequestLifecycle --------------------------
(***************************************************************************)
(* What the request flow promises of one request: it is asked for, then     *)
(* either cancelled with nothing moved or released, which moves its stock   *)
(* once, and then confirmed (api/src/services/requests.ts, header).         *)
(***************************************************************************)
EXTENDS Naturals

CONSTANT Request

VARIABLES
    status,  \* "none" before it is asked for
    moved    \* how many times its stock has left the store

vars == <<status, moved>>

Init ==
    /\ status = [r \in Request |-> "none"]
    /\ moved = [r \in Request |-> 0]

Go(r, from, to) ==
    /\ status[r] = from
    /\ status' = [status EXCEPT ![r] = to]

Ask(r)     == Go(r, "none", "requested") /\ UNCHANGED moved
Cancel(r)  == Go(r, "requested", "cancelled") /\ UNCHANGED moved
Release(r) == Go(r, "requested", "released") /\ moved' = [moved EXCEPT ![r] = @ + 1]
Confirm(r) == Go(r, "released", "received") /\ UNCHANGED moved

\* Two people work on the request at once: nothing is promised of it from here.
Contend(r) ==
    /\ status[r] \notin {"none", "contended"}
    /\ status' = [status EXCEPT ![r] = "contended"]
    /\ moved' = [moved EXCEPT ![r] = 0]

Next == \E r \in Request : Ask(r) \/ Cancel(r) \/ Release(r) \/ Confirm(r) \/ Contend(r)

Spec == Init /\ [][Next]_vars
=============================================================================
