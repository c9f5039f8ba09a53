----------------------------- MODULE MCReturns -----------------------------
(***************************************************************************)
(* Instances of Returns for TLC: fish came in one delivery on two lines, in *)
(* boxes of one and of two, ice with it; the kitchen is given one fish.     *)
(***************************************************************************)
EXTENDS Returns, TLC

CONSTANTS Kitchen, Fish, Ice, sam, ana, r1

OneFish == r1 :> [section |-> Kitchen, issued |-> (Fish :> 1 @@ Ice :> 0)]

OneDelivery ==
    <<[grn |-> 1, item |-> Fish, packs |-> 2, size |-> 1],
      [grn |-> 1, item |-> Fish, packs |-> 1, size |-> 2],
      [grn |-> 1, item |-> Ice, packs |-> 2, size |-> 1]>>

\* Fish from both lines of the delivery.
FishTwice == {<<[line |-> 1, packs |-> 1], [line |-> 2, packs |-> 1]>>}

\* A box of fish and some ice.
FishAndIce == {<<[line |-> 1, packs |-> 1], [line |-> 3, packs |-> 1]>>}

\* A box of fish, alone and with ice.
Asked == {<<[line |-> 1, packs |-> 1]>>} \cup FishAndIce \cup FishTwice

\* A fish and some ice wait in quarantine, and the kitchen has a fish of its own.
FishInQuarantine ==
    [p \in Place |->
        CASE p = Quarantine -> Fish :> 1 @@ Ice :> 1
          [] p = Kitchen -> Fish :> 1 @@ Ice :> 0
          [] OTHER -> Fish :> 0 @@ Ice :> 0]

\* No definition names an ask or a handler.
Symmetry == Permutations(Ask) \cup Permutations(Worker)
=============================================================================
