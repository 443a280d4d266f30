--------------------------- MODULE MCLandingQueue ---------------------------
(* Instances of LandingQueue for TLC, and what is checked of them.         *)
EXTENDS LandingQueue, TLC

CONSTANTS c1, c2, m1, m2

\* Each change comes from a machine of its own.
TwoMachines == c1 :> m1 @@ c2 :> m2
OneMachine == [c \in Changes |-> m1]

\* With one machine, changes differ in nothing, and slots never do.
Symmetry == Permutations(Changes) \cup Permutations(Slots)
=============================================================================
