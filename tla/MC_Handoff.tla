------------------------------ MODULE MC_Handoff ------------------------------
(* Small instances of Handoff and Files for TLC. *)
EXTENDS Handoff, TLC

CONSTANTS d1, d2, n1, n2, c1, c2, h1, r1

TwoFaultsOneCrash == [fault |-> 2, crash |-> 1]
NoTrouble == [fault |-> 0, crash |-> 0]

Symmetry == Permutations(Downloads) \cup Permutations(Names) \cup Permutations(Callers)
=============================================================================
