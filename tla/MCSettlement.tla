---------------------------- MODULE MCSettlement ----------------------------
(* One case, two requests at a time and two checkouts.                      *)
EXTENDS Settlement, TLC

CONSTANTS w1, w2, s1, s2

Symmetry == Permutations(Workers) \cup Permutations(Sessions)
=============================================================================
