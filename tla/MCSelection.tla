---------------------------- MODULE MCSelection ----------------------------
(* Two rivals for one part, and the only bid on the other.                  *)
EXTENDS Selection, TLC

CONSTANTS part1, part2, a, b, c, w1, w2

MCPartOf == (a :> part1) @@ (b :> part1) @@ (c :> part2)
Sym == Permutations(Workers)
=============================================================================
