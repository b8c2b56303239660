---------------------------- MODULE MCFulfilment ----------------------------
(* Instances of Fulfilment: workers and parts are interchangeable. *)
EXTENDS Fulfilment, TLC

Symmetry == Permutations(Workers) \cup Permutations(Parts)
=============================================================================
