---------------------------- MODULE MCWithdrawal ----------------------------
(* Two requests, of which the first is paid through Stripe, and one debt.   *)
EXTENDS Withdrawal, TLC

CONSTANTS w1, w2, r1, r2

MCAmount == (r1 :> 2) @@ (r2 :> 1)
MCDebt == [l \in Lines |-> 1]
MCMethod == (r1 :> "STRIPE") @@ (r2 :> "BANK_TRANSFER")

Symmetry == Permutations(Workers)
=============================================================================
