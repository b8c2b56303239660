-------------------------- MODULE MCPaymentIntake --------------------------
(* PaymentIntake with interchangeable intents and workers for TLC. *)
EXTENDS PaymentIntake, TLC

\* Sound for invariants: no action tells one intent or worker from another.
MCSymmetry == Permutations(Intents) \cup Permutations(Workers)

=============================================================================
