------------------------------ MODULE MCEscrow ------------------------------
(* Small instances of Escrow: amounts as functions of the payments.         *)
EXTENDS EscrowImplementsAccount, TLC

CONSTANTS
    Share,   \* merchantAmount of every payment
    Total,   \* totalAmount of every payment
    Gateway, \* the gateway fee of every payment
    Decided  \* the refund every administrator decides

MCSymmetry == Permutations(Workers)

MCMerchant == [p \in Payments |-> Share]
MCPaid == [p \in Payments |-> Total]
MCFee == [p \in Payments |-> Gateway]
MCVerdict == [p \in Payments |-> Decided]
=============================================================================
