---------------------- MODULE EscrowImplementsAccount ----------------------
(***************************************************************************)
(* The refinement mapping from the escrow rows and store buckets of Escrow *)
(* to the account they stand for.  The place of a merchant share is the    *)
(* bucket that holds it; a share spread over several is nowhere.           *)
(***************************************************************************)
EXTENDS Escrow

PlaceOf(p) ==
    LET Holds(a, b, c) == pending[p] = a /\ frozen[p] = b /\ balance[p] = c
        m == Merchant[p] IN
    IF escrow[p] = "NONE" THEN "none"
    ELSE IF Holds(m, 0, 0) THEN "pending"
    ELSE IF Holds(0, m, 0) THEN "frozen"
    ELSE IF Holds(0, 0, m) THEN "available"
    ELSE IF Holds(0, 0, 0) THEN "returned"
    ELSE "split"

Account == INSTANCE EscrowAccount WITH
    place <- [p \in Payments |-> PlaceOf(p)],
    back <- chargeBack

\* When the requests of a payment do not overlap and none is cut off, the rows
\* and buckets of escrow.service.ts implement the account, its fairness included.
ImplementsAccount == Account!AccountSpec
=============================================================================
