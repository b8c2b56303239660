--------------------------- MODULE EscrowAccount ---------------------------
(***************************************************************************)
(* What the escrow promises, whatever rows and requests it is made of: the *)
(* merchant share of a captured payment is in exactly one place at a time, *)
(* the merchant is paid out of escrow once and never after the customer was *)
(* refunded, and the share is taken back only for a refund that was made.  *)
(***************************************************************************)
EXTENDS Integers

CONSTANTS Payments, Paid   \* the payments and what the customer paid for each

VARIABLES
    place,   \* where the merchant share is
    back     \* how much the customer has got back

account == <<place, back>>

Places == {"none", "pending", "frozen", "available", "returned"}

AccountTypeOK ==
    /\ place \in [Payments -> Places]
    /\ back \in [Payments -> Nat]

AccountInit ==
    /\ place = [p \in Payments |-> "none"]
    /\ back = [p \in Payments |-> 0]

\* The share of p moves, and the customer gets nothing.
Move(p, from, to) ==
    /\ place[p] \in from
    /\ place' = [place EXCEPT ![p] = to]
    /\ UNCHANGED back

Capture(p) == Move(p, {"none"}, "pending")
Hold(p) == back[p] = 0 /\ Move(p, {"pending"}, "frozen")
Resume(p) == back[p] = 0 /\ Move(p, {"frozen"}, "pending")
PayOut(p) == back[p] = 0 /\ Move(p, {"pending", "frozen"}, "available")
TakeBack(p) == back[p] > 0 /\ Move(p, {"pending", "frozen", "available"}, "returned")

Refund(p) ==
    /\ place[p] # "none"
    /\ \E total \in (back[p] + 1)..Paid[p] : back' = [back EXCEPT ![p] = total]
    /\ UNCHANGED place

AccountNext == \E p \in Payments :
    Capture(p) \/ Hold(p) \/ Resume(p) \/ PayOut(p) \/ TakeBack(p) \/ Refund(p)

\* What may never happen to an account.
AccountSafety == AccountInit /\ [][AccountNext]_account

\* The share of a refunded payment is eventually taken back.
AccountSpec ==
    /\ AccountSafety
    /\ \A p \in Payments : WF_account(TakeBack(p))
=============================================================================
