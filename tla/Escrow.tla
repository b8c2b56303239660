------------------------------- MODULE Escrow -------------------------------
(***************************************************************************)
(* The money of one order part from the moment its payment is captured:    *)
(* the escrow row, the payment row, the merchant's three store buckets,    *)
(* the return and dispute cases and the Stripe refunds, as they are moved  *)
(* by src/backend/src/payments/escrow.service.ts and by its callers in     *)
(* returns.service.ts, order-completion-finance.service.ts and             *)
(* orders.service.ts.                                                      *)
(*                                                                         *)
(* A worker is one HTTP request, webhook or cron pass of the NestJS        *)
(* process.  A step of a worker is one database transaction, or one        *)
(* statement outside a transaction, or one Stripe call: what the worker    *)
(* read in an earlier step is kept in its request record and may be stale. *)
(*                                                                         *)
(* A store bucket (pendingBalance, frozenBalance, balance) only ever       *)
(* changes by relative increments, so it is kept as the contribution of    *)
(* each payment: the column of a store is the sum over its payments.       *)
(***************************************************************************)
EXTENDS Integers, FiniteSets

CONSTANTS
    Payments,   \* the payments (one per accepted offer of a multi-item order)
    Workers,    \* the requests that may be in flight at once
    Merchant,   \* merchantAmount of each payment
    Paid,       \* totalAmount of each payment
    Fee,        \* the gateway fee withheld by a cancellation without fault
    Verdict,    \* finalCustomerRefundAmount an administrator decides
    Warranted,  \* the payments whose part has a warranty
    SyncLimit,  \* escrow rows one pass of the hourly sync reads
    RetryLimit, \* owed refunds one pass of the retry cron attempts
    MaxFaults,  \* bound: crashes and failed refund calls of a behaviour
    MaxCases    \* bound: requests to open a case in a behaviour

ASSUME AmountsAssumption ==
    /\ Merchant \in [Payments -> Nat]
    /\ Paid \in [Payments -> Nat]
    /\ Fee \in [Payments -> Nat]
    /\ Verdict \in [Payments -> Nat]
    /\ Warranted \subseteq Payments
    /\ SyncLimit \in Nat /\ RetryLimit \in Nat
    /\ MaxFaults \in Nat /\ MaxCases \in Nat
    /\ \A p \in Payments : Verdict[p] \in 1..Paid[p] /\ Fee[p] < Paid[p]

Kinds == {"return", "dispute"}

EscrowStatuses == {"NONE", "HELD", "RELEASING", "RELEASED", "FROZEN", "REFUNDED"}
PaymentStatuses == {"PENDING", "SUCCESS", "REFUNDED"}
PaymentEscrow  == {"HELD", "RELEASED", "REFUNDED"}
Stages == {"AWAITING_PAYMENT", "IN_PREPARATION", "DELIVERED", "COMPLETED", "CANCELLED"}
OpenStatuses == {"PENDING", "ESCALATED"}
CaseStatuses ==
    OpenStatuses \cup {"NONE", "APPROVED", "REFUNDED", "RESOLVED", "CANCELLED", "CLOSED"}
OwedStates == {"no", "due", "lapsed"}
ExecStatuses == {"NOT_REQUIRED", "PENDING", "PROCESSING", "SUCCEEDED", "FAILED"}

VARIABLES
    stage,      \* Offer.fulfillmentStatus
    late,       \* the return/dispute window of a delivered part has ended
    covered,    \* the warranty of a completed part is running
    locked,     \* Offer.resolutionLocked
    escrow,     \* EscrowTransaction.status, "NONE" while there is no row
    payStatus,  \* PaymentTransaction.status
    payEscrow,  \* PaymentTransaction.escrowStatus
    refunded,   \* PaymentTransaction.refundedAmount
    pending, frozen, balance,  \* contributions to the store's buckets
    releases,   \* ESCROW_RELEASE rows written for the escrow
    awards,     \* releases by verdict (wallet rows of type 'payment')
    debits,     \* times the merchant share was taken back by a refund
    commission, \* times the commission was added to the platform wallet
    charge,     \* Stripe: refunds of the charge, one per idempotency key
    chargeBack, \* Stripe: amount_refunded of the charge
    events,     \* Stripe: amount_refunded of undelivered charge.refunded events
    case,       \* status of the return request and of the dispute
    verdictLocked, \* an administrator has decided the case
    exec,       \* refundExecutionStatus of each case
    owed,       \* an unresolved PART_CANCEL_REFUND_PENDING audit row: due while
                \* the retry cron still reads it, lapsed once it is too old
    req,        \* the request each worker is executing
    faults,     \* faults so far
    opened      \* requests to open a case so far

partVars   == <<stage, late, covered, locked>>
payVars    == <<payStatus, payEscrow, refunded>>
bucketVars == <<pending, frozen, balance>>
ledgerVars == <<releases, awards, debits, commission>>
stripeVars == <<charge, chargeBack, events>>
caseVars   == <<case, verdictLocked, exec>>
vars == <<partVars, escrow, payVars, bucketVars, ledgerVars, stripeVars,
          caseVars, owed, req, faults, opened>>

-----------------------------------------------------------------------------
(* Requests in flight.                                                      *)

Pcs == {"marking", "releasing", "uploading", "freezing", "recording",
        "cancelling", "expiring", "unfreeze", "unfreezing", "escalating",
        "deciding", "judging", "awarding",
        "refund", "reading", "limiting", "charging", "checking",
        "applying", "owing"}

Askers == Kinds \cup {"none", "part", "order"}

\* pc    the next step of the request
\* p, k  the payment, and what asked: a case, a cancelled part or order
\* seen  the escrow status it read;  prior  the refundedAmount it read
\* amt   the amount it refunds;      skip   it found the refund applied
Requests == [pc : Pcs, p : Payments, k : Askers, seen : EscrowStatuses,
             prior : Nat, amt : Nat, skip : BOOLEAN]

Idle == [pc |-> "idle"]

Begin(w, p, pc, k) ==
    req' = [req EXCEPT ![w] =
        [pc |-> pc, p |-> p, k |-> k, seen |-> "NONE", prior |-> 0,
         amt |-> 0, skip |-> FALSE]]

Goto(w, pc) == req' = [req EXCEPT ![w].pc = pc]
Finish(w)   == req' = [req EXCEPT ![w] = Idle]

IsIdle(w) == req[w].pc = "idle"
At(w, pc) == req[w].pc = pc

\* Increments the contribution of p to a bucket of its store.
\* (AddTo_sets: the same with an absolute value.)
AddTo_sets(bucket, p, n) == bucket' = [bucket EXCEPT ![p] = n]
AddTo(bucket, p, n) == bucket' = [bucket EXCEPT ![p] = @ + n]
Counted(counter, p) == counter' = [counter EXCEPT ![p] = @ + 1]

-----------------------------------------------------------------------------
Init ==
    /\ stage = [p \in Payments |-> "AWAITING_PAYMENT"]
    /\ late = [p \in Payments |-> FALSE]
    /\ covered = [p \in Payments |-> FALSE]
    /\ locked = [p \in Payments |-> FALSE]
    /\ escrow = [p \in Payments |-> "NONE"]
    /\ payStatus = [p \in Payments |-> "PENDING"]
    /\ payEscrow = [p \in Payments |-> "HELD"]
    /\ refunded = [p \in Payments |-> 0]
    /\ pending = [p \in Payments |-> 0]
    /\ frozen = [p \in Payments |-> 0]
    /\ balance = [p \in Payments |-> 0]
    /\ releases = [p \in Payments |-> 0]
    /\ awards = [p \in Payments |-> 0]
    /\ debits = [p \in Payments |-> 0]
    /\ commission = [p \in Payments |-> 0]
    /\ charge = [p \in Payments |-> {}]
    /\ chargeBack = [p \in Payments |-> 0]
    /\ events = [p \in Payments |-> {}]
    /\ case = [p \in Payments |-> [k \in Kinds |-> "NONE"]]
    /\ verdictLocked = [p \in Payments |-> [k \in Kinds |-> FALSE]]
    /\ exec = [p \in Payments |-> [k \in Kinds |-> "NOT_REQUIRED"]]
    /\ owed = [p \in Payments |-> "no"]
    /\ req = [w \in Workers |-> Idle]
    /\ faults = 0
    /\ opened = 0

-----------------------------------------------------------------------------
(* The life of the part.                                                    *)

\* The fulfilment transaction of a captured payment, with holdFunds in it.
HoldFunds(p) ==
    /\ stage[p] = "AWAITING_PAYMENT"
    /\ escrow[p] = "NONE"
    /\ stage' = [stage EXCEPT ![p] = "IN_PREPARATION"]
    /\ escrow' = [escrow EXCEPT ![p] = "HELD"]
    /\ payStatus' = [payStatus EXCEPT ![p] = "SUCCESS"]
    /\ AddTo(pending, p, Merchant[p])
    /\ Counted(commission, p)
    /\ UNCHANGED <<late, covered, locked, payEscrow, refunded, frozen, balance,
                   releases, awards, debits, stripeVars, caseVars, owed, req,
                   faults, opened>>

\* The shipment of the part reaches the customer (preparation, verification
\* and shipping, which move no money, are one step here).
Deliver(p) ==
    /\ stage[p] = "IN_PREPARATION"
    /\ stage' = [stage EXCEPT ![p] = "DELIVERED"]
    /\ UNCHANGED <<late, covered, locked, escrow, payVars, bucketVars,
                   ledgerVars, stripeVars, caseVars, owed, req, faults, opened>>

WindowEnds(p) ==
    /\ stage[p] = "DELIVERED"
    /\ ~late[p]
    /\ late' = [late EXCEPT ![p] = TRUE]
    /\ UNCHANGED <<stage, covered, locked, escrow, payVars, bucketVars,
                   ledgerVars, stripeVars, caseVars, owed, req, faults, opened>>

\* hasOpenCaseForOffer: a return blocks until it is cancelled, refunded or
\* resolved, a dispute until it is closed or resolved.
HasOpenCase(p) ==
    \/ case[p]["return"] \notin {"NONE", "CANCELLED", "REFUNDED", "RESOLVED"}
    \/ case[p]["dispute"] \notin {"NONE", "CLOSED", "RESOLVED"}

\* completeOfferAfterWindow: one transaction that locks the offer row.
CompleteOffer(p) ==
    /\ stage[p] = "DELIVERED"
    /\ late[p]
    /\ ~locked[p]
    /\ ~HasOpenCase(p)
    /\ stage' = [stage EXCEPT ![p] = "COMPLETED"]
    /\ locked' = [locked EXCEPT ![p] = TRUE]
    /\ covered' = [covered EXCEPT ![p] = p \in Warranted]
    /\ UNCHANGED <<late, escrow, payVars, bucketVars, ledgerVars, stripeVars,
                   caseVars, owed, req, faults, opened>>

WarrantyEnds(p) ==
    /\ covered[p]
    /\ covered' = [covered EXCEPT ![p] = FALSE]
    /\ UNCHANGED <<stage, late, locked, escrow, payVars, bucketVars,
                   ledgerVars, stripeVars, caseVars, owed, req, faults, opened>>

-----------------------------------------------------------------------------
(* releaseFunds: the merchant is paid.                                      *)

\* The rows releaseFunds looks for.
Releasable_frozen(p) == escrow[p] \in {"HELD", "RELEASING", "FROZEN"}
Releasable_again(p) == escrow[p] # "NONE"
Releasable(p) == escrow[p] \in {"HELD", "RELEASING"}

\* The settlement of a completed part: at its completion, by the warranty cron,
\* or by the hourly sync of a finished order.  Each asks for a SUCCESS payment.
Settleable(p) ==
    /\ Releasable(p)
    /\ stage[p] = "COMPLETED"
    /\ payStatus[p] = "SUCCESS"
    /\ ~covered[p]

StartSettlement(w, p) ==
    /\ IsIdle(w)
    /\ Settleable(p)
    /\ Begin(w, p, "marking", "none")
    /\ UNCHANGED <<partVars, escrow, payVars, bucketVars, ledgerVars,
                   stripeVars, caseVars, owed, faults, opened>>

\* The hourly sync while other parts of the order are open: it calls releaseFunds
\* itself, for a delivered part too, and does not ask for the payment's status.
StartSync(w, p) ==
    /\ IsIdle(w)
    /\ Releasable(p)
    /\ stage[p] = "COMPLETED" \/ (stage[p] = "DELIVERED" /\ late[p])
    /\ ~covered[p]
    /\ Begin(w, p, "marking", "none")
    /\ UNCHANGED <<partVars, escrow, payVars, bucketVars, ledgerVars,
                   stripeVars, caseVars, owed, faults, opened>>

\* The rows the sync reads, without an order, until its limit is reached.
SyncRows == {p \in Payments :
    Releasable(p) /\ stage[p] # "CANCELLED" /\ ~covered[p]}

\* ADMIN_RELEASE passes over the cancelled-part and the warranty checks.
StartAdminRelease(w, p) ==
    /\ IsIdle(w)
    /\ Releasable(p)
    /\ Begin(w, p, "marking", "none")
    /\ UNCHANGED <<partVars, escrow, payVars, bucketVars, ledgerVars,
                   stripeVars, caseVars, owed, faults, opened>>

\* The update to RELEASING is a statement of its own and tests no status.
MarkReleasing(w) ==
    /\ At(w, "marking")
    /\ escrow' = [escrow EXCEPT ![req[w].p] = "RELEASING"]
    /\ Goto(w, "releasing")
    /\ UNCHANGED <<partVars, payVars, bucketVars, ledgerVars, stripeVars,
                   caseVars, owed, faults, opened>>

\* The release transaction, under an advisory lock of the escrow: a wallet row
\* of an earlier release ends it, otherwise it claims the row and pays.
AlreadyReleased_never(p) == FALSE
AlreadyReleased(p) == releases[p] > 0
Claimable_held(p) == escrow[p] = "HELD"
Claimable(p) == escrow[p] \in {"HELD", "RELEASING"}

PayMerchant(p) ==
    /\ escrow' = [escrow EXCEPT ![p] = "RELEASED"]
    /\ payEscrow' = [payEscrow EXCEPT ![p] = "RELEASED"]
    /\ AddTo(pending, p, -Merchant[p])
    /\ AddTo(balance, p, Merchant[p])
    /\ Counted(releases, p)

SettleRelease(w) ==
    LET p == req[w].p IN
    /\ At(w, "releasing")
    /\ \/ /\ AlreadyReleased(p)
          /\ escrow' = [escrow EXCEPT ![p] = "RELEASED"]
          /\ UNCHANGED <<payEscrow, pending, balance, releases>>
       \/ /\ ~AlreadyReleased(p)
          /\ Claimable(p)
          /\ PayMerchant(p)
       \/ /\ ~AlreadyReleased(p)
          /\ ~Claimable(p)
          /\ UNCHANGED <<escrow, payEscrow, pending, balance, releases>>
    /\ Finish(w)
    /\ UNCHANGED <<partVars, payStatus, refunded, frozen, awards, debits,
                   commission, stripeVars, caseVars, owed, faults, opened>>

-----------------------------------------------------------------------------
(* Cases: requestReturn, escalateDispute, cancelReturn, checkExpiredHandovers*)
(* and checkAutoEscalation, with the freezing and unfreezing they call.     *)

NoCase(p, k) == case[p][k] \in
    IF k = "return" THEN {"NONE", "CANCELLED"} ELSE {"NONE", "CLOSED", "RESOLVED"}

\* The eligibility and duplicate checks, before the evidence is uploaded.
StartOpenCase(w, p, k) ==
    /\ IsIdle(w)
    /\ stage[p] = "DELIVERED"
    /\ ~late[p]
    /\ ~locked[p]
    /\ NoCase(p, k)
    /\ opened < MaxCases
    /\ opened' = opened + 1
    /\ Begin(w, p, "uploading", k)
    /\ UNCHANGED <<partVars, escrow, payVars, bucketVars, ledgerVars,
                   stripeVars, caseVars, owed, faults>>

Freezable(p) == payStatus[p] = "SUCCESS" /\ escrow[p] = "HELD"

\* freezeFundsForPayment reads a HELD escrow, or the request fails.
ReadHeld(w) ==
    LET p == req[w].p IN
    /\ At(w, "uploading")
    /\ IF Freezable(p)
       THEN Goto(w, "freezing")
       ELSE Finish(w)
    /\ UNCHANGED <<partVars, escrow, payVars, bucketVars, ledgerVars,
                   stripeVars, caseVars, owed, faults, opened>>

\* The freezing transaction updates by id: it does not test the status again.
Freeze(w) ==
    LET p == req[w].p IN
    /\ At(w, "freezing")
    /\ escrow' = [escrow EXCEPT ![p] = "FROZEN"]
    /\ AddTo(pending, p, -Merchant[p])
    /\ AddTo(frozen, p, Merchant[p])
    /\ Goto(w, "recording")
    /\ UNCHANGED <<partVars, payVars, balance, ledgerVars, stripeVars,
                   caseVars, owed, faults, opened>>

\* The transaction that creates the case and locks the part.
CreateCase(w) ==
    LET p == req[w].p
        k == req[w].k IN
    /\ At(w, "recording")
    /\ case' = [case EXCEPT ![p][k] = "PENDING"]
    /\ verdictLocked' = [verdictLocked EXCEPT ![p][k] = FALSE]
    /\ exec' = [exec EXCEPT ![p][k] = "NOT_REQUIRED"]
    /\ locked' = [locked EXCEPT ![p] = TRUE]
    /\ Finish(w)
    /\ UNCHANGED <<stage, late, covered, escrow, payVars, bucketVars,
                   ledgerVars, stripeVars, owed, faults, opened>>

\* cancelReturn reads a PENDING return; the handover cron reads an APPROVED one.
StartCloseReturn(w, p) ==
    /\ IsIdle(w)
    /\ \/ case[p]["return"] = "PENDING" /\ Begin(w, p, "cancelling", "return")
       \/ case[p]["return"] = "APPROVED" /\ Begin(w, p, "expiring", "return")
    /\ UNCHANGED <<partVars, escrow, payVars, bucketVars, ledgerVars,
                   stripeVars, caseVars, owed, faults, opened>>

\* What becomes of a return that is withdrawn or was never handed over.
ClosedAs_rejected(w) == IF At(w, "cancelling") THEN "CANCELLED" ELSE "REJECTED"
ClosedAs(w) == IF At(w, "cancelling") THEN "CANCELLED" ELSE "CLOSED"

\* The closing transaction updates the case by id and unlocks the part.
CloseReturn(w) ==
    LET p == req[w].p IN
    /\ At(w, "cancelling") \/ At(w, "expiring")
    /\ case' = [case EXCEPT ![p]["return"] = ClosedAs(w)]
    /\ verdictLocked' = [verdictLocked EXCEPT ![p]["return"] =
                              @ \/ At(w, "expiring")]
    /\ locked' = [locked EXCEPT ![p] = FALSE]
    /\ Goto(w, "unfreeze")
    /\ UNCHANGED <<stage, late, covered, escrow, payVars, bucketVars,
                   ledgerVars, stripeVars, exec, owed, faults, opened>>

Unfreezable(p) == payStatus[p] = "SUCCESS" /\ escrow[p] = "FROZEN"

\* unfreezeFundsForPayment reads a FROZEN escrow, or there is nothing to do.
ReadFrozen(w) ==
    LET p == req[w].p IN
    /\ At(w, "unfreeze")
    /\ IF Unfreezable(p)
       THEN Goto(w, "unfreezing")
       ELSE Finish(w)
    /\ UNCHANGED <<partVars, escrow, payVars, bucketVars, ledgerVars,
                   stripeVars, caseVars, owed, faults, opened>>

Unfreeze(w) ==
    LET p == req[w].p IN
    /\ At(w, "unfreezing")
    /\ escrow' = [escrow EXCEPT ![p] = "HELD"]
    /\ AddTo(frozen, p, -Merchant[p])
    /\ AddTo(pending, p, Merchant[p])
    /\ Finish(w)
    /\ UNCHANGED <<partVars, payVars, balance, ledgerVars, stripeVars,
                   caseVars, owed, faults, opened>>

\* The merchant answers, or 48 hours pass: the case goes to the administrators.
StartEscalate(w, p, k) ==
    /\ IsIdle(w)
    /\ case[p][k] = "PENDING"
    /\ Begin(w, p, "escalating", k)
    /\ UNCHANGED <<partVars, escrow, payVars, bucketVars, ledgerVars,
                   stripeVars, caseVars, owed, faults, opened>>

EscalateCase(w) ==
    /\ At(w, "escalating")
    /\ case' = [case EXCEPT ![req[w].p][req[w].k] = "ESCALATED"]
    /\ Finish(w)
    /\ UNCHANGED <<partVars, escrow, payVars, bucketVars, ledgerVars,
                   stripeVars, verdictLocked, exec, owed, faults, opened>>

-----------------------------------------------------------------------------
(* issueVerdict.                                                            *)

\* A case without a locked verdict, whatever its status.
Undecided(p, k) == case[p][k] # "NONE" /\ ~verdictLocked[p][k]

\* A refund needs something left to refund, in the database and at Stripe.
StartVerdict(w, p, k) ==
    /\ IsIdle(w)
    /\ Undecided(p, k)
    /\ \/ Begin(w, p, "judging", k)
       \/ /\ refunded[p] < Paid[p]
          /\ chargeBack[p] < Paid[p]
          /\ Begin(w, p, "deciding", k)
    /\ UNCHANGED <<partVars, escrow, payVars, bucketVars, ledgerVars,
                   stripeVars, caseVars, owed, faults, opened>>

\* RELEASE_FUNDS or DENY: the verdict transaction reads the escrow...
ReadAwarded(w) ==
    LET p == req[w].p IN
    /\ At(w, "judging")
    /\ req' = [req EXCEPT ![w].pc = "awarding",
                          ![w].seen = IF escrow[p] \in {"HELD", "FROZEN"}
                                      THEN escrow[p] ELSE "NONE"]
    /\ UNCHANGED <<partVars, escrow, payVars, bucketVars, ledgerVars,
                   stripeVars, caseVars, owed, faults, opened>>

\* ... and then updates it by id, out of the bucket of the status it read.
AwardsFrozen_never(w) == FALSE
AwardsFrozen(w) == req[w].seen = "FROZEN"

Award(w) ==
    LET p == req[w].p
        k == req[w].k IN
    /\ At(w, "awarding")
    /\ \/ /\ req[w].seen = "NONE"
          /\ UNCHANGED <<escrow, bucketVars, awards, commission>>
       \/ /\ req[w].seen # "NONE"
          /\ escrow' = [escrow EXCEPT ![p] = "RELEASED"]
          /\ IF AwardsFrozen(w)
             THEN AddTo(frozen, p, -Merchant[p]) /\ UNCHANGED pending
             ELSE AddTo(pending, p, -Merchant[p]) /\ UNCHANGED frozen
          /\ AddTo(balance, p, Merchant[p])
          /\ Counted(awards, p)
          /\ Counted(commission, p)
    /\ case' = [case EXCEPT ![p][k] = "RESOLVED"]
    /\ verdictLocked' = [verdictLocked EXCEPT ![p][k] = TRUE]
    /\ exec' = [exec EXCEPT ![p][k] = "NOT_REQUIRED"]
    /\ stage' = [stage EXCEPT ![p] = "COMPLETED"]
    /\ locked' = [locked EXCEPT ![p] = TRUE]
    /\ Finish(w)
    /\ UNCHANGED <<late, covered, payVars, releases, debits, stripeVars, owed,
                   faults, opened>>

\* REFUND: the verdict is stored before Stripe is called.  A return is APPROVED
\* while the part travels back, or is closed at once; a dispute ends at once.
DecideRefund(w) ==
    LET p == req[w].p
        k == req[w].k IN
    /\ At(w, "deciding")
    /\ \/ /\ k = "return"
          /\ case' = [case EXCEPT ![p][k] = "APPROVED"]
          /\ UNCHANGED stage
       \/ /\ case' = [case EXCEPT ![p][k] = "REFUNDED"]
          /\ stage' = [stage EXCEPT ![p] = "CANCELLED"]
    /\ verdictLocked' = [verdictLocked EXCEPT ![p][k] = TRUE]
    /\ exec' = [exec EXCEPT ![p][k] = "PENDING"]
    /\ locked' = [locked EXCEPT ![p] = TRUE]
    /\ Goto(w, "refund")
    /\ UNCHANGED <<late, covered, escrow, payVars, bucketVars, ledgerVars,
                   stripeVars, owed, faults, opened>>

\* A locked verdict whose refund FAILED may be issued again.
RetryVerdict(w, p, k) ==
    /\ IsIdle(w)
    /\ verdictLocked[p][k]
    /\ exec[p][k] = "FAILED"
    /\ Begin(w, p, "refund", k)
    /\ UNCHANGED <<partVars, escrow, payVars, bucketVars, ledgerVars,
                   stripeVars, caseVars, owed, faults, opened>>

-----------------------------------------------------------------------------
(* Cancellation of a paid part before it ships.                             *)

\* A part is cancelled by an expired deadline or a rejected verification: the
\* refund is left to the retry cron, or is attempted in the same request.
CancelPart(w, p) ==
    /\ IsIdle(w)
    /\ stage[p] = "IN_PREPARATION"
    /\ stage' = [stage EXCEPT ![p] = "CANCELLED"]
    /\ Begin(w, p, "owing", "part") \/ Begin(w, p, "refund", "part")
    /\ UNCHANGED <<late, covered, locked, escrow, payVars, bucketVars,
                   ledgerVars, stripeVars, caseVars, owed, faults, opened>>

\* The whole order is cancelled: its refund is attempted once, detached.
CancelOrder(w, p) ==
    /\ IsIdle(w)
    /\ stage[p] = "IN_PREPARATION"
    /\ stage' = [stage EXCEPT ![p] = "CANCELLED"]
    /\ Begin(w, p, "refund", "order")
    /\ UNCHANGED <<late, covered, locked, escrow, payVars, bucketVars,
                   ledgerVars, stripeVars, caseVars, owed, faults, opened>>

\* markPartRefundPending: a part has one row, and a retry writes no other.
Owes(p) == owed' = [owed EXCEPT ![p] = IF @ = "no" THEN "due" ELSE @]

MarkOwed(w) ==
    /\ At(w, "owing")
    /\ Owes(req[w].p)
    /\ Finish(w)
    /\ UNCHANGED <<partVars, escrow, payVars, bucketVars, ledgerVars,
                   stripeVars, caseVars, faults, opened>>

\* The rows retryPendingPartRefunds looks for.
Retriable(p) == owed[p] = "due"

\* A row older than 14 days is not looked for any more.
RetryLapses(p) ==
    /\ owed[p] = "due"
    /\ owed' = [owed EXCEPT ![p] = "lapsed"]
    /\ UNCHANGED <<partVars, escrow, payVars, bucketVars, ledgerVars,
                   stripeVars, caseVars, req, faults, opened>>

\* The refunds a pass attempts, oldest first, until its limit is reached.
RetryRows == {p \in Payments : Retriable(p)}

\* retryPendingPartRefunds, one pass at a time under its cron lock.
RetryPart(w, p) ==
    /\ IsIdle(w)
    /\ Retriable(p)
    /\ \A v \in Workers : ~IsIdle(v) => req[v].p # p \/ req[v].k # "part"
    /\ Begin(w, p, "refund", "part")
    /\ UNCHANGED <<partVars, escrow, payVars, bucketVars, ledgerVars,
                   stripeVars, caseVars, owed, faults, opened>>

-----------------------------------------------------------------------------
(* executeStripeRefundOnly and applyRefundDbUpdates.                        *)

MinOf(a, b) == IF a <= b THEN a ELSE b

\* What the request wants to refund: the verdict's amount, or what is missing
\* of a cancellation's target (the merchant's fault: everything).
Targets(p, k) ==
    CASE k \in Kinds -> {Verdict[p]}
      [] k = "part"  -> {Paid[p]}
      [] OTHER       -> {Paid[p], Paid[p] - Fee[p]}

Requested(p, k, target) == IF k \in Kinds THEN target ELSE target - refunded[p]

MaxRefundable_paid(p) == Paid[p]
MaxRefundable(p) == MinOf(Paid[p] - refunded[p], Paid[p] - chargeBack[p])

\* Stripe shows the charge refunded, the row read nothing: no second call.
SyncFromStripe_unasked(w) == req[w].prior = 0
SyncFromStripe(w) == req[w].prior = 0 /\ MaxRefundable(req[w].p) <= 0

\* A refund that cannot proceed: a case becomes FAILED, a part is owed again.
RefundError(w) ==
    LET p == req[w].p
        k == req[w].k IN
    /\ exec' = IF k \in Kinds THEN [exec EXCEPT ![p][k] = "FAILED"] ELSE exec
    /\ IF k = "part" THEN Owes(p) ELSE UNCHANGED owed
    /\ Finish(w)

\* What is wanted is fixed: a verdict is marked PROCESSING, a cancellation reads
\* what its payment has refunded and ends as ALREADY_REFUNDED if that is enough.
FixTarget(w, target) ==
    LET p == req[w].p
        k == req[w].k
        wanted == Requested(p, k, target) IN
    /\ At(w, "refund")
    /\ target \in Targets(p, k)
    /\ \/ /\ k \notin Kinds
          /\ wanted <= 0
          /\ owed' = [owed EXCEPT ![p] = "no"]
          /\ Finish(w)
          /\ UNCHANGED exec
       \/ /\ k \in Kinds \/ wanted > 0
          /\ req' = [req EXCEPT ![w].pc = "reading", ![w].amt = wanted]
          /\ exec' = IF k \in Kinds
                     THEN [exec EXCEPT ![p][k] = "PROCESSING"] ELSE exec
          /\ UNCHANGED owed
    /\ UNCHANGED <<partVars, escrow, payVars, bucketVars, ledgerVars,
                   stripeVars, case, verdictLocked, faults, opened>>

\* resolvePaymentForRefund: the payment and escrow rows every later write uses.
ReadRows(w) ==
    LET p == req[w].p IN
    /\ At(w, "reading")
    /\ req' = [req EXCEPT ![w].pc = "limiting",
                          ![w].seen = escrow[p], ![w].prior = refunded[p]]
    /\ UNCHANGED <<partVars, escrow, payVars, bucketVars, ledgerVars,
                   stripeVars, caseVars, owed, faults, opened>>

\* resolveMaxRefundableAmountForPayment reads the payment again, and Stripe.
FixAmount(w) ==
    LET p == req[w].p
        synced == IF req[w].k \in Kinds THEN "checking" ELSE "applying" IN
    /\ At(w, "limiting")
    /\ \/ /\ SyncFromStripe(w)
          /\ req' = [req EXCEPT ![w].pc = synced, ![w].amt = chargeBack[p]]
          /\ UNCHANGED <<exec, owed>>
       \/ /\ ~SyncFromStripe(w)
          /\ MaxRefundable(p) > 0
          /\ req' = [req EXCEPT ![w].pc = "charging",
                                ![w].amt = MinOf(@, MaxRefundable(p))]
          /\ UNCHANGED <<exec, owed>>
       \/ /\ ~SyncFromStripe(w)
          /\ MaxRefundable(p) <= 0
          /\ RefundError(w)
    /\ UNCHANGED <<partVars, escrow, payVars, bucketVars, ledgerVars,
                   stripeVars, case, verdictLocked, faults, opened>>

\* Stripe: a refund per idempotency key refund_<payment>_<amount>; a known key
\* returns the refund it made, and a charge is never refunded beyond its amount.
CallStripe(w) ==
    LET p == req[w].p
        a == req[w].amt
        answered == Goto(w, IF req[w].k \in Kinds THEN "checking" ELSE "applying")
                    /\ UNCHANGED <<exec, owed>> IN
    /\ At(w, "charging")
    /\ \/ /\ a \in charge[p]
          /\ answered
          /\ UNCHANGED stripeVars
       \/ /\ a \notin charge[p]
          /\ chargeBack[p] + a <= Paid[p]
          /\ charge' = [charge EXCEPT ![p] = @ \cup {a}]
          /\ chargeBack' = [chargeBack EXCEPT ![p] = @ + a]
          /\ events' = [events EXCEPT ![p] = @ \cup {chargeBack[p] + a}]
          /\ answered
       \/ /\ a \notin charge[p]
          /\ chargeBack[p] + a > Paid[p]
          /\ RefundError(w)
          /\ UNCHANGED stripeVars
    /\ UNCHANGED <<partVars, escrow, payVars, bucketVars, ledgerVars, case,
                   verdictLocked, faults, opened>>

\* The refund transaction of a verdict first looks whether it was applied.
CheckApplied(w) ==
    LET p == req[w].p IN
    /\ At(w, "checking")
    /\ req' = [req EXCEPT ![w].pc = "applying",
           ![w].skip = refunded[p] >= req[w].amt /\ payEscrow[p] = "REFUNDED"]
    /\ UNCHANGED <<partVars, escrow, payVars, bucketVars, ledgerVars,
                   stripeVars, caseVars, owed, faults, opened>>

\* applyRefundDbUpdates: every write uses what the snapshot read.  The bucket
\* that pays is that of the escrow status then; RELEASING has none.
ApplyLedger(w) ==
    LET p == req[w].p
        seen == req[w].seen
        total == req[w].prior + req[w].amt IN
    /\ escrow' = [escrow EXCEPT ![p] = "REFUNDED"]
    /\ payEscrow' = [payEscrow EXCEPT ![p] = "REFUNDED"]
    /\ refunded' = [refunded EXCEPT ![p] = total]
    /\ payStatus' = [payStatus EXCEPT ![p] =
                        IF total >= Paid[p] THEN "REFUNDED" ELSE "SUCCESS"]
    /\ IF seen = "HELD" THEN AddTo(pending, p, -Merchant[p]) ELSE UNCHANGED pending
    /\ IF seen = "FROZEN" THEN AddTo(frozen, p, -Merchant[p]) ELSE UNCHANGED frozen
    /\ IF seen = "RELEASED" THEN AddTo(balance, p, -Merchant[p]) ELSE UNCHANGED balance
    /\ IF seen \in {"HELD", "FROZEN", "RELEASED"}
       THEN Counted(debits, p) ELSE UNCHANGED debits

\* The transaction commits; a verdict's also closes its case and its part.
ApplyRefund(w) ==
    LET p == req[w].p
        k == req[w].k IN
    /\ At(w, "applying")
    /\ \/ req[w].skip /\ UNCHANGED <<escrow, payVars, bucketVars, debits>>
       \/ ~req[w].skip /\ ApplyLedger(w)
    /\ IF k \in Kinds
       THEN /\ exec' = [exec EXCEPT ![p][k] = "SUCCEEDED"]
            /\ stage' = [stage EXCEPT ![p] = "CANCELLED"]
            /\ locked' = [locked EXCEPT ![p] = TRUE]
            /\ UNCHANGED owed
       ELSE /\ owed' = IF k = "part" THEN [owed EXCEPT ![p] = "no"] ELSE owed
            /\ UNCHANGED <<exec, stage, locked>>
    /\ Finish(w)
    /\ UNCHANGED <<late, covered, releases, awards, commission, stripeVars,
                   case, verdictLocked, faults, opened>>

\* handleStripeChargeRefunded: the refunded total of the event, in any order.
ChargeRefunded(p, e) ==
    /\ e \in events[p]
    /\ events' = [events EXCEPT ![p] = @ \ {e}]
    /\ refunded' = [refunded EXCEPT ![p] = e]
    /\ payStatus' = [payStatus EXCEPT ![p] = IF e >= Paid[p] THEN "REFUNDED" ELSE @]
    /\ UNCHANGED <<partVars, escrow, payEscrow, bucketVars, ledgerVars, charge,
                   chargeBack, caseVars, owed, req, faults, opened>>

-----------------------------------------------------------------------------
(* Faults.                                                                  *)

\* The process stops, or the connection fails: the request is forgotten.
Crash(w) ==
    /\ ~IsIdle(w)
    /\ faults < MaxFaults
    /\ faults' = faults + 1
    /\ Finish(w)
    /\ UNCHANGED <<partVars, escrow, payVars, bucketVars, ledgerVars,
                   stripeVars, caseVars, owed, opened>>

\* Stripe or the refund transaction fails (its answer may be lost after it
\* took effect) and the caller's catch block runs.
RefundFails(w) ==
    /\ req[w].pc \in {"reading", "limiting", "charging", "checking", "applying"}
    /\ faults < MaxFaults
    /\ faults' = faults + 1
    /\ RefundError(w)
    /\ UNCHANGED <<partVars, escrow, payVars, bucketVars, ledgerVars,
                   stripeVars, case, verdictLocked, opened>>

-----------------------------------------------------------------------------
Environment(p) ==
    \/ HoldFunds(p) \/ Deliver(p) \/ WindowEnds(p) \/ CompleteOffer(p)
    \/ WarrantyEnds(p) \/ RetryLapses(p) \/ \E e \in events[p] : ChargeRefunded(p, e)

Start(w, p) ==
    \/ StartSettlement(w, p) \/ StartSync(w, p) \/ StartAdminRelease(w, p)
    \/ \E k \in Kinds : \/ StartOpenCase(w, p, k) \/ StartEscalate(w, p, k)
                        \/ StartVerdict(w, p, k) \/ RetryVerdict(w, p, k)
    \/ StartCloseReturn(w, p)
    \/ CancelPart(w, p) \/ CancelOrder(w, p) \/ RetryPart(w, p)

Continue(w) ==
    \/ MarkReleasing(w) \/ SettleRelease(w)
    \/ ReadHeld(w) \/ Freeze(w) \/ CreateCase(w)
    \/ CloseReturn(w) \/ ReadFrozen(w) \/ Unfreeze(w) \/ EscalateCase(w)
    \/ ReadAwarded(w) \/ Award(w) \/ DecideRefund(w)
    \/ MarkOwed(w)
    \/ (At(w, "refund") /\ \E t \in Targets(req[w].p, req[w].k) : FixTarget(w, t))
    \/ ReadRows(w) \/ FixAmount(w)
    \/ CallStripe(w) \/ CheckApplied(w) \/ ApplyRefund(w)

Next ==
    \/ \E p \in Payments : Environment(p)
    \/ \E w \in Workers : \/ \E p \in Payments : Start(w, p)
                          \/ Continue(w) \/ Crash(w) \/ RefundFails(w)

Spec == Init /\ [][Next]_vars

\* A request that is not cut off runs to its end, Stripe delivers its events and
\* time passes.  The hourly sync and the retry cron come round again and again:
\* a row that stays in want is taken up, as long as the rows that stay in want
\* with it fit in one pass.  They need no idle worker to be due, and nothing is
\* promised of a row that is in want only between two passes.
SyncComesRound(p) ==
    \/ []<>~(Settleable(p) /\ Cardinality(SyncRows) <= SyncLimit)
    \/ []<><<\E w \in Workers : StartSettlement(w, p)>>_vars

RetryComesRound(p) ==
    \/ []<>~(Retriable(p) /\ Cardinality(RetryRows) <= RetryLimit)
    \/ []<><<\E w \in Workers : RetryPart(w, p)>>_vars

Fairness ==
    /\ \A w \in Workers : WF_vars(Continue(w))
    /\ \A p \in Payments :
        /\ SyncComesRound(p)
        /\ RetryComesRound(p)
        /\ WF_vars(WindowEnds(p))
        /\ WF_vars(WarrantyEnds(p))
        /\ WF_vars(CompleteOffer(p))
        /\ WF_vars(\E e \in events[p] : ChargeRefunded(p, e))

FairSpec == Spec /\ Fairness

-----------------------------------------------------------------------------
(* Properties of every schedule of the requests.                            *)

\* The types of the rows, of the counters and of the requests in flight.
TypeOK ==
    /\ stage \in [Payments -> Stages]
    /\ late \in [Payments -> BOOLEAN]
    /\ covered \in [Payments -> BOOLEAN]
    /\ locked \in [Payments -> BOOLEAN]
    /\ escrow \in [Payments -> EscrowStatuses]
    /\ payStatus \in [Payments -> PaymentStatuses]
    /\ payEscrow \in [Payments -> PaymentEscrow]
    /\ refunded \in [Payments -> Nat]
    /\ pending \in [Payments -> Int]
    /\ frozen \in [Payments -> Int]
    /\ balance \in [Payments -> Int]
    /\ releases \in [Payments -> Nat]
    /\ awards \in [Payments -> Nat]
    /\ debits \in [Payments -> Nat]
    /\ commission \in [Payments -> Nat]
    /\ charge \in [Payments -> SUBSET Nat]
    /\ chargeBack \in [Payments -> Nat]
    /\ events \in [Payments -> SUBSET Nat]
    /\ case \in [Payments -> [Kinds -> CaseStatuses]]
    /\ verdictLocked \in [Payments -> [Kinds -> BOOLEAN]]
    /\ exec \in [Payments -> [Kinds -> ExecStatuses]]
    /\ owed \in [Payments -> OwedStates]
    /\ req \in [Workers -> Requests \cup {Idle}]
    /\ faults \in Nat
    /\ opened \in Nat

\* However many completions, crons and administrators release an escrow at
\* once, releaseFunds credits the merchant for it at most once.
ReleasedOnce == \A p \in Payments : releases[p] <= 1

\* Whatever the order of freezes, releases, verdicts and refunds, the three
\* buckets of the store together hold the merchant share of each captured
\* payment, less what refunds took back.
ShareIsConserved == \A p \in Payments :
    pending[p] + frozen[p] + balance[p] =
        IF escrow[p] = "NONE" THEN 0 ELSE Merchant[p] - Merchant[p] * debits[p]

\* The ledger never runs ahead of Stripe: the merchant is debited and a verdict
\* is reported as executed only for a charge Stripe has refunded from.
StripeBeforeLedger == \A p \in Payments :
    debits[p] > 0 \/ (\E k \in Kinds : exec[p][k] = "SUCCEEDED")
        => chargeBack[p] > 0

\* Competing refunds and late webhooks never return more than the customer paid,
\* at Stripe or in the payment row.
WithinPaid == \A p \in Payments :
    refunded[p] <= Paid[p] /\ chargeBack[p] <= Paid[p]

-----------------------------------------------------------------------------
(* Properties of schedules in which the requests of a payment do not overlap *)
(* (one worker); crashes, failed refunds and webhooks still interleave.     *)

\* While a case waits for the first verdict on its part, the merchant share of
\* the part is frozen.  (Once one case is decided another may be left open.)
FrozenWhileCaseOpen == \A p \in Payments :
    /\ \E k \in Kinds : case[p][k] \in OpenStatuses
    /\ \A k \in Kinds : ~verdictLocked[p][k]
    => escrow[p] = "FROZEN"

\* The merchant is paid at most once, by completion or by verdict, and pays back
\* at most once.
SettledOnce == \A p \in Payments :
    releases[p] + awards[p] <= 1 /\ debits[p] <= 1

-----------------------------------------------------------------------------
(* Liveness, under FairSpec.                                                *)

\* Whatever crashes in between, the share of a part that stays completed and paid
\* does not stay with the platform, in HELD or RELEASING, and a refund owed for a
\* cancelled part is paid in full, unless its row outlives the 14 days of retries.
Unsettled(p) ==
    /\ stage[p] = "COMPLETED"
    /\ payStatus[p] = "SUCCESS"
    /\ escrow[p] \in {"HELD", "RELEASING"}

HealedByCrons == \A p \in Payments :
    /\ Unsettled(p) ~> ~Unsettled(p)
    /\ owed[p] = "due" ~> refunded[p] = Paid[p] \/ owed[p] = "lapsed"

=============================================================================
