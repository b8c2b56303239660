---------------------------- MODULE PaymentIntake ----------------------------
(***************************************************************************)
(* How the payment of an accepted offer reaches the escrow: payment        *)
(* intents, the Stripe webhooks that report their success or failure, the  *)
(* client's confirmation, and the expiry of an unpaid order, as in         *)
(* src/backend/src/payments/payments.service.ts,                           *)
(* src/backend/src/stripe/stripe-webhook.controller.ts and the payment     *)
(* deadline of src/backend/src/scheduler/order-cleanup.service.ts.         *)
(* What happens to the money afterwards is the subject of Escrow.          *)
(*                                                                         *)
(* The offer has one payment row, which names one intent at a time.  A     *)
(* worker is a request, a webhook or a cron pass; a step of it is one      *)
(* transaction, one statement outside a transaction or one Stripe call.    *)
(***************************************************************************)
EXTENDS Naturals

CONSTANTS
    Intents,     \* the payment intents Stripe may create (bounds their number)
    NoIntent,    \* a payment row that does not exist names no intent
    Workers,     \* the requests that may be in flight at once
    HasSiblings, \* the order has other accepted offers, paid on their own
    MaxDeclines, \* bound: declined cards of a behaviour
    MaxFaults    \* bound: requests cut off in a behaviour

ASSUME IntakeAssumption ==
    /\ NoIntent \notin Intents
    /\ HasSiblings \in BOOLEAN
    /\ MaxDeclines \in Nat /\ MaxFaults \in Nat

OrderStatuses == {"AWAITING_PAYMENT", "PARTIALLY_PAID", "PREPARATION", "CANCELLED"}
PartStatuses == {"AWAITING_PAYMENT", "IN_PREPARATION"}
RowStatuses == {"NONE", "PENDING", "SUCCESS", "FAILED", "REFUNDED"}
EscrowStatuses == {"NONE", "HELD", "REFUNDED"}
IntentStatuses == {"unused", "open", "captured"}
Event == [type : {"succeeded", "failed"}, intent : Intents]

VARIABLES
    order,     \* Order.status
    part,      \* Offer.fulfillmentStatus
    status,    \* PaymentTransaction.status, "NONE" while there is no row
    current,   \* PaymentTransaction.stripePaymentId
    charged,   \* PaymentTransaction.stripeChargeId, as the intent of the charge
    escrow,    \* EscrowTransaction.status, "NONE" while there is no row
    holds,     \* times holdFunds credited the merchant's pending balance
    intent,    \* Stripe: the status of each intent
    events,    \* Stripe: webhook events not answered with success yet
    secrets,   \* the intents whose client secret the customer's page has
    req,       \* the request each worker is executing
    declines,  \* declined cards so far
    faults     \* requests cut off so far

rowVars == <<status, current, charged>>
moneyVars == <<escrow, holds>>
stripeVars == <<intent, events, declines>>
vars == <<order, part, rowVars, moneyVars, stripeVars, secrets, req, faults>>

-----------------------------------------------------------------------------
(* Requests in flight.                                                      *)

Pcs == {"reading", "resolving", "upserting", "finding", "claiming",
        "recomputing", "writing", "checking", "failing", "refunding"}

\* pc    the next step of the request
\* i     the intent it is about, or will store in the row
\* seen  the row or order status it read, or the order status it will write
\* hook  it answers a webhook
Requests == [pc : Pcs, i : Intents \cup {NoIntent},
             seen : RowStatuses \cup OrderStatuses, hook : BOOLEAN]

Idle == [pc |-> "idle"]
IsIdle(w) == req[w].pc = "idle"
At(w, pc) == req[w].pc = pc

Begin(w, pc, i, hook) ==
    req' = [req EXCEPT ![w] = [pc |-> pc, i |-> i, seen |-> "NONE", hook |-> hook]]
Goto(w, pc) == req' = [req EXCEPT ![w].pc = pc]
Drop(w) == req' = [req EXCEPT ![w] = Idle]

\* The event a webhook answers.
Answered(w) ==
    [type |-> IF req[w].pc \in {"checking", "failing"} THEN "failed" ELSE "succeeded",
     intent |-> req[w].i]

\* A webhook handled to its end is recorded as SUCCESS and acknowledged.
Finish(w) ==
    /\ Drop(w)
    /\ events' = IF req[w].hook THEN events \ {Answered(w)} ELSE events

\* A webhook whose handler throws is recorded as FAILED and answered with 500:
\* Stripe sends the event again.
Fail(w) ==
    /\ Drop(w)
    /\ events' = IF req[w].hook THEN events \cup {Answered(w)} ELSE events

Init ==
    /\ order = "AWAITING_PAYMENT"
    /\ part = "AWAITING_PAYMENT"
    /\ status = "NONE"
    /\ current = NoIntent
    /\ charged = NoIntent
    /\ escrow = "NONE"
    /\ holds = 0
    /\ intent = [i \in Intents |-> "unused"]
    /\ events = {}
    /\ secrets = {}
    /\ req = [w \in Workers |-> Idle]
    /\ declines = 0
    /\ faults = 0

-----------------------------------------------------------------------------
(* The customer's page: the client secret of an intent pays it at Stripe.   *)

Pay(i) ==
    /\ i \in secrets
    /\ intent[i] = "open"
    /\ intent' = [intent EXCEPT ![i] = "captured"]
    /\ events' = events \cup {[type |-> "succeeded", intent |-> i]}
    /\ UNCHANGED <<order, part, rowVars, moneyVars, declines, secrets, req, faults>>

\* A declined card leaves the intent open, and the page keeps its secret.
Decline(i) ==
    /\ i \in secrets
    /\ intent[i] = "open"
    /\ declines < MaxDeclines
    /\ declines' = declines + 1
    /\ events' = events \cup {[type |-> "failed", intent |-> i]}
    /\ UNCHANGED <<order, part, rowVars, moneyVars, intent, secrets, req, faults>>

-----------------------------------------------------------------------------
(* createPaymentIntent, resolveOrCreateStripeIntent.                        *)

Payable == {"AWAITING_PAYMENT", "PARTIALLY_PAID"}

\* The order is read first ...
StartCreate(w) ==
    /\ IsIdle(w)
    /\ order \in Payable
    /\ Begin(w, "reading", NoIntent, FALSE)
    /\ UNCHANGED <<order, part, rowVars, moneyVars, stripeVars, secrets, faults>>

\* ... then the payment row: SUCCESS blocks.
BlocksIntent == status = "SUCCESS"

ReadRow(w) ==
    /\ At(w, "reading")
    /\ IF BlocksIntent
       THEN Drop(w)
       ELSE req' = [req EXCEPT ![w].pc = "resolving", ![w].seen = status,
                               ![w].i = current]
    /\ UNCHANGED <<order, part, rowVars, moneyVars, stripeVars, secrets, faults>>

\* The open intent of a PENDING row is used again; otherwise Stripe creates one.
Reusable(w) ==
    /\ req[w].seen = "PENDING"
    /\ req[w].i # NoIntent /\ intent[req[w].i] = "open"

ResolveIntent(w) ==
    /\ At(w, "resolving")
    /\ \/ Reusable(w) /\ Goto(w, "upserting") /\ UNCHANGED intent
       \/ /\ ~Reusable(w)
          /\ \E i \in Intents :
              /\ intent[i] = "unused"
              /\ intent' = [intent EXCEPT ![i] = "open"]
              /\ req' = [req EXCEPT ![w].pc = "upserting", ![w].i = i]
       \/ \* The bound on intents.
          /\ ~Reusable(w)
          /\ \A i \in Intents : intent[i] # "unused"
          /\ Drop(w)
          /\ UNCHANGED intent
    /\ UNCHANGED <<order, part, rowVars, moneyVars, events, declines, secrets, faults>>

\* The upsert tests nothing; its answer carries the client secret.
UpsertRow(w) ==
    /\ At(w, "upserting")
    /\ status' = "PENDING"
    /\ current' = req[w].i
    /\ secrets' = secrets \cup {req[w].i}
    /\ Drop(w)
    /\ UNCHANGED <<order, part, charged, moneyVars, stripeVars, faults>>

-----------------------------------------------------------------------------
(* fulfillStripePayment, from a webhook or from the customer's page, and    *)
(* recomputeOrderStatus after it.                                           *)

\* The webhook controller: an event recorded as SUCCESS is skipped, any other
\* enters its handler, and nothing is acknowledged yet.
Acknowledge_first(e) == events' = events \ {e}
Acknowledge(e) == events' = events

Deliver(w, e) ==
    /\ IsIdle(w)
    /\ e \in events
    /\ Begin(w, IF e.type = "succeeded" THEN "finding" ELSE "checking", e.intent, TRUE)
    /\ Acknowledge(e)
    /\ UNCHANGED <<order, part, rowVars, moneyVars, intent, declines, secrets, faults>>

\* confirmPaymentIntentFromClient asks Stripe whether the intent succeeded.
Confirmable_open(i) == intent[i] # "unused"
Confirmable(i) == intent[i] = "captured"

\* A paid offer that still awaits its payment is advanced.
Healed_order == "PREPARATION"
Healed == IF part = "AWAITING_PAYMENT" THEN "IN_PREPARATION" ELSE part

Confirm(w, i) ==
    /\ IsIdle(w)
    /\ i \in secrets
    /\ current = i
    /\ IF status = "SUCCESS"
       THEN /\ part' = Healed
            /\ IF part' # part THEN Begin(w, "recomputing", i, FALSE) ELSE UNCHANGED req
       ELSE /\ Confirmable(i)
            /\ Begin(w, "finding", i, FALSE)
            /\ UNCHANGED part
    /\ UNCHANGED <<order, rowVars, moneyVars, stripeVars, secrets, faults>>

\* The row is looked up by intent together with its order.  No row: nothing to
\* do.  A cancelled order: refused.
Refused_never == FALSE
Refused == order = "CANCELLED"

FindPayment(w) ==
    /\ At(w, "finding")
    /\ \/ current # req[w].i /\ Finish(w)
       \/ current = req[w].i /\ Refused /\ Fail(w)
       \/ current = req[w].i /\ ~Refused /\ Goto(w, "claiming") /\ UNCHANGED events
    /\ UNCHANGED <<order, part, rowVars, moneyVars, intent, declines, secrets, faults>>

\* holdFunds: an escrow that exists is not held again.
HoldFunds_again == escrow' = "HELD" /\ holds' = holds + 1
HoldFunds ==
    IF escrow = "NONE"
    THEN escrow' = "HELD" /\ holds' = holds + 1
    ELSE UNCHANGED moneyVars

\* The fulfilment transaction claims the PENDING row, by its id.
Claim(w) ==
    /\ At(w, "claiming")
    /\ \/ /\ status = "PENDING"
          /\ status' = "SUCCESS"
          /\ charged' = req[w].i
          /\ part' = "IN_PREPARATION"
          /\ HoldFunds
          /\ Goto(w, "recomputing")
          /\ UNCHANGED events
       \/ /\ status = "SUCCESS"
          /\ part' = Healed
          /\ Finish(w)
          /\ UNCHANGED <<status, charged, moneyVars>>
       \/ /\ status \notin {"PENDING", "SUCCESS"}
          /\ Fail(w)
          /\ UNCHANGED <<part, status, charged, moneyVars>>
    /\ UNCHANGED <<order, current, intent, declines, secrets, faults>>

\* aggregateOrderStatusFromOffers: the order follows its least advanced offer,
\* and waits for the payment of the others.
Aggregates ==
    IF status = "SUCCESS"
    THEN {"PREPARATION"} \cup IF HasSiblings THEN {"PARTIALLY_PAID"} ELSE {}
    ELSE {"AWAITING_PAYMENT"} \cup IF HasSiblings THEN {"PARTIALLY_PAID"} ELSE {}

\* A cancelled order is left alone, and so is one that has the status already.
ReadOrder(w) ==
    /\ At(w, "recomputing")
    /\ \/ order = "CANCELLED" /\ Finish(w)
       \/ /\ order # "CANCELLED"
          /\ \E next \in Aggregates :
              IF next = order
              THEN Finish(w)
              ELSE /\ req' = [req EXCEPT ![w].pc = "writing", ![w].seen = next]
                   /\ UNCHANGED events
    /\ UNCHANGED <<order, part, rowVars, moneyVars, intent, declines, secrets, faults>>

\* The update of the order tests nothing.
WriteOrder(w) ==
    /\ At(w, "writing")
    /\ order' = req[w].seen
    /\ Finish(w)
    /\ UNCHANGED <<part, rowVars, moneyVars, intent, declines, secrets, faults>>

-----------------------------------------------------------------------------
(* handlePaymentFailure.                                                    *)

CheckFailed(w) ==
    /\ At(w, "checking")
    /\ IF current = req[w].i /\ status = "PENDING"
       THEN Goto(w, "failing") /\ UNCHANGED events
       ELSE Finish(w)
    /\ UNCHANGED <<order, part, rowVars, moneyVars, intent, declines, secrets, faults>>

\* The update by id tests nothing.
MarkFailed(w) ==
    /\ At(w, "failing")
    /\ status' = "FAILED"
    /\ Finish(w)
    /\ UNCHANGED <<order, part, current, charged, moneyVars, intent, declines,
                   secrets, faults>>

-----------------------------------------------------------------------------
(* The payment deadline: expireAwaitingPayment and transitionStatus.        *)

\* The status is updated only if it is still the one that was read.
ExpireOrder(w) ==
    /\ IsIdle(w)
    /\ order \in Payable
    /\ order' = "CANCELLED"
    /\ Begin(w, "refunding", NoIntent, FALSE)
    /\ UNCHANGED <<part, rowVars, moneyVars, stripeVars, secrets, faults>>

\* refundPaidOrderOnCancel, detached: a paid offer is refunded, through the
\* intent its row names; the row stays SUCCESS when a fee is withheld.
Refundable == status = "SUCCESS" /\ escrow = "HELD" /\ intent[current] = "captured"

RefundCancelled(w) ==
    /\ At(w, "refunding")
    /\ \/ /\ Refundable
          /\ escrow' = "REFUNDED"
          /\ status' \in {"SUCCESS", "REFUNDED"}
       \/ ~Refundable /\ UNCHANGED <<escrow, status>>
    /\ Drop(w)
    /\ UNCHANGED <<order, part, current, charged, holds, stripeVars, secrets, faults>>

\* A request is cut off: its event, if it has one, is not acknowledged.
Crash(w) ==
    /\ ~IsIdle(w)
    /\ faults < MaxFaults
    /\ faults' = faults + 1
    /\ Drop(w)
    /\ UNCHANGED <<order, part, rowVars, moneyVars, stripeVars, secrets>>

-----------------------------------------------------------------------------
Continue(w) ==
    \/ ReadRow(w) \/ ResolveIntent(w) \/ UpsertRow(w)
    \/ FindPayment(w) \/ Claim(w) \/ ReadOrder(w) \/ WriteOrder(w)
    \/ CheckFailed(w) \/ MarkFailed(w)
    \/ RefundCancelled(w)

Start(w) ==
    \/ StartCreate(w) \/ ExpireOrder(w)
    \/ \E e \in Event : Deliver(w, e)
    \/ \E i \in Intents : Confirm(w, i)

Next ==
    \/ \E i \in Intents : Pay(i) \/ Decline(i)
    \/ \E w \in Workers : Start(w) \/ Continue(w) \/ Crash(w)

Spec == Init /\ [][Next]_vars

\* A request that is not cut off runs to its end, and Stripe sends an event
\* again until it is acknowledged, whoever occupies the workers meanwhile.
FairSpec ==
    /\ Spec
    /\ \A w \in Workers : WF_vars(Continue(w))
    /\ \A e \in Event : SF_vars(\E w \in Workers : Deliver(w, e))

-----------------------------------------------------------------------------
(* Properties of every schedule of the requests.                            *)

\* The types of the rows, of Stripe's objects and of the requests in flight.
TypeOK ==
    /\ order \in OrderStatuses
    /\ part \in PartStatuses
    /\ status \in RowStatuses
    /\ current \in Intents \cup {NoIntent}
    /\ charged \in Intents \cup {NoIntent}
    /\ escrow \in EscrowStatuses
    /\ holds \in Nat
    /\ intent \in [Intents -> IntentStatuses]
    /\ events \subseteq Event
    /\ secrets \subseteq Intents
    /\ req \in [Workers -> Requests \cup {Idle}]
    /\ declines \in Nat
    /\ faults \in Nat

\* Webhooks that are repeated or overlap, a confirming page and a payment row
\* that is offered for payment again never credit the merchant twice.
HeldOnce == holds <= 1

\* The merchant is told to prepare a part only against a charge that Stripe has
\* captured and whose share was put in escrow.
PreparedIsPaid ==
    part = "IN_PREPARATION" =>
        /\ charged \in Intents /\ intent[charged] = "captured"
        /\ holds = 1

-----------------------------------------------------------------------------
(* Properties of schedules in which requests do not overlap (one worker);   *)
(* declines, repeated webhooks and requests cut off still interleave.       *)

\* "Never credit wallets / advance fulfillment on cancelled or closed orders":
\* nothing is held for an order that was cancelled while the customer paid.
NothingHeldAfterCancel == [][order = "CANCELLED" => holds' = holds]_vars

-----------------------------------------------------------------------------
(* Liveness, under FairSpec.                                                *)

\* The money of a captured intent that the payment row names, and that no decline
\* has failed, is held or finds its order cancelled, whatever is cut off on the way.
NamedCaptureIsHeld == \A i \in Intents :
    intent[i] = "captured"
        ~> (charged = i \/ order = "CANCELLED" \/ current # i \/ status = "FAILED")

\* "Please try again or use a different payment method": a capture is never
\* simply forgotten.  False after a decline, and when the row names another
\* intent by the time the webhook arrives.
CapturedIsHeld == \A i \in Intents :
    intent[i] = "captured" ~> (charged = i \/ order = "CANCELLED")

=============================================================================
