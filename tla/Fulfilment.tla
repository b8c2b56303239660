----------------------------- MODULE Fulfilment -----------------------------
(***************************************************************************)
(* An order of several parts from its payment to its completion.  Every    *)
(* part has an accepted offer of its own merchant and moves by itself:     *)
(* paid, prepared, verified, shipped, delivered, completed, or cancelled   *)
(* and refunded.  The status of the order is derived from its parts by     *)
(* recomputeOrderStatus, which every handler calls after it has moved one. *)
(* Code: orders/offer-fulfillment.service.ts, orders/orders.service.ts and *)
(* scheduler/order-cleanup.service.ts of src/backend/src.                  *)
(*                                                                         *)
(* A worker is an HTTP request, a webhook or a cron pass.  It checks in    *)
(* one step, moves its parts in the next, reads the order and its parts to *)
(* derive the status in a third and writes it in a fourth; most writes are *)
(* by id and do not test again what was checked.  "late" records which of  *)
(* them came too late.                                                     *)
(***************************************************************************)
EXTENDS Naturals, FiniteSets, Sequences

CONSTANTS
    Workers,   \* requests, webhooks and cron passes in flight
    Parts,     \* the parts of the order, each with its accepted offer
    MaxDocs,   \* verification documents handed in for the order
    MaxLate    \* kinds of late steps after which requests come one at a time

ASSUME FulfilmentAssumption ==
    /\ IsFiniteSet(Parts)
    /\ Parts # {}
    /\ MaxDocs \in Nat
    /\ MaxLate \in Nat

VARIABLES
    order,    \* orders.status
    ful,      \* offers.fulfillmentStatus
    payment,  \* the payment of the part; "NET" is SUCCESS, refunded less the fee
    due,      \* a refund of the part under way: "part", "full" or "net"
    grace,    \* the extra time for preparation: "none", "running", "over"
    docs,     \* the verification documents of the part, oldest first
    cart,     \* the parts it left the assembly cart with, {} before
    arrived,  \* the parts with a deliveredAt
    req,      \* what each worker is at, and what it has read
    late      \* history: the kinds of late steps there have been

vars == <<order, ful, payment, due, grace, docs, cart, arrived, req, late>>
money == <<payment, due>>
goods == <<cart, arrived>>

(***************************************************************************)
(* Values                                                                  *)
(***************************************************************************)
FulStatuses ==
    {"AWAITING_PAYMENT", "IN_PREPARATION", "PREPARED", "VERIFICATION",
     "VERIFICATION_SUCCESS", "READY_FOR_SHIPPING", "SHIPPED", "DELIVERED",
     "COMPLETED", "CANCELLED"}

\* The statuses of an order from its payment on, without warranty and cases.
Statuses ==
    {"AWAITING_PAYMENT", "PARTIALLY_PAID", "PREPARATION", "DELAYED_PREPARATION",
     "PREPARED", "VERIFICATION", "VERIFICATION_SUCCESS", "READY_FOR_SHIPPING",
     "PARTIALLY_SHIPPED", "SHIPPED", "PARTIALLY_DELIVERED", "DELIVERED",
     "COMPLETED", "CANCELLED"}

\* A rejected document has a clock that is running (OPEN), has run out (OVER),
\* or was cleared or never set (REJECTED).
DocStates == {"PENDING", "APPROVED", "OPEN", "OVER", "REJECTED"}
Rejected == {"OPEN", "OVER", "REJECTED"}

Unpaid == {"AWAITING_PAYMENT", "PARTIALLY_PAID"}
Paid == {p \in Parts : payment[p] \in {"SUCCESS", "NET"}}
Live == {p \in Parts : ful[p] # "CANCELLED"}
Gone == {"SHIPPED", "DELIVERED", "COMPLETED"}
Verified == Gone \cup {"VERIFICATION_SUCCESS", "READY_FOR_SHIPPING"}

Locked == {"CANCELLED", "COMPLETED"}

Steps == {"idle", "prepare", "submit", "correct", "decide", "apply", "ready",
          "ship", "delay", "grace", "expire", "cancel", "recompute", "write",
          "after", "return"}

Blank == [at |-> "idle", parts |-> {}, doc |-> 0, why |-> "none",
          next |-> "CANCELLED"]

Requests ==
    [at : Steps, parts : SUBSET Parts, doc : Nat,
     why : {"none", "approve", "reject", "strike", "again", "late", "overdue", "ship"},
     next : Statuses]

(***************************************************************************)
(* The status an order derives from its parts                              *)
(***************************************************************************)
FULFILLMENT_RANK ==
    [s \in FulStatuses \ {"CANCELLED"} |->
        CASE s = "AWAITING_PAYMENT" -> 0
          [] s = "IN_PREPARATION" -> 10
          [] s = "PREPARED" -> 20
          [] s = "VERIFICATION" -> 30
          [] s = "VERIFICATION_SUCCESS" -> 40
          [] s = "READY_FOR_SHIPPING" -> 50
          [] s = "SHIPPED" -> 60
          [] s = "DELIVERED" -> 70
          [] s = "COMPLETED" -> 80]

\* Parts of which all have left: SHIPPED to COMPLETED.
aggregateMultiItemDeliveryStatus(ps) ==
    IF \E p \in ps : ful[p] \notin Gone THEN "PARTIALLY_SHIPPED"
    ELSE IF \A p \in ps : ful[p] = "COMPLETED" THEN "COMPLETED"
    ELSE IF \A p \in ps : ful[p] \in {"DELIVERED", "COMPLETED"} THEN "DELIVERED"
    ELSE IF \E p \in ps : ful[p] \in {"DELIVERED", "COMPLETED"} THEN "PARTIALLY_DELIVERED"
    ELSE "SHIPPED"

aggregateOrderStatusFromOffers ==
    LET active == Live \cap Paid
        shipped == {p \in active : cart[p] # {} \/ ful[p] \in Gone}
        within(rank) == \E p \in active : FULFILLMENT_RANK[ful[p]] <= rank
    IN  CASE active = {} /\ Paid # {} -> "CANCELLED"
          [] active = {} /\ Paid = {} -> "AWAITING_PAYMENT"
          [] active # {} /\ active # Live -> "PARTIALLY_PAID"
          [] active # {} /\ active = Live /\ shipped = active ->
                aggregateMultiItemDeliveryStatus(active)
          [] active # {} /\ active = Live /\ shipped # {} /\ shipped # active ->
                "PARTIALLY_SHIPPED"
          [] OTHER ->
                CASE within(10) -> "PREPARATION"
                  [] ~within(10) /\ within(20) -> "PREPARED"
                  [] ~within(20) /\ within(30) -> "VERIFICATION"
                  [] ~within(30) /\ within(40) -> "VERIFICATION_SUCCESS"
                  [] OTHER -> "READY_FOR_SHIPPING"

\* Mutant: an order in its extra time is left alone altogether.
Derived_grace ==
    IF order \in {"CANCELLED", "DELAYED_PREPARATION"}
    THEN order
    ELSE aggregateOrderStatusFromOffers

\* What recomputeOrderStatus makes of the order and the parts it reads: a
\* cancelled order stays, and so does the extra time for preparation.
Derived ==
    IF order = "CANCELLED" \/ (/\ order = "DELAYED_PREPARATION"
                               /\ aggregateOrderStatusFromOffers = "PREPARATION")
    THEN order
    ELSE aggregateOrderStatusFromOffers

(***************************************************************************)
(* Requests                                                                *)
(***************************************************************************)
Begin(w, r) ==
    /\ req[w].at = "idle"
    /\ Cardinality(late) < MaxLate \/ \A v \in Workers : req[v].at = "idle"
    /\ req' = [req EXCEPT ![w] = r]

Go(w, r) == req' = [req EXCEPT ![w] = r]

Job(at, ps) == [Blank EXCEPT !.at = at, !.parts = ps]

\* A part has been moved; now the order is to follow.
Recompute(w, why, ps) ==
    Go(w, [Blank EXCEPT !.at = "recompute", !.why = why, !.parts = ps])

Late(kind, when) == late' = IF when THEN late \cup {kind} ELSE late

\* updateMany of the fulfilment status by id.
Move(ps, status) == ful' = [p \in Parts |-> IF p \in ps THEN status ELSE ful[p]]

\* The recomputation is over, with status s: the handler goes on or returns.
Continue(w, s) ==
    IF req[w].why = "none"
    THEN Blank
    ELSE [req[w] EXCEPT !.at = "after",
                        !.next = IF req[w].why = "strike" THEN s ELSE "CANCELLED"]

ReadOrder(w) ==
    /\ req[w].at = "recompute"
    /\ Go(w, IF Derived = order
             THEN Continue(w, order)
             ELSE [req[w] EXCEPT !.at = "write", !.next = Derived])
    /\ UNCHANGED <<order, ful, grace, docs, late, money, goods>>

\* The order is updated by id.
WriteOrder(w) ==
    /\ req[w].at = "write"
    /\ order' = req[w].next
    /\ Late("order", req[w].next # Derived)
    /\ Go(w, Continue(w, req[w].next))
    /\ UNCHANGED <<ful, grace, docs, money, goods>>

(***************************************************************************)
(* Payment                                                                 *)
(***************************************************************************)
\* Stripe captures the payment of one part; PaymentIntake has the steps.
Pay(w, p) ==
    /\ order \in Unpaid
    /\ payment[p] = "none"
    /\ Begin(w, Job("recompute", {}))
    /\ payment' = [payment EXCEPT ![p] = "SUCCESS"]
    /\ ful' = [ful EXCEPT ![p] = "IN_PREPARATION"]
    /\ UNCHANGED <<order, due, grace, docs, late, goods>>

\* The payment deadline has passed.
StartExpire(w) ==
    /\ order \in Unpaid
    /\ Begin(w, Job("expire", {}))
    /\ UNCHANGED <<order, ful, grace, docs, late, money, goods>>

\* The statuses the state machine lets go to CANCELLED.
Cancellable ==
    Statuses \ {"SHIPPED", "PARTIALLY_DELIVERED", "DELIVERED", "COMPLETED", "CANCELLED"}

\* Mutant: the status is passed where the kind of refund belongs.
OwedByOrder_status(p) ==
    IF due[p] # "no" \/ p \notin Paid \/ order = "PARTIALLY_SHIPPED" THEN due[p] ELSE order

\* What transitionStatus asks to be returned when it cancels the whole order.
OwedByOrder(p) ==
    IF due[p] # "no" \/ p \notin Paid \/ order = "PARTIALLY_SHIPPED"
    THEN due[p]
    ELSE IF order = "DELAYED_PREPARATION" THEN "full" ELSE "net"

\* transitionStatus reads the order again and judges the step from there.
Expire(w) ==
    /\ req[w].at = "expire"
    /\ IF order \in Cancellable
       THEN /\ order' = "CANCELLED"
            /\ due' = [p \in Parts |-> OwedByOrder(p)]
            /\ Late("expire", order \notin Unpaid)
       ELSE UNCHANGED <<order, due, late>>
    /\ Go(w, Blank)
    /\ UNCHANGED <<ful, payment, grace, docs, goods>>

(***************************************************************************)
(* Preparation and its deadlines                                           *)
(***************************************************************************)
StartPrepare(w, p) ==
    /\ p \in Paid
    /\ order \notin Locked
    /\ ful[p] \in {"IN_PREPARATION", "PREPARED"}
    /\ ~(ful[p] = "IN_PREPARATION" /\ grace[p] = "over")
    /\ Begin(w, Job("prepare", {p}))
    /\ UNCHANGED <<order, ful, grace, docs, late, money, goods>>

\* Mutant: the part is updated by id, as the other handlers do.
Prepare_id(w) ==
    /\ req[w].at = "prepare"
    /\ Move(req[w].parts, "PREPARED")
    /\ grace' = [p \in Parts |-> IF p \in req[w].parts THEN "none" ELSE grace[p]]
    /\ Recompute(w, "none", {})
    /\ UNCHANGED <<order, docs, late, money, goods>>

\* The one conditional update; nothing reads the extra time of a part after it.
Prepare(w) ==
    /\ req[w].at = "prepare"
    /\ \E p \in req[w].parts :
          IF ful[p] \in {"IN_PREPARATION", "PREPARED"}
          THEN /\ Move({p}, "PREPARED")
               /\ grace' = [grace EXCEPT ![p] = "none"]
               /\ Recompute(w, "none", {})
          ELSE UNCHANGED <<ful, grace>> /\ Go(w, Blank)
    /\ UNCHANGED <<order, docs, late, money, goods>>

isOfferLateForPreparation(p) == ful[p] \in {"AWAITING_PAYMENT", "IN_PREPARATION"}
LateParts == {p \in Parts : isOfferLateForPreparation(p)}

\* The order is past its preparation deadline.
StartDelay(w) ==
    /\ order = "PREPARATION"
    /\ Begin(w, Job("delay", LateParts))
    /\ UNCHANGED <<order, ful, grace, docs, late, money, goods>>

\* transitionStatus refuses if the order has moved since.
Delay(w) ==
    /\ req[w].at = "delay"
    /\ IF order = "PREPARATION"
       THEN /\ order' = "DELAYED_PREPARATION"
            /\ Go(w, [req[w] EXCEPT !.at = "grace"])
       ELSE UNCHANGED order /\ Go(w, Blank)
    /\ UNCHANGED <<ful, grace, docs, late, money, goods>>

\* The deadlines are written afterwards: the order's, and by id that of each
\* part chosen which has none. It is written too for a part that has been
\* prepared or cancelled meanwhile, of which nothing reads it any more: the
\* model does not keep it.
Grace(w) ==
    /\ req[w].at = "grace"
    /\ grace' = [p \in Parts |->
                    IF p \in req[w].parts \cap LateParts /\ grace[p] = "none"
                    THEN "running" ELSE grace[p]]
    /\ Go(w, Blank)
    /\ UNCHANGED <<order, ful, docs, late, money, goods>>

\* Once the order has moved on, the cron looks at each part for itself.
PerPart == Statuses \ {"CANCELLED", "COMPLETED", "PREPARATION", "DELAYED_PREPARATION"}

DelayPart(p) ==
    /\ order \in PerPart
    /\ ful[p] = "IN_PREPARATION"
    /\ grace[p] = "none"
    /\ grace' = [grace EXCEPT ![p] = "running"]
    /\ UNCHANGED <<order, ful, docs, req, late, money, goods>>

GraceEnds(p) ==
    /\ grace[p] = "running"
    /\ grace' = [grace EXCEPT ![p] = "over"]
    /\ UNCHANGED <<order, ful, docs, req, late, money, goods>>

\* The extra time is over, of the order or of one part. An order without a
\* deadline counts it from its last update, so it is not over before Grace.
StartLate(w) ==
    /\ order = "DELAYED_PREPARATION"
    /\ \A v \in Workers : req[v].at # "grace"
    /\ \A p \in Parts : grace[p] # "running"
    /\ Begin(w, IF LateParts = {}
                THEN Job("recompute", {})
                ELSE [Job("cancel", LateParts) EXCEPT !.why = "late"])
    /\ UNCHANGED <<order, ful, grace, docs, late, money, goods>>

StartLatePart(w, p) ==
    /\ order \in PerPart
    /\ ful[p] = "IN_PREPARATION"
    /\ grace[p] = "over"
    /\ Begin(w, [Job("cancel", {p}) EXCEPT !.why = "late"])
    /\ UNCHANGED <<order, ful, grace, docs, late, money, goods>>

(***************************************************************************)
(* Verification                                                            *)
(***************************************************************************)
\* The bound on documents.
MayAdd == Cardinality(UNION {{p} \X DOMAIN docs[p] : p \in Parts}) < MaxDocs

StartSubmit(w, p) ==
    /\ p \in Paid
    /\ order \notin Locked
    /\ ful[p] = "PREPARED"
    /\ MayAdd
    /\ Begin(w, Job("submit", {p}))
    /\ UNCHANGED <<order, ful, grace, docs, late, money, goods>>

Submit(w) ==
    /\ req[w].at = "submit"
    /\ \E p \in req[w].parts :
          /\ docs' = [docs EXCEPT ![p] = Append(@, "PENDING")]
          /\ Move({p}, "VERIFICATION")
          /\ Late("part", ful[p] # "PREPARED")
    /\ Recompute(w, "none", {})
    /\ UNCHANGED <<order, grace, money, goods>>

\* A rejected document may be answered while its clock runs, or if it has none.
Answerable(p) == \E i \in DOMAIN docs[p] : docs[p][i] \in {"OPEN", "REJECTED"}

StartCorrect(w, p) ==
    /\ Answerable(p)
    /\ MayAdd
    /\ Begin(w, Job("correct", {p}))
    /\ UNCHANGED <<order, ful, grace, docs, late, money, goods>>

Correct(w) ==
    /\ req[w].at = "correct"
    /\ \E p \in req[w].parts : docs' = [docs EXCEPT ![p] = Append(@, "PENDING")]
    /\ Go(w, Blank)
    /\ UNCHANGED <<order, ful, grace, late, money, goods>>

\* The second rejection of a part cancels it.
Struck(p, i) == \E j \in DOMAIN docs[p] \ {i} : docs[p][j] \in Rejected

StartReview(w, p, i, approve) ==
    /\ docs[p][i] = "PENDING"
    /\ Begin(w, [Job("decide", {p}) EXCEPT
                    !.doc = i,
                    !.why = IF approve THEN "approve"
                            ELSE IF Struck(p, i) THEN "strike" ELSE "reject"])
    /\ UNCHANGED <<order, ful, grace, docs, late, money, goods>>

\* The decision is written to the document by id.
Decide(w) ==
    /\ req[w].at = "decide"
    /\ \E p \in req[w].parts :
          /\ docs' = [docs EXCEPT ![p][req[w].doc] =
                         CASE req[w].why = "approve" -> "APPROVED"
                           [] req[w].why = "reject" -> "OPEN"
                           [] OTHER -> "REJECTED"]
          /\ Late("review", docs[p][req[w].doc] # "PENDING" \/ ful[p] # "VERIFICATION")
    /\ Go(w, [req[w] EXCEPT !.at = IF req[w].why = "strike" THEN "cancel" ELSE "apply",
                            !.doc = 0])
    /\ UNCHANGED <<order, ful, grace, money, goods>>

\* Mutant: the part passes whatever the decision was.
Apply_passes(w) ==
    /\ req[w].at = "apply"
    /\ Move(req[w].parts, "VERIFICATION_SUCCESS")
    /\ Late("review", \E p \in req[w].parts : ful[p] # "VERIFICATION")
    /\ Recompute(w, req[w].why, req[w].parts)
    /\ UNCHANGED <<order, grace, docs, money, goods>>

\* applyVerificationDecision moves the part, whatever it is by then.
Apply(w) ==
    /\ req[w].at = "apply"
    /\ Move(req[w].parts,
            IF req[w].why = "approve" THEN "VERIFICATION_SUCCESS" ELSE "VERIFICATION")
    /\ Late("review", \E p \in req[w].parts : ful[p] # "VERIFICATION")
    /\ Recompute(w, req[w].why, req[w].parts)
    /\ UNCHANGED <<order, grace, docs, money, goods>>

\* After an approval the other documents of the part are closed as well.
Retire(w) ==
    /\ req[w].at = "after"
    /\ req[w].why = "approve"
    /\ docs' = [p \in Parts |->
                   IF p \in req[w].parts
                   THEN [i \in DOMAIN docs[p] |-> "APPROVED"] ELSE docs[p]]
    /\ Go(w, Blank)
    /\ UNCHANGED <<order, ful, grace, late, money, goods>>

\* After a first rejection the order is derived once more.
Again(w) ==
    /\ req[w].at = "after"
    /\ req[w].why = "reject"
    /\ Recompute(w, "none", {})
    /\ UNCHANGED <<order, ful, grace, docs, late, money, goods>>

ClockEnds(p, i) ==
    /\ docs[p][i] = "OPEN"
    /\ docs' = [docs EXCEPT ![p][i] = "OVER"]
    /\ UNCHANGED <<order, ful, grace, req, late, money, goods>>

\* A rejection has not been answered in time: enforceExpiredSla, which asks for
\* less than the cron does, finds a document whose clock has run out.
Correctable == FulStatuses \ (Verified \cup {"CANCELLED"})

StartOverdue(w, p) ==
    /\ order \notin {"CANCELLED", "COMPLETED"}
    /\ \E i \in DOMAIN docs[p] : docs[p][i] = "OVER"
    /\ p \in Paid
    /\ ful[p] \in Correctable
    /\ Begin(w, [Job("cancel", {p}) EXCEPT !.why = "overdue"])
    /\ UNCHANGED <<order, ful, grace, docs, late, money, goods>>

(***************************************************************************)
(* Cancelling parts                                                        *)
(***************************************************************************)
\* What a part was when it was chosen to be cancelled.
ChosenAs(why) ==
    CASE why = "late" -> {"AWAITING_PAYMENT", "IN_PREPARATION"}
      [] why = "overdue" -> Correctable
      [] OTHER -> {"VERIFICATION"}

\* cancelOffersFulfillment: all that are not cancelled yet, by id.
Cancel(w) ==
    /\ req[w].at = "cancel"
    /\ LET now == req[w].parts \cap Live
       IN  /\ Move(now, "CANCELLED")
           /\ grace' = [p \in Parts |-> IF p \in now THEN "none" ELSE grace[p]]
           /\ Late("part", \E p \in now : ful[p] \notin ChosenAs(req[w].why))
           /\ Recompute(w, IF now = {} /\ req[w].why # "strike" THEN "none" ELSE req[w].why,
                        now)
    /\ UNCHANGED <<order, docs, money, goods>>

\* The refund of parts cancelled together spares what has left, but looks at
\* the parts only if another part of the order is paid for.
Owed(ps) == IF \E q \in Parts \ ps : payment[q] # "none" THEN "part" ELSE "full"

\* Mutant: the second rejection forgets the refund.
MarkRefund_strike(w) ==
    /\ req[w].at = "after"
    /\ req[w].why \in {"late", "overdue", "strike"}
    /\ due' = [p \in Parts |->
                  IF p \in req[w].parts /\ payment[p] # "none" /\ req[w].why # "strike"
                  THEN Owed(req[w].parts) ELSE due[p]]
    /\ Go(w, IF req[w].why = "strike" THEN [req[w] EXCEPT !.at = "return", !.parts = {}]
             ELSE Blank)
    /\ UNCHANGED <<order, ful, payment, grace, docs, late, goods>>

MarkRefund(w) ==
    /\ req[w].at = "after"
    /\ req[w].why \in {"late", "overdue", "strike"}
    /\ due' = [p \in Parts |->
                  IF p \in req[w].parts /\ payment[p] # "none"
                  THEN Owed(req[w].parts) ELSE due[p]]
    /\ docs' = [p \in Parts |->
                   [i \in DOMAIN docs[p] |->
                       IF /\ req[w].why = "overdue"
                          /\ p \in req[w].parts
                          /\ docs[p][i] \in Rejected
                       THEN "REJECTED" ELSE docs[p][i]]]
    /\ Go(w, IF req[w].why = "strike" THEN [req[w] EXCEPT !.at = "return", !.parts = {}]
             ELSE Blank)
    /\ UNCHANGED <<order, ful, payment, grace, late, goods>>

\* After a second rejection the status derived before the refund is written.
Return(w) ==
    /\ req[w].at = "return"
    /\ order' = IF req[w].next = "CANCELLED" THEN order ELSE req[w].next
    /\ Late("order", req[w].next \notin {"CANCELLED", Derived})
    /\ Go(w, Blank)
    /\ UNCHANGED <<ful, grace, docs, money, goods>>

\* A refund reaches Stripe and its ledger; Escrow has the steps.
Refund(p) ==
    /\ due[p] # "no"
    /\ due' = [due EXCEPT ![p] = "no"]
    /\ payment' = [payment EXCEPT ![p] =
                      CASE due[p] = "part" /\ cart[p] # {} -> @
                        [] due[p] = "net" /\ @ = "REFUNDED" -> @
                        [] due[p] = "net" /\ @ # "REFUNDED" -> "NET"
                        [] OTHER -> "REFUNDED"]
    /\ UNCHANGED <<order, ful, grace, docs, req, late, goods>>

(***************************************************************************)
(* Shipping, delivery, completion                                          *)
(***************************************************************************)
StartReady(w, p) ==
    /\ p \in Paid
    /\ order \notin Locked
    /\ ful[p] = "VERIFICATION_SUCCESS"
    /\ Begin(w, Job("ready", {p}))
    /\ UNCHANGED <<order, ful, grace, docs, late, money, goods>>

Ready(w) ==
    /\ req[w].at = "ready"
    /\ Move(req[w].parts, "READY_FOR_SHIPPING")
    /\ Late("part", \E p \in req[w].parts : ful[p] # "VERIFICATION_SUCCESS")
    /\ Recompute(w, "none", {})
    /\ UNCHANGED <<order, grace, docs, money, goods>>

\* The customer, or after some days the system, ships what waits in the cart.
Shippable == {p \in Paid : ful[p] = "READY_FOR_SHIPPING" /\ cart[p] = {}}

StartShip(w, ps) ==
    /\ ps # {}
    /\ ps \subseteq Shippable
    /\ Begin(w, Job("ship", ps))
    /\ UNCHANGED <<order, ful, grace, docs, late, money, goods>>

Ship(w) ==
    /\ req[w].at = "ship"
    /\ Move(req[w].parts, "SHIPPED")
    /\ cart' = [p \in Parts |-> IF p \in req[w].parts THEN req[w].parts ELSE cart[p]]
    /\ Late("part", \E p \in req[w].parts : ful[p] # "READY_FOR_SHIPPING")
    /\ Recompute(w, "ship", {})
    /\ UNCHANGED <<order, grace, docs, arrived, money>>

\* requestShipping then counts the parts, the cancelled ones as well, and moves
\* the order itself where the state machine lets it.
ShipOrder(w) ==
    /\ req[w].at = "after"
    /\ req[w].why = "ship"
    /\ order' =
          CASE /\ \A p \in Parts : cart[p] # {}
               /\ order \in {"READY_FOR_SHIPPING", "PARTIALLY_SHIPPED"} -> "SHIPPED"
            [] /\ \E p \in Parts : cart[p] = {}
               /\ order \in {"READY_FOR_SHIPPING", "PREPARATION"} -> "PARTIALLY_SHIPPED"
            [] OTHER -> order
    /\ Go(w, Blank)
    /\ UNCHANGED <<ful, grace, docs, late, money, goods>>

\* A shipment reaches the customer: its parts without a deliveredAt.
Deliver(w, p) ==
    LET now == {q \in Parts : cart[q] = cart[p] /\ q \notin arrived}
    IN  /\ cart[p] # {}
        /\ p \in now
        /\ Begin(w, Job("recompute", {}))
        /\ Move(now, "DELIVERED")
        /\ arrived' = arrived \cup now
        /\ Late("part", \E q \in now : ful[q] # "SHIPPED")
        /\ UNCHANGED <<order, grace, docs, cart, money>>

\* The return window of the part is over and there is no case.
Complete(w, p) ==
    /\ ful[p] = "DELIVERED"
    /\ p \in arrived
    /\ Begin(w, Job("recompute", {}))
    /\ Move({p}, "COMPLETED")
    /\ UNCHANGED <<order, grace, docs, late, money, goods>>

\* A request is cut off; what it has written stays.
Crash(w) ==
    /\ req[w].at # "idle"
    /\ Cardinality(late) < MaxLate
    /\ Go(w, Blank)
    /\ Late("crash", TRUE)
    /\ UNCHANGED <<order, ful, grace, docs, money, goods>>

Init ==
    /\ order = "AWAITING_PAYMENT"
    /\ ful = [p \in Parts |-> "AWAITING_PAYMENT"]
    /\ payment = [p \in Parts |-> "none"]
    /\ due = [p \in Parts |-> "no"]
    /\ grace = [p \in Parts |-> "none"]
    /\ docs = [p \in Parts |-> <<>>]
    /\ cart = [p \in Parts |-> {}]
    /\ arrived = {}
    /\ req = [w \in Workers |-> Blank]
    /\ late = {}

Advance(w) ==
    \/ ReadOrder(w) \/ WriteOrder(w)
    \/ Expire(w) \/ Prepare(w) \/ Delay(w) \/ Grace(w)
    \/ Submit(w) \/ Correct(w) \/ Decide(w) \/ Apply(w) \/ Retire(w) \/ Again(w)
    \/ Cancel(w) \/ MarkRefund(w) \/ Return(w)
    \/ Ready(w) \/ Ship(w) \/ ShipOrder(w)

Begins(w) ==
    \/ StartExpire(w) \/ StartDelay(w) \/ StartLate(w)
    \/ \E p \in Parts :
          \/ Pay(w, p) \/ StartPrepare(w, p) \/ StartLatePart(w, p)
          \/ StartSubmit(w, p) \/ StartCorrect(w, p) \/ StartOverdue(w, p)
          \/ StartReady(w, p) \/ Deliver(w, p) \/ Complete(w, p)
          \/ \E i \in DOMAIN docs[p], approve \in BOOLEAN : StartReview(w, p, i, approve)
    \/ \E ps \in SUBSET Parts : StartShip(w, ps)

Passes(p) ==
    \/ DelayPart(p) \/ GraceEnds(p) \/ Refund(p)
    \/ \E i \in DOMAIN docs[p] : ClockEnds(p, i)

Next ==
    \/ \E w \in Workers : Advance(w) \/ Begins(w) \/ Crash(w)
    \/ \E p \in Parts : Passes(p)

Spec == Init /\ [][Next]_vars

-----------------------------------------------------------------------------
(***************************************************************************)
(* Properties                                                              *)
(***************************************************************************)
TypeOK ==
    /\ order \in Statuses
    /\ ful \in [Parts -> FulStatuses]
    /\ payment \in [Parts -> {"none", "SUCCESS", "NET", "REFUNDED"}]
    /\ due \in [Parts -> {"no", "part", "full", "net"}]
    /\ grace \in [Parts -> {"none", "running", "over"}]
    /\ docs \in [Parts -> Seq(DocStates)]
    /\ cart \in [Parts -> SUBSET Parts]
    /\ arrived \in SUBSET Parts
    /\ req \in [Workers -> Requests]
    /\ late \in SUBSET {"order", "part", "review", "expire", "crash"}

\* No request is between moving a part or a document and its last write.
Quiet ==
    \A w \in Workers :
        req[w].at \notin {"apply", "cancel", "recompute", "write", "after", "return"}

\* What the status of an order says about its parts, read as the shop reads it:
\* it tells of the slowest part that is still wanted, and "partially" tells of
\* parts on both sides of a line.
Says(status, ps) ==
    LET some(set) == \E p \in ps : ful[p] \in set
        all(set) == \A p \in ps : ful[p] \in set
    IN  CASE status = "AWAITING_PAYMENT" -> ps \cap Paid = {}
          [] status = "PARTIALLY_PAID" -> ps \cap Paid # {} /\ ~(ps \subseteq Paid)
          [] status \in {"PREPARATION", "DELAYED_PREPARATION"} -> some({"IN_PREPARATION"})
          [] status = "PREPARED" ->
                some({"PREPARED"}) /\ all(Verified \cup {"PREPARED", "VERIFICATION"})
          [] status = "VERIFICATION" ->
                some({"VERIFICATION"}) /\ all(Verified \cup {"VERIFICATION"})
          [] status = "VERIFICATION_SUCCESS" -> some({"VERIFICATION_SUCCESS"}) /\ all(Verified)
          [] status = "READY_FOR_SHIPPING" -> ps # {} /\ all({"READY_FOR_SHIPPING"})
          [] status = "PARTIALLY_SHIPPED" -> some(Gone) /\ ~all(Gone)
          [] status = "SHIPPED" -> ps # {} /\ all({"SHIPPED"})
          [] status = "PARTIALLY_DELIVERED" ->
                all(Gone) /\ some({"SHIPPED"}) /\ some({"DELIVERED", "COMPLETED"})
          [] status = "DELIVERED" -> some({"DELIVERED"}) /\ all({"DELIVERED", "COMPLETED"})
          [] status = "COMPLETED" -> ps # {} /\ all({"COMPLETED"})
          [] OTHER -> TRUE

\* When nothing is under way the status of an order that is not cancelled is
\* true of its parts (recomputeOrderStatus is called after every move), unless
\* a request was cut off, a status was written that no longer held, a part was
\* moved from a status it no longer had, or was decided on that was not under
\* verification.
OrderFollowsParts ==
    Quiet => \/ late \cap {"order", "crash", "part", "review"} # {}
             \/ Says(order, Live)

\* A cancelled order stays cancelled ("Terminal cancel must never be resurrected
\* by offer aggregation"), unless a status was derived before and written after.
CancelledStays ==
    [][order = "CANCELLED" /\ order' # "CANCELLED" => "order" \in late']_vars

\* A part that is refunded in full has not left the cart, unless a handler moved
\* it by id from a status it no longer had, a part was decided on that was not
\* under verification, or an order was cancelled as unpaid that had been paid.
RefundedNotShipped ==
    \A p \in Parts :
        payment[p] = "REFUNDED" /\ cart[p] # {} => late \cap {"part", "review", "expire"} # {}

\* When nothing is under way, a part under verification has a document that
\* somebody can still act on, and a verified part has an approved one, unless a
\* request was cut off, a part was moved from a status it no longer had, or a
\* document decided on a second time.
PartFollowsReview ==
    Quiet => \/ late \cap {"review", "part", "crash"} # {}
             \/ \A p \in Parts :
                   /\ ful[p] = "VERIFICATION" =>
                         \E i \in DOMAIN docs[p] : docs[p][i] \in Rejected \cup {"PENDING"}
                   /\ ful[p] \in Verified =>
                         \E i \in DOMAIN docs[p] : docs[p][i] = "APPROVED"

\* When nothing is under way the money for a part that was cancelled before it
\* left has been returned or is on its way back, unless a request was cut off.
CancelledPaidBack ==
    Quiet => \/ "crash" \in late
             \/ \A p \in Parts :
                   ful[p] = "CANCELLED" /\ cart[p] = {} /\ payment[p] = "SUCCESS"
                   => due[p] # "no"

\* "Order statuses where auto cancel-refund is forbidden (post first actual
\* ship)": cancelling an order never asks to return the money for a part that
\* has left (refundPaidOrderOnCancel).
NoRefundPostShip ==
    [][\A p \in Parts : due[p] = "no" /\ due'[p] \in {"full", "net"} => cart[p] = {}]_vars
=============================================================================
