----------------------------- MODULE Selection -----------------------------
(***************************************************************************)
(* The auction of an order: merchants bid on its parts, an administrator   *)
(* decides on bids held for their shipping class, the customer accepts one *)
(* bid per part, and crons move the order on when a deadline has passed.   *)
(* Code: offers/offers.service.ts, offers/shipping-review.service.ts,      *)
(* orders/orders.service.ts and scheduler/order-cleanup.service.ts of      *)
(* src/backend/src.                                                        *)
(*                                                                         *)
(* A worker is an HTTP request or a cron pass.  It reads in one step, and  *)
(* writes in another what it decided from it; a transaction is one step.   *)
(* Every order here is collecting offers at first, and every bid is on a   *)
(* part (rows without a part, and AWAITING_OFFERS, are legacy).            *)
(***************************************************************************)
EXTENDS Naturals, FiniteSets

CONSTANTS
    Workers,   \* requests and cron passes in flight
    Offers,    \* the bids that may be made
    Parts,     \* the parts of the order
    PartOf,    \* the part a bid is on
    Odd,       \* the bids whose shipping class may differ from the customer's
    MaxOffers  \* active bids a part may have (10 in the code)

ASSUME SelectionAssumption ==
    /\ PartOf \in [Offers -> Parts]
    /\ Odd \subseteq Offers
    /\ MaxOffers \in Nat

Statuses == {"COLLECTING_OFFERS", "AWAITING_SELECTION", "AWAITING_PAYMENT",
             "PREPARATION", "CANCELLED"}

\* The rules of the state machine between the statuses of an auction.
TRANSITION_RULES ==
    [s \in Statuses |->
        CASE s = "COLLECTING_OFFERS" ->
                {"AWAITING_SELECTION", "AWAITING_PAYMENT", "CANCELLED"}
          [] s = "AWAITING_SELECTION" -> {"AWAITING_PAYMENT", "CANCELLED"}
          [] s = "AWAITING_PAYMENT" -> {"PREPARATION", "CANCELLED"}
          [] s = "PREPARATION" -> {"CANCELLED"}
          [] s = "CANCELLED" -> {}]

VARIABLES
    status,     \* orders.status
    stopped,    \* offersStopAt has passed
    due,        \* the deadline of the order's present status has passed
    offer,      \* offers.status, "none" before the row exists
    withdrawn,  \* the offers with isWithdrawn
    review,     \* offers.shippingReviewStatus
    latecomers, \* the bids made on a part that already had a winner
    req         \* what each worker is at, and what it has read

vars == <<status, stopped, due, offer, withdrawn, review, latecomers, req>>
order == <<status, stopped, due>>
bids == <<offer, withdrawn, review, latecomers>>

OfferStates == {"none", "pending", "accepted", "rejected", "withdrawn"}
Reviews == {"NONE", "PENDING", "APPROVED", "EXPIRED"}
Ops == {"accept", "acceptPart", "reject", "create", "edit", "retract",
        "expire", "resolve"}
Idle == [op |-> "idle"]
At(w, op) == w \in Workers /\ req[w].op = op
Does(w, r) == req[w] = Idle /\ req' = [req EXCEPT ![w] = r]
Done(w) == req' = [req EXCEPT ![w] = Idle]

Init ==
    /\ status = "COLLECTING_OFFERS"
    /\ stopped = FALSE
    /\ due = FALSE
    /\ offer = [o \in Offers |-> "none"]
    /\ withdrawn = {}
    /\ review = [o \in Offers |-> "NONE"]
    /\ latecomers = {}
    /\ req = [w \in Workers |-> Idle]

OnPart(o) == {p \in Offers : PartOf[p] = PartOf[o]}
Rivals(o) == OnPart(o) \ {o}
Having(s) == {o \in Offers : offer[o] = s}
Visible == {o \in Offers : review[o] \in {"NONE", "APPROVED"}}
\* The bids the reveal counts, and those of enforceExpiredSla.
Live == (Visible \ withdrawn) \cap (Having("pending") \cup Having("accepted"))
Undecided == (Visible \ withdrawn) \cap Having("pending")

\* A new status starts a deadline of its own.
SetStatus(s) == status' = s /\ due' = FALSE /\ UNCHANGED stopped

-----------------------------------------------------------------------------
(* Merchants.                                                               *)
Bidding == status = "COLLECTING_OFFERS" /\ ~stopped

Active(o) == {p \in OnPart(o) \ withdrawn : offer[p] \in {"pending", "accepted"}}

\* Bidding is open, and the part has room: read before the row is written.
StartCreate(w, o) ==
    /\ offer[o] = "none"
    /\ Bidding
    /\ Cardinality(Active(o)) < MaxOffers
    /\ Does(w, [op |-> "create", o |-> o])
    /\ UNCHANGED <<order, bids>>

\* computeShippingReviewStatus
Reviewable(o) == IF o \in Odd THEN {"NONE", "PENDING"} ELSE {"NONE"}

\* The bid is held when its shipping class is not the one the customer gave.
Create(w) ==
    /\ At(w, "create")
    /\ LET o == req[w].o IN
       /\ offer[o] = "none"
       /\ offer' = [offer EXCEPT ![o] = "pending"]
       /\ \E r \in Reviewable(o) : review' = [review EXCEPT ![o] = r]
       /\ latecomers' = IF OnPart(o) \cap Having("accepted") = {}
                        THEN latecomers ELSE latecomers \cup {o}
    /\ Done(w)
    /\ UNCHANGED <<order, withdrawn>>

\* A bid may be edited whatever its own status is.  An edit that cannot change a
\* review is left out.
StartEdit(w, o) ==
    /\ o \in Odd
    /\ offer[o] # "none"
    /\ o \notin withdrawn
    /\ Bidding
    /\ Does(w, [op |-> "edit", o |-> o])
    /\ UNCHANGED <<order, bids>>

\* Another shipping class is reviewed again.
Edit(w) ==
    /\ At(w, "edit")
    /\ \E r \in {review[req[w].o]} \cup Reviewable(req[w].o) :
          review' = [review EXCEPT ![req[w].o] = r]
    /\ Done(w)
    /\ UNCHANGED <<order, offer, withdrawn, latecomers>>

\* Cancel and delete, while the order is collecting.
StartCancelByVendor(w, o) ==
    /\ offer[o] # "none"
    /\ o \notin withdrawn
    /\ Bidding
    /\ Does(w, [op |-> "retract", o |-> o])
    /\ UNCHANGED <<order, bids>>

\* The older withdrawal, once the order is not collecting any more.
StartWithdraw(w, o) ==
    /\ offer[o] # "none"
    /\ o \notin withdrawn
    /\ status # "COLLECTING_OFFERS" /\ ~stopped
    /\ Does(w, [op |-> "retract", o |-> o])
    /\ UNCHANGED <<order, bids>>

Retract(w) ==
    /\ At(w, "retract")
    /\ offer' = [offer EXCEPT ![req[w].o] = "withdrawn"]
    /\ withdrawn' = withdrawn \cup {req[w].o}
    /\ Done(w)
    /\ UNCHANGED <<order, review, latecomers>>

-----------------------------------------------------------------------------
(* The review of a shipping class.                                          *)
Held(o) == review[o] = "PENDING" /\ offer[o] = "pending" /\ o \notin withdrawn

StartExpire(w, o) ==
    /\ Held(o)
    /\ status \in {"COLLECTING_OFFERS", "AWAITING_SELECTION"}
    /\ stopped
    /\ Does(w, [op |-> "expire", o |-> o])
    /\ UNCHANGED <<order, bids>>

\* Each bid is claimed in one statement.
Expirable(o) == Held(o)

ExpireReview(o) ==
    \/ /\ Expirable(o)
       /\ offer' = [offer EXCEPT ![o] = "withdrawn"]
       /\ withdrawn' = withdrawn \cup {o}
       /\ review' = [review EXCEPT ![o] = "EXPIRED"]
    \/ ~Expirable(o) /\ UNCHANGED <<offer, withdrawn, review>>

Expire(w) ==
    /\ At(w, "expire")
    /\ ExpireReview(req[w].o)
    /\ Done(w)
    /\ UNCHANGED <<order, latecomers>>

\* The administrator's decision, too late once bidding has stopped.  One that
\* cannot change a review is left out.
StartResolve(w, o) ==
    /\ OnPart(o) \cap Odd # {}
    /\ offer[o] # "none"
    /\ review[o] # "EXPIRED" /\ o \notin withdrawn
    /\ ~(review[o] = "PENDING" /\ stopped)
    /\ ~(offer[o] = "accepted" /\ status = "PREPARATION")
    /\ Does(w, [op |-> "resolve", o |-> o, held |-> review[o] = "PENDING",
                open |-> status = "COLLECTING_OFFERS"])
    /\ UNCHANGED <<order, bids>>

\* The rivals whose review is computed anew when the customer's class changes.
Reviewed(o) ==
    {p \in Rivals(o) \cap Odd : offer[p] = "pending" /\ p \notin withdrawn
                         /\ review[p] \in {"NONE", "PENDING"}}

\* The approval is a claim too; the rest follows what was read before.
Approved(o) == [review EXCEPT ![o] = "APPROVED"]
Reclassified(rev, o, odd) ==
    [p \in Offers |-> IF p \notin Reviewed(o) THEN rev[p]
                      ELSE IF p \in odd THEN "PENDING" ELSE "NONE"]

Resolve(w) ==
    /\ At(w, "resolve")
    /\ LET o == req[w].o
           lost == req[w].held /\ (review[o] # "PENDING" \/ o \in withdrawn)
           decided == IF req[w].held THEN Approved(o) ELSE review
       IN \/ lost /\ UNCHANGED review
          \/ ~lost /\ review' = decided
          \/ /\ ~lost /\ req[w].open
             /\ \E odd \in SUBSET Reviewed(o) : review' = Reclassified(decided, o, odd)
    /\ Done(w)
    /\ UNCHANGED <<order, offer, withdrawn, latecomers>>

-----------------------------------------------------------------------------
(* The customer.                                                            *)
StartAccept(w, o) ==
    /\ offer[o] # "none"
    /\ "AWAITING_PAYMENT" \in TRANSITION_RULES[status]
    /\ Does(w, [op |-> "accept", o |-> o])
    /\ UNCHANGED <<order, bids>>

StartAcceptForPart(w, o) ==
    /\ offer[o] # "none"
    /\ status \in {"COLLECTING_OFFERS", "AWAITING_SELECTION"}
    /\ Does(w, [op |-> "acceptPart", o |-> o])
    /\ UNCHANGED <<order, bids>>

\* The atomic claim of a bid, and what the transaction makes of its rivals.
Claimable_read(o) == o \in Visible /\ offer[o] # "none"
Claimable(o) == o \in Visible /\ offer[o] = "pending"

Chosen_only(o) == [offer EXCEPT ![o] = "accepted"]
Chosen(o) ==
    [p \in Offers |-> IF p = o THEN "accepted"
                      ELSE IF p \in Rivals(o) /\ offer[p] = "pending" THEN "rejected"
                      ELSE offer[p]]

\* Every part that has a bid left has an accepted one.
AllPartsChosen(of) ==
    LET with(S) == {PartOf[o] : o \in {x \in Offers \ withdrawn : of[x] \in S}}
    IN /\ with({"pending", "accepted"}) # {}
       /\ with({"pending", "accepted"}) \subseteq with({"accepted"})

\* One bid decides the order: it awaits payment whatever it has come to.
AcceptOffer(w) ==
    /\ At(w, "accept")
    /\ \/ /\ Claimable(req[w].o)
          /\ offer' = Chosen(req[w].o)
          /\ SetStatus("AWAITING_PAYMENT")
       \/ ~Claimable(req[w].o) /\ UNCHANGED <<offer, order>>
    /\ Done(w)
    /\ UNCHANGED <<withdrawn, review, latecomers>>

\* The last part to get its bid moves the order on.
AcceptOfferForPart(w) ==
    /\ At(w, "acceptPart")
    /\ \/ /\ Claimable(req[w].o)
          /\ offer' = Chosen(req[w].o)
          /\ IF AllPartsChosen(Chosen(req[w].o))
             THEN SetStatus("AWAITING_PAYMENT") ELSE UNCHANGED order
       \/ ~Claimable(req[w].o) /\ UNCHANGED <<offer, order>>
    /\ Done(w)
    /\ UNCHANGED <<withdrawn, review, latecomers>>

StartReject(w, o) ==
    /\ offer[o] \notin {"none", "rejected"}
    /\ Does(w, [op |-> "reject", o |-> o])
    /\ UNCHANGED <<order, bids>>

Reject(w) ==
    /\ At(w, "reject")
    /\ offer' = [offer EXCEPT ![req[w].o] = "rejected"]
    /\ Done(w)
    /\ UNCHANGED <<order, withdrawn, review, latecomers>>

-----------------------------------------------------------------------------
(* The order's status: deadlines, crons and the transition endpoint.        *)
BiddingStops == ~stopped /\ stopped' = TRUE /\ UNCHANGED <<status, due, bids, req>>

DeadlinePasses ==
    /\ ~due
    /\ status \in {"COLLECTING_OFFERS", "AWAITING_SELECTION", "AWAITING_PAYMENT"}
    /\ status = "COLLECTING_OFFERS" => stopped
    /\ due' = TRUE
    /\ UNCHANGED <<status, stopped, bids, req>>

Transit(to) == [op |-> "transition", to |-> to]
Cas_target(to) == [op |-> "cas", to |-> to, seen |-> to]
Cas(to) == [op |-> "cas", to |-> to, seen |-> status]

\* The cron and enforceExpiredSla count different bids.
Revealed(S) == IF S = {} THEN "CANCELLED" ELSE "AWAITING_SELECTION"

Reveal(w) ==
    /\ status = "COLLECTING_OFFERS" /\ due
    /\ Does(w, Transit(Revealed(Live)))
    /\ UNCHANGED <<order, bids>>

\* enforceExpiredSla reads the order and its deadline, expires the reviews that
\* are still open when it reads them, and counts the bids only then.
EnforceReveal(w) ==
    /\ status = "COLLECTING_OFFERS" /\ due
    /\ Does(w, [op |-> "enforce"])
    /\ UNCHANGED <<order, bids>>

ReadUnresolved(w) ==
    /\ At(w, "enforce")
    /\ req' = [req EXCEPT ![w] = [op |-> "sweep", left |->
                 IF status \in {"COLLECTING_OFFERS", "AWAITING_SELECTION"} /\ stopped
                 THEN {o \in Offers : Held(o)} ELSE {}]]
    /\ UNCHANGED <<order, bids>>

ExpireUnresolved(w) ==
    /\ At(w, "sweep")
    /\ \E o \in req[w].left :
          /\ ExpireReview(o)
          /\ req' = [req EXCEPT ![w].left = @ \ {o}]
    /\ UNCHANGED <<order, latecomers>>

CountBids(w) ==
    /\ At(w, "sweep")
    /\ req[w].left = {}
    /\ req' = [req EXCEPT ![w] = Transit(Revealed(Undecided))]
    /\ UNCHANGED <<order, bids>>

\* Only the enforcement cancels before the deadline, an order without bids.
ExpireSelection(w) ==
    /\ status = "AWAITING_SELECTION" /\ due
    /\ Does(w, Transit("CANCELLED"))
    /\ UNCHANGED <<order, bids>>

EnforceSelection(w) ==
    /\ status = "AWAITING_SELECTION"
    /\ due \/ Live = {}
    /\ Does(w, Transit("CANCELLED"))
    /\ UNCHANGED <<order, bids>>

ExpirePayment(w) ==
    /\ status = "AWAITING_PAYMENT" /\ due
    /\ Does(w, Transit("CANCELLED"))
    /\ UNCHANGED <<order, bids>>

\* transitionStatus reads the order again, and judges the step from there.
CheckTransition(w) ==
    /\ At(w, "transition")
    /\ req' = [req EXCEPT ![w] =
                 IF req[w].to \in TRANSITION_RULES[status] THEN Cas(req[w].to) ELSE Idle]
    /\ UNCHANGED <<order, bids>>

\* A user of the order asks for a status (a customer who cancels only while it
\* collects, which is one of the steps of the others).
AskTransition(w, to) ==
    /\ to \in TRANSITION_RULES[status]
    /\ Does(w, Cas(to))
    /\ UNCHANGED <<order, bids>>

\* The update names the status that was read.
Unmoved_any(w) == TRUE
Unmoved(w) == status = req[w].seen

ApplyTransition(w) ==
    /\ At(w, "cas")
    /\ IF Unmoved(w) THEN SetStatus(req[w].to) ELSE UNCHANGED order
    /\ Done(w)
    /\ UNCHANGED bids

\* The accepted bids are paid for (PaymentIntake has the details).
Pay ==
    /\ status = "AWAITING_PAYMENT"
    /\ Having("accepted") # {}
    /\ SetStatus("PREPARATION")
    /\ UNCHANGED <<bids, req>>

-----------------------------------------------------------------------------
Continue(w) ==
    \/ Create(w) \/ Edit(w) \/ Retract(w) \/ Expire(w) \/ Resolve(w)
    \/ AcceptOffer(w) \/ AcceptOfferForPart(w) \/ Reject(w)
    \/ ReadUnresolved(w) \/ ExpireUnresolved(w) \/ CountBids(w)
    \/ CheckTransition(w) \/ ApplyTransition(w)

Begin(w) ==
    \/ \E o \in Offers :
          \/ StartCreate(w, o) \/ StartEdit(w, o)
          \/ StartCancelByVendor(w, o) \/ StartWithdraw(w, o)
          \/ StartExpire(w, o) \/ StartResolve(w, o)
          \/ StartAccept(w, o) \/ StartAcceptForPart(w, o) \/ StartReject(w, o)
    \/ \E to \in Statuses : AskTransition(w, to)
    \/ Reveal(w) \/ EnforceReveal(w)
    \/ ExpireSelection(w) \/ EnforceSelection(w) \/ ExpirePayment(w)

Next ==
    \/ \E w \in Workers : Begin(w) \/ Continue(w)
    \/ BiddingStops \/ DeadlinePasses \/ Pay

Spec == Init /\ [][Next]_vars

-----------------------------------------------------------------------------
Requests(w) ==
    \/ req[w] = Idle
    \/ \E o \in Offers, op \in Ops \ {"resolve"} : req[w] = [op |-> op, o |-> o]
    \/ \E o \in Offers, held, open \in BOOLEAN :
          req[w] = [op |-> "resolve", o |-> o, held |-> held, open |-> open]
    \/ req[w] = [op |-> "enforce"]
    \/ \E left \in SUBSET Offers : req[w] = [op |-> "sweep", left |-> left]
    \/ \E to \in {"AWAITING_SELECTION", "CANCELLED"} : req[w] = Transit(to)
    \/ \E to, seen \in Statuses :
          /\ to \in TRANSITION_RULES[seen]
          /\ req[w] = [op |-> "cas", to |-> to, seen |-> seen]

\* The rows and the requests keep their types; a transition under way is one
\* the state machine allows from the status that was read.
TypeOK ==
    /\ status \in Statuses
    /\ stopped \in BOOLEAN /\ due \in BOOLEAN
    /\ offer \in [Offers -> OfferStates]
    /\ withdrawn \subseteq Offers /\ latecomers \subseteq Offers
    /\ review \in [Offers -> Reviews]
    /\ DOMAIN req = Workers
    /\ \A w \in Workers : Requests(w)

\* Two bids on a part that compete for it are never both accepted, whatever
\* accepts overlap: when a part has two winners, one of them was made after the
\* other had been accepted.
RivalsNeverBothWin ==
    \A o \in Having("accepted") : \A p \in Rivals(o) \cap Having("accepted") :
        o \in latecomers \/ p \in latecomers

\* A bid that its merchant or the expiry of its review has taken back is not, and
\* does not become, the customer's choice.
WithdrawnNeverWins ==
    withdrawn \cap (Having("pending") \cup Having("accepted")) = {}

\* What others have decided stands, however old the state a cron, an enforcement or
\* a request has read: the bids are revealed only to an order that is still collecting
\* them, not drawn back from payment, from preparation or from its cancellation, and a
\* bid whose shipping class was approved does not expire.
DecisionsStand ==
    [][/\ status' = "AWAITING_SELECTION" /\ status' # status
            => status = "COLLECTING_OFFERS"
       /\ \A o \in Offers : review[o] = "APPROVED" => review'[o] # "EXPIRED"]_vars
=============================================================================
