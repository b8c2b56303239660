------------------------- MODULE PaymentIntakeProofs -------------------------
(***************************************************************************)
(* For any number of intents and requests, declined cards and requests cut *)
(* off: the rows keep their types, the merchant is credited at most once   *)
(* and prepares a part only against a captured charge.  The invariant says *)
(* in addition where a captured intent may appear: in success events, in   *)
(* the requests that fulfil them and in the charge of a paid row.  For     *)
(* requests that do not overlap, nothing is held for a cancelled order.    *)
(***************************************************************************)
EXTENDS PaymentIntake, TLAPS

\* The steps of a request that concern an intent.  (TypeOK alone is not
\* inductive: such a request has one, and what a request is about to write
\* into the order is an order status.)
Concerned == Pcs \ {"reading", "resolving", "refunding"}
Addressed == \A w \in Workers :
    /\ req[w].pc \in Concerned => req[w].i \in Intents
    /\ req[w].pc = "writing" => req[w].seen \in OrderStatuses
Typed == TypeOK /\ Addressed

-----------------------------------------------------------------------------
(* Requests.                                                                *)

\* A request that is at a step is not idle.
LEMMA RequestAt ==
    ASSUME Typed, NEW w \in Workers, NEW pc \in Pcs, At(w, pc)
    PROVE  req[w] \in Requests /\ (pc \in Concerned => req[w].i \in Intents)
BY DEF Typed, Addressed, TypeOK, At, Idle, Pcs, Concerned

LEMMA RequestChanges ==
    ASSUME Typed, NEW w \in Workers, NEW r \in Requests \cup {Idle},
           r.pc \in Concerned => r.i \in Intents,
           r.pc = "writing" => r.seen \in OrderStatuses,
           req' = [req EXCEPT ![w] = r]
    PROVE  req' \in [Workers -> Requests \cup {Idle}] /\ Addressed'
BY DEF Typed, TypeOK, Addressed

LEMMA BeginType ==
    ASSUME Typed, NEW w \in Workers, NEW pc \in Pcs \ {"writing"},
           NEW i \in Intents \cup {NoIntent}, NEW hook \in BOOLEAN,
           pc \in Concerned => i \in Intents,
           Begin(w, pc, i, hook)
    PROVE  req' \in [Workers -> Requests \cup {Idle}] /\ Addressed'
<1> DEFINE r == [pc |-> pc, i |-> i, seen |-> "NONE", hook |-> hook]
<1>1. r \in Requests  BY DEF Requests, RowStatuses
<1>2. (r.pc \in Concerned => r.i \in Intents) /\ r.pc # "writing"  OBVIOUS
<1>3. req' = [req EXCEPT ![w] = r]  BY DEF Begin
<1> HIDE DEF r
<1> QED  BY <1>1, <1>2, <1>3, RequestChanges

LEMMA GotoType ==
    ASSUME Typed, NEW w \in Workers, NEW pc \in Pcs \ {"writing"},
           req[w] \in Requests, req[w].i \in Intents, Goto(w, pc)
    PROVE  req' \in [Workers -> Requests \cup {Idle}] /\ Addressed'
<1> DEFINE r == [req[w] EXCEPT !.pc = pc]
<1>1. r \in Requests /\ r.i \in Intents /\ r.pc # "writing"  BY DEF Requests
<1>2. req' = [req EXCEPT ![w] = r]  BY DEF Goto
<1> HIDE DEF r
<1> QED  BY <1>1, <1>2, RequestChanges

LEMMA DropType ==
    ASSUME Typed, NEW w \in Workers, Drop(w)
    PROVE  req' \in [Workers -> Requests \cup {Idle}] /\ Addressed'
<1>1. Idle.pc \notin Concerned /\ Idle.pc # "writing"
      BY DEF Idle, Concerned, Pcs
<1> QED  BY <1>1, RequestChanges DEF Drop

\* The end of a request puts back or removes the event of its intent.
LEMMA EndType ==
    ASSUME Typed, NEW w \in Workers, req[w] \in Requests, req[w].i \in Intents,
           Finish(w) \/ Fail(w)
    PROVE  /\ req' \in [Workers -> Requests \cup {Idle}] /\ Addressed'
           /\ events' \subseteq Event
<1>1. Drop(w)  BY DEF Finish, Fail
<1>2. Answered(w) \in Event  BY DEF Answered, Event
<1>3. events' \subseteq events \cup {Answered(w)}  BY DEF Finish, Fail
<1> QED  BY <1>1, <1>2, <1>3, DropType DEF Typed, TypeOK

-----------------------------------------------------------------------------
(* Types.                                                                   *)

LEMMA InitType == Init => Typed
BY IntakeAssumption DEF Init, Typed, TypeOK, Addressed, Concerned, OrderStatuses,
   PartStatuses, RowStatuses, EscrowStatuses, IntentStatuses, Idle, Pcs

LEMMA CustomerType ==
    ASSUME Typed, NEW i \in Intents, Pay(i) \/ Decline(i)
    PROVE  Typed'
<1>1. UNCHANGED req /\ events' \subseteq Event
      BY DEF Pay, Decline, Event, Typed, TypeOK
<1>2. Addressed'  BY <1>1 DEF Typed, Addressed
<1> QED  BY <1>1, <1>2 DEF Pay, Decline, Typed, TypeOK, rowVars, moneyVars, IntentStatuses

LEMMA StartType ==
    ASSUME Typed, NEW w \in Workers, Start(w)
    PROVE  Typed'
<1> USE DEF Typed, TypeOK, rowVars, moneyVars, stripeVars
<1>1. CASE StartCreate(w)
  <2>1. req' \in [Workers -> Requests \cup {Idle}] /\ Addressed'
        BY <1>1, BeginType DEF StartCreate, Pcs, Concerned
  <2> QED  BY <1>1, <2>1 DEF StartCreate
<1>2. CASE ExpireOrder(w)
  <2>1. req' \in [Workers -> Requests \cup {Idle}] /\ Addressed'
        BY <1>2, BeginType DEF ExpireOrder, Pcs, Concerned
  <2> QED  BY <1>2, <2>1 DEF ExpireOrder, OrderStatuses
<1>3. ASSUME NEW e \in Event, Deliver(w, e)
      PROVE  Typed'
  <2>1. req' \in [Workers -> Requests \cup {Idle}] /\ Addressed'
    <3>1. e.intent \in Intents  BY DEF Event
    <3>2. (IF e.type = "succeeded" THEN "finding" ELSE "checking")
                \in Pcs \ {"writing"}
          BY DEF Pcs
    <3> QED  BY <1>3, <3>1, <3>2, BeginType DEF Deliver
  <2> QED  BY <1>3, <2>1 DEF Deliver, Acknowledge
<1>4. ASSUME NEW i \in Intents, Confirm(w, i)
      PROVE  Typed'
  <2>1. UNCHANGED req \/ (\E pc \in Pcs \ {"writing"} : Begin(w, pc, i, FALSE))
        BY <1>4 DEF Confirm, Pcs
  <2>2. req' \in [Workers -> Requests \cup {Idle}] /\ Addressed'
    <3>1. CASE UNCHANGED req  BY <3>1 DEF Addressed
    <3>2. CASE \E pc \in Pcs \ {"writing"} : Begin(w, pc, i, FALSE)  BY <3>2, BeginType
    <3> QED  BY <2>1, <3>1, <3>2
  <2>3. part' \in PartStatuses  BY <1>4 DEF Confirm, Healed, PartStatuses
  <2> HIDE DEF TypeOK
  <2> QED  BY <1>4, <2>2, <2>3 DEF Confirm, TypeOK
<1> QED  BY <1>1, <1>2, <1>3, <1>4 DEF Start

\* createPaymentIntent.
LEMMA CreateType ==
    ASSUME Typed, NEW w \in Workers, ReadRow(w) \/ ResolveIntent(w) \/ UpsertRow(w)
    PROVE  Typed'
<1>1. CASE ReadRow(w)
  <2>1. req[w] \in Requests  BY <1>1, RequestAt DEF ReadRow, Pcs
  <2>2. CASE Drop(w)  BY <1>1, <2>2, DropType DEF ReadRow, Typed, TypeOK, rowVars,
        moneyVars, stripeVars
  <2>3. CASE ~BlocksIntent
    <3> DEFINE r == [req[w] EXCEPT !.pc = "resolving", !.seen = status, !.i = current]
    <3>1. r \in Requests /\ r.pc = "resolving"
          BY <2>1 DEF Requests, Typed, TypeOK, Pcs
    <3>2. req' = [req EXCEPT ![w] = r]  BY <1>1, <2>3 DEF ReadRow
    <3> HIDE DEF r
    <3>3. req' \in [Workers -> Requests \cup {Idle}] /\ Addressed'
          BY <3>1, <3>2, RequestChanges DEF Concerned
    <3> QED  BY <1>1, <3>3 DEF ReadRow, Typed, TypeOK, rowVars, moneyVars, stripeVars
  <2> QED  BY <1>1, <2>2, <2>3 DEF ReadRow
<1>2. CASE ResolveIntent(w)
  <2>1. req[w] \in Requests  BY <1>2, RequestAt DEF ResolveIntent, Pcs
  <2>2. CASE Reusable(w) /\ Goto(w, "upserting") /\ UNCHANGED intent
    <3>1. req[w].i \in Intents  BY <2>1, <2>2 DEF Reusable, Requests
    <3>2. req' \in [Workers -> Requests \cup {Idle}] /\ Addressed'
          BY <2>1, <2>2, <3>1, GotoType DEF Pcs
    <3> QED  BY <1>2, <2>2, <3>2 DEF ResolveIntent, Typed, TypeOK, rowVars, moneyVars
  <2>3. ASSUME NEW i \in Intents, intent' = [intent EXCEPT ![i] = "open"],
               req' = [req EXCEPT ![w].pc = "upserting", ![w].i = i]
        PROVE  Typed'
    <3> DEFINE r == [req[w] EXCEPT !.pc = "upserting", !.i = i]
    <3>1. r \in Requests /\ r.i \in Intents /\ r.pc = "upserting"
          BY <2>1 DEF Requests, Pcs
    <3>2. req' = [req EXCEPT ![w] = r]  BY <2>3
    <3> HIDE DEF r
    <3>3. req' \in [Workers -> Requests \cup {Idle}] /\ Addressed'
          BY <3>1, <3>2, RequestChanges
    <3>4. intent' \in [Intents -> IntentStatuses]
          BY <2>3 DEF Typed, TypeOK, IntentStatuses
    <3> QED  BY <1>2, <3>3, <3>4 DEF ResolveIntent, Typed, TypeOK, rowVars, moneyVars
  <2>4. CASE Drop(w) /\ UNCHANGED intent
        BY <1>2, <2>4, DropType DEF ResolveIntent, Typed, TypeOK, rowVars, moneyVars
  <2> QED  BY <1>2, <2>2, <2>3, <2>4 DEF ResolveIntent
<1>3. CASE UpsertRow(w)
  <2>1. req[w].i \in Intents
        BY <1>3, RequestAt DEF UpsertRow, Pcs, Concerned
  <2>2. req' \in [Workers -> Requests \cup {Idle}] /\ Addressed'
        BY <1>3, DropType DEF UpsertRow
  <2> QED  BY <1>3, <2>1, <2>2 DEF UpsertRow, Typed, TypeOK, RowStatuses, moneyVars,
           stripeVars
<1> QED  BY <1>1, <1>2, <1>3

\* fulfillStripePayment and recomputeOrderStatus.
LEMMA FulfilType ==
    ASSUME Typed, NEW w \in Workers,
           FindPayment(w) \/ Claim(w) \/ ReadOrder(w) \/ WriteOrder(w)
    PROVE  Typed'
<1>1. req[w] \in Requests /\ req[w].i \in Intents
      BY RequestAt DEF FindPayment, Claim, ReadOrder, WriteOrder, Pcs, Concerned
<1>2. \A pc \in Pcs \ {"writing"} : Goto(w, pc) /\ UNCHANGED events =>
          /\ req' \in [Workers -> Requests \cup {Idle}] /\ Addressed'
          /\ events' \subseteq Event
      BY <1>1, GotoType DEF Typed, TypeOK
<1>3. Finish(w) \/ Fail(w) =>
          /\ req' \in [Workers -> Requests \cup {Idle}] /\ Addressed'
          /\ events' \subseteq Event
      BY <1>1, EndType
<1>4. CASE FindPayment(w)
      BY <1>2, <1>3, <1>4 DEF FindPayment, Pcs, Typed, TypeOK, rowVars, moneyVars
<1>5. CASE Claim(w)
  <2>1. /\ req' \in [Workers -> Requests \cup {Idle}] /\ Addressed'
        /\ events' \subseteq Event
        BY <1>2, <1>3, <1>5 DEF Claim, Pcs
  <2>2. escrow' \in EscrowStatuses /\ holds' \in Nat
        BY <1>5 DEF Claim, HoldFunds, EscrowStatuses, moneyVars, Typed, TypeOK
  <2>3. status' \in RowStatuses /\ part' \in PartStatuses
        BY <1>5 DEF Claim, Healed, RowStatuses, PartStatuses, Typed, TypeOK
  <2>4. charged' \in Intents \cup {NoIntent}
        BY <1>1, <1>5 DEF Claim, Typed, TypeOK
  <2> QED  BY <1>5, <2>1, <2>2, <2>3, <2>4 DEF Claim, Typed, TypeOK
<1>6. CASE ReadOrder(w)
  <2>1. ASSUME NEW next \in Aggregates,
               req' = [req EXCEPT ![w].pc = "writing", ![w].seen = next]
        PROVE  req' \in [Workers -> Requests \cup {Idle}] /\ Addressed'
    <3> DEFINE r == [req[w] EXCEPT !.pc = "writing", !.seen = next]
    <3>1. next \in OrderStatuses  BY DEF Aggregates, OrderStatuses
    <3>2. r \in Requests /\ r.i \in Intents /\ r.seen \in OrderStatuses
          BY <1>1, <3>1 DEF Requests, Pcs
    <3>3. req' = [req EXCEPT ![w] = r]  BY <2>1
    <3> HIDE DEF r
    <3> QED  BY <3>2, <3>3, RequestChanges
  <2>2. /\ req' \in [Workers -> Requests \cup {Idle}] /\ Addressed'
        /\ events' \subseteq Event
        BY <1>3, <1>6, <2>1 DEF ReadOrder, Typed, TypeOK
  <2> QED  BY <1>6, <2>2 DEF ReadOrder, Typed, TypeOK, rowVars, moneyVars
<1>7. CASE WriteOrder(w)
  <2>1. req[w].seen \in OrderStatuses
        BY <1>7 DEF WriteOrder, At, Typed, Addressed
  <2> QED  BY <1>3, <1>7, <2>1 DEF WriteOrder, Typed, TypeOK, rowVars, moneyVars
<1> QED  BY <1>4, <1>5, <1>6, <1>7

\* handlePaymentFailure, the refund of a cancelled order, and faults.
LEMMA OtherType ==
    ASSUME Typed, NEW w \in Workers,
           CheckFailed(w) \/ MarkFailed(w) \/ RefundCancelled(w) \/ Crash(w)
    PROVE  Typed'
<1>1. CASE CheckFailed(w) \/ MarkFailed(w)
  <2>1. req[w] \in Requests /\ req[w].i \in Intents
        BY <1>1, RequestAt DEF CheckFailed, MarkFailed, Pcs, Concerned
  <2>2. /\ req' \in [Workers -> Requests \cup {Idle}] /\ Addressed'
        /\ events' \subseteq Event
    <3>1. CASE Goto(w, "failing") /\ UNCHANGED events
          BY <2>1, <3>1, GotoType DEF Pcs, Typed, TypeOK
    <3>2. CASE Finish(w)  BY <2>1, <3>2, EndType
    <3> QED  BY <1>1, <3>1, <3>2 DEF CheckFailed, MarkFailed
  <2> QED  BY <1>1, <2>2 DEF CheckFailed, MarkFailed, Typed, TypeOK, rowVars,
           moneyVars, RowStatuses
<1>2. CASE RefundCancelled(w) \/ Crash(w)
  <2>1. req' \in [Workers -> Requests \cup {Idle}] /\ Addressed'
        BY <1>2, DropType DEF RefundCancelled, Crash
  <2> QED  BY <1>2, <2>1 DEF RefundCancelled, Crash, Typed, TypeOK, rowVars,
           moneyVars, stripeVars, RowStatuses, EscrowStatuses
<1> QED  BY <1>1, <1>2

LEMMA NextType == Typed /\ [Next]_vars => Typed'
<1> SUFFICES ASSUME Typed, [Next]_vars PROVE Typed'
    OBVIOUS
<1>1. CASE UNCHANGED vars
      BY <1>1 DEF vars, rowVars, moneyVars, stripeVars, Typed, TypeOK, Addressed
<1>2. ASSUME NEW w \in Workers, Continue(w) \/ Crash(w)
      PROVE  Typed'
      BY <1>2, CreateType, FulfilType, OtherType DEF Continue
<1> QED  BY <1>1, <1>2, CustomerType, StartType DEF Next

\* Rows, Stripe's objects and requests keep their types (TypeOK) whatever the
\* customer, Stripe, the crons and the faults do.
THEOREM IntakeTypeCorrect == Spec => []TypeOK
<1>1. Spec => []Typed  BY InitType, NextType, PTL DEF Spec
<1>2. Typed => TypeOK  BY DEF Typed
<1> QED  BY <1>1, <1>2, PTL

-----------------------------------------------------------------------------
(* The money.                                                               *)

Captured(i) == i \in Intents /\ intent[i] = "captured"

HoldsMatchEscrow == holds = IF escrow = "NONE" THEN 0 ELSE 1
EventsAreTrue == \A e \in events : e.type = "succeeded" => Captured(e.intent)
FulfilsCaptured == \A w \in Workers :
    req[w].pc \in {"finding", "claiming"} => Captured(req[w].i)
PaidIsCaptured ==
    status = "SUCCESS" \/ part = "IN_PREPARATION" => Captured(charged) /\ holds = 1

Sound == HoldsMatchEscrow /\ EventsAreTrue /\ FulfilsCaptured /\ PaidIsCaptured

LEMMA InitSound == Init => Sound
BY DEF Init, Sound, HoldsMatchEscrow, EventsAreTrue, FulfilsCaptured, PaidIsCaptured,
   Idle

\* What a step must respect when it neither fulfils nor refunds a payment.
LEMMA QuietStep ==
    ASSUME Typed, Sound, UNCHANGED <<part, charged, moneyVars>>,
           status' = status \/ status' # "SUCCESS",
           \A i \in Intents : intent[i] = "captured" => intent'[i] = "captured",
           EventsAreTrue', FulfilsCaptured'
    PROVE  Sound'
BY DEF Sound, HoldsMatchEscrow, PaidIsCaptured, Captured, moneyVars, Typed, TypeOK

\* A request that ends, or goes on without fulfilling, fulfils nothing new.
LEMMA QuietRequest ==
    ASSUME Typed, FulfilsCaptured, NEW w \in Workers,
           \A i \in Intents : intent[i] = "captured" => intent'[i] = "captured",
           \A v \in Workers : v # w => req'[v] = req[v],
           req'[w].pc \in {"finding", "claiming"} => Captured(req'[w].i)
    PROVE  FulfilsCaptured'
BY DEF FulfilsCaptured, Captured

LEMMA DropQuiet ==
    ASSUME Typed, NEW w \in Workers, Drop(w)
    PROVE  /\ \A v \in Workers : v # w => req'[v] = req[v]
           /\ req'[w].pc = "idle"
BY DEF Drop, Idle, Typed, TypeOK

\* The end of a request puts back no event that is not true.
LEMMA EndQuiet ==
    ASSUME Typed, Sound, NEW w \in Workers, UNCHANGED intent,
           Finish(w) \/ Fail(w),
           Fail(w) => Captured(req[w].i)
    PROVE  EventsAreTrue' /\ FulfilsCaptured'
<1>1. Drop(w)  BY DEF Finish, Fail
<1>2. FulfilsCaptured'  BY <1>1, DropQuiet, QuietRequest DEF Sound
<1>3. \A e \in events' : e \in events \/ (Fail(w) /\ e = Answered(w))
      BY DEF Finish, Fail
<1>4. EventsAreTrue'  BY <1>3 DEF Sound, EventsAreTrue, Captured, Answered
<1> QED  BY <1>2, <1>4

LEMMA SoundCustomer ==
    ASSUME Typed, Sound, NEW i \in Intents, Pay(i) \/ Decline(i)
    PROVE  Sound'
<1>1. \A j \in Intents : intent[j] = "captured" => intent'[j] = "captured"
      BY DEF Pay, Decline, Typed, TypeOK
<1>2. EventsAreTrue'
  <2>1. \A e \in events : e.intent \in Intents  BY DEF Typed, TypeOK, Event
  <2>2. CASE Pay(i)
        BY <1>1, <2>1, <2>2 DEF Pay, Sound, EventsAreTrue, Captured, Typed, TypeOK
  <2>3. CASE Decline(i)
        BY <2>3 DEF Decline, Sound, EventsAreTrue, Captured
  <2> QED  BY <2>2, <2>3
<1>3. FulfilsCaptured'
      BY <1>1 DEF Pay, Decline, Sound, FulfilsCaptured, Captured
<1> QED  BY <1>1, <1>2, <1>3, QuietStep DEF Pay, Decline, rowVars

LEMMA SoundStart ==
    ASSUME Typed, Sound, NEW w \in Workers, Start(w)
    PROVE  Sound'
<1>1. ASSUME NEW pc \in Pcs, NEW i \in Intents \cup {NoIntent}, NEW hook \in BOOLEAN,
             Begin(w, pc, i, hook), UNCHANGED intent,
             pc \in {"finding", "claiming"} => Captured(i)
      PROVE  FulfilsCaptured'
  <2>1. /\ \A v \in Workers : v # w => req'[v] = req[v]
        /\ req'[w].pc = pc /\ req'[w].i = i
        BY <1>1 DEF Begin, Typed, TypeOK
  <2> QED  BY <1>1, <2>1, QuietRequest DEF Sound
<1>2. CASE StartCreate(w) \/ ExpireOrder(w)
  <2>1. FulfilsCaptured'
        BY <1>1, <1>2 DEF StartCreate, ExpireOrder, stripeVars, Pcs
  <2>2. EventsAreTrue'
        BY <1>2 DEF StartCreate, ExpireOrder, stripeVars, Sound, EventsAreTrue, Captured
  <2> QED  BY <1>2, <2>1, <2>2, QuietStep DEF StartCreate, ExpireOrder, rowVars,
           stripeVars
<1>3. ASSUME NEW e \in Event, Deliver(w, e)
      PROVE  Sound'
  <2>1. e.intent \in Intents /\ (e.type = "succeeded" => Captured(e.intent))
        BY <1>3 DEF Deliver, Sound, EventsAreTrue, Event
  <2>2. FulfilsCaptured'
        BY <1>1, <1>3, <2>1 DEF Deliver, Pcs
  <2>3. EventsAreTrue'
        BY <1>3 DEF Deliver, Acknowledge, Sound, EventsAreTrue, Captured
  <2> QED  BY <1>3, <2>2, <2>3, QuietStep DEF Deliver, rowVars
<1>4. ASSUME NEW i \in Intents, Confirm(w, i)
      PROVE  Sound'
  <2>1. EventsAreTrue'
        BY <1>4 DEF Confirm, stripeVars, Sound, EventsAreTrue, Captured
  <2>2. CASE status = "SUCCESS"
    <3>1. UNCHANGED req \/ Begin(w, "recomputing", i, FALSE)
          BY <1>4, <2>2 DEF Confirm
    <3>2. FulfilsCaptured'
      <4>1. CASE UNCHANGED req
            BY <1>4, <4>1 DEF Confirm, stripeVars, Sound, FulfilsCaptured, Captured
      <4>2. CASE Begin(w, "recomputing", i, FALSE)
            BY <1>1, <1>4, <4>2 DEF Confirm, stripeVars, Pcs
      <4> QED  BY <3>1, <4>1, <4>2
    <3> QED  BY <1>4, <2>1, <2>2, <3>2 DEF Confirm, rowVars, moneyVars, stripeVars,
             Sound, HoldsMatchEscrow, PaidIsCaptured, Captured
  <2>3. CASE status # "SUCCESS"
    <3>1. Captured(i)  BY <1>4, <2>3 DEF Confirm, Confirmable, Captured
    <3>2. FulfilsCaptured'
          BY <1>1, <1>4, <2>3, <3>1 DEF Confirm, stripeVars, Pcs
    <3> QED  BY <1>4, <2>1, <2>3, <3>2, QuietStep DEF Confirm, rowVars, stripeVars
  <2> QED  BY <2>2, <2>3
<1> QED  BY <1>2, <1>3, <1>4 DEF Start

LEMMA SoundCreate ==
    ASSUME Typed, Sound, NEW w \in Workers,
           ReadRow(w) \/ ResolveIntent(w) \/ UpsertRow(w)
    PROVE  Sound'
<1>1. req[w] \in Requests
      BY RequestAt DEF ReadRow, ResolveIntent, UpsertRow, Pcs
<1>2. \A i \in Intents : intent[i] = "captured" => intent'[i] = "captured"
      BY DEF ReadRow, ResolveIntent, UpsertRow, stripeVars, Typed, TypeOK
<1>3. /\ \A v \in Workers : v # w => req'[v] = req[v]
      /\ req'[w].pc \in {"idle", "resolving", "upserting"}
  <2>1. CASE Drop(w)  BY <2>1, DropQuiet
  <2>2. CASE ~Drop(w)
        BY <1>1, <2>2 DEF ReadRow, ResolveIntent, UpsertRow, Goto, Requests, Typed, TypeOK
  <2> QED  BY <2>1, <2>2
<1>4. FulfilsCaptured'  BY <1>2, <1>3, QuietRequest DEF Sound
<1>5. EventsAreTrue'
  <2>1. \A e \in events : e.intent \in Intents  BY DEF Typed, TypeOK, Event
  <2> QED  BY <1>2, <2>1 DEF ReadRow, ResolveIntent, UpsertRow, stripeVars, Sound,
           EventsAreTrue, Captured
<1> QED  BY <1>2, <1>4, <1>5, QuietStep DEF ReadRow, ResolveIntent, UpsertRow, rowVars

LEMMA SoundFulfil ==
    ASSUME Typed, Sound, NEW w \in Workers,
           FindPayment(w) \/ Claim(w) \/ ReadOrder(w) \/ WriteOrder(w)
    PROVE  Sound'
<1>1. req[w] \in Requests
      BY RequestAt DEF FindPayment, Claim, ReadOrder, WriteOrder, Pcs
<1>2. UNCHANGED intent  BY DEF FindPayment, Claim, ReadOrder, WriteOrder
<1>4. CASE FindPayment(w)
  <2>1. Captured(req[w].i)  BY <1>4 DEF FindPayment, At, Sound, FulfilsCaptured
  <2>2. EventsAreTrue' /\ FulfilsCaptured'
    <3>1. CASE Finish(w) \/ Fail(w)  BY <1>2, <2>1, <3>1, EndQuiet
    <3>2. CASE Goto(w, "claiming") /\ UNCHANGED events
      <4>1. /\ \A v \in Workers : v # w => req'[v] = req[v]
            /\ req'[w].i = req[w].i
            BY <1>1, <3>2 DEF Goto, Requests, Typed, TypeOK
      <4>2. Captured(req'[w].i)  BY <2>1, <4>1
      <4> QED  BY <1>2, <3>2, <4>1, <4>2, QuietRequest DEF Sound, EventsAreTrue, Captured
    <3> QED  BY <1>4, <3>1, <3>2 DEF FindPayment
  <2> QED  BY <1>2, <1>4, <2>2, QuietStep DEF FindPayment, rowVars
<1>5. CASE Claim(w)
  <2>1. Captured(req[w].i)  BY <1>5 DEF Claim, At, Sound, FulfilsCaptured
  <2>2. CASE /\ status = "PENDING" /\ status' = "SUCCESS"
             /\ charged' = req[w].i /\ HoldFunds
             /\ Goto(w, "recomputing") /\ UNCHANGED events
    <3>1. holds' = 1 /\ HoldsMatchEscrow'
          BY <2>2 DEF HoldFunds, moneyVars, Sound, HoldsMatchEscrow, Typed, TypeOK
    <3>2. PaidIsCaptured'
          BY <1>2, <2>1, <2>2, <3>1 DEF PaidIsCaptured, Captured
    <3>3. /\ \A v \in Workers : v # w => req'[v] = req[v]
          /\ req'[w].pc = "recomputing"
          BY <1>1, <2>2 DEF Goto, Requests, Typed, TypeOK
    <3>4. FulfilsCaptured'  BY <1>2, <3>3, QuietRequest DEF Sound
    <3>5. EventsAreTrue'  BY <1>2, <2>2 DEF Sound, EventsAreTrue, Captured
    <3> QED  BY <3>1, <3>2, <3>4, <3>5 DEF Sound
  <2>3. CASE /\ Finish(w) \/ Fail(w)
             /\ UNCHANGED <<status, charged, moneyVars>>
             /\ status = "SUCCESS" \/ UNCHANGED part
    <3>1. EventsAreTrue' /\ FulfilsCaptured'  BY <1>2, <2>1, <2>3, EndQuiet
    <3> QED  BY <1>2, <2>3, <3>1 DEF Sound, HoldsMatchEscrow, PaidIsCaptured, Captured,
             moneyVars
  <2> QED  BY <1>5, <2>2, <2>3 DEF Claim
<1>6. CASE ReadOrder(w) \/ WriteOrder(w)
  <2>1. EventsAreTrue' /\ FulfilsCaptured'
    <3>1. CASE Finish(w)
      <4>2. Drop(w)  BY <3>1 DEF Finish
      <4>3. FulfilsCaptured'  BY <1>2, <4>2, DropQuiet, QuietRequest DEF Sound
      <4>4. EventsAreTrue'  BY <1>2, <3>1 DEF Finish, Sound, EventsAreTrue, Captured
      <4> QED  BY <4>3, <4>4
    <3>2. CASE UNCHANGED events /\ ReadOrder(w) /\ ~Finish(w)
      <4>1. /\ \A v \in Workers : v # w => req'[v] = req[v]
            /\ req'[w].pc = "writing"
            BY <1>1, <3>2 DEF ReadOrder, Requests, Typed, TypeOK
      <4> QED  BY <1>2, <3>2, <4>1, QuietRequest DEF Sound, EventsAreTrue, Captured
    <3> QED  BY <1>6, <3>1, <3>2 DEF ReadOrder, WriteOrder
  <2> QED  BY <1>2, <1>6, <2>1, QuietStep DEF ReadOrder, WriteOrder, rowVars
<1> QED  BY <1>4, <1>5, <1>6

LEMMA SoundOther ==
    ASSUME Typed, Sound, NEW w \in Workers,
           CheckFailed(w) \/ MarkFailed(w) \/ RefundCancelled(w) \/ Crash(w)
    PROVE  Sound'
<1>1. UNCHANGED intent
      BY DEF CheckFailed, MarkFailed, RefundCancelled, Crash, stripeVars
<1>2. events' \subseteq events
      BY DEF CheckFailed, MarkFailed, RefundCancelled, Crash, stripeVars, Finish
<1>3. EventsAreTrue'  BY <1>1, <1>2 DEF Sound, EventsAreTrue, Captured
<1>4. FulfilsCaptured'
  <2>1. CASE Drop(w)  BY <1>1, <2>1, DropQuiet, QuietRequest DEF Sound
  <2>2. CASE CheckFailed(w) /\ Goto(w, "failing")
    <3>1. req[w] \in Requests  BY <2>2, RequestAt DEF CheckFailed, Pcs
    <3>2. /\ \A v \in Workers : v # w => req'[v] = req[v]
          /\ req'[w].pc = "failing"
          BY <2>2, <3>1 DEF Goto, Requests, Typed, TypeOK
    <3> QED  BY <1>1, <3>2, QuietRequest DEF Sound
  <2> QED  BY <2>1, <2>2 DEF CheckFailed, MarkFailed, RefundCancelled, Crash, Finish
<1>5. CASE CheckFailed(w) \/ MarkFailed(w) \/ Crash(w)
      BY <1>1, <1>3, <1>4, <1>5, QuietStep DEF CheckFailed, MarkFailed, Crash, rowVars
<1>6. CASE RefundCancelled(w)
  <2>1. HoldsMatchEscrow'
        BY <1>6 DEF RefundCancelled, Refundable, Sound, HoldsMatchEscrow
  <2>2. PaidIsCaptured'
        BY <1>1, <1>6 DEF RefundCancelled, Refundable, Sound, PaidIsCaptured, Captured
  <2> QED  BY <1>3, <1>4, <2>1, <2>2 DEF Sound
<1> QED  BY <1>5, <1>6

LEMMA NextSound == Typed /\ Sound /\ [Next]_vars => Sound'
<1> SUFFICES ASSUME Typed, Sound, [Next]_vars PROVE Sound'
    OBVIOUS
<1>1. CASE UNCHANGED vars
      BY <1>1 DEF vars, rowVars, moneyVars, stripeVars, Sound, HoldsMatchEscrow,
         EventsAreTrue, FulfilsCaptured, PaidIsCaptured, Captured
<1>2. ASSUME NEW w \in Workers, Continue(w) \/ Crash(w)
      PROVE  Sound'
      BY <1>2, SoundCreate, SoundFulfil, SoundOther DEF Continue
<1> QED  BY <1>1, <1>2, SoundCustomer, SoundStart DEF Next

\* Captured intents appear where they should in every reachable state.
LEMMA AlwaysSound == Spec => [](Typed /\ Sound)
<1>1. Spec => []Typed  BY InitType, NextType, PTL DEF Spec
<1> QED  BY <1>1, InitSound, NextSound, PTL DEF Spec

\* Repeated and overlapping webhooks, confirmations and intents never credit the
\* merchant of an offer twice (HeldOnce).
THEOREM MerchantCreditedOnce == Spec => []HeldOnce
<1>1. Typed /\ Sound => HeldOnce  BY DEF Sound, HoldsMatchEscrow, HeldOnce
<1> QED  BY <1>1, AlwaysSound, PTL

\* A part is prepared only against a captured charge whose share was put in
\* escrow (PreparedIsPaid).
THEOREM PreparedAgainstCharge == Spec => []PreparedIsPaid
<1>1. Typed /\ Sound => PreparedIsPaid
      BY DEF Sound, PaidIsCaptured, Captured, PreparedIsPaid
<1> QED  BY <1>1, AlwaysSound, PTL

-----------------------------------------------------------------------------
(* Requests that do not overlap: any number of workers, one of which is     *)
(* busy at a time.  Pages, declines, repeated webhooks and faults still     *)
(* interleave with the steps of its request.                                *)

Serial == \A v, w \in Workers : v # w => IsIdle(v) \/ IsIdle(w)

\* What fulfilment read of the order still holds when it claims the payment, and
\* recomputeOrderStatus never cancels an order.
ClaimsOpenOrder ==
    /\ \A w \in Workers : req[w].pc = "claiming" => order # "CANCELLED"
    /\ \A w \in Workers : req[w].pc = "writing" => req[w].seen # "CANCELLED"

LEMMA InitOpen == Init => ClaimsOpenOrder
BY DEF Init, ClaimsOpenOrder, Idle

\* The requests of the others are untouched by a step of w.
LEMMA OpenStep ==
    ASSUME Typed, ClaimsOpenOrder, NEW w \in Workers,
           \A v \in Workers : v # w => req'[v] = req[v],
           order' = "CANCELLED" =>
               order = "CANCELLED" \/ \A v \in Workers : req'[v].pc # "claiming",
           req'[w].pc = "claiming" => order' # "CANCELLED",
           req'[w].pc = "writing" => req'[w].seen # "CANCELLED"
    PROVE  ClaimsOpenOrder'
BY DEF ClaimsOpenOrder

LEMMA DropOpen ==
    ASSUME Typed, ClaimsOpenOrder, NEW w \in Workers, Drop(w),
           order' = "CANCELLED" => order = "CANCELLED"
    PROVE  ClaimsOpenOrder'
BY DropQuiet, OpenStep

LEMMA BeginOpen ==
    ASSUME Typed, ClaimsOpenOrder, NEW w \in Workers, UNCHANGED order,
           NEW pc \in Pcs \ {"claiming", "writing"}, NEW i, NEW hook,
           Begin(w, pc, i, hook)
    PROVE  ClaimsOpenOrder'
<1>1. /\ \A v \in Workers : v # w => req'[v] = req[v]
      /\ req'[w].pc = pc
      BY DEF Begin, Typed, TypeOK
<1> QED  BY <1>1, OpenStep

\* The deadline cancels an order that no other request is working on.
LEMMA ExpireOpen ==
    ASSUME Typed, ClaimsOpenOrder, Serial', NEW w \in Workers, ExpireOrder(w)
    PROVE  ClaimsOpenOrder'
<1>1. /\ \A v \in Workers : v # w => req'[v] = req[v]
      /\ req'[w].pc = "refunding"
      BY DEF ExpireOrder, Begin, Typed, TypeOK
<1>2. \A v \in Workers : v # w => req'[v].pc = "idle"
      BY <1>1 DEF Serial, IsIdle
<1>3. \A v \in Workers : req'[v].pc # "claiming"
      BY <1>1, <1>2
<1> QED  BY <1>1, <1>3, OpenStep

LEMMA StartOpen ==
    ASSUME Typed, ClaimsOpenOrder, Serial', NEW w \in Workers, Start(w)
    PROVE  ClaimsOpenOrder'
<1>1. CASE StartCreate(w)
      BY <1>1, BeginOpen DEF StartCreate, Pcs
<1>2. CASE ExpireOrder(w)
      BY <1>2, ExpireOpen
<1>3. ASSUME NEW e \in Event, Deliver(w, e)
      PROVE  ClaimsOpenOrder'
  <2>1. (IF e.type = "succeeded" THEN "finding" ELSE "checking")
            \in Pcs \ {"claiming", "writing"}
        BY DEF Pcs
  <2> QED  BY <1>3, <2>1, BeginOpen DEF Deliver
<1>4. ASSUME NEW i \in Intents, Confirm(w, i)
      PROVE  ClaimsOpenOrder'
  <2>1. UNCHANGED req \/ (\E pc \in {"recomputing", "finding"} : Begin(w, pc, i, FALSE))
        BY <1>4 DEF Confirm
  <2>2. CASE UNCHANGED req
        BY <1>4, <2>2 DEF Confirm, ClaimsOpenOrder
  <2>3. ASSUME NEW pc \in {"recomputing", "finding"}, Begin(w, pc, i, FALSE)
        PROVE  ClaimsOpenOrder'
    <3>1. pc \in Pcs \ {"claiming", "writing"}  BY DEF Pcs
    <3> QED  BY <1>4, <2>3, <3>1, BeginOpen DEF Confirm
  <2> QED  BY <2>1, <2>2, <2>3
<1> QED  BY <1>1, <1>2, <1>3, <1>4 DEF Start

LEMMA ContinueOpen ==
    ASSUME Typed, ClaimsOpenOrder, NEW w \in Workers, Continue(w) \/ Crash(w)
    PROVE  ClaimsOpenOrder'
<1>1. CASE ReadRow(w) \/ ResolveIntent(w) \/ UpsertRow(w)
  <2>1. req[w] \in Requests
        BY <1>1, RequestAt DEF ReadRow, ResolveIntent, UpsertRow, Pcs
  <2>2. UNCHANGED order
        BY <1>1 DEF ReadRow, ResolveIntent, UpsertRow
  <2>3. CASE Drop(w)  BY <2>2, <2>3, DropOpen
  <2>4. CASE ~Drop(w)
    <3>1. /\ \A v \in Workers : v # w => req'[v] = req[v]
          /\ req'[w].pc \in {"resolving", "upserting"}
          BY <1>1, <2>1, <2>4 DEF ReadRow, ResolveIntent, UpsertRow, Goto, Requests,
             Typed, TypeOK
    <3> QED  BY <2>2, <3>1, OpenStep
  <2> QED  BY <2>3, <2>4
<1>2. CASE FindPayment(w)
  <2>1. req[w] \in Requests  BY <1>2, RequestAt DEF FindPayment, Pcs
  <2>2. CASE Drop(w)  BY <1>2, <2>2, DropOpen DEF FindPayment
  <2>3. CASE ~Refused /\ Goto(w, "claiming")
    <3>1. /\ \A v \in Workers : v # w => req'[v] = req[v]
          /\ req'[w].pc = "claiming"
          BY <2>1, <2>3 DEF Goto, Requests, Typed, TypeOK
    <3> QED  BY <1>2, <2>3, <3>1, OpenStep DEF FindPayment, Refused
  <2> QED  BY <1>2, <2>2, <2>3 DEF FindPayment, Finish, Fail
<1>3. CASE Claim(w)
  <2>1. req[w] \in Requests  BY <1>3, RequestAt DEF Claim, Pcs
  <2>2. CASE Drop(w)  BY <1>3, <2>2, DropOpen DEF Claim
  <2>3. CASE Goto(w, "recomputing")
    <3>1. /\ \A v \in Workers : v # w => req'[v] = req[v]
          /\ req'[w].pc = "recomputing"
          BY <2>1, <2>3 DEF Goto, Requests, Typed, TypeOK
    <3> QED  BY <1>3, <3>1, OpenStep DEF Claim
  <2> QED  BY <1>3, <2>2, <2>3 DEF Claim, Finish, Fail
<1>4. CASE ReadOrder(w)
  <2>1. req[w] \in Requests  BY <1>4, RequestAt DEF ReadOrder, Pcs
  <2>2. CASE Drop(w)  BY <1>4, <2>2, DropOpen DEF ReadOrder
  <2>3. ASSUME NEW next \in Aggregates,
               req' = [req EXCEPT ![w].pc = "writing", ![w].seen = next]
        PROVE  ClaimsOpenOrder'
    <3>1. next # "CANCELLED"  BY DEF Aggregates
    <3>2. /\ \A v \in Workers : v # w => req'[v] = req[v]
          /\ req'[w].pc = "writing" /\ req'[w].seen = next
          BY <2>1, <2>3 DEF Requests, Typed, TypeOK
    <3> QED  BY <1>4, <3>1, <3>2, OpenStep DEF ReadOrder
  <2> QED  BY <1>4, <2>2, <2>3 DEF ReadOrder, Finish
<1>5. CASE WriteOrder(w)
  <2>1. order' # "CANCELLED"  BY <1>5 DEF WriteOrder, At, ClaimsOpenOrder
  <2> QED  BY <1>5, <2>1, DropOpen DEF WriteOrder, Finish
<1>6. CASE CheckFailed(w)
  <2>1. req[w] \in Requests  BY <1>6, RequestAt DEF CheckFailed, Pcs
  <2>2. CASE Drop(w)  BY <1>6, <2>2, DropOpen DEF CheckFailed
  <2>3. CASE Goto(w, "failing")
    <3>1. /\ \A v \in Workers : v # w => req'[v] = req[v]
          /\ req'[w].pc = "failing"
          BY <2>1, <2>3 DEF Goto, Requests, Typed, TypeOK
    <3> QED  BY <1>6, <3>1, OpenStep DEF CheckFailed
  <2> QED  BY <1>6, <2>2, <2>3 DEF CheckFailed, Finish
<1>7. CASE MarkFailed(w) \/ RefundCancelled(w) \/ Crash(w)
  <2>1. Drop(w) /\ UNCHANGED order
        BY <1>7 DEF MarkFailed, RefundCancelled, Crash, Finish
  <2> QED  BY <2>1, DropOpen
<1> QED  BY <1>1, <1>2, <1>3, <1>4, <1>5, <1>6, <1>7 DEF Continue

LEMMA NextOpen ==
    Typed /\ ClaimsOpenOrder /\ Serial' /\ [Next]_vars => ClaimsOpenOrder'
<1> SUFFICES ASSUME Typed, ClaimsOpenOrder, Serial', [Next]_vars
             PROVE  ClaimsOpenOrder'
    OBVIOUS
<1>1. CASE UNCHANGED vars
      BY <1>1 DEF vars, ClaimsOpenOrder
<1>2. ASSUME NEW i \in Intents, Pay(i) \/ Decline(i)
      PROVE  ClaimsOpenOrder'
      BY <1>2 DEF Pay, Decline, ClaimsOpenOrder
<1> QED  BY <1>1, <1>2, StartOpen, ContinueOpen DEF Next

\* Only the claim of a payment credits the merchant.
LEMMA OnlyClaimHolds ==
    ASSUME ClaimsOpenOrder, [Next]_vars, order = "CANCELLED"
    PROVE  holds' = holds
<1>1. CASE UNCHANGED vars  BY <1>1 DEF vars, moneyVars
<1>2. ASSUME NEW i \in Intents, Pay(i) \/ Decline(i)
      PROVE  holds' = holds
      BY <1>2 DEF Pay, Decline, moneyVars
<1>3. ASSUME NEW w \in Workers, Start(w)
      PROVE  holds' = holds
      BY <1>3 DEF Start, StartCreate, ExpireOrder, Deliver, Confirm, moneyVars
<1>4. ASSUME NEW w \in Workers, Continue(w) \/ Crash(w)
      PROVE  holds' = holds
  <2>1. ~Claim(w)  BY DEF Claim, At, ClaimsOpenOrder
  <2>2. ReadRow(w) \/ ResolveIntent(w) \/ UpsertRow(w) => holds' = holds
        BY DEF ReadRow, ResolveIntent, UpsertRow, moneyVars
  <2>3. FindPayment(w) \/ ReadOrder(w) \/ WriteOrder(w) => holds' = holds
        BY DEF FindPayment, ReadOrder, WriteOrder, moneyVars
  <2>4. CheckFailed(w) \/ MarkFailed(w) \/ RefundCancelled(w) \/ Crash(w)
            => holds' = holds
        BY DEF CheckFailed, MarkFailed, RefundCancelled, Crash, moneyVars
  <2> QED  BY <1>4, <2>1, <2>2, <2>3, <2>4 DEF Continue
<1> QED  BY <1>1, <1>2, <1>3, <1>4 DEF Next

\* While requests do not overlap, nothing is held for an order that was cancelled
\* while the customer paid (NothingHeldAfterCancel), whatever is declined,
\* delivered again or cut off.
THEOREM SerialNothingHeldAfterCancel ==
    Spec /\ []Serial => NothingHeldAfterCancel
<1>1. ClaimsOpenOrder /\ [Next]_vars => [order = "CANCELLED" => holds' = holds]_vars
      BY OnlyClaimHolds
<1>2. Spec => []Typed  BY InitType, NextType, PTL DEF Spec
<1> QED  BY <1>1, <1>2, InitOpen, NextOpen, PTL DEF Spec, NothingHeldAfterCancel

\* One worker: its requests do not overlap, so this is so of every behaviour.
THEOREM OneWorkerNothingHeldAfterCancel ==
    (\A v, w \in Workers : v = w) => (Spec => NothingHeldAfterCancel)
<1> SUFFICES ASSUME \A v, w \in Workers : v = w
             PROVE  Spec => NothingHeldAfterCancel
    OBVIOUS
<1>1. Serial  BY DEF Serial
<1> QED  BY <1>1, SerialNothingHeldAfterCancel, PTL

=============================================================================
