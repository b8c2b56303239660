-------------------------- MODULE FulfilmentProofs --------------------------
(***************************************************************************)
(* Theorems about Fulfilment, for every set of parts and workers and every *)
(* bound.  FulfilmentType is the type invariant; the other theorems rest   *)
(* on it and on Reasons, what the requests in flight are at, and add what  *)
(* makes them inductive: Unrefunded, that a cancelled part without refund  *)
(* has a request still to mark it; Tidy, what holds of parts, cart and     *)
(* payments while nothing has come too late; ReviewKept, that a part and   *)
(* its documents differ only while a request is about to move it; and      *)
(* Told, that the status of the order is true of its parts or a request    *)
(* is on its way to derive it.                                             *)
(***************************************************************************)
EXTENDS Fulfilment, TLAPS

-----------------------------------------------------------------------------
(***************************************************************************)
(* Types                                                                   *)
(***************************************************************************)

\* A function on an initial segment of the naturals is a sequence.
LEMMA FunctionIsSeq ==
    ASSUME NEW S, NEW n \in Nat, NEW f \in [1..n -> S]
    PROVE  f \in Seq(S)
  OBVIOUS

\* Writing one element keeps a sequence one, whether or not the index is in it.
LEMMA WriteIsSeq ==
    ASSUME NEW S, NEW s \in Seq(S), NEW i, NEW v \in S
    PROVE  [s EXCEPT ![i] = v] \in Seq(S)
<1>1. /\ Len(s) \in Nat
      /\ s \in [1..Len(s) -> S]
  OBVIOUS
<1>2. [s EXCEPT ![i] = v] \in [1..Len(s) -> S]
  BY <1>1
<1> QED  BY <1>1, <1>2, FunctionIsSeq


LEMMA JobIsRequest ==
    ASSUME NEW at \in Steps, NEW ps \in SUBSET Parts
    PROVE  /\ Blank \in Requests
           /\ Job(at, ps) \in Requests
  BY DEF Blank, Job, Requests, Steps, Statuses

Whys == {"none", "approve", "reject", "strike", "again", "late", "overdue", "ship"}

\* A request to derive the order, or one to cancel parts, for whatever reason.
LEMMA ReasonIsRequest ==
    ASSUME NEW why \in Whys, NEW ps \in SUBSET Parts
    PROVE  /\ [Blank EXCEPT !.at = "recompute", !.why = why, !.parts = ps] \in Requests
           /\ [Job("cancel", ps) EXCEPT !.why = why] \in Requests
<1>1. Blank \in Requests /\ Job("cancel", ps) \in Requests
  BY JobIsRequest DEF Steps
<1> QED  BY <1>1 DEF Requests, Steps, Whys

\* The status derived from the parts is one of those of an order.
LEMMA DerivedIsStatus ==
    ASSUME order \in Statuses
    PROVE  Derived \in Statuses
<1>1. aggregateMultiItemDeliveryStatus(Live \cap Paid) \in Statuses
  BY DEF aggregateMultiItemDeliveryStatus, Statuses
<1>2. aggregateOrderStatusFromOffers \in Statuses
  BY <1>1 DEF aggregateOrderStatusFromOffers, Statuses
<1> QED  BY <1>2 DEF Derived

LEMMA ContinueIsRequest ==
    ASSUME NEW w \in Workers, req[w] \in Requests, NEW s \in Statuses
    PROVE  Continue(w, s) \in Requests
<1> DEFINE next == IF req[w].why = "strike" THEN s ELSE "CANCELLED"
<1>1. Blank \in Requests  BY JobIsRequest DEF Steps
<1>2. next \in Statuses  BY DEF Statuses
<1> HIDE DEF next
<1>3. [req[w] EXCEPT !.at = "after", !.next = next] \in Requests
  BY <1>2 DEF Requests, Steps
<1> QED  BY <1>1, <1>3 DEF Continue, next

\* A request that goes on, or starts, leaves requests behind.
LEMMA GoIsRequest ==
    ASSUME TypeOK, NEW w \in Workers, NEW r \in Requests, Go(w, r) \/ Begin(w, r)
    PROVE  req' \in [Workers -> Requests]
  BY DEF TypeOK, Go, Begin

LEMMA TypeStep == TypeOK /\ [Next]_vars => TypeOK'
<1> SUFFICES ASSUME TypeOK, [Next]_vars
             PROVE  TypeOK'
  OBVIOUS
<1> USE DEF money, goods
<1>0. CASE UNCHANGED vars
  BY <1>0 DEF TypeOK, vars
<1>1. CASE \E w \in Workers : Advance(w)
  <2> SUFFICES ASSUME NEW w \in Workers, Advance(w)
               PROVE  TypeOK'
    BY <1>1
  <2>r. req[w] \in Requests
    BY DEF TypeOK
  <2>1. CASE ReadOrder(w)
    <3>1. Continue(w, order) \in Requests
      BY <2>r, ContinueIsRequest DEF TypeOK
    <3>2. [req[w] EXCEPT !.at = "write", !.next = Derived] \in Requests
      BY <2>r, DerivedIsStatus DEF TypeOK, Requests, Steps
    <3> QED  BY <2>1, <3>1, <3>2, GoIsRequest DEF ReadOrder, TypeOK
  <2>2. CASE WriteOrder(w)
    <3>1. req[w].next \in Statuses
      BY <2>r DEF Requests
    <3>2. Continue(w, req[w].next) \in Requests
      BY <2>r, <3>1, ContinueIsRequest
    <3> QED  BY <2>2, <3>1, <3>2, GoIsRequest DEF WriteOrder, TypeOK, Late
  <2>3. CASE Expire(w)
    <3>1. Blank \in Requests
      BY JobIsRequest DEF Steps
    <3>2. \A p \in Parts : OwedByOrder(p) \in {"no", "part", "full", "net"}
      BY DEF OwedByOrder, TypeOK
    <3> QED  BY <2>3, <3>1, <3>2, GoIsRequest DEF Expire, TypeOK, Late, Statuses
  <2>4. CASE Prepare(w)
    <3>1. Blank \in Requests
      BY JobIsRequest DEF Steps
    <3>2. [Blank EXCEPT !.at = "recompute", !.why = "none", !.parts = {}] \in Requests
      BY <3>1 DEF Requests, Steps
    <3> QED
      BY <2>4, <3>1, <3>2, GoIsRequest DEF Prepare, Recompute, Move, TypeOK, FulStatuses
  <2>5. CASE Delay(w) \/ Grace(w)
    <3>1. Blank \in Requests
      BY JobIsRequest DEF Steps
    <3>2. [req[w] EXCEPT !.at = "grace"] \in Requests
      BY DEF TypeOK, Requests, Steps
    <3>3. CASE Delay(w)
      BY <3>1, <3>2, <3>3, GoIsRequest DEF Delay, TypeOK, Statuses
    <3>4. CASE Grace(w)
      BY <3>1, <3>4, GoIsRequest DEF Grace, TypeOK
    <3> QED  BY <2>5, <3>3, <3>4
  <2>6. CASE Submit(w)
    <3>1. [Blank EXCEPT !.at = "recompute", !.why = "none", !.parts = {}] \in Requests
      BY ReasonIsRequest DEF Whys
    <3>2. PICK p \in req[w].parts :
            /\ docs' = [docs EXCEPT ![p] = Append(@, "PENDING")]
            /\ Move({p}, "VERIFICATION")
            /\ Late("part", ful[p] # "PREPARED")
      BY <2>6 DEF Submit
    <3>3. p \in Parts
      BY <2>r DEF Requests
    <3>4. Append(docs[p], "PENDING") \in Seq(DocStates)
      BY <3>3 DEF TypeOK, DocStates
    <3>5. docs' \in [Parts -> Seq(DocStates)]
      BY <3>2, <3>4 DEF TypeOK
    <3> QED
      BY <2>6, <3>1, <3>2, <3>5, GoIsRequest
      DEF Submit, Recompute, Move, Late, TypeOK, FulStatuses
  <2>7. CASE Correct(w)
    <3>1. Blank \in Requests
      BY JobIsRequest DEF Steps
    <3>2. PICK p \in req[w].parts : docs' = [docs EXCEPT ![p] = Append(@, "PENDING")]
      BY <2>7 DEF Correct
    <3>3. p \in Parts
      BY <2>r DEF Requests
    <3>4. Append(docs[p], "PENDING") \in Seq(DocStates)
      BY <3>3 DEF TypeOK, DocStates
    <3>5. docs' \in [Parts -> Seq(DocStates)]
      BY <3>2, <3>4 DEF TypeOK
    <3> QED  BY <2>7, <3>1, <3>5, GoIsRequest DEF Correct, TypeOK
  <2>8. CASE Decide(w)
    <3> DEFINE v == CASE req[w].why = "approve" -> "APPROVED"
                      [] req[w].why = "reject" -> "OPEN"
                      [] OTHER -> "REJECTED"
               r == [req[w] EXCEPT !.at = IF req[w].why = "strike" THEN "cancel" ELSE "apply",
                                   !.doc = 0]
    <3>1. r \in Requests
      BY <2>r DEF Requests, Steps
    <3>2. v \in DocStates
      BY DEF DocStates
    <3>3. PICK p \in req[w].parts :
            /\ docs' = [docs EXCEPT ![p][req[w].doc] = v]
            /\ Late("review", docs[p][req[w].doc] # "PENDING" \/ ful[p] # "VERIFICATION")
      BY <2>8 DEF Decide
    <3>4. p \in Parts
      BY <2>r DEF Requests
    <3> HIDE DEF v
    <3>5. [docs[p] EXCEPT ![req[w].doc] = v] \in Seq(DocStates)
      BY <3>2, <3>4, WriteIsSeq DEF TypeOK
    <3>6. docs' = [docs EXCEPT ![p] = [docs[p] EXCEPT ![req[w].doc] = v]]
      BY <3>3, <3>4 DEF TypeOK
    <3>7. docs' \in [Parts -> Seq(DocStates)]
      BY <3>5, <3>6 DEF TypeOK
    <3>8. Go(w, r)
      BY <2>8 DEF Decide
    <3> HIDE DEF r
    <3> QED
      BY <2>8, <3>1, <3>3, <3>7, <3>8, GoIsRequest DEF Decide, Late, TypeOK
  <2>9. CASE Apply(w)
    <3>1. [Blank EXCEPT !.at = "recompute", !.why = req[w].why, !.parts = req[w].parts] \in Requests
      BY <2>r, ReasonIsRequest DEF Requests, Whys
    <3> QED
      BY <2>9, <3>1, GoIsRequest DEF Apply, Recompute, Move, Late, TypeOK, FulStatuses
  <2>10. CASE Retire(w)
    <3>1. Blank \in Requests
      BY JobIsRequest DEF Steps
    <3>2. \A p \in Parts : [i \in DOMAIN docs[p] |-> "APPROVED"] \in Seq(DocStates)
      <4> SUFFICES ASSUME NEW p \in Parts
                   PROVE  [i \in DOMAIN docs[p] |-> "APPROVED"] \in Seq(DocStates)
        OBVIOUS
      <4>1. Len(docs[p]) \in Nat /\ DOMAIN docs[p] = 1..Len(docs[p])
        BY DEF TypeOK
      <4>2. [i \in DOMAIN docs[p] |-> "APPROVED"] \in [1..Len(docs[p]) -> DocStates]
        BY <4>1 DEF DocStates
      <4> QED  BY <4>1, <4>2, FunctionIsSeq
    <3>3. docs' \in [Parts -> Seq(DocStates)]
      BY <2>10, <3>2 DEF Retire, TypeOK
    <3> QED  BY <2>10, <3>1, <3>3, GoIsRequest DEF Retire, TypeOK
  <2>11. CASE Again(w)
    <3>1. [Blank EXCEPT !.at = "recompute", !.why = "none", !.parts = {}] \in Requests
      BY ReasonIsRequest DEF Whys
    <3> QED  BY <2>11, <3>1, GoIsRequest DEF Again, Recompute, TypeOK
  <2>12. CASE Cancel(w)
    <3> DEFINE now == req[w].parts \cap Live
               why == IF now = {} /\ req[w].why # "strike" THEN "none" ELSE req[w].why
    <3>0. why \in Whys /\ now \in SUBSET Parts
      BY <2>r DEF Requests, Whys, Live
    <3>1. [Blank EXCEPT !.at = "recompute", !.why = why, !.parts = now] \in Requests
      <4> HIDE DEF why, now
      <4> QED  BY <3>0, ReasonIsRequest
    <3>2. Recompute(w, why, now) /\ Move(now, "CANCELLED")
      BY <2>12 DEF Cancel
    <3>3. req' \in [Workers -> Requests]
      BY <3>1, <3>2, GoIsRequest DEF Recompute
    <3> QED
      BY <2>12, <3>2, <3>3 DEF Cancel, Move, Late, TypeOK, FulStatuses
  <2>13. CASE MarkRefund(w)
    <3> DEFINE r == IF req[w].why = "strike"
                    THEN [req[w] EXCEPT !.at = "return", !.parts = {}] ELSE Blank
    <3>1. r \in Requests
      <4>1. Blank \in Requests
        BY JobIsRequest DEF Steps
      <4>2. [req[w] EXCEPT !.at = "return", !.parts = {}] \in Requests
        BY <2>r DEF Requests, Steps
      <4> QED  BY <4>1, <4>2
    <3>2. \A p \in Parts :
            [i \in DOMAIN docs[p] |->
                IF /\ req[w].why = "overdue"
                   /\ p \in req[w].parts
                   /\ docs[p][i] \in Rejected
                THEN "REJECTED" ELSE docs[p][i]] \in Seq(DocStates)
      <4> SUFFICES ASSUME NEW p \in Parts
                   PROVE  [i \in DOMAIN docs[p] |->
                              IF /\ req[w].why = "overdue"
                                 /\ p \in req[w].parts
                                 /\ docs[p][i] \in Rejected
                              THEN "REJECTED" ELSE docs[p][i]] \in Seq(DocStates)
        OBVIOUS
      <4>1. /\ Len(docs[p]) \in Nat
            /\ DOMAIN docs[p] = 1..Len(docs[p])
            /\ docs[p] \in [1..Len(docs[p]) -> DocStates]
        BY DEF TypeOK
      <4>2. [i \in DOMAIN docs[p] |->
                IF /\ req[w].why = "overdue"
                   /\ p \in req[w].parts
                   /\ docs[p][i] \in Rejected
                THEN "REJECTED" ELSE docs[p][i]] \in [1..Len(docs[p]) -> DocStates]
        BY <4>1 DEF DocStates
      <4> QED  BY <4>1, <4>2, FunctionIsSeq
    <3>3. docs' \in [Parts -> Seq(DocStates)]
      BY <2>13, <3>2 DEF MarkRefund, TypeOK
    <3>4. Go(w, r)
      BY <2>13 DEF MarkRefund
    <3>5. due' \in [Parts -> {"no", "part", "full", "net"}]
      BY <2>13 DEF MarkRefund, Owed, TypeOK
    <3> HIDE DEF r
    <3> QED  BY <2>13, <3>1, <3>3, <3>4, <3>5, GoIsRequest DEF MarkRefund, TypeOK
  <2>14. CASE Return(w)
    <3>1. Blank \in Requests /\ req[w].next \in Statuses
      BY <2>r, JobIsRequest DEF Steps, Requests
    <3> QED  BY <2>14, <3>1, GoIsRequest DEF Return, Late, TypeOK
  <2>15. CASE Ready(w)
    <3>1. [Blank EXCEPT !.at = "recompute", !.why = "none", !.parts = {}] \in Requests
      BY ReasonIsRequest DEF Whys
    <3> QED
      BY <2>15, <3>1, GoIsRequest DEF Ready, Recompute, Move, Late, TypeOK, FulStatuses
  <2>16. CASE Ship(w)
    <3>1. [Blank EXCEPT !.at = "recompute", !.why = "ship", !.parts = {}] \in Requests
      BY ReasonIsRequest DEF Whys
    <3>2. req[w].parts \in SUBSET Parts
      BY <2>r DEF Requests
    <3> QED
      BY <2>16, <3>1, <3>2, GoIsRequest DEF Ship, Recompute, Move, Late, TypeOK, FulStatuses
  <2>17. CASE ShipOrder(w)
    <3>1. Blank \in Requests
      BY JobIsRequest DEF Steps
    <3> QED  BY <2>17, <3>1, GoIsRequest DEF ShipOrder, TypeOK, Statuses
  <2> QED
    BY <2>1, <2>2, <2>3, <2>4, <2>5, <2>6, <2>7, <2>8, <2>9, <2>10, <2>11, <2>12,
       <2>13, <2>14, <2>15, <2>16, <2>17 DEF Advance
<1>2. CASE \E w \in Workers : Begins(w)
  <2> SUFFICES ASSUME NEW w \in Workers, Begins(w)
               PROVE  TypeOK'
    BY <1>2
  <2>j. \A at \in Steps, ps \in SUBSET Parts : Job(at, ps) \in Requests
    BY JobIsRequest
  <2>c. \A ps \in SUBSET Parts, why \in Whys : [Job("cancel", ps) EXCEPT !.why = why] \in Requests
    BY ReasonIsRequest
  <2>1. CASE StartExpire(w)
    BY <2>1, <2>j, GoIsRequest DEF StartExpire, TypeOK, Steps
  <2>2. CASE StartDelay(w)
    BY <2>2, <2>j, GoIsRequest DEF StartDelay, TypeOK, Steps, LateParts
  <2>3. CASE StartLate(w)
    <3> DEFINE r == IF LateParts = {} THEN Job("recompute", {})
                    ELSE [Job("cancel", LateParts) EXCEPT !.why = "late"]
    <3>1. r \in Requests
      BY <2>j, <2>c DEF Steps, Whys, LateParts
    <3>2. Begin(w, r)
      BY <2>3 DEF StartLate
    <3> HIDE DEF r
    <3> QED  BY <2>3, <3>1, <3>2, GoIsRequest DEF StartLate, TypeOK
  <2>4. ASSUME NEW p \in Parts, Pay(w, p)
        PROVE  TypeOK'
    <3>1. Job("recompute", {}) \in Requests
      BY <2>j DEF Steps
    <3> QED  BY <2>4, <3>1, GoIsRequest DEF Pay, TypeOK, FulStatuses
  <2>10. ASSUME NEW p \in Parts, Complete(w, p)
        PROVE  TypeOK'
    <3>1. Job("recompute", {}) \in Requests
      BY <2>j DEF Steps
    <3> QED  BY <2>10, <3>1, GoIsRequest DEF Complete, Move, TypeOK, FulStatuses
  <2>5. ASSUME NEW p \in Parts,
               StartPrepare(w, p) \/ StartSubmit(w, p) \/ StartCorrect(w, p) \/ StartReady(w, p)
        PROVE  TypeOK'
    BY <2>5, <2>j, GoIsRequest
    DEF StartPrepare, StartSubmit, StartCorrect, StartReady, TypeOK, Steps
  <2>6. ASSUME NEW p \in Parts, StartLatePart(w, p) \/ StartOverdue(w, p)
        PROVE  TypeOK'
    BY <2>6, <2>c, GoIsRequest DEF StartLatePart, StartOverdue, TypeOK, Whys
  <2>7. ASSUME NEW p \in Parts, Deliver(w, p)
        PROVE  TypeOK'
    BY <2>7, <2>j, GoIsRequest DEF Deliver, Move, Late, TypeOK, Steps, FulStatuses
  <2>8. ASSUME NEW p \in Parts, NEW i \in DOMAIN docs[p], NEW approve \in BOOLEAN,
               StartReview(w, p, i, approve)
        PROVE  TypeOK'
    <3> DEFINE why == IF approve THEN "approve" ELSE IF Struck(p, i) THEN "strike" ELSE "reject"
               r == [Job("decide", {p}) EXCEPT !.doc = i, !.why = why]
    <3>1. why \in Whys /\ i \in Nat
      BY DEF Whys, TypeOK
    <3>2. Job("decide", {p}) \in Requests
      BY <2>j DEF Steps
    <3>3. Begin(w, r)
      BY <2>8 DEF StartReview
    <3>4. r \in Requests
      <4> HIDE DEF why
      <4> QED  BY <3>1, <3>2 DEF Requests, Whys
    <3> HIDE DEF r
    <3> QED  BY <2>8, <3>3, <3>4, GoIsRequest DEF StartReview, TypeOK
  <2>9. ASSUME NEW ps \in SUBSET Parts, StartShip(w, ps)
        PROVE  TypeOK'
    BY <2>9, <2>j, GoIsRequest DEF StartShip, TypeOK, Steps
  <2> QED
    BY <2>1, <2>2, <2>3, <2>4, <2>5, <2>6, <2>7, <2>8, <2>9, <2>10 DEF Begins
<1>3. CASE \E w \in Workers : Crash(w)
  <2>1. Blank \in Requests
    BY JobIsRequest DEF Steps
  <2> QED  BY <1>3, <2>1, GoIsRequest DEF Crash, Late, TypeOK
<1>4. CASE \E p \in Parts : Passes(p)
  <2> SUFFICES ASSUME NEW p \in Parts, Passes(p)
               PROVE  TypeOK'
    BY <1>4
  <2>1. CASE DelayPart(p) \/ GraceEnds(p)
    BY <2>1 DEF DelayPart, GraceEnds, TypeOK
  <2>2. CASE Refund(p)
    BY <2>2 DEF Refund, TypeOK
  <2>3. ASSUME NEW i \in DOMAIN docs[p], ClockEnds(p, i)
        PROVE  TypeOK'
    <3>1. [docs[p] EXCEPT ![i] = "OVER"] \in Seq(DocStates)
      BY WriteIsSeq DEF TypeOK, DocStates
    <3>2. docs' = [docs EXCEPT ![p] = [docs[p] EXCEPT ![i] = "OVER"]]
      BY <2>3 DEF ClockEnds, TypeOK
    <3>3. docs' \in [Parts -> Seq(DocStates)]
      BY <3>1, <3>2 DEF TypeOK
    <3> QED  BY <2>3, <3>3 DEF ClockEnds, TypeOK
  <2> QED  BY <2>1, <2>2, <2>3 DEF Passes
<1> QED  BY <1>0, <1>1, <1>2, <1>3, <1>4 DEF Next

LEMMA InitType == Init => TypeOK
<1> SUFFICES ASSUME Init
             PROVE  TypeOK
  OBVIOUS
<1>1. Blank \in Requests
  BY JobIsRequest DEF Steps
<1>2. <<>> \in Seq(DocStates)
  OBVIOUS
<1>3. /\ req \in [Workers -> Requests]
      /\ docs \in [Parts -> Seq(DocStates)]
  BY <1>1, <1>2 DEF Init
<1> QED  BY <1>3 DEF Init, TypeOK, Statuses, FulStatuses

\* The order, its parts, their documents and refunds and every request in flight
\* stay within the values the schema and the handlers give them.
THEOREM FulfilmentType == Spec => []TypeOK
<1> QED  BY InitType, TypeStep, PTL DEF Spec

-----------------------------------------------------------------------------
(***************************************************************************)
(* A cancelled order                                                       *)
(***************************************************************************)

LEMMA CancelledStep ==
    ASSUME [Next]_vars, order = "CANCELLED", order' # "CANCELLED"
    PROVE  "order" \in late'
<1>d. Derived = "CANCELLED"
  BY DEF Derived
<1>1. ASSUME NEW w \in Workers, Advance(w)
      PROVE  "order" \in late'
  <2>1. CASE WriteOrder(w)
    BY <1>d, <2>1 DEF WriteOrder, Late
  <2>2. CASE Return(w)
    BY <1>d, <2>2 DEF Return, Late
  <2>3. CASE Expire(w) \/ Delay(w) \/ ShipOrder(w)
    BY <2>3 DEF Expire, Cancellable, Delay, ShipOrder
  <2> QED
    BY <1>1, <2>1, <2>2, <2>3
    DEF Advance, ReadOrder, Prepare, Grace, Submit, Correct, Decide, Apply, Retire,
        Again, Cancel, MarkRefund, Ready, Ship
<1>2. ASSUME NEW w \in Workers, Begins(w)
      PROVE  FALSE
  BY <1>2
  DEF Begins, StartExpire, StartDelay, StartLate, Pay, StartPrepare, StartLatePart,
      StartSubmit, StartCorrect, StartOverdue, StartReady, Deliver, Complete,
      StartReview, StartShip
<1>3. ASSUME NEW w \in Workers, Crash(w)
      PROVE  FALSE
  BY <1>3 DEF Crash
<1>4. ASSUME NEW p \in Parts, Passes(p)
      PROVE  FALSE
  BY <1>4 DEF Passes, DelayPart, GraceEnds, Refund, ClockEnds
<1> QED  BY <1>1, <1>2, <1>3, <1>4 DEF Next, vars

\* A cancelled order ("Terminal cancel must never be resurrected by offer
\* aggregation") is written with another status only by a request that derived
\* that status before the cancellation and writes it after.
THEOREM CancelledIsTerminal == Spec => CancelledStays
<1>1. [Next]_vars => [order = "CANCELLED" /\ order' # "CANCELLED" => "order" \in late']_vars
  BY CancelledStep
<1> QED  BY <1>1, PTL DEF Spec, CancelledStays

-----------------------------------------------------------------------------
(***************************************************************************)
(* What the requests in flight are at                                      *)
(***************************************************************************)
Striking == {"late", "overdue", "strike"}

\* Parts are cancelled for one of three reasons, and a decision that does not
\* cancel its part is an approval or a first rejection.
Reasoned(r) ==
    /\ r.at = "cancel" => r.why \in Striking
    /\ r.at = "apply" => r.why \in {"approve", "reject"}
    /\ r.at = "decide" => r.why \in {"approve", "reject", "strike"}

Reasons == \A w \in Workers : Reasoned(req[w])

\* A request that goes on, or starts, is the only one that changes.
LEMMA OthersStay ==
    ASSUME TypeOK, NEW w \in Workers, NEW r, Go(w, r) \/ Begin(w, r)
    PROVE  /\ req'[w] = r
           /\ \A v \in Workers \ {w} : req'[v] = req[v]
  BY DEF TypeOK, Go, Begin

LEMMA GoReasons ==
    ASSUME TypeOK, Reasons, NEW w \in Workers, NEW r, Go(w, r) \/ Begin(w, r), Reasoned(r)
    PROVE  Reasons'
<1>1. \A v \in Workers : Reasoned(req'[v])
  BY OthersStay DEF Reasons
<1> QED  BY <1>1 DEF Reasons, Reasoned

LEMMA ReasonsStep == TypeOK /\ Reasons /\ [Next]_vars => Reasons'
<1> SUFFICES ASSUME TypeOK, Reasons, [Next]_vars
             PROVE  Reasons'
  OBVIOUS
<1> USE DEF Reasoned, Striking
<1>0. CASE UNCHANGED req
  BY <1>0 DEF Reasons
<1>b. Reasoned(Blank)
  BY DEF Blank
<1>j. ASSUME NEW at \in {"prepare", "submit", "correct", "ready", "ship", "delay", "expire",
                         "recompute"}, NEW ps
      PROVE  Reasoned(Job(at, ps))
  BY <1>j DEF Job, Blank
<1>r. ASSUME NEW why, NEW ps
      PROVE  Reasoned([Blank EXCEPT !.at = "recompute", !.why = why, !.parts = ps])
  BY DEF Blank
<1>c. ASSUME NEW why \in Striking, NEW ps
      PROVE  Reasoned([Job("cancel", ps) EXCEPT !.why = why])
  BY <1>c DEF Job, Blank
<1>1. ASSUME NEW w \in Workers, Advance(w)
      PROVE  Reasons'
  <2>r. req[w] \in Requests /\ Reasoned(req[w])
    BY DEF TypeOK, Reasons
  <2>c. \A s \in Statuses : Reasoned(Continue(w, s))
    BY <2>r, <1>b DEF Continue, Requests
  <2>1. CASE ReadOrder(w)
    <3>1. Reasoned([req[w] EXCEPT !.at = "write", !.next = Derived])
      BY <2>r DEF Requests
    <3> QED  BY <2>1, <2>c, <3>1, GoReasons DEF ReadOrder, TypeOK
  <2>2. CASE WriteOrder(w)
    <3>1. Reasoned(Continue(w, req[w].next))
      BY <2>r, <2>c DEF Requests
    <3> QED  BY <2>2, <3>1, GoReasons DEF WriteOrder
  <2>3. CASE Decide(w)
    <3> DEFINE r == [req[w] EXCEPT !.at = IF req[w].why = "strike" THEN "cancel" ELSE "apply",
                                   !.doc = 0]
    <3>1. Reasoned(r)
      BY <2>3, <2>r DEF Decide, Requests
    <3>2. Go(w, r)
      BY <2>3 DEF Decide
    <3> HIDE DEF r
    <3> QED  BY <3>1, <3>2, GoReasons
  <2>4. CASE MarkRefund(w)
    <3> DEFINE r == IF req[w].why = "strike"
                    THEN [req[w] EXCEPT !.at = "return", !.parts = {}] ELSE Blank
    <3>1. Reasoned(r)
      BY <2>r, <1>b DEF Requests
    <3>2. Go(w, r)
      BY <2>4 DEF MarkRefund
    <3> HIDE DEF r
    <3> QED  BY <3>1, <3>2, GoReasons
  <2>5. CASE \E why, ps : Recompute(w, why, ps)
    BY <2>5, <1>r, GoReasons DEF Recompute
  <2>6. CASE Go(w, Blank)
    BY <2>6, <1>b, GoReasons
  <2>7. CASE req[w].at = "delay" /\ Go(w, [req[w] EXCEPT !.at = "grace"])
    <3>1. Reasoned([req[w] EXCEPT !.at = "grace"])
      BY <2>7, <2>r DEF Requests
    <3> QED  BY <2>7, <3>1, GoReasons
  <2> QED
    BY <1>1, <2>1, <2>2, <2>3, <2>4, <2>5, <2>6, <2>7
    DEF Advance, Expire, Prepare, Delay, Grace, Submit, Correct, Apply, Retire, Again,
        Cancel, Return, Ready, Ship, ShipOrder
<1>2. ASSUME NEW w \in Workers, Begins(w)
      PROVE  Reasons'
  <2>1. CASE \E at \in {"prepare", "submit", "correct", "ready", "ship", "delay", "expire",
                        "recompute"} : \E ps : Begin(w, Job(at, ps))
    BY <2>1, <1>j, GoReasons
  <2>2. CASE \E why \in Striking : \E ps : Begin(w, [Job("cancel", ps) EXCEPT !.why = why])
    BY <2>2, <1>c, GoReasons
  <2>3. ASSUME NEW p \in Parts, NEW i \in DOMAIN docs[p], NEW approve \in BOOLEAN,
               StartReview(w, p, i, approve)
        PROVE  Reasons'
    <3> DEFINE r == [Job("decide", {p}) EXCEPT
                        !.doc = i,
                        !.why = IF approve THEN "approve"
                                ELSE IF Struck(p, i) THEN "strike" ELSE "reject"]
    <3>1. Reasoned(r)
      BY DEF Job, Blank
    <3>2. Begin(w, r)
      BY <2>3 DEF StartReview
    <3> HIDE DEF r
    <3> QED  BY <3>1, <3>2, GoReasons
  <2> QED
    BY <1>2, <2>1, <2>2, <2>3
    DEF Begins, StartExpire, StartDelay, StartLate, Pay, StartPrepare, StartLatePart,
        StartSubmit, StartCorrect, StartOverdue, StartReady, Deliver, Complete, StartShip
<1>3. ASSUME NEW w \in Workers, Crash(w)
      PROVE  Reasons'
  BY <1>3, <1>b, GoReasons DEF Crash
<1>4. ASSUME NEW p \in Parts, Passes(p)
      PROVE  Reasons'
  BY <1>0, <1>4 DEF Passes, DelayPart, GraceEnds, Refund, ClockEnds
<1> QED  BY <1>0, <1>1, <1>2, <1>3, <1>4 DEF Next, vars

\* What came too late is not forgotten.
LEMMA LateGrows == [Next]_vars => late \subseteq late'
<1> SUFFICES ASSUME [Next]_vars
             PROVE  late \subseteq late'
  OBVIOUS
<1> USE DEF Late
<1>1. ASSUME NEW w \in Workers, Advance(w)
      PROVE  late \subseteq late'
  <2>1. CASE \/ ReadOrder(w) \/ WriteOrder(w) \/ Expire(w) \/ Prepare(w)
             \/ Delay(w) \/ Grace(w)
    BY <2>1 DEF ReadOrder, WriteOrder, Expire, Prepare, Delay, Grace
  <2>2. CASE Submit(w) \/ Correct(w) \/ Decide(w) \/ Apply(w) \/ Retire(w) \/ Again(w)
    BY <2>2 DEF Submit, Correct, Decide, Apply, Retire, Again
  <2>3. CASE Cancel(w) \/ MarkRefund(w) \/ Return(w) \/ Ready(w) \/ Ship(w) \/ ShipOrder(w)
    BY <2>3 DEF Cancel, MarkRefund, Return, Ready, Ship, ShipOrder
  <2> QED  BY <1>1, <2>1, <2>2, <2>3 DEF Advance
<1>2. ASSUME NEW w \in Workers, Begins(w)
      PROVE  late \subseteq late'
  BY <1>2
  DEF Begins, StartExpire, StartDelay, StartLate, Pay, StartPrepare, StartLatePart,
      StartSubmit, StartCorrect, StartOverdue, StartReady, Deliver, Complete,
      StartReview, StartShip
<1>3. ASSUME NEW w \in Workers, Crash(w)
      PROVE  late \subseteq late'
  BY <1>3 DEF Crash
<1>4. ASSUME NEW p \in Parts, Passes(p)
      PROVE  late \subseteq late'
  BY <1>4 DEF Passes, DelayPart, GraceEnds, Refund, ClockEnds
<1> QED  BY <1>1, <1>2, <1>3, <1>4 DEF Next, vars

-----------------------------------------------------------------------------
(***************************************************************************)
(* The money for a cancelled part                                          *)
(***************************************************************************)
Unreturned(p) ==
    ful[p] = "CANCELLED" /\ cart[p] = {} /\ payment[p] = "SUCCESS" /\ due[p] = "no"

\* A request that has cancelled its parts and has the refund still before it.
Owing(r, p) ==
    /\ r.at \in {"recompute", "write", "after"}
    /\ r.why \in Striking
    /\ p \in r.parts

Unrefunded ==
    "crash" \in late \/ \A p \in Parts :
        Unreturned(p) => \E w \in Workers : Owing(req[w], p)

LEMMA UnrefundedStep == TypeOK /\ Reasons /\ Unrefunded /\ [Next]_vars => Unrefunded'
<1> SUFFICES ASSUME TypeOK, Reasons, Unrefunded, [Next]_vars,
                    "crash" \notin late',
                    NEW p \in Parts,
                    ful'[p] = "CANCELLED", cart'[p] = {},
                    payment'[p] = "SUCCESS", due'[p] = "no"
             PROVE  \E w \in Workers : Owing(req'[w], p)
  BY DEF Unrefunded, Unreturned, Owing
<1> USE DEF money, goods
<1>u. Unreturned(p) => \E w \in Workers : Owing(req[w], p)
  BY LateGrows DEF Unrefunded
<1>k. ASSUME NEW w \in Workers, Unreturned(p), ~Owing(req[w], p),
             \A v \in Workers \ {w} : req'[v] = req[v]
      PROVE  \E v \in Workers : Owing(req'[v], p)
  BY <1>k, <1>u
<1>0. CASE UNCHANGED vars
  BY <1>0, <1>u DEF vars, Unreturned
<1>1. ASSUME NEW w \in Workers, Advance(w)
      PROVE  \E v \in Workers : Owing(req'[v], p)
  <2>r. req[w] \in Requests /\ Reasoned(req[w])
    BY DEF TypeOK, Reasons
  <2>1. CASE ReadOrder(w) \/ WriteOrder(w)
    <3>1. Unreturned(p)
      BY <2>1 DEF ReadOrder, WriteOrder, Unreturned
    <3>2. PICK v \in Workers : Owing(req[v], p)
      BY <3>1, <1>u
    <3>3. PICK r : Go(w, r) /\ (Owing(req[w], p) => Owing(r, p))
      <4>1. CASE ReadOrder(w) /\ Derived # order
        <5>1. Owing(req[w], p) => Owing([req[w] EXCEPT !.at = "write", !.next = Derived], p)
          BY <2>r DEF Owing, Requests
        <5> QED  BY <4>1, <5>1 DEF ReadOrder
      <4>2. \A s : Owing(req[w], p) => Owing(Continue(w, s), p)
        BY <2>r DEF Continue, Owing, Requests, Striking
      <4> QED  BY <2>1, <4>1, <4>2 DEF ReadOrder, WriteOrder
    <3> QED  BY <3>2, <3>3, OthersStay
  <2>2. CASE Cancel(w)
    <3> DEFINE now == req[w].parts \cap Live
               why == IF now = {} /\ req[w].why # "strike" THEN "none" ELSE req[w].why
               r == [Blank EXCEPT !.at = "recompute", !.why = why, !.parts = now]
    <3>1. Go(w, r) /\ Move(now, "CANCELLED")
      BY <2>2 DEF Cancel, Recompute
    <3>2. CASE p \in now
      <4>1. Owing(r, p)
        BY <3>2, <2>2, <2>r DEF Owing, Blank, Cancel, Reasoned, Striking
      <4> HIDE DEF r
      <4> QED  BY <3>1, <4>1, OthersStay
    <3>3. CASE p \notin now
      <4>1. Unreturned(p) /\ ~Owing(req[w], p)
        BY <2>2, <3>1, <3>3 DEF Cancel, Move, Unreturned, Owing
      <4> HIDE DEF r
      <4> QED  BY <3>1, <4>1, <1>k, OthersStay
    <3> QED  BY <3>2, <3>3
  <2>3. CASE MarkRefund(w)
    <3> DEFINE r == IF req[w].why = "strike"
                    THEN [req[w] EXCEPT !.at = "return", !.parts = {}] ELSE Blank
    <3>1. Go(w, r)
      BY <2>3 DEF MarkRefund
    <3>2. p \notin req[w].parts /\ Unreturned(p)
      BY <2>3 DEF MarkRefund, Unreturned, Owed
    <3> HIDE DEF r
    <3> QED  BY <3>1, <3>2, <1>k, OthersStay DEF Owing
  <2>4. CASE Expire(w)
    <3>1. Unreturned(p) /\ ~Owing(req[w], p)
      BY <2>4 DEF Expire, OwedByOrder, Unreturned, Owing
    <3> QED  BY <2>4, <3>1, <1>k, OthersStay DEF Expire
  <2>5. CASE Prepare(w) \/ Submit(w) \/ Apply(w) \/ Ready(w)
    <3>1. Unreturned(p) /\ ~Owing(req[w], p)
      BY <2>5 DEF Prepare, Submit, Apply, Ready, Move, Unreturned, Owing
    <3> QED
      BY <2>5, <3>1, <1>k, OthersStay DEF Prepare, Submit, Apply, Ready, Recompute
  <2>6. CASE Ship(w)
    <3>1. Unreturned(p) /\ ~Owing(req[w], p)
      BY <2>6 DEF Ship, Move, Unreturned, Owing, TypeOK
    <3> QED  BY <2>6, <3>1, <1>k, OthersStay DEF Ship, Recompute
  <2>7. CASE \/ Delay(w) \/ Grace(w) \/ Correct(w) \/ Decide(w) \/ Retire(w)
             \/ Again(w) \/ Return(w) \/ ShipOrder(w)
    <3>1. Unreturned(p)
      BY <2>7 DEF Delay, Grace, Correct, Retire, Again, Return, ShipOrder, Decide,
                  Unreturned
    <3>2. ~Owing(req[w], p)
      BY <2>7 DEF Delay, Grace, Correct, Retire, Again, Return, ShipOrder, Decide,
                  Owing, Striking
    <3>3. \E r : Go(w, r)
      BY <2>7 DEF Delay, Grace, Correct, Retire, Again, Return, ShipOrder, Decide,
                  Recompute
    <3> QED  BY <3>1, <3>2, <3>3, <1>k, OthersStay
  <2> QED  BY <1>1, <2>1, <2>2, <2>3, <2>4, <2>5, <2>6, <2>7 DEF Advance
<1>2. ASSUME NEW w \in Workers, Begins(w)
      PROVE  \E v \in Workers : Owing(req'[v], p)
  <2>1. \E r : Begin(w, r)
    BY <1>2
    DEF Begins, StartExpire, StartDelay, StartLate, Pay, StartPrepare, StartLatePart,
        StartSubmit, StartCorrect, StartOverdue, StartReady, Deliver, Complete,
        StartReview, StartShip
  <2>2. ~Owing(req[w], p)
    BY <2>1 DEF Begin, Owing
  <2>3. Unreturned(p)
    <3>1. CASE \E q \in Parts : Pay(w, q) \/ Complete(w, q) \/ Deliver(w, q)
      <4>1. PICK q \in Parts : Pay(w, q) \/ Complete(w, q) \/ Deliver(w, q)  BY <3>1
      <4>2. CASE Pay(w, q)  BY <4>2 DEF Pay, Unreturned, TypeOK
      <4>3. CASE Complete(w, q)  BY <4>3 DEF Complete, Move, Unreturned, TypeOK
      <4>4. CASE Deliver(w, q)  BY <4>4 DEF Deliver, Move, Unreturned, TypeOK
      <4> QED  BY <4>1, <4>2, <4>3, <4>4
    <3> QED
      BY <1>2, <3>1
      DEF Begins, StartExpire, StartDelay, StartLate, StartPrepare, StartLatePart,
          StartSubmit, StartCorrect, StartOverdue, StartReady, StartReview, StartShip,
          Unreturned
  <2> QED  BY <2>1, <2>2, <2>3, <1>k, OthersStay
<1>3. ASSUME NEW w \in Workers, Crash(w)
      PROVE  FALSE
  BY <1>3 DEF Crash, Late
<1>4. ASSUME NEW q \in Parts, Passes(q)
      PROVE  \E v \in Workers : Owing(req'[v], p)
  <2>1. UNCHANGED req
    BY <1>4 DEF Passes, DelayPart, GraceEnds, Refund, ClockEnds
  <2>2. Unreturned(p)
    <3>1. CASE Refund(q)
      BY <3>1 DEF Refund, Unreturned, TypeOK
    <3> QED  BY <1>4, <3>1 DEF Passes, DelayPart, GraceEnds, ClockEnds, Unreturned
  <2> QED  BY <2>1, <2>2, <1>u
<1> QED  BY <1>0, <1>1, <1>2, <1>3, <1>4 DEF Next

\* Once no request is between cancelling a part and its refund, the money for
\* every part cancelled before it left is on its way back or has been returned,
\* unless a request was cut off (cancelOffersFulfillment, the refunds after it).
THEOREM CancelledArePaidBack == Spec => []CancelledPaidBack
<1>1. Init => TypeOK /\ Reasons /\ Unrefunded
  <2>1. Init => Reasons
    BY DEF Init, Reasons, Reasoned, Blank
  <2>2. Init => Unrefunded
    BY DEF Init, Unrefunded, Unreturned
  <2> QED  BY <2>1, <2>2, InitType
<1>2. Unrefunded => CancelledPaidBack
  BY DEF Unrefunded, Unreturned, Owing, CancelledPaidBack, Quiet
<1> QED  BY <1>1, <1>2, TypeStep, ReasonsStep, UnrefundedStep, PTL DEF Spec

-----------------------------------------------------------------------------
(***************************************************************************)
(* No full refund of a part that has left                                  *)
(***************************************************************************)
Early == {"AWAITING_PAYMENT", "PARTIALLY_PAID", "CANCELLED"}

Owes(r) == r.at \in {"recompute", "write", "after"} /\ r.why \in Striking

\* No part was moved from a status it no longer had or decided on again.
InTime == late \cap {"part", "review"} = {}

\* Nor was one cancelled with an order that had been paid since.
Clear == InTime /\ "expire" \notin late

UnpaidUntouched ==
    \A p \in Parts : payment[p] = "none" => /\ ful[p] = "AWAITING_PAYMENT"
                                            /\ DOMAIN docs[p] = {}

UnpaidEarly ==
    \A p \in Parts : payment[p] = "none" => /\ order \in Early
                                            /\ \A w \in Workers : req[w].next \in Early

RequestsPaid == \A w \in Workers : \A p \in req[w].parts : payment[p] # "none"

StruckCancelled ==
    \A w \in Workers : Owes(req[w]) => \A p \in req[w].parts : ful[p] = "CANCELLED"

CartGone == \A p \in Parts : cart[p] # {} => ful[p] \in Gone

Tidy ==
    /\ UnpaidUntouched
    /\ UnpaidEarly
    /\ RequestsPaid
    /\ StruckCancelled
    /\ CartGone

RefundCancelled ==
    \A p \in Parts :
        due[p] \in {"part", "full"} \/ payment[p] = "REFUNDED" => ful[p] = "CANCELLED"

\* With a part still to pay the order derives one of the early statuses.
LEMMA DerivedEarly ==
    ASSUME order \in Early, NEW p \in Parts, payment[p] = "none", ful[p] = "AWAITING_PAYMENT"
    PROVE  Derived \in Early
<1>1. p \in Live /\ p \notin Paid
  BY DEF Live, Paid
<1>2. Live \cap Paid # Live
  BY <1>1
<1>3. aggregateOrderStatusFromOffers \in Early
  BY <1>2 DEF aggregateOrderStatusFromOffers, Early
<1> QED  BY <1>3 DEF Derived

\* A payment, once made, is never taken for one that was not made.
LEMMA PaymentsStay ==
    ASSUME TypeOK, [Next]_vars, NEW p \in Parts, payment'[p] = "none"
    PROVE  payment[p] = "none"
<1> USE DEF money
<1>1. ASSUME NEW w \in Workers, Advance(w)
      PROVE  payment' = payment
  <2>1. CASE \/ ReadOrder(w) \/ WriteOrder(w) \/ Expire(w) \/ Prepare(w)
             \/ Delay(w) \/ Grace(w)
    BY <2>1 DEF ReadOrder, WriteOrder, Expire, Prepare, Delay, Grace
  <2>2. CASE Submit(w) \/ Correct(w) \/ Decide(w) \/ Apply(w) \/ Retire(w) \/ Again(w)
    BY <2>2 DEF Submit, Correct, Decide, Apply, Retire, Again
  <2>3. CASE Cancel(w) \/ MarkRefund(w) \/ Return(w) \/ Ready(w) \/ Ship(w) \/ ShipOrder(w)
    BY <2>3 DEF Cancel, MarkRefund, Return, Ready, Ship, ShipOrder
  <2> QED  BY <1>1, <2>1, <2>2, <2>3 DEF Advance
<1>2. ASSUME NEW w \in Workers, Begins(w)
      PROVE  payment[p] = "none"
  <2>1. CASE \E q \in Parts : Pay(w, q)
    BY <2>1 DEF Pay, TypeOK
  <2> QED
    BY <1>2, <2>1
    DEF Begins, StartExpire, StartDelay, StartLate, StartPrepare, StartLatePart,
        StartSubmit, StartCorrect, StartOverdue, StartReady, Deliver, Complete,
        StartReview, StartShip
<1>3. ASSUME NEW w \in Workers, Crash(w)
      PROVE  payment' = payment
  BY <1>3 DEF Crash
<1>4. ASSUME NEW q \in Parts, Passes(q)
      PROVE  payment[p] = "none"
  <2>1. CASE Refund(q)
    BY <2>1 DEF Refund, TypeOK
  <2> QED  BY <1>4, <2>1 DEF Passes, DelayPart, GraceEnds, ClockEnds
<1> QED  BY <1>1, <1>2, <1>3, <1>4 DEF Next, vars

\* While nothing comes late no part leaves CANCELLED, none that has left turns
\* back, and none moves before it is paid for.
LEMMA MovesForward ==
    ASSUME TypeOK, Tidy, [Next]_vars, InTime', NEW p \in Parts, ful'[p] # ful[p]
    PROVE  /\ ful[p] # "CANCELLED"
           /\ ful[p] \in Gone => ful'[p] \in Gone
           /\ payment'[p] # "none"
<1>g. late' \cap {"part", "review"} = {}
  BY DEF InTime
<1>p. payment'[p] = "none" => payment[p] = "none" /\ ful[p] = "AWAITING_PAYMENT"
  BY PaymentsStay DEF Tidy, UnpaidUntouched
<1> USE DEF Late, Move, Gone
<1>1. ASSUME NEW w \in Workers, Advance(w)
      PROVE  /\ ful[p] # "CANCELLED"
             /\ ful[p] \in Gone => ful'[p] \in Gone
             /\ payment[p] # "none"
  <2>p. \A q \in req[w].parts : payment[q] # "none"
    BY DEF Tidy, RequestsPaid
  <2>1. CASE Prepare(w) \/ Submit(w) \/ Ready(w) \/ Ship(w)
    BY <2>1, <2>p, <1>g DEF Prepare, Submit, Ready, Ship
  <2>2. CASE Apply(w)
    BY <2>2, <2>p, <1>g DEF Apply
  <2>3. CASE Cancel(w)
    <3>1. p \in req[w].parts \cap Live
      BY <2>3 DEF Cancel
    <3>2. ful[p] \in ChosenAs(req[w].why)
      BY <2>3, <3>1, <1>g DEF Cancel
    <3>3. ful[p] \notin Gone
      BY <3>2 DEF ChosenAs, Correctable, Verified
    <3> QED  BY <3>1, <3>3, <2>p DEF Live
  <2> QED
    BY <1>1, <2>1, <2>2, <2>3
    DEF Advance, ReadOrder, WriteOrder, Expire, Delay, Grace, Correct, Decide, Retire,
        Again, MarkRefund, Return, ShipOrder
<1>2. ASSUME NEW w \in Workers, Begins(w)
      PROVE  /\ ful[p] # "CANCELLED"
             /\ ful[p] \in Gone => ful'[p] \in Gone
             /\ payment'[p] # "none"
  <2>1. CASE \E q \in Parts : Pay(w, q)
    BY <2>1 DEF Pay, TypeOK, Tidy, UnpaidUntouched
  <2>2. CASE \E q \in Parts : Deliver(w, q)
    BY <2>2, <1>g, <1>p DEF Deliver
  <2>3. CASE \E q \in Parts : Complete(w, q)
    BY <2>3, <1>p DEF Complete
  <2> QED
    BY <1>2, <2>1, <2>2, <2>3
    DEF Begins, StartExpire, StartDelay, StartLate, StartPrepare, StartLatePart,
        StartSubmit, StartCorrect, StartOverdue, StartReady, StartReview, StartShip
<1>3. ASSUME NEW w \in Workers, Crash(w)
      PROVE  FALSE
  BY <1>3 DEF Crash
<1>4. ASSUME NEW q \in Parts, Passes(q)
      PROVE  FALSE
  BY <1>4 DEF Passes, DelayPart, GraceEnds, Refund, ClockEnds
<1> QED  BY <1>p, <1>1, <1>2, <1>3, <1>4 DEF Next, vars

\* How a step may change what a request knows.
RequestStep(v, r) ==
    \/ r = req[v]
    \/ /\ r.parts \subseteq req[v].parts
       /\ r.next \in {req[v].next, "CANCELLED", Derived}
       /\ Owes(r) => Owes(req[v]) \/ (Cancel(v) /\ r.parts = req[v].parts \cap Live)
    \/ Begins(v) /\ r.next = "CANCELLED" /\ ~Owes(r)

LEMMA RequestSteps ==
    ASSUME TypeOK, Reasons, [Next]_vars, NEW v \in Workers
    PROVE  RequestStep(v, req'[v])
<1>j. ASSUME NEW at, NEW ps
      PROVE  Job(at, ps).next = "CANCELLED" /\ Job(at, ps).why = "none"
  BY DEF Job, Blank
<1>b. ASSUME NEW w \in Workers
      PROVE  RequestStep(w, Blank)
  BY DEF RequestStep, Blank, Owes
<1>r. ASSUME NEW w \in Workers, NEW why, NEW ps, ps \subseteq req[w].parts, why \notin Striking
      PROVE  RequestStep(w, [Blank EXCEPT !.at = "recompute", !.why = why, !.parts = ps])
  BY <1>r DEF RequestStep, Blank, Owes
<1>1. ASSUME NEW w \in Workers, Advance(w)
      PROVE  RequestStep(v, req'[v])
  <2>r. req[w] \in Requests /\ Reasoned(req[w])
    BY DEF TypeOK, Reasons
  <2>g. ASSUME NEW r, Go(w, r), RequestStep(w, r)
        PROVE  RequestStep(v, req'[v])
    BY <2>g, OthersStay DEF RequestStep
  <2>c. ASSUME NEW s \in {req[w].next, Derived}, req[w].at \in {"recompute", "write"}
        PROVE  RequestStep(w, Continue(w, s))
    <3> DEFINE r == [req[w] EXCEPT !.at = "after",
                                   !.next = IF req[w].why = "strike" THEN s ELSE "CANCELLED"]
    <3>1. r.parts = req[w].parts /\ r.next \in {s, "CANCELLED"} /\ r.why = req[w].why
      BY <2>r DEF Requests
    <3>2. RequestStep(w, r)
      BY <2>c, <3>1 DEF RequestStep, Owes
    <3> QED  BY <3>2, <1>b DEF Continue
  <2>1. CASE ReadOrder(w)
    <3>1. RequestStep(w, [req[w] EXCEPT !.at = "write", !.next = Derived])
      BY <2>1, <2>r DEF RequestStep, Owes, Requests, ReadOrder
    <3>2. CASE Derived = order
      BY <2>1, <2>c, <2>g, <3>2 DEF ReadOrder
    <3>3. CASE Derived # order
      BY <2>1, <2>g, <3>1, <3>3 DEF ReadOrder
    <3> QED  BY <3>2, <3>3
  <2>2. CASE WriteOrder(w)
    BY <2>2, <2>c, <2>g DEF WriteOrder
  <2>3. CASE Decide(w)
    <3> DEFINE r == [req[w] EXCEPT !.at = IF req[w].why = "strike" THEN "cancel" ELSE "apply",
                                   !.doc = 0]
    <3>1. RequestStep(w, r)
      BY <2>r DEF RequestStep, Owes, Requests
    <3>2. Go(w, r)
      BY <2>3 DEF Decide
    <3> HIDE DEF r
    <3> QED  BY <3>1, <3>2, <2>g
  <2>4. CASE Cancel(w)
    <3> DEFINE now == req[w].parts \cap Live
               why == IF now = {} /\ req[w].why # "strike" THEN "none" ELSE req[w].why
               r == [Blank EXCEPT !.at = "recompute", !.why = why, !.parts = now]
    <3>1. Go(w, r)
      BY <2>4 DEF Cancel, Recompute
    <3>2. r.parts = now /\ r.next = "CANCELLED"
      BY DEF Blank
    <3> HIDE DEF r
    <3>3. RequestStep(w, r)
      BY <2>4, <3>2 DEF RequestStep
    <3> QED  BY <3>1, <3>3, <2>g
  <2>5. CASE MarkRefund(w)
    <3> DEFINE r == IF req[w].why = "strike"
                    THEN [req[w] EXCEPT !.at = "return", !.parts = {}] ELSE Blank
    <3>1. RequestStep(w, [req[w] EXCEPT !.at = "return", !.parts = {}])
      BY <2>r DEF RequestStep, Owes, Requests
    <3>2. RequestStep(w, r) /\ Go(w, r)
      BY <2>5, <3>1, <1>b DEF MarkRefund
    <3> HIDE DEF r
    <3> QED  BY <3>2, <2>g
  <2>6. CASE Apply(w)
    <3>1. req[w].why \notin Striking
      BY <2>6, <2>r DEF Apply, Reasoned, Striking
    <3> QED  BY <2>6, <3>1, <1>r, <2>g DEF Apply, Recompute
  <2>7. CASE Recompute(w, "none", {}) \/ Recompute(w, "ship", {})
    BY <2>7, <1>r, <2>g DEF Recompute, Striking
  <2>8. CASE Go(w, Blank)
    BY <2>8, <1>b, <2>g
  <2>9. CASE req[w].at = "delay" /\ Go(w, [req[w] EXCEPT !.at = "grace"])
    <3>1. RequestStep(w, [req[w] EXCEPT !.at = "grace"])
      BY <2>9, <2>r DEF RequestStep, Owes, Requests
    <3> QED  BY <2>9, <3>1, <2>g
  <2> QED
    BY <1>1, <2>1, <2>2, <2>3, <2>4, <2>5, <2>6, <2>7, <2>8, <2>9
    DEF Advance, Expire, Prepare, Delay, Grace, Submit, Correct, Retire, Again, Return,
        Ready, Ship, ShipOrder
<1>2. ASSUME NEW w \in Workers, Begins(w)
      PROVE  RequestStep(v, req'[v])
  <2>g. ASSUME NEW r, Begin(w, r), r.next = "CANCELLED", ~Owes(r)
        PROVE  RequestStep(v, req'[v])
    BY <2>g, <1>2, OthersStay DEF RequestStep
  <2>1. CASE \E at, ps : Begin(w, Job(at, ps))
    BY <2>1, <2>g, <1>j DEF Owes, Striking
  <2>2. CASE \E why, ps : Begin(w, [Job("cancel", ps) EXCEPT !.why = why])
    <3>1. ASSUME NEW why, NEW ps
          PROVE  /\ [Job("cancel", ps) EXCEPT !.why = why].next = "CANCELLED"
                 /\ ~Owes([Job("cancel", ps) EXCEPT !.why = why])
      BY DEF Job, Blank, Owes
    <3> QED  BY <2>2, <3>1, <2>g
  <2>3. ASSUME NEW p \in Parts, NEW i \in DOMAIN docs[p], NEW approve \in BOOLEAN,
               StartReview(w, p, i, approve)
        PROVE  RequestStep(v, req'[v])
    <3> DEFINE r == [Job("decide", {p}) EXCEPT
                        !.doc = i,
                        !.why = IF approve THEN "approve"
                                ELSE IF Struck(p, i) THEN "strike" ELSE "reject"]
    <3>1. r.next = "CANCELLED" /\ ~Owes(r)
      BY DEF Job, Blank, Owes
    <3>2. Begin(w, r)
      BY <2>3 DEF StartReview
    <3> HIDE DEF r
    <3> QED  BY <3>1, <3>2, <2>g
  <2> QED
    BY <1>2, <2>1, <2>2, <2>3
    DEF Begins, StartExpire, StartDelay, StartLate, Pay, StartPrepare, StartLatePart,
        StartSubmit, StartCorrect, StartOverdue, StartReady, Deliver, Complete, StartShip
<1>3. ASSUME NEW w \in Workers, Crash(w)
      PROVE  RequestStep(v, req'[v])
  BY <1>3, <1>b, OthersStay DEF Crash, RequestStep
<1>4. CASE UNCHANGED req
  BY <1>4 DEF RequestStep
<1> QED
  BY <1>1, <1>2, <1>3, <1>4
  DEF Next, vars, Passes, DelayPart, GraceEnds, Refund, ClockEnds

LEMMA UntouchedStep ==
    ASSUME TypeOK, Tidy, [Next]_vars, InTime', NEW p \in Parts, payment'[p] = "none"
    PROVE  ful'[p] = "AWAITING_PAYMENT" /\ DOMAIN docs'[p] = {}
<1>1. payment[p] = "none" /\ ful[p] = "AWAITING_PAYMENT" /\ DOMAIN docs[p] = {}
  BY PaymentsStay DEF Tidy, UnpaidUntouched
<1>2. ful'[p] = "AWAITING_PAYMENT"
  BY <1>1, MovesForward
<1>3. ASSUME NEW w \in Workers, Advance(w)
      PROVE  DOMAIN docs'[p] = {}
  <2>1. p \notin req[w].parts
    BY <1>1 DEF Tidy, RequestsPaid
  <2>2. CASE Submit(w) \/ Correct(w) \/ Decide(w)
    <3>1. docs'[p] = docs[p]
      BY <2>1, <2>2 DEF Submit, Correct, Decide, TypeOK
    <3> QED  BY <1>1, <3>1
  <2>3. CASE Retire(w) \/ MarkRefund(w)
    BY <1>1, <2>1, <2>3 DEF Retire, MarkRefund
  <2> QED
    BY <1>1, <1>3, <2>2, <2>3
    DEF Advance, ReadOrder, WriteOrder, Expire, Prepare, Delay, Grace, Apply, Again,
        Cancel, Return, Ready, Ship, ShipOrder
<1>4. ASSUME NEW w \in Workers, Begins(w)
      PROVE  docs' = docs
  BY <1>4
  DEF Begins, StartExpire, StartDelay, StartLate, Pay, StartPrepare, StartLatePart,
      StartSubmit, StartCorrect, StartOverdue, StartReady, Deliver, Complete,
      StartReview, StartShip
<1>5. ASSUME NEW w \in Workers, Crash(w)
      PROVE  docs' = docs
  BY <1>5 DEF Crash
<1>6. ASSUME NEW q \in Parts, Passes(q)
      PROVE  DOMAIN docs'[p] = {}
  <2>1. ASSUME NEW i \in DOMAIN docs[q], ClockEnds(q, i)
        PROVE  docs'[p] = docs[p]
    BY <1>1, <2>1 DEF ClockEnds, TypeOK
  <2> QED  BY <1>1, <1>6, <2>1 DEF Passes, DelayPart, GraceEnds, Refund
<1> QED  BY <1>1, <1>2, <1>3, <1>4, <1>5, <1>6 DEF Next, vars

LEMMA EarlyStep ==
    ASSUME TypeOK, Reasons, Tidy, [Next]_vars, NEW p \in Parts, payment'[p] = "none"
    PROVE  order' \in Early /\ \A w \in Workers : req'[w].next \in Early
<1>1. /\ payment[p] = "none" /\ ful[p] = "AWAITING_PAYMENT"
      /\ order \in Early /\ \A w \in Workers : req[w].next \in Early
  BY PaymentsStay DEF Tidy, UnpaidUntouched, UnpaidEarly
<1>2. Derived \in Early
  BY <1>1, DerivedEarly
<1>3. \A w \in Workers : req'[w].next \in Early
  <2> SUFFICES ASSUME NEW w \in Workers
               PROVE  req'[w].next \in Early
    OBVIOUS
  <2>1. RequestStep(w, req'[w])
    BY RequestSteps
  <2> QED  BY <1>1, <1>2, <2>1 DEF RequestStep, Early
<1>4. ASSUME NEW w \in Workers, Advance(w)
      PROVE  order' \in Early
  <2>1. CASE WriteOrder(w) \/ Return(w) \/ Expire(w) \/ Delay(w) \/ ShipOrder(w)
    BY <1>1, <2>1 DEF WriteOrder, Return, Expire, Delay, ShipOrder, Early
  <2> QED
    BY <1>1, <1>4, <2>1
    DEF Advance, ReadOrder, Prepare, Grace, Submit, Correct, Decide, Apply, Retire,
        Again, Cancel, MarkRefund, Ready, Ship
<1>5. ASSUME NEW w \in Workers, Begins(w)
      PROVE  order' = order
  BY <1>5
  DEF Begins, StartExpire, StartDelay, StartLate, Pay, StartPrepare, StartLatePart,
      StartSubmit, StartCorrect, StartOverdue, StartReady, Deliver, Complete,
      StartReview, StartShip
<1>6. ASSUME \/ UNCHANGED vars
             \/ \E w \in Workers : Crash(w)
             \/ \E q \in Parts : Passes(q)
      PROVE  order' \in Early
  BY <1>1, <1>6 DEF vars, Crash, Passes, DelayPart, GraceEnds, Refund, ClockEnds
<1>7. order' \in Early
  BY <1>1, <1>4, <1>5, <1>6 DEF Next
<1> QED  BY <1>3, <1>7

LEMMA RequestsPaidStep ==
    ASSUME TypeOK, Reasons, Tidy, [Next]_vars, NEW v \in Workers, NEW p \in req'[v].parts,
           p \in Parts
    PROVE  payment'[p] # "none"
<1> SUFFICES ASSUME payment[p] = "none"
             PROVE  FALSE
  BY PaymentsStay
<1>1. /\ ful[p] = "AWAITING_PAYMENT" /\ DOMAIN docs[p] = {} /\ order \in Early
      /\ p \notin req[v].parts
  BY DEF Tidy, UnpaidUntouched, UnpaidEarly, RequestsPaid
<1>2. RequestStep(v, req'[v])
  BY RequestSteps
<1>3. Begins(v)
  BY <1>1, <1>2 DEF RequestStep
<1>j. ASSUME NEW at, NEW ps
      PROVE  Job(at, ps).parts = ps
  BY DEF Job, Blank
<1>c. ASSUME NEW why, NEW ps
      PROVE  [Job("cancel", ps) EXCEPT !.why = why].parts = ps
  BY DEF Job, Blank
<1>4. CASE StartExpire(v) \/ StartDelay(v) \/ StartLate(v)
  <2>1. StartExpire(v)
    BY <1>1, <1>4 DEF StartDelay, StartLate, Early
  <2> QED  BY <2>1, <1>j, OthersStay DEF StartExpire
<1>5. ASSUME NEW q \in Parts, Pay(v, q) \/ Deliver(v, q) \/ Complete(v, q)
      PROVE  FALSE
  <2>1. Begin(v, Job("recompute", {}))
    BY <1>5 DEF Pay, Deliver, Complete
  <2> QED  BY <2>1, <1>j, OthersStay
<1>6. ASSUME NEW q \in Parts,
             StartPrepare(v, q) \/ StartSubmit(v, q) \/ StartCorrect(v, q) \/ StartReady(v, q)
      PROVE  FALSE
  <2>1. PICK at : Begin(v, Job(at, {q}))
    BY <1>6 DEF StartPrepare, StartSubmit, StartCorrect, StartReady
  <2>2. p = q
    <3>1. Job(at, {q}).parts = {q}
      BY <1>j
    <3>2. req'[v] = Job(at, {q})
      BY <2>1, OthersStay
    <3> QED  BY <3>1, <3>2
  <2> QED
    BY <1>1, <1>6, <2>2
    DEF StartPrepare, StartSubmit, StartCorrect, StartReady, Paid, Answerable
<1>7. ASSUME NEW q \in Parts, StartLatePart(v, q) \/ StartOverdue(v, q)
      PROVE  FALSE
  <2>1. PICK why : Begin(v, [Job("cancel", {q}) EXCEPT !.why = why])
    BY <1>7 DEF StartLatePart, StartOverdue
  <2>2. p = q
    <3> DEFINE r == [Job("cancel", {q}) EXCEPT !.why = why]
    <3>1. r.parts = {q}
      BY <1>c
    <3> HIDE DEF r
    <3>2. req'[v] = r
      BY <2>1, OthersStay DEF r
    <3> QED  BY <3>1, <3>2
  <2> QED  BY <1>1, <1>7, <2>2 DEF StartLatePart, StartOverdue, Paid
<1>8. ASSUME NEW q \in Parts, NEW i \in DOMAIN docs[q], NEW approve \in BOOLEAN,
             StartReview(v, q, i, approve)
      PROVE  FALSE
  <2> DEFINE r == [Job("decide", {q}) EXCEPT
                      !.doc = i,
                      !.why = IF approve THEN "approve"
                              ELSE IF Struck(q, i) THEN "strike" ELSE "reject"]
  <2>1. r.parts = {q}
    BY DEF Job, Blank
  <2>2. Begin(v, r)
    BY <1>8 DEF StartReview
  <2> HIDE DEF r
  <2>3. p = q
    BY <2>1, <2>2, OthersStay
  <2> QED  BY <1>1, <2>3
<1>9. ASSUME NEW ps \in SUBSET Parts, StartShip(v, ps)
      PROVE  FALSE
  <2>1. p \in ps
    BY <1>9, <1>j, OthersStay DEF StartShip
  <2> QED  BY <1>9, <2>1 DEF StartShip, Shippable, Paid
<1> QED  BY <1>3, <1>4, <1>5, <1>6, <1>7, <1>8, <1>9 DEF Begins

LEMMA StruckStep ==
    ASSUME TypeOK, Reasons, Tidy, [Next]_vars, InTime', NEW v \in Workers,
           NEW p \in req'[v].parts, p \in Parts, Owes(req'[v])
    PROVE  ful'[p] = "CANCELLED"
<1>1. RequestStep(v, req'[v])
  BY RequestSteps
<1>2. CASE Owes(req[v]) /\ p \in req[v].parts
  <2>1. ful[p] = "CANCELLED"
    BY <1>2 DEF Tidy, StruckCancelled
  <2> QED  BY <2>1, MovesForward
<1>3. CASE Cancel(v) /\ req'[v].parts = req[v].parts \cap Live
  BY <1>3 DEF Cancel, Move
<1> QED  BY <1>1, <1>2, <1>3 DEF RequestStep

LEMMA CartStep ==
    ASSUME TypeOK, Tidy, [Next]_vars, InTime', NEW p \in Parts, cart'[p] # {}
    PROVE  ful'[p] \in Gone
<1>1. CASE cart'[p] = cart[p]
  BY <1>1, MovesForward DEF Tidy, CartGone
<1>2. ASSUME NEW w \in Workers, Ship(w), p \in req[w].parts
      PROVE  ful'[p] \in Gone
  BY <1>2 DEF Ship, Move, Gone
<1>3. ASSUME NEW w \in Workers, Ship(w), p \notin req[w].parts
      PROVE  cart'[p] = cart[p]
  BY <1>3 DEF Ship
<1>4. CASE UNCHANGED cart
  BY <1>1, <1>4
<1>5. ASSUME NEW w \in Workers, Advance(w), ~Ship(w)
      PROVE  UNCHANGED cart
  BY <1>5
  DEF Advance, goods, ReadOrder, WriteOrder, Expire, Prepare, Delay, Grace, Submit,
      Correct, Decide, Apply, Retire, Again, Cancel, MarkRefund, Return, Ready, ShipOrder
<1>6. ASSUME NEW w \in Workers, Begins(w)
      PROVE  UNCHANGED cart
  BY <1>6
  DEF Begins, goods, StartExpire, StartDelay, StartLate, Pay, StartPrepare, StartLatePart,
      StartSubmit, StartCorrect, StartOverdue, StartReady, Deliver, Complete,
      StartReview, StartShip
<1>7. CASE \/ UNCHANGED vars
           \/ \E w \in Workers : Crash(w)
           \/ \E q \in Parts : Passes(q)
  BY <1>4, <1>7 DEF vars, goods, Crash, Passes, DelayPart, GraceEnds, Refund, ClockEnds
<1> QED  BY <1>1, <1>2, <1>3, <1>4, <1>5, <1>6, <1>7 DEF Next

LEMMA RefundStep ==
    ASSUME TypeOK, Tidy, RefundCancelled, [Next]_vars, Clear', NEW p \in Parts,
           due'[p] \in {"part", "full"} \/ payment'[p] = "REFUNDED"
    PROVE  ful'[p] = "CANCELLED"
<1> SUFFICES ful[p] = "CANCELLED"
  BY MovesForward DEF Clear
<1>1. CASE due'[p] = due[p] /\ payment'[p] = payment[p]
  BY <1>1 DEF RefundCancelled
<1>2. ASSUME NEW w \in Workers, MarkRefund(w)
      PROVE  ful[p] = "CANCELLED"
  <2>1. CASE p \in req[w].parts
    BY <1>2, <2>1 DEF MarkRefund, Tidy, StruckCancelled, Owes, Striking
  <2>2. CASE p \notin req[w].parts
    BY <1>1, <1>2, <2>2 DEF MarkRefund
  <2> QED  BY <2>1, <2>2
<1>3. ASSUME NEW w \in Workers, Expire(w)
      PROVE  ful[p] = "CANCELLED"
  <2>1. CASE order \in Cancellable
    <3>1. order \in Unpaid
      BY <1>3, <2>1 DEF Expire, Late, Clear
    <3>2. due'[p] = OwedByOrder(p) /\ payment' = payment
      BY <1>3, <2>1 DEF Expire
    <3>3. due'[p] \in {due[p], "net"}
      BY <3>1, <3>2 DEF OwedByOrder, Unpaid
    <3> QED  BY <3>2, <3>3 DEF RefundCancelled
  <2>2. CASE order \notin Cancellable
    BY <1>1, <1>3, <2>2 DEF Expire
  <2> QED  BY <2>1, <2>2
<1>4. ASSUME NEW w \in Workers, NEW q \in Parts, Pay(w, q)
      PROVE  ful[p] = "CANCELLED"
  <2>1. due'[p] = due[p] /\ payment'[p] \in {payment[p], "SUCCESS"}
    BY <1>4 DEF Pay, TypeOK
  <2> QED  BY <2>1 DEF RefundCancelled
<1>5. ASSUME NEW q \in Parts, Refund(q)
      PROVE  ful[p] = "CANCELLED"
  <2>1. CASE q = p
    BY <1>5, <2>1 DEF Refund, TypeOK, RefundCancelled
  <2>2. CASE q # p
    BY <1>1, <1>5, <2>2 DEF Refund
  <2> QED  BY <2>1, <2>2
<1>6. CASE UNCHANGED money
  BY <1>1, <1>6 DEF money
<1>7. ASSUME NEW w \in Workers, Advance(w), ~MarkRefund(w), ~Expire(w)
      PROVE  UNCHANGED money
  BY <1>7
  DEF Advance, ReadOrder, WriteOrder, Prepare, Delay, Grace, Submit, Correct, Decide,
      Apply, Retire, Again, Cancel, Return, Ready, Ship, ShipOrder
<1>8. ASSUME NEW w \in Workers, Begins(w), \A q \in Parts : ~Pay(w, q)
      PROVE  UNCHANGED money
  BY <1>8
  DEF Begins, StartExpire, StartDelay, StartLate, StartPrepare, StartLatePart,
      StartSubmit, StartCorrect, StartOverdue, StartReady, Deliver, Complete, money,
      StartReview, StartShip
<1>9. CASE UNCHANGED vars \/ \E w \in Workers : Crash(w)
  BY <1>6, <1>9 DEF vars, money, Crash
<1>10. ASSUME NEW q \in Parts, Passes(q), ~Refund(q)
       PROVE  UNCHANGED money
  BY <1>10 DEF Passes, DelayPart, GraceEnds, ClockEnds
<1> QED  BY <1>2, <1>3, <1>4, <1>5, <1>6, <1>7, <1>8, <1>9, <1>10 DEF Next

LEMMA TidyStep == TypeOK /\ Reasons /\ (InTime => Tidy) /\ [Next]_vars => (InTime => Tidy)'
<1> SUFFICES ASSUME TypeOK, Reasons, InTime => Tidy, [Next]_vars, InTime'
             PROVE  Tidy'
  OBVIOUS
<1>t. Tidy
  BY LateGrows DEF InTime
<1>p. \A w \in Workers : req'[w].parts \subseteq Parts
  BY TypeStep DEF TypeOK, Requests
<1>1. UnpaidUntouched'
  BY <1>t, UntouchedStep DEF UnpaidUntouched
<1>2. UnpaidEarly'
  BY <1>t, EarlyStep DEF UnpaidEarly
<1>3. RequestsPaid'
  BY <1>t, <1>p, RequestsPaidStep DEF RequestsPaid
<1>4. StruckCancelled'
  BY <1>t, <1>p, StruckStep DEF StruckCancelled, Owes
<1>5. CartGone'
  BY <1>t, CartStep DEF CartGone
<1> QED  BY <1>1, <1>2, <1>3, <1>4, <1>5 DEF Tidy

LEMMA InitTidy == Init => Reasons /\ Tidy
<1>1. Init => Reasons
  BY DEF Init, Reasons, Reasoned, Blank
<1>2. Init => Tidy
  BY DEF Init, Tidy, UnpaidUntouched, UnpaidEarly, RequestsPaid, StruckCancelled,
         CartGone, Blank, Early, Owes
<1> QED  BY <1>1, <1>2

LEMMA RefundedStep ==
    TypeOK /\ (InTime => Tidy) /\ (Clear => RefundCancelled) /\ [Next]_vars
    => (Clear => RefundCancelled)'
<1> SUFFICES ASSUME TypeOK, InTime => Tidy, Clear => RefundCancelled, [Next]_vars, Clear'
             PROVE  RefundCancelled'
  OBVIOUS
<1>1. Tidy /\ RefundCancelled
  BY LateGrows DEF InTime, Clear
<1> QED  BY <1>1, RefundStep DEF RefundCancelled

\* A part that is refunded in full has not left the cart, as long as no handler
\* comes too late for the part or the order it moves (cancelOffersFulfillment,
\* requestShipping, applyVerificationDecision, transitionStatus).
THEOREM RefundedHasNotShipped == Spec => []RefundedNotShipped
<1>1. Init => TypeOK /\ Reasons /\ (InTime => Tidy) /\ (Clear => RefundCancelled)
  BY InitType, InitTidy DEF Init, RefundCancelled
<1>2. (InTime => Tidy) /\ (Clear => RefundCancelled) => RefundedNotShipped
  BY DEF InTime, Clear, Tidy, RefundCancelled, CartGone, Gone, RefundedNotShipped
<1> QED
  BY <1>1, <1>2, TypeStep, ReasonsStep, TidyStep, RefundedStep, PTL DEF Spec

-----------------------------------------------------------------------------
(***************************************************************************)
(* Parts and their documents                                               *)
(***************************************************************************)
Actionable(p) == \E i \in DOMAIN docs[p] : docs[p][i] \in Rejected \cup {"PENDING"}
Approved(p) == \E i \in DOMAIN docs[p] : docs[p][i] = "APPROVED"

\* A request that has approved a document and has the part still to move, and
\* one that has moved it and has the other documents still to close.
Approving(r, p) == r.at = "apply" /\ r.why = "approve" /\ p \in r.parts
Passed(r, p) == r.at \in {"recompute", "write", "after"} /\ r.why = "approve" /\ p \in r.parts

\* A request decides on one document that was handed in for one part.
Deciding ==
    \A w \in Workers :
        req[w].at = "decide" =>
            \E p \in Parts : req[w].parts = {p} /\ req[w].doc \in DOMAIN docs[p]

\* A part under verification has a document somebody can act on, or a request is
\* about to move it; what is approved stays approved until the part has passed.
ReviewKept(p) ==
    /\ ful[p] = "VERIFICATION" => Actionable(p) \/ \E w \in Workers : Approving(req[w], p)
    /\ ful[p] \in Verified => Approved(p)
    /\ \A w \in Workers : Approving(req[w], p) => Approved(p)
    /\ \A w \in Workers : Passed(req[w], p) => ful[p] \in Verified

Reviewed == late \cap {"review", "part", "crash"} = {}

\* How a step may change one document.
DocStep(p, i) ==
    \/ docs'[p][i] = docs[p][i]
    \/ {docs[p][i], docs'[p][i]} \subseteq Rejected
    \/ \E w \in Workers :
          /\ Decide(w)
          /\ p \in req[w].parts
          /\ i = req[w].doc
          /\ req[w].why = "approve" \/ docs'[p][i] \in Rejected
    \/ \E w \in Workers : Retire(w) /\ p \in req[w].parts /\ docs'[p][i] = "APPROVED"

\* No document is ever taken away, and only a decision or the closing of the
\* others after an approval changes what is made of one.
LEMMA DocSteps ==
    ASSUME TypeOK, [Next]_vars, NEW p \in Parts, NEW i \in DOMAIN docs[p]
    PROVE  i \in DOMAIN docs'[p] /\ DocStep(p, i)
<1> USE DEF DocStep
<1>t. docs \in [Parts -> Seq(DocStates)] /\ docs[p] \in Seq(DocStates)
  BY DEF TypeOK
<1>0. CASE docs'[p] = docs[p]
  BY <1>0
<1>a. ASSUME docs'[p] = Append(docs[p], "PENDING")
      PROVE  i \in DOMAIN docs'[p] /\ docs'[p][i] = docs[p][i]
  BY <1>a, <1>t
<1>1. ASSUME NEW w \in Workers, Submit(w)
      PROVE  i \in DOMAIN docs'[p] /\ DocStep(p, i)
  <2>1. PICK q \in req[w].parts : docs' = [docs EXCEPT ![q] = Append(@, "PENDING")]
    BY <1>1 DEF Submit
  <2>2. CASE p = q
    BY <1>t, <1>a, <2>1, <2>2
  <2>3. CASE p # q
    BY <1>t, <1>0, <2>1, <2>3
  <2> QED  BY <2>2, <2>3
<1>2. ASSUME NEW w \in Workers, Correct(w)
      PROVE  i \in DOMAIN docs'[p] /\ DocStep(p, i)
  <2>1. PICK q \in req[w].parts : docs' = [docs EXCEPT ![q] = Append(@, "PENDING")]
    BY <1>2 DEF Correct
  <2>2. CASE p = q
    BY <1>t, <1>a, <2>1, <2>2
  <2>3. CASE p # q
    BY <1>t, <1>0, <2>1, <2>3
  <2> QED  BY <2>2, <2>3
<1>3. ASSUME NEW w \in Workers, Decide(w)
      PROVE  i \in DOMAIN docs'[p] /\ DocStep(p, i)
  <2> DEFINE v == CASE req[w].why = "approve" -> "APPROVED"
                    [] req[w].why = "reject" -> "OPEN"
                    [] OTHER -> "REJECTED"
  <2>1. PICK q \in req[w].parts : docs' = [docs EXCEPT ![q][req[w].doc] = v]
    BY <1>3 DEF Decide
  <2>2. req[w].why = "approve" \/ v \in Rejected
    BY DEF Rejected
  <2> HIDE DEF v
  <2>3. CASE p = q
    <3>1. docs'[p] = [docs[p] EXCEPT ![req[w].doc] = v]
      BY <1>t, <2>1, <2>3
    <3>2. i \in DOMAIN docs'[p] /\ (i # req[w].doc => docs'[p][i] = docs[p][i])
      BY <3>1, <1>t
    <3>3. i = req[w].doc => docs'[p][i] = v
      BY <3>1, <1>t
    <3> QED  BY <1>3, <2>2, <2>3, <3>2, <3>3
  <2>4. CASE p # q
    BY <1>t, <1>0, <2>1, <2>4
  <2> QED  BY <2>3, <2>4
<1>4. ASSUME NEW w \in Workers, Retire(w)
      PROVE  i \in DOMAIN docs'[p] /\ DocStep(p, i)
  BY <1>4, <1>0 DEF Retire
<1>5. ASSUME NEW w \in Workers, MarkRefund(w)
      PROVE  i \in DOMAIN docs'[p] /\ DocStep(p, i)
  BY <1>5, <1>t DEF MarkRefund, Rejected
<1>6. ASSUME NEW w \in Workers, Advance(w),
             ~Submit(w), ~Correct(w), ~Decide(w), ~Retire(w), ~MarkRefund(w)
      PROVE  docs'[p] = docs[p]
  BY <1>6
  DEF Advance, ReadOrder, WriteOrder, Expire, Prepare, Delay, Grace, Apply, Again, Cancel,
      Return, Ready, Ship, ShipOrder
<1>7. ASSUME NEW w \in Workers, Begins(w) \/ Crash(w)
      PROVE  docs'[p] = docs[p]
  BY <1>7
  DEF Begins, StartExpire, StartDelay, StartLate, Pay, StartPrepare, StartLatePart,
      StartSubmit, StartCorrect, StartOverdue, StartReady, Deliver, Complete,
      StartReview, StartShip, Crash
<1>8. ASSUME NEW q \in Parts, Passes(q)
      PROVE  i \in DOMAIN docs'[p] /\ DocStep(p, i)
  <2>1. ASSUME NEW j \in DOMAIN docs[q], ClockEnds(q, j)
        PROVE  i \in DOMAIN docs'[p] /\ DocStep(p, i)
    BY <2>1, <1>t DEF ClockEnds, Rejected
  <2> QED  BY <1>0, <1>8, <2>1 DEF Passes, DelayPart, GraceEnds, Refund
<1> QED
  BY <1>0, <1>1, <1>2, <1>3, <1>4, <1>5, <1>6, <1>7, <1>8 DEF Next, vars

\* While no document is decided on twice an approved one stays approved.
LEMMA ApprovedStays ==
    ASSUME TypeOK, [Next]_vars, "review" \notin late', Deciding,
           NEW p \in Parts, Approved(p)
    PROVE  Approved(p)'
<1>1. PICK i \in DOMAIN docs[p] : docs[p][i] = "APPROVED"
  BY DEF Approved
<1>2. i \in DOMAIN docs'[p] /\ DocStep(p, i)
  BY DocSteps
<1>3. ASSUME NEW w \in Workers, Decide(w), p \in req[w].parts, i = req[w].doc
      PROVE  FALSE
  <2>1. req[w].parts = {p}
    BY <1>3 DEF Decide, Deciding
  <2>2. docs[p][req[w].doc] = "PENDING"
    BY <1>3, <2>1 DEF Decide, Late
  <2> QED  BY <1>1, <1>3, <2>2
<1>4. docs'[p][i] = "APPROVED"
  BY <1>1, <1>2, <1>3 DEF DocStep, Rejected
<1> QED  BY <1>2, <1>4 DEF Approved

\* Between verification and its success a part moves only by a request that hands
\* in a document or applies an approval, as long as none comes too late.
LEMMA ReviewedMoves ==
    ASSUME TypeOK, Tidy, [Next]_vars, InTime', NEW p \in Parts
    PROVE  /\ ful[p] \in Verified => ful'[p] \in Verified
           /\ ful[p] \notin Verified /\ ful'[p] \in Verified =>
                 \E w \in Workers : Apply(w) /\ req[w].why = "approve" /\ p \in req[w].parts
           /\ ful[p] # "VERIFICATION" /\ ful'[p] = "VERIFICATION" =>
                 \E w \in Workers : Submit(w) /\ docs'[p] = Append(docs[p], "PENDING")
<1>g. late' \cap {"part", "review"} = {}
  BY DEF InTime
<1> USE DEF Late, Move, Verified, Gone
<1>0. CASE ful'[p] = ful[p]
  BY <1>0
<1>1. ASSUME NEW w \in Workers, Prepare(w)
      PROVE  (ful[p] \notin Verified /\ ful'[p] = "PREPARED") \/ ful'[p] = ful[p]
  BY <1>1 DEF Prepare
<1>2. ASSUME NEW w \in Workers, Submit(w)
      PROVE  \/ /\ ful[p] = "PREPARED"
                /\ ful'[p] = "VERIFICATION"
                /\ docs'[p] = Append(docs[p], "PENDING")
             \/ ful'[p] = ful[p]
  BY <1>2, <1>g DEF Submit, TypeOK
<1>3. ASSUME NEW w \in Workers, Apply(w)
      PROVE  \/ /\ p \in req[w].parts
                /\ ful[p] = "VERIFICATION"
                /\ ful'[p] = IF req[w].why = "approve" THEN "VERIFICATION_SUCCESS"
                             ELSE "VERIFICATION"
             \/ ful'[p] = ful[p]
  BY <1>3, <1>g DEF Apply
<1>4. ASSUME NEW w \in Workers, Cancel(w)
      PROVE  (ful[p] \notin Verified /\ ful'[p] = "CANCELLED") \/ ful'[p] = ful[p]
  <2>1. CASE p \in req[w].parts \cap Live
    <3>1. ful[p] \in ChosenAs(req[w].why)
      BY <1>4, <2>1, <1>g DEF Cancel
    <3> QED  BY <1>4, <2>1, <3>1 DEF Cancel, ChosenAs, Correctable
  <2>2. CASE p \notin req[w].parts \cap Live
    BY <1>4, <2>2 DEF Cancel
  <2> QED  BY <2>1, <2>2
<1>5. ASSUME NEW w \in Workers, Ready(w) \/ Ship(w)
      PROVE  (ful[p] \in Verified /\ ful'[p] \in Verified) \/ ful'[p] = ful[p]
  BY <1>5, <1>g DEF Ready, Ship
<1>6. ASSUME NEW w \in Workers, Advance(w),
             ~Prepare(w), ~Submit(w), ~Apply(w), ~Cancel(w), ~Ready(w), ~Ship(w)
      PROVE  ful' = ful
  BY <1>6
  DEF Advance, ReadOrder, WriteOrder, Expire, Delay, Grace, Correct, Decide, Retire,
      Again, MarkRefund, Return, ShipOrder
<1>7. ASSUME NEW w \in Workers, NEW q \in Parts, Pay(w, q)
      PROVE  (ful[p] \notin Verified /\ ful'[p] = "IN_PREPARATION") \/ ful'[p] = ful[p]
  BY <1>7 DEF Pay, TypeOK, Tidy, UnpaidUntouched
<1>8. ASSUME NEW w \in Workers, NEW q \in Parts, Deliver(w, q) \/ Complete(w, q)
      PROVE  (ful[p] \in Verified /\ ful'[p] \in Verified) \/ ful'[p] = ful[p]
  BY <1>8, <1>g DEF Deliver, Complete
<1>9. ASSUME NEW w \in Workers, Begins(w),
             \A q \in Parts : ~Pay(w, q) /\ ~Deliver(w, q) /\ ~Complete(w, q)
      PROVE  ful' = ful
  BY <1>9
  DEF Begins, StartExpire, StartDelay, StartLate, StartPrepare, StartLatePart,
      StartSubmit, StartCorrect, StartOverdue, StartReady, StartReview, StartShip
<1>10. ASSUME NEW w \in Workers, Crash(w)
       PROVE  ful' = ful
  BY <1>10 DEF Crash
<1>11. ASSUME NEW q \in Parts, Passes(q)
       PROVE  ful' = ful
  BY <1>11 DEF Passes, DelayPart, GraceEnds, Refund, ClockEnds
<1> HIDE DEF Late, Move
<1>12. CASE \E w \in Workers : Submit(w)
  BY <1>0, <1>2, <1>12
<1>13. CASE \E w \in Workers : Apply(w)
  BY <1>0, <1>3, <1>13
<1>14. CASE \/ \E w \in Workers : Prepare(w) \/ Cancel(w) \/ Ready(w) \/ Ship(w)
            \/ \E w \in Workers : \E q \in Parts : Pay(w, q) \/ Deliver(w, q) \/ Complete(w, q)
  BY <1>0, <1>1, <1>4, <1>5, <1>7, <1>8, <1>14
<1> QED
  BY <1>0, <1>6, <1>9, <1>10, <1>11, <1>12, <1>13, <1>14 DEF Next, vars

\* How a step may change what a request has to do with a review.
ReviewStep(v, r) ==
    /\ \A p \in Parts :
          /\ Approving(r, p) =>
                \/ Approving(req[v], p)
                \/ Decide(v) /\ req[v].why = "approve" /\ p \in req[v].parts
          /\ Passed(r, p) =>
                \/ Passed(req[v], p)
                \/ Apply(v) /\ req[v].why = "approve" /\ p \in req[v].parts
    /\ r.at = "decide" =>
          \/ r = req[v]
          \/ \E p \in Parts : r.parts = {p} /\ r.doc \in DOMAIN docs[p]

LEMMA ReviewSteps ==
    ASSUME TypeOK, Reasons, [Next]_vars, NEW v \in Workers
    PROVE  /\ ReviewStep(v, req'[v])
           /\ req[v].at = "apply" => req'[v] = req[v] \/ Apply(v) \/ Crash(v)
<1> DEFINE Fine(w, r) == /\ ReviewStep(w, r)
                         /\ req[w].at = "apply" => Apply(w) \/ Crash(w)
           Goal == /\ ReviewStep(v, req'[v])
                   /\ req[v].at = "apply" => req'[v] = req[v] \/ Apply(v) \/ Crash(v)
<1>g. ASSUME NEW w \in Workers, NEW r, Go(w, r) \/ Begin(w, r), Fine(w, r)
      PROVE  Goal
  BY <1>g, OthersStay DEF ReviewStep
<1>s. ASSUME NEW w \in Workers, Begins(w)
      PROVE  req[w].at = "idle"
  BY <1>s
  DEF Begins, Begin, StartExpire, StartDelay, StartLate, Pay, StartPrepare, StartLatePart,
      StartSubmit, StartCorrect, StartOverdue, StartReady, Deliver, Complete,
      StartReview, StartShip
<1>b. ASSUME NEW w \in Workers
      PROVE  ReviewStep(w, Blank)
  BY DEF ReviewStep, Blank, Approving, Passed
<1>r. ASSUME NEW w \in Workers, NEW why, NEW ps, why # "approve"
      PROVE  ReviewStep(w, [Blank EXCEPT !.at = "recompute", !.why = why, !.parts = ps])
  BY <1>r DEF ReviewStep, Blank, Approving, Passed
<1>1. ASSUME NEW w \in Workers, Advance(w)
      PROVE  Goal
  <2>r. req[w] \in Requests /\ Reasoned(req[w])
    BY DEF TypeOK, Reasons
  <2>c. ASSUME NEW s, req[w].at \in {"recompute", "write"}
        PROVE  ReviewStep(w, Continue(w, s))
    <3> DEFINE r == [req[w] EXCEPT !.at = "after",
                                   !.next = IF req[w].why = "strike" THEN s ELSE "CANCELLED"]
    <3>1. r.parts = req[w].parts /\ r.at = "after" /\ r.why = req[w].why
      BY <2>r DEF Requests
    <3>2. ReviewStep(w, r)
      BY <2>c, <3>1 DEF ReviewStep, Approving, Passed
    <3> QED  BY <3>2, <1>b DEF Continue
  <2>1. CASE ReadOrder(w)
    <3>0. req[w].at = "recompute"
      BY <2>1 DEF ReadOrder
    <3>1. ReviewStep(w, [req[w] EXCEPT !.at = "write", !.next = Derived])
      BY <3>0, <2>r DEF ReviewStep, Requests, Approving, Passed
    <3>2. CASE Derived = order
      <4>1. Go(w, Continue(w, order))
        BY <2>1, <3>2 DEF ReadOrder
      <4> QED  BY <3>0, <4>1, <2>c, <1>g
    <3>3. CASE Derived # order
      <4>1. Go(w, [req[w] EXCEPT !.at = "write", !.next = Derived])
        BY <2>1, <3>3 DEF ReadOrder
      <4> QED  BY <3>0, <3>1, <4>1, <1>g
    <3> QED  BY <3>2, <3>3
  <2>2. CASE WriteOrder(w)
    <3>1. req[w].at = "write" /\ Go(w, Continue(w, req[w].next))
      BY <2>2 DEF WriteOrder
    <3> QED  BY <3>1, <2>c, <1>g
  <2>3. CASE Decide(w)
    <3> DEFINE r == [req[w] EXCEPT !.at = IF req[w].why = "strike" THEN "cancel" ELSE "apply",
                                   !.doc = 0]
    <3>1. req[w].at = "decide"
      BY <2>3 DEF Decide
    <3>2. ReviewStep(w, r)
      BY <2>3, <2>r DEF ReviewStep, Requests, Approving, Passed
    <3>3. Go(w, r)
      BY <2>3 DEF Decide
    <3> HIDE DEF r
    <3> QED  BY <3>1, <3>2, <3>3, <1>g
  <2>4. CASE Cancel(w)
    <3> DEFINE why == IF req[w].parts \cap Live = {} /\ req[w].why # "strike" THEN "none"
                      ELSE req[w].why
    <3>1. req[w].at = "cancel" /\ Recompute(w, why, req[w].parts \cap Live)
      BY <2>4 DEF Cancel
    <3>2. why # "approve"
      BY <2>r, <3>1 DEF Reasoned, Striking
    <3> DEFINE r == [Blank EXCEPT !.at = "recompute", !.why = why,
                                  !.parts = req[w].parts \cap Live]
    <3> HIDE DEF why
    <3>3. ReviewStep(w, r)  BY <3>2, <1>r
    <3>4. Go(w, r)  BY <3>1 DEF Recompute
    <3> HIDE DEF r
    <3> QED  BY <3>1, <3>3, <3>4, <1>g
  <2>5. CASE MarkRefund(w)
    <3> DEFINE r == IF req[w].why = "strike"
                    THEN [req[w] EXCEPT !.at = "return", !.parts = {}] ELSE Blank
    <3>1. req[w].at = "after"
      BY <2>5 DEF MarkRefund
    <3>2. ReviewStep(w, [req[w] EXCEPT !.at = "return", !.parts = {}])
      BY <2>r DEF ReviewStep, Requests, Approving, Passed
    <3>3. ReviewStep(w, r) /\ Go(w, r)
      BY <2>5, <3>2, <1>b DEF MarkRefund
    <3> HIDE DEF r
    <3> QED  BY <3>1, <3>3, <1>g
  <2>6. CASE Apply(w)
    <3> DEFINE r == [Blank EXCEPT !.at = "recompute", !.why = req[w].why,
                                  !.parts = req[w].parts]
    <3>1. r.at = "recompute" /\ r.why = req[w].why /\ r.parts = req[w].parts
      BY DEF Blank
    <3>2. Go(w, r)
      BY <2>6 DEF Apply, Recompute
    <3> HIDE DEF r
    <3>3. ReviewStep(w, r)
      BY <2>6, <3>1 DEF ReviewStep, Approving, Passed
    <3> QED  BY <2>6, <3>2, <3>3, <1>g
  <2>7. CASE \/ Prepare(w) \/ Submit(w) \/ Again(w) \/ Ready(w) \/ Ship(w)
             \/ Expire(w) \/ Delay(w) \/ Grace(w) \/ Correct(w) \/ Retire(w)
             \/ Return(w) \/ ShipOrder(w)
    <3>1. req[w].at # "apply"
      BY <2>7 DEF Prepare, Submit, Again, Ready, Ship, Expire, Delay, Grace, Correct,
                  Retire, Return, ShipOrder
    <3>2. CASE Go(w, Blank)
      BY <3>1, <3>2, <1>b, <1>g
    <3>3. CASE Recompute(w, "none", {}) \/ Recompute(w, "ship", {})
      BY <3>1, <3>3, <1>r, <1>g DEF Recompute
    <3>4. CASE req[w].at = "delay" /\ Go(w, [req[w] EXCEPT !.at = "grace"])
      <4>1. ReviewStep(w, [req[w] EXCEPT !.at = "grace"])
        BY <3>4, <2>r DEF ReviewStep, Requests, Approving, Passed
      <4> QED  BY <3>1, <3>4, <4>1, <1>g
    <3> QED
      BY <2>7, <3>2, <3>3, <3>4
      DEF Prepare, Submit, Again, Ready, Ship, Expire, Delay, Grace, Correct, Retire,
          Return, ShipOrder
  <2> QED  BY <1>1, <2>1, <2>2, <2>3, <2>4, <2>5, <2>6, <2>7 DEF Advance
<1>2. ASSUME NEW w \in Workers, Begins(w)
      PROVE  Goal
  <2>g. ASSUME NEW r, Begin(w, r), ReviewStep(w, r)
        PROVE  Goal
    BY <2>g, <1>2, <1>s, <1>g
  <2>1. CASE \E at \in {"prepare", "submit", "correct", "ready", "ship", "delay", "expire",
                        "recompute"} : \E ps : Begin(w, Job(at, ps))
    <3>1. ASSUME NEW at \in {"prepare", "submit", "correct", "ready", "ship", "delay",
                             "expire", "recompute"}, NEW ps
          PROVE  ReviewStep(w, Job(at, ps))
      BY DEF ReviewStep, Job, Blank, Approving, Passed
    <3> QED  BY <2>1, <2>g, <3>1
  <2>2. CASE \E why, ps : Begin(w, [Job("cancel", ps) EXCEPT !.why = why])
    <3>1. ASSUME NEW why, NEW ps
          PROVE  ReviewStep(w, [Job("cancel", ps) EXCEPT !.why = why])
      BY DEF ReviewStep, Job, Blank, Approving, Passed
    <3> QED  BY <2>2, <2>g, <3>1
  <2>3. ASSUME NEW p \in Parts, NEW i \in DOMAIN docs[p], NEW approve \in BOOLEAN,
               StartReview(w, p, i, approve)
        PROVE  Goal
    <3> DEFINE r == [Job("decide", {p}) EXCEPT
                        !.doc = i,
                        !.why = IF approve THEN "approve"
                                ELSE IF Struck(p, i) THEN "strike" ELSE "reject"]
    <3>1. r.at = "decide" /\ r.parts = {p} /\ r.doc = i
      BY DEF Job, Blank
    <3>2. Begin(w, r)
      BY <2>3 DEF StartReview
    <3> HIDE DEF r
    <3>3. ReviewStep(w, r)
      BY <3>1 DEF ReviewStep, Approving, Passed
    <3> QED  BY <3>2, <3>3, <2>g
  <2> QED
    BY <1>2, <2>1, <2>2, <2>3
    DEF Begins, StartExpire, StartDelay, StartLate, Pay, StartPrepare, StartLatePart,
        StartSubmit, StartCorrect, StartOverdue, StartReady, Deliver, Complete, StartShip
<1>3. ASSUME NEW w \in Workers, Crash(w)
      PROVE  Goal
  <2>1. Go(w, Blank) /\ ReviewStep(w, Blank)  BY <1>3, <1>b DEF Crash
  <2>2. Fine(w, Blank)  BY <1>3, <2>1
  <2> HIDE DEF Goal, Fine
  <2> QED  BY <1>g, <2>1, <2>2
<1>4. CASE UNCHANGED req
  BY <1>4 DEF ReviewStep
<1> QED
  BY <1>1, <1>2, <1>3, <1>4
  DEF Next, vars, Passes, DelayPart, GraceEnds, Refund, ClockEnds

LEMMA DecidingStep == TypeOK /\ Reasons /\ Deciding /\ [Next]_vars => Deciding'
<1> SUFFICES ASSUME TypeOK, Reasons, Deciding, [Next]_vars,
                    NEW v \in Workers, req'[v].at = "decide"
             PROVE  \E p \in Parts : req'[v].parts = {p} /\ req'[v].doc \in DOMAIN docs'[p]
  BY DEF Deciding
<1>1. PICK p \in Parts : req'[v].parts = {p} /\ req'[v].doc \in DOMAIN docs[p]
  BY ReviewSteps DEF ReviewStep, Deciding
<1>2. req'[v].doc \in DOMAIN docs'[p]
  BY <1>1, DocSteps
<1> QED  BY <1>1, <1>2

\* A part that has just been approved is written with an approved document.
LEMMA ApprovalIsWritten ==
    ASSUME TypeOK, Deciding, NEW w \in Workers, NEW p \in Parts,
           Decide(w), req[w].why = "approve", p \in req[w].parts
    PROVE  Approved(p)'
<1>1. req[w].parts = {p} /\ req[w].doc \in DOMAIN docs[p]
  BY DEF Decide, Deciding
<1>2. docs' = [docs EXCEPT ![p][req[w].doc] = "APPROVED"]
  BY <1>1 DEF Decide
<1>3. docs[p] \in Seq(DocStates)
  BY DEF TypeOK
<1>4. docs'[p] = [docs[p] EXCEPT ![req[w].doc] = "APPROVED"]
  BY <1>2 DEF TypeOK
<1>5. req[w].doc \in DOMAIN docs'[p] /\ docs'[p][req[w].doc] = "APPROVED"
  BY <1>1, <1>3, <1>4
<1> QED  BY <1>5 DEF Approved

LEMMA ReviewKeptStep ==
    ASSUME TypeOK, Reasons, Tidy, Deciding, [Next]_vars, Reviewed',
           NEW p \in Parts, ReviewKept(p)
    PROVE  ReviewKept(p)'
<1>g. InTime' /\ "review" \notin late' /\ "crash" \notin late'
  BY DEF Reviewed, InTime
<1>m. /\ ful[p] \in Verified => ful'[p] \in Verified
      /\ ful[p] \notin Verified /\ ful'[p] \in Verified =>
            \E w \in Workers : Apply(w) /\ req[w].why = "approve" /\ p \in req[w].parts
      /\ ful[p] # "VERIFICATION" /\ ful'[p] = "VERIFICATION" =>
            \E w \in Workers : Submit(w) /\ docs'[p] = Append(docs[p], "PENDING")
  BY <1>g, ReviewedMoves
<1>a. Approved(p) => Approved(p)'
  BY <1>g, ApprovedStays
<1>p. ASSUME NEW w \in Workers, Apply(w), req[w].why = "approve", p \in req[w].parts
      PROVE  Approving(req[w], p) /\ ful'[p] = "VERIFICATION_SUCCESS"
  BY <1>p DEF Apply, Move, Approving
<1>1. ASSUME ful'[p] = "VERIFICATION"
      PROVE  Actionable(p)' \/ \E w \in Workers : Approving(req'[w], p)
  <2>1. CASE ful[p] # "VERIFICATION"
    <3>1. docs'[p] = Append(docs[p], "PENDING") /\ docs[p] \in Seq(DocStates)
      BY <1>1, <1>m, <2>1 DEF TypeOK
    <3>2. Len(docs[p]) + 1 \in DOMAIN docs'[p] /\ docs'[p][Len(docs[p]) + 1] = "PENDING"
      BY <3>1
    <3> QED  BY <3>2 DEF Actionable
  <2>2. ASSUME NEW w \in Workers, Approving(req[w], p)
        PROVE  Approving(req'[w], p)
    <3>1. ~Crash(w)
      BY <1>g DEF Crash, Late
    <3>2. ~Apply(w)
      BY <1>1, <1>p, <2>2 DEF Approving
    <3> QED  BY <2>2, <3>1, <3>2, ReviewSteps DEF Approving
  <2>3. ASSUME ful[p] = "VERIFICATION", Actionable(p)
        PROVE  Actionable(p)' \/ \E w \in Workers : Approving(req'[w], p)
    <3>1. PICK i \in DOMAIN docs[p] : docs[p][i] \in Rejected \cup {"PENDING"}
      BY <2>3 DEF Actionable
    <3>2. i \in DOMAIN docs'[p] /\ DocStep(p, i)
      BY DocSteps
    <3>3. CASE docs'[p][i] \in Rejected \cup {"PENDING"}
      BY <3>2, <3>3 DEF Actionable
    <3>4. ASSUME NEW w \in Workers, Decide(w), p \in req[w].parts, req[w].why = "approve"
          PROVE  Approving(req'[w], p)
      <4> DEFINE r == [req[w] EXCEPT !.at = "apply", !.doc = 0]
      <4>1. Go(w, r)
        BY <3>4 DEF Decide
      <4>2. req[w] \in Requests
        BY DEF TypeOK
      <4>3. Approving(r, p)
        BY <3>4, <4>2 DEF Approving, Requests
      <4> HIDE DEF r
      <4> QED  BY <4>1, <4>3, OthersStay
    <3>5. ASSUME NEW w \in Workers, Retire(w), p \in req[w].parts
          PROVE  FALSE
      <4>1. Passed(req[w], p)
        BY <3>5 DEF Retire, Passed
      <4> QED  BY <2>3, <4>1 DEF ReviewKept, Verified, Gone
    <3> QED  BY <3>1, <3>2, <3>3, <3>4, <3>5 DEF DocStep
  <2> QED  BY <2>1, <2>2, <2>3 DEF ReviewKept
<1>2. ASSUME ful'[p] \in Verified
      PROVE  Approved(p)'
  <2>1. CASE ful[p] \in Verified
    BY <1>a, <2>1 DEF ReviewKept
  <2>2. CASE ful[p] \notin Verified
    <3>1. \E w \in Workers : Approving(req[w], p)
      BY <1>2, <1>m, <1>p, <2>2
    <3> QED  BY <1>a, <3>1 DEF ReviewKept
  <2> QED  BY <2>1, <2>2
<1>3. ASSUME NEW w \in Workers, Approving(req'[w], p)
      PROVE  Approved(p)'
  <2>1. CASE Approving(req[w], p)
    BY <1>a, <2>1 DEF ReviewKept
  <2>2. CASE Decide(w) /\ req[w].why = "approve" /\ p \in req[w].parts
    BY <2>2, ApprovalIsWritten
  <2> QED  BY <1>3, <2>1, <2>2, ReviewSteps DEF ReviewStep
<1>4. ASSUME NEW w \in Workers, Passed(req'[w], p)
      PROVE  ful'[p] \in Verified
  <2>1. CASE Passed(req[w], p)
    BY <1>m, <2>1 DEF ReviewKept
  <2>2. CASE Apply(w) /\ req[w].why = "approve" /\ p \in req[w].parts
    BY <1>p, <2>2 DEF Verified
  <2> QED  BY <1>4, <2>1, <2>2, ReviewSteps DEF ReviewStep
<1> QED  BY <1>1, <1>2, <1>3, <1>4 DEF ReviewKept, Approving, Passed

\* When nothing is under way a part under verification has a document that
\* somebody can still act on, and a verified part has an approved one, however
\* documents, decisions, their clocks and cancellations interleave, as long as
\* no request is cut off and none decides on or moves a part too late
\* (submitVerification, applyVerificationDecision, enforceExpiredSla).
THEOREM PartsFollowReviews == Spec => []PartFollowsReview
<1> DEFINE Kept == Reviewed => \A p \in Parts : ReviewKept(p)
           Inv == TypeOK /\ Reasons /\ (InTime => Tidy) /\ Deciding /\ Kept
<1>1. Init => Inv
  <2>1. Init => Deciding /\ Kept
    BY DEF Init, Deciding, ReviewKept, Approving, Passed, Blank, Verified, Gone
  <2> QED  BY <2>1, InitType, InitTidy
<1>2. Inv /\ [Next]_vars => Inv'
  <2> SUFFICES ASSUME Inv, [Next]_vars
               PROVE  Inv'
    OBVIOUS
  <2>1. TypeOK' /\ Reasons' /\ (InTime => Tidy)' /\ Deciding'
    BY TypeStep, ReasonsStep, TidyStep, DecidingStep
  <2>2. ASSUME Reviewed', NEW p \in Parts
        PROVE  ReviewKept(p)'
    <3>1. Reviewed /\ InTime
      BY <2>2, LateGrows DEF Reviewed, InTime
    <3> QED  BY <2>2, <3>1, ReviewKeptStep
  <2> QED  BY <2>1, <2>2
<1>3. Inv => PartFollowsReview
  BY DEF PartFollowsReview, Quiet, Reviewed, ReviewKept, Actionable, Approved, Approving
<1> QED  BY <1>1, <1>2, <1>3, PTL DEF Spec

-----------------------------------------------------------------------------
(***************************************************************************)
(* The status of the order and its parts                                   *)
(***************************************************************************)

\* Nothing is asked back for a part before it is paid, and a part whose payment
\* has been captured no longer awaits it.
PaidMoved ==
    \A p \in Parts : /\ ful[p] = "AWAITING_PAYMENT" => payment[p] = "none"
                     /\ payment[p] = "none" => due[p] = "no"

\* A request that ships has parts to ship, and has shipped one when it comes to
\* the order.
ShipsParts ==
    \A w \in Workers : /\ req[w].at = "ship" => req[w].parts # {}
                       /\ req[w].why = "ship" => \E p \in Parts : cart[p] # {}

\* While a part is still wanted the whole of its payment is asked back only
\* together with the rest of a cancelled order.
WantedRefund ==
    \A p \in Parts : due[p] \in {"part", "full"} /\ p \in Live => order = "CANCELLED"

\* The status is true of the parts, or a request is on its way to derive it.
Told ==
    \/ \E w \in Workers : req[w].at \in {"recompute", "write"}
    \/ Says(order, Live)

Punctual == late \cap {"order", "crash", "part", "review"} = {}

\* The status that is derived is true of the parts it is derived from.
LEMMA DerivedSays ==
    ASSUME TypeOK, PaidMoved, CartGone
    PROVE  Says(Derived, Live)
<1> DEFINE active == Live \cap Paid
           shipped == {p \in active : cart[p] # {} \/ ful[p] \in Gone}
           within(rank) == \E p \in active : FULFILLMENT_RANK[ful[p]] <= rank
           aggregate == aggregateOrderStatusFromOffers
<1>p. \A p \in active : ful[p] \in FulStatuses \ {"CANCELLED", "AWAITING_PAYMENT"}
  BY DEF TypeOK, PaidMoved, Live, Paid
<1>s. shipped = {p \in active : ful[p] \in Gone}
  BY DEF CartGone, Paid
<1>1. Says(aggregate, Live)
  <2>1. CASE active = {}
    <3>1. aggregate = IF Paid # {} THEN "CANCELLED" ELSE "AWAITING_PAYMENT"
      BY <2>1 DEF aggregateOrderStatusFromOffers
    <3> QED  BY <2>1, <3>1 DEF Says
  <2>2. CASE active # {} /\ active # Live
    <3>1. aggregate = "PARTIALLY_PAID"
      BY <2>2 DEF aggregateOrderStatusFromOffers
    <3>2. Live \cap Paid # {} /\ ~(Live \subseteq Paid)
      BY <2>2
    <3> QED  BY <3>1, <3>2 DEF Says
  <2>3. CASE active # {} /\ active = Live /\ shipped = active
    <3>1. aggregate = aggregateMultiItemDeliveryStatus(active)
      BY <2>3 DEF aggregateOrderStatusFromOffers
    <3>2. \A p \in active : ful[p] \in Gone
      BY <1>s, <2>3
    <3>3. CASE \A p \in active : ful[p] = "COMPLETED"
      <4>1. aggregate = "COMPLETED"
        BY <3>1, <3>2, <3>3 DEF aggregateMultiItemDeliveryStatus
      <4> QED  BY <2>3, <3>3, <4>1 DEF Says
    <3>4. CASE /\ \E p \in active : ful[p] # "COMPLETED"
               /\ \A p \in active : ful[p] \in {"DELIVERED", "COMPLETED"}
      <4>1. aggregate = "DELIVERED"
        BY <3>1, <3>2, <3>4 DEF aggregateMultiItemDeliveryStatus
      <4> QED  BY <2>3, <3>4, <4>1 DEF Says
    <3>5. CASE /\ \E p \in active : ful[p] \notin {"DELIVERED", "COMPLETED"}
               /\ \E p \in active : ful[p] \in {"DELIVERED", "COMPLETED"}
      <4>1. aggregate = "PARTIALLY_DELIVERED"
        BY <3>1, <3>2, <3>5 DEF aggregateMultiItemDeliveryStatus
      <4> QED  BY <2>3, <3>2, <3>5, <4>1 DEF Says, Gone
    <3>6. CASE \A p \in active : ful[p] \notin {"DELIVERED", "COMPLETED"}
      <4>1. aggregate = "SHIPPED"
        BY <2>3, <3>1, <3>2, <3>6 DEF aggregateMultiItemDeliveryStatus
      <4> QED  BY <2>3, <3>2, <3>6, <4>1 DEF Says, Gone
    <3> QED  BY <3>3, <3>4, <3>5, <3>6
  <2>4. CASE active # {} /\ active = Live /\ shipped # {} /\ shipped # active
    <3>1. aggregate = "PARTIALLY_SHIPPED"
      BY <2>4 DEF aggregateOrderStatusFromOffers
    <3>2. (\E p \in Live : ful[p] \in Gone) /\ ~(\A p \in Live : ful[p] \in Gone)
      BY <1>s, <2>4
    <3> QED  BY <3>1, <3>2 DEF Says
  <2>5. CASE active # {} /\ active = Live /\ shipped = {}
    <3>1. aggregate = CASE within(10) -> "PREPARATION"
                        [] ~within(10) /\ within(20) -> "PREPARED"
                        [] ~within(20) /\ within(30) -> "VERIFICATION"
                        [] ~within(30) /\ within(40) -> "VERIFICATION_SUCCESS"
                        [] OTHER -> "READY_FOR_SHIPPING"
      BY <2>5 DEF aggregateOrderStatusFromOffers
    <3>2. \A p \in active : ful[p] \in {"IN_PREPARATION", "PREPARED", "VERIFICATION",
                                        "VERIFICATION_SUCCESS", "READY_FOR_SHIPPING"}
      BY <1>p, <1>s, <2>5 DEF FulStatuses, Gone
    <3>3. \A p \in active :
            /\ ful[p] = "IN_PREPARATION" => FULFILLMENT_RANK[ful[p]] = 10
            /\ ful[p] = "PREPARED" => FULFILLMENT_RANK[ful[p]] = 20
            /\ ful[p] = "VERIFICATION" => FULFILLMENT_RANK[ful[p]] = 30
            /\ ful[p] = "VERIFICATION_SUCCESS" => FULFILLMENT_RANK[ful[p]] = 40
            /\ ful[p] = "READY_FOR_SHIPPING" => FULFILLMENT_RANK[ful[p]] = 50
      BY <1>p DEF FULFILLMENT_RANK
    <3>4. /\ within(10) <=> \E p \in active : ful[p] = "IN_PREPARATION"
          /\ within(20) <=> \E p \in active : ful[p] \in {"IN_PREPARATION", "PREPARED"}
          /\ within(30) <=> \E p \in active :
                               ful[p] \in {"IN_PREPARATION", "PREPARED", "VERIFICATION"}
          /\ within(40) <=> \E p \in active : ful[p] # "READY_FOR_SHIPPING"
      BY <3>2, <3>3
    <3> HIDE DEF within
    <3>5. CASE within(10)
      BY <2>5, <3>1, <3>4, <3>5 DEF Says
    <3>6. CASE ~within(10) /\ within(20)
      BY <2>5, <3>1, <3>2, <3>4, <3>6 DEF Says, Verified
    <3>7. CASE ~within(20) /\ within(30)
      BY <2>5, <3>1, <3>2, <3>4, <3>7 DEF Says, Verified
    <3>8. CASE ~within(30) /\ within(40)
      BY <2>5, <3>1, <3>2, <3>4, <3>8 DEF Says, Verified
    <3>9. CASE ~within(40)
      <4>1. ~within(10) /\ ~within(20) /\ ~within(30)
        BY <3>2, <3>4, <3>9
      <4> QED  BY <2>5, <3>1, <3>4, <3>9, <4>1 DEF Says
    <3> QED  BY <3>5, <3>6, <3>7, <3>8, <3>9
  <2> QED  BY <2>1, <2>2, <2>3, <2>4, <2>5
<1>2. CASE order = "CANCELLED"
  BY <1>2 DEF Derived, Says
<1>3. CASE order = "DELAYED_PREPARATION" /\ aggregate = "PREPARATION"
  BY <1>1, <1>3 DEF Derived, Says
<1> QED  BY <1>1, <1>2, <1>3 DEF Derived

LEMMA PaidMovedStep == TypeOK /\ PaidMoved /\ [Next]_vars => PaidMoved'
<1> SUFFICES ASSUME TypeOK, PaidMoved, [Next]_vars, NEW p \in Parts
             PROVE  /\ ful'[p] = "AWAITING_PAYMENT" => payment'[p] = "none"
                    /\ payment'[p] = "none" => due'[p] = "no"
  BY DEF PaidMoved
<1> USE DEF money, Move
<1>i. /\ ful[p] = "AWAITING_PAYMENT" => payment[p] = "none"
      /\ payment[p] = "none" => due[p] = "no"
  BY DEF PaidMoved
<1>1. CASE UNCHANGED <<ful, payment, due>>
  BY <1>1, <1>i
<1>2. ASSUME UNCHANGED money, ful'[p] = "AWAITING_PAYMENT" => ful'[p] = ful[p]
      PROVE  /\ ful'[p] = "AWAITING_PAYMENT" => payment'[p] = "none"
             /\ payment'[p] = "none" => due'[p] = "no"
  BY <1>2, <1>i
<1>3. ASSUME NEW w \in Workers, Advance(w)
      PROVE  /\ ful'[p] = "AWAITING_PAYMENT" => payment'[p] = "none"
             /\ payment'[p] = "none" => due'[p] = "no"
  <2>1. CASE Expire(w)
    <3>1. payment[p] = "none" => due'[p] = "no"
      BY <2>1, <1>i DEF Expire, OwedByOrder, Paid
    <3> QED  BY <2>1, <3>1, <1>i DEF Expire
  <2>2. CASE MarkRefund(w)
    BY <2>2, <1>i DEF MarkRefund
  <2>3. CASE Prepare(w) \/ Submit(w) \/ Apply(w) \/ Cancel(w) \/ Ready(w) \/ Ship(w)
    BY <2>3, <1>2 DEF Prepare, Submit, Apply, Cancel, Ready, Ship
  <2> QED
    BY <1>1, <1>3, <2>1, <2>2, <2>3
    DEF Advance, ReadOrder, WriteOrder, Delay, Grace, Correct, Decide, Retire, Again,
        Return, ShipOrder
<1>4. ASSUME NEW w \in Workers, Begins(w)
      PROVE  /\ ful'[p] = "AWAITING_PAYMENT" => payment'[p] = "none"
             /\ payment'[p] = "none" => due'[p] = "no"
  <2>1. CASE \E q \in Parts : Pay(w, q)
    BY <2>1, <1>i DEF Pay, TypeOK
  <2>2. CASE \E q \in Parts : Deliver(w, q) \/ Complete(w, q)
    BY <2>2, <1>2 DEF Deliver, Complete
  <2> QED
    BY <1>1, <1>4, <2>1, <2>2
    DEF Begins, StartExpire, StartDelay, StartLate, StartPrepare, StartLatePart,
        StartSubmit, StartCorrect, StartOverdue, StartReady, StartReview, StartShip
<1>5. ASSUME NEW q \in Parts, Refund(q)
      PROVE  /\ ful'[p] = "AWAITING_PAYMENT" => payment'[p] = "none"
             /\ payment'[p] = "none" => due'[p] = "no"
  BY <1>5, <1>i DEF Refund, TypeOK
<1> QED
  BY <1>1, <1>3, <1>4, <1>5
  DEF Next, vars, Crash, Passes, DelayPart, GraceEnds, ClockEnds

\* A shipped part has its cart for good, and only a request that has shipped some
\* says so.
LEMMA CartsStay ==
    ASSUME [Next]_vars, NEW p \in Parts, cart[p] # {}
    PROVE  cart'[p] # {}
<1> USE DEF goods
<1>1. ASSUME NEW w \in Workers, Ship(w)
      PROVE  cart'[p] # {}
  BY <1>1 DEF Ship
<1>2. ASSUME NEW w \in Workers, Advance(w), ~Ship(w)
      PROVE  UNCHANGED cart
  BY <1>2
  DEF Advance, ReadOrder, WriteOrder, Expire, Prepare, Delay, Grace, Submit, Correct,
      Decide, Apply, Retire, Again, Cancel, MarkRefund, Return, Ready, ShipOrder
<1>3. ASSUME NEW w \in Workers, Begins(w)
      PROVE  UNCHANGED cart
  BY <1>3
  DEF Begins, StartExpire, StartDelay, StartLate, Pay, StartPrepare, StartLatePart,
      StartSubmit, StartCorrect, StartOverdue, StartReady, Deliver, Complete,
      StartReview, StartShip
<1> QED
  BY <1>1, <1>2, <1>3
  DEF Next, vars, Crash, Passes, DelayPart, GraceEnds, Refund, ClockEnds

\* How a step may change what a request ships, and when one may leave the
\* derivation of the status.
ShipStep(v, r) ==
    /\ r.at = "ship" => r = req[v] \/ r.parts # {}
    /\ r.why = "ship" => req[v].why = "ship" \/ Ship(v)
    /\ req[v].at \in {"recompute", "write"} =>
          r.at \in {"recompute", "write"} \/ ReadOrder(v) \/ WriteOrder(v) \/ Crash(v)

LEMMA ShipSteps ==
    ASSUME TypeOK, Reasons, [Next]_vars, NEW v \in Workers
    PROVE  ShipStep(v, req'[v])
<1>g. ASSUME NEW w \in Workers, NEW r, Go(w, r) \/ Begin(w, r), ShipStep(w, r)
      PROVE  ShipStep(v, req'[v])
  BY <1>g, OthersStay DEF ShipStep
<1>1. ASSUME NEW w \in Workers, Advance(w)
      PROVE  ShipStep(v, req'[v])
  <2>r. req[w] \in Requests /\ Reasoned(req[w])
    BY DEF TypeOK, Reasons
  <2>c. ASSUME NEW s, ReadOrder(w) \/ WriteOrder(w)
        PROVE  ShipStep(w, Continue(w, s))
    BY <2>c, <2>r DEF ShipStep, Continue, Blank, Requests
  <2>1. CASE ReadOrder(w)
    <3>1. ShipStep(w, [req[w] EXCEPT !.at = "write", !.next = Derived])
      BY <2>r DEF ShipStep, Requests
    <3>2. CASE Derived = order
      <4>1. Go(w, Continue(w, order))
        BY <2>1, <3>2 DEF ReadOrder
      <4> QED  BY <2>1, <4>1, <2>c, <1>g
    <3>3. CASE Derived # order
      <4>1. Go(w, [req[w] EXCEPT !.at = "write", !.next = Derived])
        BY <2>1, <3>3 DEF ReadOrder
      <4> QED  BY <3>1, <4>1, <1>g
    <3> QED  BY <3>2, <3>3
  <2>2. CASE WriteOrder(w)
    BY <2>2, <2>c, <1>g DEF WriteOrder
  <2>w. ASSUME ~ReadOrder(w), ~WriteOrder(w)
        PROVE  req[w].at \notin {"recompute", "write"}
    BY <1>1, <2>w
    DEF Advance, Expire, Prepare, Delay, Grace, Submit, Correct, Decide, Apply, Retire,
        Again, Cancel, MarkRefund, Return, Ready, Ship, ShipOrder
  <2>3. CASE Decide(w)
    <3> DEFINE r == [req[w] EXCEPT !.at = IF req[w].why = "strike" THEN "cancel" ELSE "apply",
                                   !.doc = 0]
    <3>1. req[w].at = "decide" /\ Go(w, r)
      BY <2>3 DEF Decide
    <3>2. ShipStep(w, r)
      BY <2>r, <3>1 DEF ShipStep, Requests
    <3> HIDE DEF r
    <3> QED  BY <3>1, <3>2, <1>g
  <2>4. CASE MarkRefund(w)
    <3> DEFINE r == IF req[w].why = "strike"
                    THEN [req[w] EXCEPT !.at = "return", !.parts = {}] ELSE Blank
    <3>1. req[w].at = "after" /\ Go(w, r)
      BY <2>4 DEF MarkRefund
    <3>2. ShipStep(w, r)
      BY <2>r, <3>1 DEF ShipStep, Requests, Blank
    <3> HIDE DEF r
    <3> QED  BY <3>1, <3>2, <1>g
  <2>5. ASSUME NEW why, NEW ps, Recompute(w, why, ps),
               why = "ship" => req[w].why = "ship" \/ Ship(w)
        PROVE  ShipStep(v, req'[v])
    <3> DEFINE r == [Blank EXCEPT !.at = "recompute", !.why = why, !.parts = ps]
    <3>1. ShipStep(w, r)
      BY <2>5 DEF ShipStep, Blank
    <3>2. Go(w, r)
      BY <2>5 DEF Recompute
    <3> HIDE DEF r
    <3> QED  BY <3>1, <3>2, <1>g
  <2>6. CASE ~ReadOrder(w) /\ ~WriteOrder(w) /\ Go(w, Blank)
    <3>1. ShipStep(w, Blank)
      BY <2>6, <2>w DEF ShipStep, Blank
    <3> QED  BY <2>6, <3>1, <1>g
  <2>7. CASE Cancel(w)
    <3> DEFINE why == IF req[w].parts \cap Live = {} /\ req[w].why # "strike" THEN "none"
                      ELSE req[w].why
    <3>1. Recompute(w, why, req[w].parts \cap Live)
      BY <2>7 DEF Cancel
    <3>2. why = "ship" => req[w].why = "ship"
      OBVIOUS
    <3> HIDE DEF why
    <3> QED  BY <3>1, <3>2, <2>5
  <2>8. CASE Apply(w)
    BY <2>8, <2>5 DEF Apply
  <2>9. CASE Ship(w)
    BY <2>9, <2>5 DEF Ship
  <2>10. CASE Recompute(w, "none", {})
    BY <2>10, <2>5
  <2>11. CASE req[w].at = "delay" /\ Go(w, [req[w] EXCEPT !.at = "grace"])
    <3>1. ShipStep(w, [req[w] EXCEPT !.at = "grace"])
      BY <2>11, <2>r DEF ShipStep, Requests
    <3> QED  BY <2>11, <3>1, <1>g
  <2> QED
    BY <1>1, <2>1, <2>2, <2>3, <2>4, <2>6, <2>7, <2>8, <2>9, <2>10, <2>11
    DEF Advance, Expire, Prepare, Delay, Grace, Submit, Correct, Retire, Again, Return,
        Ready, ShipOrder
<1>2. ASSUME NEW w \in Workers, Begins(w)
      PROVE  ShipStep(v, req'[v])
  <2>g. ASSUME NEW r, Begin(w, r), r.at = "ship" => r.parts # {}, r.why # "ship"
        PROVE  ShipStep(v, req'[v])
    <3>1. req[w].at = "idle"
      BY <2>g DEF Begin
    <3> QED  BY <2>g, <3>1, <1>g DEF ShipStep
  <2>1. CASE \E at, ps : Begin(w, Job(at, ps)) /\ (at = "ship" => ps # {})
    <3>1. PICK at, ps : Begin(w, Job(at, ps)) /\ (at = "ship" => ps # {})
      BY <2>1
    <3>2. Job(at, ps).at = at /\ Job(at, ps).parts = ps /\ Job(at, ps).why = "none"
      BY DEF Job, Blank
    <3> QED  BY <3>1, <3>2, <2>g
  <2>n. ASSUME NEW at, NEW ps, at # "ship", Begin(w, Job(at, ps))
        PROVE  ShipStep(v, req'[v])
    BY <2>n, <2>1
  <2>2. CASE \E why \in Striking : \E ps : Begin(w, [Job("cancel", ps) EXCEPT !.why = why])
    <3>1. ASSUME NEW y \in Striking, NEW ps
          PROVE  /\ [Job("cancel", ps) EXCEPT !.why = y].at = "cancel"
                 /\ [Job("cancel", ps) EXCEPT !.why = y].why # "ship"
      BY DEF Job, Blank, Striking
    <3> QED  BY <2>2, <3>1, <2>g
  <2>3. ASSUME NEW p \in Parts, NEW i \in DOMAIN docs[p], NEW approve \in BOOLEAN,
               StartReview(w, p, i, approve)
        PROVE  ShipStep(v, req'[v])
    <3> DEFINE r == [Job("decide", {p}) EXCEPT
                        !.doc = i,
                        !.why = IF approve THEN "approve"
                                ELSE IF Struck(p, i) THEN "strike" ELSE "reject"]
    <3>1. r.at = "decide" /\ r.why # "ship"
      BY DEF Job, Blank
    <3>2. Begin(w, r)
      BY <2>3 DEF StartReview
    <3> HIDE DEF r
    <3> QED  BY <3>1, <3>2, <2>g
  <2>4. CASE StartExpire(w) \/ StartDelay(w) \/ \E ps \in SUBSET Parts : StartShip(w, ps)
    BY <2>1, <2>4 DEF StartExpire, StartDelay, StartShip
  <2>5. CASE StartLate(w)
    BY <2>1, <2>2, <2>5 DEF StartLate, Striking
  <2>6. CASE \E p \in Parts : StartLatePart(w, p) \/ StartOverdue(w, p)
    BY <2>2, <2>6 DEF StartLatePart, StartOverdue, Striking
  <2>7. CASE \E p \in Parts : \/ Pay(w, p) \/ StartPrepare(w, p) \/ StartSubmit(w, p)
                              \/ StartCorrect(w, p) \/ StartReady(w, p)
                              \/ Deliver(w, p) \/ Complete(w, p)
    BY <2>n, <2>7
    DEF Pay, StartPrepare, StartSubmit, StartCorrect, StartReady, Deliver, Complete
  <2> QED  BY <1>2, <2>3, <2>4, <2>5, <2>6, <2>7 DEF Begins
<1>3. ASSUME NEW w \in Workers, Crash(w)
      PROVE  ShipStep(v, req'[v])
  <2>1. ShipStep(w, Blank)
    BY <1>3 DEF ShipStep, Blank
  <2> QED  BY <1>3, <2>1, <1>g DEF Crash
<1>4. CASE UNCHANGED req
  BY <1>4 DEF ShipStep
<1> QED
  BY <1>1, <1>2, <1>3, <1>4
  DEF Next, vars, Passes, DelayPart, GraceEnds, Refund, ClockEnds

LEMMA ShipsPartsStep == TypeOK /\ Reasons /\ ShipsParts /\ [Next]_vars => ShipsParts'
<1> SUFFICES ASSUME TypeOK, Reasons, ShipsParts, [Next]_vars, NEW v \in Workers
             PROVE  /\ req'[v].at = "ship" => req'[v].parts # {}
                    /\ req'[v].why = "ship" => \E p \in Parts : cart'[p] # {}
  BY DEF ShipsParts
<1>1. ShipStep(v, req'[v])
  BY ShipSteps
<1>2. ASSUME req[v].why = "ship"
      PROVE  \E p \in Parts : cart'[p] # {}
  BY <1>2, CartsStay DEF ShipsParts
<1>3. ASSUME Ship(v)
      PROVE  \E p \in Parts : cart'[p] # {}
  <2>1. PICK p \in req[v].parts : TRUE
    BY <1>3 DEF Ship, ShipsParts
  <2>2. p \in Parts
    BY DEF TypeOK, Requests
  <2>3. cart'[p] = req[v].parts
    BY <1>3, <2>1, <2>2 DEF Ship
  <2> QED  BY <2>1, <2>2, <2>3
<1> QED  BY <1>1, <1>2, <1>3 DEF ShipStep, ShipsParts

\* No step asks for the whole payment of a part that is still wanted without
\* cancelling the order, and a cancelled order stays cancelled.
LEMMA WantedRefundStep ==
    ASSUME TypeOK, Tidy, WantedRefund, [Next]_vars, InTime', "order" \notin late'
    PROVE  WantedRefund'
<1> SUFFICES ASSUME NEW p \in Parts, due'[p] \in {"part", "full"}, p \in Live'
             PROVE  order' = "CANCELLED"
  BY DEF WantedRefund
<1>1. p \in Live
  BY MovesForward DEF Live
<1>2. CASE due'[p] = due[p]
  BY <1>1, <1>2, CancelledStep DEF WantedRefund
<1>3. ASSUME NEW w \in Workers, MarkRefund(w)
      PROVE  due'[p] = due[p]
  <2>1. p \notin req[w].parts
    BY <1>1, <1>3 DEF MarkRefund, Tidy, StruckCancelled, Owes, Striking, Live
  <2> QED  BY <1>3, <2>1 DEF MarkRefund
<1>4. ASSUME NEW w \in Workers, Expire(w)
      PROVE  order' = "CANCELLED" \/ due' = due
  BY <1>4 DEF Expire
<1>5. ASSUME NEW q \in Parts, Refund(q)
      PROVE  due'[p] = due[p]
  BY <1>5 DEF Refund, TypeOK
<1>6. ASSUME NEW w \in Workers, Advance(w), ~MarkRefund(w), ~Expire(w)
      PROVE  due' = due
  BY <1>6
  DEF Advance, money, ReadOrder, WriteOrder, Prepare, Delay, Grace, Submit, Correct,
      Decide, Apply, Retire, Again, Cancel, Return, Ready, Ship, ShipOrder
<1>7. ASSUME NEW w \in Workers, Begins(w)
      PROVE  due' = due
  BY <1>7
  DEF Begins, money, StartExpire, StartDelay, StartLate, Pay, StartPrepare, StartLatePart,
      StartSubmit, StartCorrect, StartOverdue, StartReady, Deliver, Complete,
      StartReview, StartShip
<1> QED
  BY <1>2, <1>3, <1>4, <1>5, <1>6, <1>7
  DEF Next, vars, money, Crash, Passes, DelayPart, GraceEnds, ClockEnds

\* requestShipping moves the order itself, after it has shipped a part: what it
\* writes is true of the parts whenever what it finds is.
LEMMA ShippedSays ==
    ASSUME TypeOK, CartGone, ShipsParts, NEW w \in Workers, ShipOrder(w), Says(order, Live)
    PROVE  Says(order', Live)
<1>1. PICK p \in Parts : cart[p] # {}
  BY DEF ShipOrder, ShipsParts
<1>2. ful[p] \in Gone /\ p \in Live
  BY <1>1 DEF CartGone, Gone, Live
<1>3. CASE order' = order
  BY <1>3
<1>4. CASE (\A q \in Parts : cart[q] # {}) /\ order = "READY_FOR_SHIPPING"
  BY <1>2, <1>4 DEF Says, Gone
<1>5. CASE (\A q \in Parts : cart[q] # {}) /\ order = "PARTIALLY_SHIPPED"
  <2>1. \A q \in Live : ful[q] \in Gone
    BY <1>5 DEF CartGone, Live
  <2> QED  BY <1>5, <2>1 DEF Says
<1>6. CASE order = "READY_FOR_SHIPPING"
  BY <1>2, <1>6 DEF Says, Gone
<1>7. CASE order = "PREPARATION" /\ order' = "PARTIALLY_SHIPPED"
  <2>1. PICK q \in Live : ful[q] = "IN_PREPARATION"
    BY <1>7 DEF Says
  <2> QED  BY <1>2, <1>7, <2>1 DEF Says, Gone
<1> QED  BY <1>3, <1>4, <1>5, <1>6, <1>7 DEF ShipOrder

LEMMA ToldStep ==
    ASSUME TypeOK, Reasons, Tidy, PaidMoved, ShipsParts, WantedRefund, Told,
           [Next]_vars, Punctual'
    PROVE  Told'
<1> SUFFICES ASSUME \A v \in Workers : req'[v].at \notin {"recompute", "write"}
             PROVE  Says(order, Live)'
  BY DEF Told
<1>l. InTime' /\ "order" \notin late' /\ "crash" \notin late'
  BY DEF Punctual, InTime
<1>d. Says(Derived, Live)
  BY DerivedSays DEF Tidy
<1>s. ASSUME UNCHANGED <<ful, payment>>, Says(order', Live)
      PROVE  Says(order, Live)'
  BY <1>s DEF Says, Live, Paid
<1>t. ASSUME NEW w \in Workers, req[w].at \notin {"recompute", "write"},
             \A v \in Workers \ {w} : req'[v] = req[v]
      PROVE  Says(order, Live)
  BY <1>t DEF Told
<1>0. ASSUME UNCHANGED <<ful, payment, order>>, Says(order, Live)
      PROVE  Says(order, Live)'
  BY <1>0, <1>s
<1>u. CASE UNCHANGED <<ful, payment, order, req>>
  <2>1. Says(order, Live)
    BY <1>u DEF Told
  <2> QED  BY <1>0, <1>u, <2>1
<1>1. ASSUME NEW w \in Workers, Advance(w)
      PROVE  Says(order, Live)'
  <2> USE DEF money
  <2>1. CASE ReadOrder(w)
    <3>1. Derived = order
      <4>1. ASSUME Derived # order
            PROVE  req'[w].at = "write"
        <5> DEFINE r == [req[w] EXCEPT !.at = "write", !.next = Derived]
        <5>1. Go(w, r)
          BY <2>1, <4>1 DEF ReadOrder
        <5>2. r.at = "write"
          BY DEF TypeOK, Requests
        <5> HIDE DEF r
        <5> QED  BY <5>1, <5>2, OthersStay
      <4> QED  BY <4>1
    <3> QED  BY <1>0, <1>d, <2>1, <3>1 DEF ReadOrder
  <2>2. CASE WriteOrder(w)
    <3>1. order' = Derived
      BY <1>l, <2>2 DEF WriteOrder, Late
    <3> QED  BY <1>d, <1>s, <2>2, <3>1 DEF WriteOrder
  <2>r. ASSUME NEW why, NEW ps, Recompute(w, why, ps)
        PROVE  FALSE
    <3> DEFINE r == [Blank EXCEPT !.at = "recompute", !.why = why, !.parts = ps]
    <3>1. r.at = "recompute"
      BY DEF Blank
    <3>2. Go(w, r)
      BY <2>r DEF Recompute
    <3> HIDE DEF r
    <3> QED  BY <3>1, <3>2, OthersStay
  <2>3. CASE Submit(w) \/ Apply(w) \/ Again(w) \/ Cancel(w) \/ Ready(w) \/ Ship(w)
    BY <2>3, <2>r DEF Submit, Apply, Again, Cancel, Ready, Ship
  <2>o. ASSUME \E r : Go(w, r), req[w].at \notin {"recompute", "write"}
        PROVE  Says(order, Live)
    BY <2>o, <1>t, OthersStay
  <2>4. CASE Prepare(w)
    <3>1. UNCHANGED ful /\ Go(w, Blank)
      BY <2>4, <2>r DEF Prepare
    <3> QED  BY <1>0, <2>o, <2>4, <3>1 DEF Prepare
  <2>5. CASE Expire(w)
    <3>1. Says(order, Live)
      BY <2>o, <2>5 DEF Expire
    <3>2. Says("CANCELLED", Live)
      BY DEF Says
    <3> QED  BY <1>s, <2>5, <3>1, <3>2 DEF Expire
  <2>6. CASE Delay(w)
    <3>1. Says(order, Live)
      BY <2>o, <2>6 DEF Delay
    <3>2. Says("PREPARATION", Live) => Says("DELAYED_PREPARATION", Live)
      BY DEF Says
    <3> QED  BY <1>s, <2>6, <3>1, <3>2 DEF Delay
  <2>7. CASE Grace(w) \/ Correct(w) \/ Decide(w) \/ Retire(w) \/ MarkRefund(w)
    <3>1. Says(order, Live)
      BY <2>o, <2>7 DEF Grace, Correct, Decide, Retire, MarkRefund
    <3> QED  BY <1>0, <2>7, <3>1 DEF Grace, Correct, Decide, Retire, MarkRefund
  <2>8. CASE Return(w)
    <3>1. Says(order, Live)
      BY <2>o, <2>8 DEF Return
    <3>2. order' \in {order, Derived}
      BY <1>l, <2>8 DEF Return, Late
    <3> QED  BY <1>d, <1>s, <2>8, <3>1, <3>2 DEF Return
  <2>9. CASE ShipOrder(w)
    <3>1. Says(order, Live)
      BY <2>o, <2>9 DEF ShipOrder
    <3>2. Says(order', Live)
      BY <2>9, <3>1, ShippedSays DEF Tidy
    <3> QED  BY <1>s, <2>9, <3>2 DEF ShipOrder
  <2> QED
    BY <1>1, <2>1, <2>2, <2>3, <2>4, <2>5, <2>6, <2>7, <2>8, <2>9 DEF Advance
<1>2. ASSUME NEW w \in Workers, Begins(w)
      PROVE  Says(order, Live)'
  <2>1. \E r : Begin(w, r)
    BY <1>2
    DEF Begins, StartExpire, StartDelay, StartLate, Pay, StartPrepare, StartLatePart,
        StartSubmit, StartCorrect, StartOverdue, StartReady, Deliver, Complete,
        StartReview, StartShip
  <2>2. Says(order, Live)
    BY <1>t, <2>1, OthersStay DEF Begin
  <2>3. ASSUME NEW q \in Parts, Pay(w, q) \/ Deliver(w, q) \/ Complete(w, q)
        PROVE  FALSE
    <3>1. Begin(w, Job("recompute", {}))
      BY <2>3 DEF Pay, Deliver, Complete
    <3>2. Job("recompute", {}).at = "recompute"
      BY DEF Job, Blank
    <3> QED  BY <3>1, <3>2, OthersStay
  <2>4. UNCHANGED <<ful, payment, order>>
    BY <1>2, <2>3
    DEF Begins, money, StartExpire, StartDelay, StartLate, StartPrepare, StartLatePart,
        StartSubmit, StartCorrect, StartOverdue, StartReady, StartReview, StartShip
  <2> QED  BY <1>0, <2>2, <2>4
<1>3. ASSUME NEW w \in Workers, Crash(w)
      PROVE  FALSE
  BY <1>l, <1>3 DEF Crash, Late
<1>4. ASSUME NEW p \in Parts, Refund(p)
      PROVE  Says(order, Live)'
  <2>1. Says(order, Live)
    BY <1>4 DEF Refund, Told
  <2>r. /\ UNCHANGED <<ful, order>>
        /\ \A q \in Parts \ {p} : payment'[q] = payment[q]
        /\ payment[p] # "none"
    BY <1>4 DEF Refund, TypeOK, PaidMoved
  <2>v. payment[p] \in {"SUCCESS", "NET", "REFUNDED"}
        /\ (payment[p] = "REFUNDED" => payment'[p] = "REFUNDED")
    BY <1>4, <2>r DEF Refund, TypeOK
  <2>2. UNCHANGED <<ful, order>> /\ Paid' \subseteq Paid /\ Paid \ Paid' \subseteq {p}
    BY <2>r, <2>v DEF Paid
  <2>3. CASE order # "PARTIALLY_PAID"
    BY <2>1, <2>2, <2>3 DEF Says, Live
  <2>4. CASE order = "PARTIALLY_PAID"
    <3>1. p \in Live => due[p] \notin {"part", "full"}
      BY <2>4 DEF WantedRefund
    <3>2. p \in Live => (p \in Paid => p \in Paid')
      BY <1>4, <3>1 DEF Refund, Paid, TypeOK
    <3>3. Live' = Live /\ Live \cap Paid' = Live \cap Paid
      BY <2>2, <3>2 DEF Live
    <3> QED  BY <2>1, <2>2, <2>4, <3>3 DEF Says
  <2> QED  BY <2>3, <2>4
<1>5. ASSUME NEW p \in Parts, Passes(p), ~Refund(p)
      PROVE  Says(order, Live)'
  BY <1>u, <1>5 DEF Passes, DelayPart, GraceEnds, ClockEnds, money
<1>6. CASE UNCHANGED vars
  BY <1>u, <1>6 DEF vars
<1> QED  BY <1>1, <1>2, <1>3, <1>4, <1>5, <1>6 DEF Next

\* When nothing is under way the status of the order is true of the parts that
\* are still wanted, however the moves of the parts, the derivations and the
\* cancellations interleave, as long as no request is cut off, none moves a part
\* too late and none writes a status that no longer holds (recomputeOrderStatus,
\* requestShipping, transitionStatus).
THEOREM OrderFollowsItsParts == Spec => []OrderFollowsParts
<1> DEFINE Follows == Punctual => WantedRefund /\ Told
           Inv == TypeOK /\ Reasons /\ (InTime => Tidy) /\ PaidMoved /\ ShipsParts /\ Follows
<1>1. Init => Inv
  <2>1. Init => PaidMoved /\ ShipsParts /\ WantedRefund
    BY DEF Init, PaidMoved, ShipsParts, WantedRefund, Blank
  <2>2. Init => Told
    BY DEF Init, Told, Says, Paid
  <2> QED  BY <2>1, <2>2, InitType, InitTidy
<1>2. Inv /\ [Next]_vars => Inv'
  <2> SUFFICES ASSUME Inv, [Next]_vars
               PROVE  Inv'
    OBVIOUS
  <2>1. /\ TypeOK' /\ Reasons' /\ (InTime => Tidy)'
        /\ PaidMoved' /\ ShipsParts'
    BY TypeStep, ReasonsStep, TidyStep, PaidMovedStep, ShipsPartsStep
  <2>2. ASSUME Punctual'
        PROVE  WantedRefund' /\ Told'
    <3>1. Punctual /\ InTime /\ InTime' /\ "order" \notin late'
      BY <2>2, LateGrows DEF Punctual, InTime
    <3> QED  BY <2>2, <3>1, WantedRefundStep, ToldStep
  <2> QED  BY <2>1, <2>2
<1>3. Inv => OrderFollowsParts
  BY DEF OrderFollowsParts, Quiet, Punctual, Told
<1> QED  BY <1>1, <1>2, <1>3, PTL DEF Spec
=============================================================================
