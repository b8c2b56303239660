-------------------------- MODULE SelectionProofs --------------------------
(***************************************************************************)
(* Proofs about Selection, for any number of bids, parts and requests:     *)
(* rivals never both win, a bid taken back never wins, and no late step    *)
(* draws an order back to its choice or undoes a decision on a bid.        *)
(*                                                                         *)
(* That two winners of a part exclude each other is not inductive: what an *)
(* accept relies on is that a bid still pending beside a winner was made   *)
(* after it (Beaten).  That a bid taken back does not win needs that it is *)
(* not made anew (Gone).                                                   *)
(***************************************************************************)
EXTENDS Selection, TLAPS

\* Beside a winner only bids made after it are still to be decided.
Beaten ==
    \A o \in Offers, p \in Offers :
        /\ o # p /\ PartOf[p] = PartOf[o]
        /\ offer[o] = "pending" /\ offer[p] = "accepted"
        => o \in latecomers

\* RivalsNeverBothWin, pair by pair.
Exclusive ==
    \A o \in Offers, p \in Offers :
        /\ o # p /\ PartOf[p] = PartOf[o]
        /\ offer[o] = "accepted" /\ offer[p] = "accepted"
        => o \in latecomers \/ p \in latecomers

\* A bid taken back is withdrawn, or was rejected after that.
Gone == \A o \in withdrawn : offer[o] \in {"withdrawn", "rejected"}

Chances == Beaten /\ Exclusive /\ Gone
IInv == TypeOK /\ Chances

\* The rows alone; what is left of TypeOK is about the requests.
RowsOK ==
    /\ status \in Statuses
    /\ stopped \in BOOLEAN /\ due \in BOOLEAN
    /\ offer \in [Offers -> OfferStates]
    /\ withdrawn \subseteq Offers /\ latecomers \subseteq Offers
    /\ review \in [Offers -> Reviews]

LEMMA TypeParts ==
    RowsOK /\ DOMAIN req = Workers /\ (\A w \in Workers : Requests(w)) => TypeOK
BY DEF TypeOK, RowsOK

LEMMA TypeLater ==
    RowsOK' /\ DOMAIN req' = Workers /\ (\A w \in Workers : Requests(w))' => TypeOK'
BY DEF TypeOK, RowsOK

-----------------------------------------------------------------------------
(* What a worker is at.                                                     *)

\* A request is one of the kinds of Requests.
IsRequest(r) ==
    \/ r = Idle
    \/ \E o \in Offers, op \in Ops \ {"resolve"} : r = [op |-> op, o |-> o]
    \/ \E o \in Offers, held, open \in BOOLEAN :
          r = [op |-> "resolve", o |-> o, held |-> held, open |-> open]
    \/ r = [op |-> "enforce"]
    \/ \E left \in SUBSET Offers : r = [op |-> "sweep", left |-> left]
    \/ \E to \in {"AWAITING_SELECTION", "CANCELLED"} : r = Transit(to)
    \/ \E to, seen \in Statuses :
          /\ to \in TRANSITION_RULES[seen]
          /\ r = [op |-> "cas", to |-> to, seen |-> seen]

\* A step of one worker that leaves it with a request keeps all of them.
LEMMA RequestsKept ==
    ASSUME TypeOK, NEW w \in Workers, NEW r, IsRequest(r),
           req' = [req EXCEPT ![w] = r]
    PROVE  DOMAIN req' = Workers /\ (\A v \in Workers : Requests(v))'
<1>1. DOMAIN req' = Workers  BY DEF TypeOK
<1>2. ASSUME NEW v \in Workers PROVE Requests(v)'
  <2>1. CASE v = w
    <3>1. req'[v] = r  BY <2>1 DEF TypeOK
    <3>2. IsRequest(req'[v])  BY <3>1
    <3> QED  BY <3>2 DEF IsRequest, Requests, Transit
  <2>2. CASE v # w
    <3>1. req'[v] = req[v]  BY <2>2 DEF TypeOK
    <3>2. Requests(v)  BY DEF TypeOK
    <3> QED  BY <3>1, <3>2 DEF Requests, Transit
  <2> QED  BY <2>1, <2>2
<1> QED  BY <1>1, <1>2

LEMMA DoneKeeps ==
    ASSUME TypeOK, NEW w \in Workers, Done(w)
    PROVE  DOMAIN req' = Workers /\ (\A v \in Workers : Requests(v))'
<1>1. IsRequest(Idle)  BY DEF IsRequest
<1> QED  BY <1>1, RequestsKept DEF Done

LEMMA DoesKeeps ==
    ASSUME TypeOK, NEW w \in Workers, NEW r, IsRequest(r), Does(w, r)
    PROVE  DOMAIN req' = Workers /\ (\A v \in Workers : Requests(v))'
BY RequestsKept DEF Does

\* A request about a bid names one, an enforcement expires bids, and a transition
\* that was judged goes where the rules allow it to go.
LEMMA Named ==
    ASSUME TypeOK, NEW w \in Workers
    PROVE  /\ req[w].op \in Ops => req[w].o \in Offers
           /\ At(w, "sweep") => /\ req[w].left \subseteq Offers
                                /\ req[w] = [op |-> "sweep", left |-> req[w].left]
           /\ At(w, "transition") => req[w].to \in Statuses
           /\ At(w, "cas") => /\ req[w].seen \in Statuses
                              /\ req[w].to \in TRANSITION_RULES[req[w].seen]
<1> DEFINE Goal(r) ==
        /\ r.op \in Ops => r.o \in Offers
        /\ r.op = "sweep" => /\ r.left \subseteq Offers
                             /\ r = [op |-> "sweep", left |-> r.left]
        /\ r.op = "transition" => r.to \in Statuses
        /\ r.op = "cas" => r.seen \in Statuses /\ r.to \in TRANSITION_RULES[r.seen]
<1>1. Requests(w)  BY DEF TypeOK
<1>2. CASE req[w] = Idle
  <2>1. req[w].op = "idle"  BY <1>2 DEF Idle
  <2> QED  BY <2>1 DEF Ops, At
<1>3. ASSUME NEW o \in Offers, NEW op \in Ops \ {"resolve"},
             req[w] = [op |-> op, o |-> o]
      PROVE  Goal(req[w])
  <2>1. req[w].op = op /\ req[w].o = o  BY <1>3
  <2> QED  BY <2>1 DEF Ops
<1>4. ASSUME NEW o \in Offers, NEW held \in BOOLEAN, NEW open \in BOOLEAN,
             req[w] = [op |-> "resolve", o |-> o, held |-> held, open |-> open]
      PROVE  Goal(req[w])
  <2>1. req[w].op = "resolve" /\ req[w].o = o  BY <1>4
  <2> QED  BY <2>1
<1>5. ASSUME NEW to \in {"AWAITING_SELECTION", "CANCELLED"}, req[w] = Transit(to)
      PROVE  Goal(req[w])
  <2>1. req[w].op = "transition" /\ req[w].to = to  BY <1>5 DEF Transit
  <2> QED  BY <2>1 DEF Ops, Statuses
<1>6. ASSUME NEW to \in Statuses, NEW seen \in Statuses, to \in TRANSITION_RULES[seen],
             req[w] = [op |-> "cas", to |-> to, seen |-> seen]
      PROVE  Goal(req[w])
  <2>1. req[w].op = "cas" /\ req[w].to = to /\ req[w].seen = seen  BY <1>6
  <2> QED  BY <1>6, <2>1 DEF Ops
<1>7. ASSUME req[w] = [op |-> "enforce"]
      PROVE  Goal(req[w])
  <2>1. req[w].op = "enforce"  BY <1>7
  <2> QED  BY <2>1 DEF Ops
<1>8. ASSUME NEW left \in SUBSET Offers, req[w] = [op |-> "sweep", left |-> left]
      PROVE  Goal(req[w])
  <2>1. req[w].op = "sweep" /\ req[w].left = left  BY <1>8
  <2> QED  BY <1>8, <2>1 DEF Ops
<1>9. req[w] # Idle => Goal(req[w])
  <2> HIDE DEF Goal
  <2> QED  BY <1>1, <1>3, <1>4, <1>5, <1>6, <1>7, <1>8 DEF Requests
<1> QED  BY <1>2, <1>9 DEF At

\* The rules lead to statuses, and the bids are revealed from one of them only.
LEMMA Rules ==
    ASSUME NEW s \in Statuses
    PROVE  /\ TRANSITION_RULES[s] \subseteq Statuses
           /\ "AWAITING_SELECTION" \in TRANSITION_RULES[s] => s = "COLLECTING_OFFERS"
BY DEF TRANSITION_RULES, Statuses

-----------------------------------------------------------------------------
LEMMA InitInv == Init => IInv
<1> SUFFICES ASSUME Init PROVE IInv
    OBVIOUS
<1>1. RowsOK
      BY SelectionAssumption DEF Init, RowsOK, Statuses, OfferStates, Reviews
<1>2. DOMAIN req = Workers /\ \A w \in Workers : Requests(w)
      BY DEF Init, Requests
<1>3. Chances  BY DEF Init, Chances, Beaten, Exclusive, Gone
<1> QED  BY <1>1, <1>2, <1>3, TypeParts DEF IInv

\* The steps that begin something change no row.
LEMMA BeginKeeps ==
    ASSUME TypeOK, NEW w \in Workers, Begin(w)
    PROVE  UNCHANGED <<order, bids>>
           /\ DOMAIN req' = Workers /\ (\A v \in Workers : Requests(v))'
<1>1. ASSUME NEW o \in Offers,
             \/ StartCreate(w, o) \/ StartEdit(w, o)
             \/ StartCancelByVendor(w, o) \/ StartWithdraw(w, o)
             \/ StartExpire(w, o) \/ StartAccept(w, o)
             \/ StartAcceptForPart(w, o) \/ StartReject(w, o)
      PROVE  UNCHANGED <<order, bids>>
             /\ \E r : IsRequest(r) /\ Does(w, r)
  <2>1. \E op \in Ops \ {"resolve"} : Does(w, [op |-> op, o |-> o])
        BY <1>1 DEF StartCreate, StartEdit, StartCancelByVendor, StartWithdraw,
           StartExpire, StartAccept, StartAcceptForPart, StartReject, Ops
  <2>2. \A op \in Ops \ {"resolve"} : IsRequest([op |-> op, o |-> o])
        BY DEF IsRequest
  <2>3. UNCHANGED <<order, bids>>
        BY <1>1 DEF StartCreate, StartEdit, StartCancelByVendor, StartWithdraw,
           StartExpire, StartAccept, StartAcceptForPart, StartReject
  <2> QED  BY <2>1, <2>2, <2>3
<1>2. ASSUME NEW o \in Offers, StartResolve(w, o)
      PROVE  UNCHANGED <<order, bids>>
             /\ \E r : IsRequest(r) /\ Does(w, r)
  <2> DEFINE held == review[o] = "PENDING"
             open == status = "COLLECTING_OFFERS"
             r == [op |-> "resolve", o |-> o, held |-> held, open |-> open]
  <2>1. held \in BOOLEAN /\ open \in BOOLEAN  OBVIOUS
  <2>2. Does(w, r) /\ UNCHANGED <<order, bids>>  BY <1>2 DEF StartResolve
  <2>3. IsRequest(r)
    <3> HIDE DEF held, open
    <3> QED  BY <2>1 DEF IsRequest
  <2> QED  BY <2>2, <2>3
<1>3. ASSUME NEW to \in Statuses, AskTransition(w, to)
      PROVE  UNCHANGED <<order, bids>>
             /\ \E r : IsRequest(r) /\ Does(w, r)
  <2>1. to \in TRANSITION_RULES[status] /\ status \in Statuses
        BY <1>3 DEF AskTransition, TypeOK
  <2>2. IsRequest(Cas(to))  BY <2>1 DEF IsRequest, Cas
  <2> QED  BY <1>3, <2>2 DEF AskTransition
<1>4. ASSUME \/ Reveal(w)
             \/ ExpireSelection(w) \/ EnforceSelection(w) \/ ExpirePayment(w)
      PROVE  UNCHANGED <<order, bids>>
             /\ \E r : IsRequest(r) /\ Does(w, r)
  <2>1. \E to \in {"AWAITING_SELECTION", "CANCELLED"} : Does(w, Transit(to))
        BY <1>4 DEF Reveal, ExpireSelection, EnforceSelection,
           ExpirePayment, Revealed
  <2>2. \A to \in {"AWAITING_SELECTION", "CANCELLED"} : IsRequest(Transit(to))
        BY DEF IsRequest
  <2>3. UNCHANGED <<order, bids>>
        BY <1>4 DEF Reveal, ExpireSelection, EnforceSelection, ExpirePayment
  <2> QED  BY <2>1, <2>2, <2>3
<1>5. ASSUME EnforceReveal(w)
      PROVE  UNCHANGED <<order, bids>>
             /\ \E r : IsRequest(r) /\ Does(w, r)
      BY <1>5 DEF EnforceReveal, IsRequest
<1>6. UNCHANGED <<order, bids>> /\ \E r : IsRequest(r) /\ Does(w, r)
      BY <1>1, <1>2, <1>3, <1>4, <1>5 DEF Begin
<1>7. PICK r : IsRequest(r) /\ Does(w, r)  BY <1>6
<1> QED  BY <1>6, <1>7, DoesKeeps

\* The chances of the bids follow from their rows alone.
LEMMA BidsUntouched ==
    ASSUME Chances, UNCHANGED <<offer, withdrawn, latecomers>>
    PROVE  Chances'
BY DEF Chances, Beaten, Exclusive, Gone

\* A bid that is put aside takes no chance of another.
LEMMA PutAside ==
    ASSUME TypeOK, Chances, NEW o \in Offers, NEW s \in {"withdrawn", "rejected"},
           offer' = [offer EXCEPT ![o] = s], latecomers' = latecomers,
           withdrawn' \in {withdrawn, withdrawn \cup {o}}
    PROVE  Chances'
<1>1. offer'[o] = s /\ \A p \in Offers : p # o => offer'[p] = offer[p]
      BY DEF TypeOK
<1>2. Beaten'  BY <1>1 DEF Chances, Beaten
<1>3. Exclusive'  BY <1>1 DEF Chances, Exclusive
<1>4. Gone'  BY <1>1 DEF Chances, Gone, TypeOK
<1> QED  BY <1>2, <1>3, <1>4 DEF Chances

\* The claim of a bid, with what it makes of the rivals.
LEMMA ClaimKeeps ==
    ASSUME TypeOK, Chances, NEW o \in Offers, Claimable(o), offer' = Chosen(o),
           UNCHANGED <<withdrawn, latecomers>>
    PROVE  Chances' /\ offer' \in [Offers -> OfferStates]
<1>1. offer[o] = "pending"  BY DEF Claimable
<1>2. offer'[o] = "accepted"  BY DEF Chosen
<1>3. \A p \in Offers : p # o /\ PartOf[p] = PartOf[o] /\ offer[p] = "pending"
                        => offer'[p] = "rejected"
      BY DEF Chosen, Rivals, OnPart
<1>4. \A p \in Offers : p # o /\ ~(PartOf[p] = PartOf[o] /\ offer[p] = "pending")
                        => offer'[p] = offer[p]
      BY DEF Chosen, Rivals, OnPart
<1>5. Beaten'
  <2> SUFFICES ASSUME NEW p \in Offers, NEW q \in Offers,
                      p # q, PartOf[q] = PartOf[p],
                      offer'[p] = "pending", offer'[q] = "accepted"
               PROVE  p \in latecomers
      BY DEF Beaten
  <2>1. p # o /\ offer[p] = "pending" /\ PartOf[p] # PartOf[o]
        BY <1>2, <1>3, <1>4
  <2>2. offer[q] = "accepted"  BY <2>1, <1>3, <1>4
  <2> QED  BY <2>1, <2>2 DEF Chances, Beaten
<1>6. Exclusive'
  <2> SUFFICES ASSUME NEW p \in Offers, NEW q \in Offers,
                      p # q, PartOf[q] = PartOf[p],
                      offer'[p] = "accepted", offer'[q] = "accepted"
               PROVE  p \in latecomers \/ q \in latecomers
      BY DEF Exclusive
  <2>1. p # o => offer[p] = "accepted"  BY <1>3, <1>4
  <2>2. q # o => offer[q] = "accepted"  BY <1>3, <1>4
  <2> QED  BY <1>1, <2>1, <2>2 DEF Chances, Beaten, Exclusive
<1>7. Gone'
  <2>1. o \notin withdrawn  BY <1>1 DEF Chances, Gone
  <2> QED  BY <2>1, <1>3, <1>4 DEF Chances, Gone, TypeOK
<1>8. offer' \in [Offers -> OfferStates]
      BY DEF Chosen, TypeOK, OfferStates
<1> QED  BY <1>5, <1>6, <1>7, <1>8 DEF Chances

-----------------------------------------------------------------------------
(* The second steps, one by one.                                            *)
LEMMA CreateInv ==
    ASSUME IInv, NEW w \in Workers, Create(w)
    PROVE  RowsOK' /\ Chances'
<1> USE DEF IInv
<1>1. PICK o \in Offers : o = req[w].o
      BY Named DEF Create, At, Ops
<1>2. offer[o] = "none" /\ offer' = [offer EXCEPT ![o] = "pending"]
      /\ (\E r \in Reviewable(o) : review' = [review EXCEPT ![o] = r])
      /\ latecomers' = (IF OnPart(o) \cap Having("accepted") = {}
                        THEN latecomers ELSE latecomers \cup {o})
      BY <1>1 DEF Create
<1>3. withdrawn' = withdrawn /\ UNCHANGED order  BY DEF Create
<1>4. offer'[o] = "pending" /\ \A p \in Offers : p # o => offer'[p] = offer[p]
      BY <1>2 DEF TypeOK
<1>5. RowsOK'
  <2>1. offer' \in [Offers -> OfferStates]  BY <1>2 DEF TypeOK, OfferStates
  <2>2. review' \in [Offers -> Reviews]
        BY <1>2 DEF TypeOK, Reviewable, Reviews
  <2>3. latecomers' \subseteq Offers  BY <1>2 DEF TypeOK
  <2> QED  BY <1>3, <2>1, <2>2, <2>3 DEF TypeOK, RowsOK, order
<1>6. \A p \in Offers : p # o /\ PartOf[p] = PartOf[o] /\ offer[p] = "accepted"
                        => o \in latecomers'
      BY <1>2 DEF OnPart, Having
<1>7. latecomers \subseteq latecomers'  BY <1>2
<1>8. Beaten'  BY <1>4, <1>6, <1>7 DEF Chances, Beaten
<1>9. Exclusive'  BY <1>4, <1>7 DEF Chances, Exclusive
<1>10. Gone'  BY <1>2, <1>3, <1>4 DEF Chances, Gone, TypeOK
<1> QED  BY <1>5, <1>8, <1>9, <1>10 DEF Chances

LEMMA RetractInv ==
    ASSUME IInv, NEW w \in Workers, Retract(w)
    PROVE  RowsOK' /\ Chances'
<1> USE DEF IInv
<1>1. PICK o \in Offers : o = req[w].o
      BY Named DEF Retract, At, Ops
<1>2. offer' = [offer EXCEPT ![o] = "withdrawn"] /\ withdrawn' = withdrawn \cup {o}
      BY <1>1 DEF Retract
<1>3. UNCHANGED <<order, review, latecomers>>  BY DEF Retract
<1>4. Chances'  BY <1>2, <1>3, PutAside
<1>5. RowsOK'  BY <1>2, <1>3 DEF TypeOK, RowsOK, OfferStates, order
<1> QED  BY <1>4, <1>5

LEMMA ExpireInv ==
    ASSUME IInv, NEW w \in Workers, Expire(w) \/ ExpireUnresolved(w)
    PROVE  RowsOK' /\ Chances'
<1> USE DEF IInv
<1>1. PICK o \in Offers : ExpireReview(o)
      BY Named DEF Expire, ExpireUnresolved, At, Ops
<1>2. \/ /\ offer' = [offer EXCEPT ![o] = "withdrawn"]
         /\ withdrawn' = withdrawn \cup {o}
         /\ review' = [review EXCEPT ![o] = "EXPIRED"]
      \/ UNCHANGED <<offer, withdrawn, review>>
      BY <1>1 DEF ExpireReview
<1>3. UNCHANGED <<order, latecomers>>  BY DEF Expire, ExpireUnresolved
<1>4. Chances'  BY <1>2, <1>3, PutAside, BidsUntouched
<1>5. RowsOK'  BY <1>2, <1>3 DEF TypeOK, RowsOK, OfferStates, Reviews, order
<1> QED  BY <1>4, <1>5

LEMMA RejectInv ==
    ASSUME IInv, NEW w \in Workers, Reject(w)
    PROVE  RowsOK' /\ Chances'
<1> USE DEF IInv
<1>1. PICK o \in Offers : o = req[w].o
      BY Named DEF Reject, At, Ops
<1>2. offer' = [offer EXCEPT ![o] = "rejected"]  BY <1>1 DEF Reject
<1>3. UNCHANGED <<order, withdrawn, review, latecomers>>  BY DEF Reject
<1>4. Chances'  BY <1>2, <1>3, PutAside
<1>5. RowsOK'  BY <1>2, <1>3 DEF TypeOK, RowsOK, OfferStates, order
<1> QED  BY <1>4, <1>5

LEMMA AcceptInv ==
    ASSUME IInv, NEW w \in Workers, AcceptOffer(w) \/ AcceptOfferForPart(w)
    PROVE  RowsOK' /\ Chances'
<1> USE DEF IInv
<1>1. PICK o \in Offers : o = req[w].o
      BY Named DEF AcceptOffer, AcceptOfferForPart, At, Ops
<1>2. (Claimable(o) /\ offer' = Chosen(o)) \/ offer' = offer
      BY <1>1 DEF AcceptOffer, AcceptOfferForPart
<1>3. UNCHANGED <<withdrawn, review, latecomers>>
      BY DEF AcceptOffer, AcceptOfferForPart
<1>4. UNCHANGED order \/ SetStatus("AWAITING_PAYMENT")
      BY DEF AcceptOffer, AcceptOfferForPart, order
<1>5. Chances' /\ offer' \in [Offers -> OfferStates]
      BY <1>2, <1>3, ClaimKeeps, BidsUntouched DEF TypeOK
<1>6. RowsOK'  BY <1>3, <1>4, <1>5 DEF TypeOK, RowsOK, SetStatus, Statuses, order
<1> QED  BY <1>5, <1>6

\* The reviews follow what was read, and name no bid's status.
LEMMA ReviewInv ==
    ASSUME IInv, NEW w \in Workers, Edit(w) \/ Resolve(w)
    PROVE  RowsOK' /\ Chances'
<1> USE DEF IInv
<1>1. PICK o \in Offers : o = req[w].o
      BY Named DEF Edit, Resolve, At, Ops
<1>2. UNCHANGED <<order, offer, withdrawn, latecomers>>  BY DEF Edit, Resolve
<1>3. Chances'  BY <1>2, BidsUntouched
<1>4. CASE Edit(w)
  <2>1. \E r \in Reviews : review' = [review EXCEPT ![o] = r]
        BY <1>1, <1>4 DEF Edit, TypeOK, Reviewable, Reviews
  <2>2. review' \in [Offers -> Reviews]  BY <2>1 DEF TypeOK
  <2> QED  BY <1>2, <1>3, <2>2 DEF TypeOK, RowsOK, order
<1>5. CASE Resolve(w)
  <2> DEFINE decided == IF req[w].held THEN Approved(o) ELSE review
  <2>1. \/ UNCHANGED review \/ review' = decided
        \/ \E odd \in SUBSET Reviewed(o) : review' = Reclassified(decided, o, odd)
        BY <1>1, <1>5 DEF Resolve
  <2>2. decided \in [Offers -> Reviews]  BY DEF TypeOK, Approved, Reviews
  <2>3. ASSUME NEW odd PROVE Reclassified(decided, o, odd) \in [Offers -> Reviews]
    <3> HIDE DEF decided
    <3> QED  BY <2>2 DEF Reclassified, Reviews
  <2>4. review' \in [Offers -> Reviews]
    <3> HIDE DEF decided
    <3> QED  BY <2>1, <2>2, <2>3 DEF TypeOK
  <2> QED  BY <1>2, <1>3, <2>4 DEF TypeOK, RowsOK, order
<1> QED  BY <1>4, <1>5

\* A transition keeps to the statuses, and touches no bid.
LEMMA ApplyInv ==
    ASSUME IInv, NEW w \in Workers, ApplyTransition(w)
    PROVE  RowsOK' /\ Chances'
<1> USE DEF IInv
<1>1. req[w].to \in Statuses
      BY Named, Rules DEF ApplyTransition
<1>2. UNCHANGED bids /\ (UNCHANGED order \/ SetStatus(req[w].to))
      BY DEF ApplyTransition
<1>3. Chances'  BY <1>2, BidsUntouched DEF bids
<1>4. RowsOK'  BY <1>1, <1>2 DEF TypeOK, RowsOK, SetStatus, order, bids
<1> QED  BY <1>3, <1>4

\* The status read again decides where a transition goes.
LEMMA CheckKeeps ==
    ASSUME IInv, NEW w \in Workers, CheckTransition(w)
    PROVE  DOMAIN req' = Workers /\ (\A v \in Workers : Requests(v))'
<1> USE DEF IInv
<1> DEFINE r == IF req[w].to \in TRANSITION_RULES[status] THEN Cas(req[w].to) ELSE Idle
<1>1. req[w].to \in Statuses /\ status \in Statuses
      BY Named DEF CheckTransition, TypeOK
<1>2. IsRequest(r)
  <2>1. CASE req[w].to \in TRANSITION_RULES[status]
        BY <1>1, <2>1 DEF IsRequest, Cas
  <2>2. CASE ~(req[w].to \in TRANSITION_RULES[status])
        BY <2>2 DEF IsRequest
  <2> QED  BY <2>1, <2>2
<1>3. req' = [req EXCEPT ![w] = r]  BY DEF CheckTransition
<1> HIDE DEF r
<1> QED  BY <1>2, <1>3, RequestsKept

\* The enforcement notes what it is to expire, one bid after the other, and then
\* asks for a transition.
LEMMA EnforcementKeeps ==
    ASSUME IInv, NEW w \in Workers,
           ReadUnresolved(w) \/ ExpireUnresolved(w) \/ CountBids(w)
    PROVE  DOMAIN req' = Workers /\ (\A v \in Workers : Requests(v))'
<1> USE DEF IInv
<1>1. CASE ReadUnresolved(w)
  <2> DEFINE left ==
        IF status \in {"COLLECTING_OFFERS", "AWAITING_SELECTION"} /\ stopped
        THEN {o \in Offers : Held(o)} ELSE {}
  <2>1. left \in SUBSET Offers  OBVIOUS
  <2>2. req' = [req EXCEPT ![w] = [op |-> "sweep", left |-> left]]
        BY <1>1 DEF ReadUnresolved
  <2> HIDE DEF left
  <2>3. IsRequest([op |-> "sweep", left |-> left])  BY <2>1 DEF IsRequest
  <2> QED  BY <2>2, <2>3, RequestsKept
<1>2. CASE ExpireUnresolved(w)
  <2>1. PICK o \in req[w].left : req' = [req EXCEPT ![w].left = @ \ {o}]
        BY <1>2 DEF ExpireUnresolved
  <2> DEFINE left == req[w].left \ {o}
  <2>2. /\ req[w].left \subseteq Offers
        /\ req[w] = [op |-> "sweep", left |-> req[w].left]
        BY <1>2, Named DEF ExpireUnresolved
  <2>3. [req[w] EXCEPT !.left = left] = [op |-> "sweep", left |-> left]
        BY <2>2
  <2>4. req' = [req EXCEPT ![w] = [op |-> "sweep", left |-> left]]
        BY <2>1, <2>3
  <2>5. left \in SUBSET Offers  BY <2>2
  <2> HIDE DEF left
  <2>6. IsRequest([op |-> "sweep", left |-> left])  BY <2>5 DEF IsRequest
  <2> QED  BY <2>4, <2>6, RequestsKept
<1>3. CASE CountBids(w)
  <2>1. PICK to \in {"AWAITING_SELECTION", "CANCELLED"} :
            req' = [req EXCEPT ![w] = Transit(to)]
        BY <1>3 DEF CountBids, Revealed
  <2>2. IsRequest(Transit(to))  BY DEF IsRequest
  <2> QED  BY <2>1, <2>2, RequestsKept
<1> QED  BY <1>1, <1>2, <1>3

-----------------------------------------------------------------------------
LEMMA NextInv == IInv /\ [Next]_vars => IInv'
<1> SUFFICES ASSUME IInv, [Next]_vars PROVE IInv'
    OBVIOUS
<1> USE DEF IInv
<1>1. ASSUME NEW w \in Workers, Begin(w) PROVE IInv'
  <2>1. UNCHANGED <<order, bids>>
        /\ DOMAIN req' = Workers /\ (\A v \in Workers : Requests(v))'
        BY <1>1, BeginKeeps
  <2>2. Chances'  BY <2>1, BidsUntouched DEF bids
  <2>3. RowsOK'  BY <2>1 DEF TypeOK, RowsOK, order, bids
  <2> QED  BY <2>1, <2>2, <2>3, TypeLater
<1>2. ASSUME NEW w \in Workers,
             CheckTransition(w) \/ ReadUnresolved(w) \/ CountBids(w)
      PROVE  IInv'
  <2>1. UNCHANGED <<order, bids>>
        BY <1>2 DEF CheckTransition, ReadUnresolved, CountBids
  <2>2. Chances'  BY <2>1, BidsUntouched DEF bids
  <2>3. RowsOK'  BY <2>1 DEF TypeOK, RowsOK, order, bids
  <2>4. DOMAIN req' = Workers /\ (\A v \in Workers : Requests(v))'
        BY <1>2, CheckKeeps, EnforcementKeeps
  <2> QED  BY <2>2, <2>3, <2>4, TypeLater
<1>3. ASSUME NEW w \in Workers, ExpireUnresolved(w) PROVE IInv'
  <2>1. DOMAIN req' = Workers /\ (\A v \in Workers : Requests(v))'
        BY <1>3, EnforcementKeeps
  <2> QED  BY <1>3, <2>1, ExpireInv, TypeLater
<1>4. ASSUME NEW w \in Workers,
             \/ Create(w) \/ Edit(w) \/ Retract(w) \/ Expire(w) \/ Resolve(w)
             \/ AcceptOffer(w) \/ AcceptOfferForPart(w) \/ Reject(w)
             \/ ApplyTransition(w)
      PROVE  IInv'
  <2>1. RowsOK' /\ Chances'
        BY <1>4, CreateInv, RetractInv, ExpireInv, RejectInv, AcceptInv, ReviewInv,
           ApplyInv
  <2>2. Done(w)
        BY <1>4 DEF Create, Edit, Retract, Expire, Resolve, AcceptOffer,
           AcceptOfferForPart, Reject, ApplyTransition
  <2>3. DOMAIN req' = Workers /\ (\A v \in Workers : Requests(v))'
        BY <2>2, DoneKeeps
  <2> QED  BY <2>1, <2>3, TypeLater
<1>5. ASSUME BiddingStops \/ DeadlinePasses \/ Pay \/ UNCHANGED vars PROVE IInv'
  <2>1. UNCHANGED bids /\ req' = req  BY <1>5 DEF BiddingStops, DeadlinePasses, Pay, vars, bids
  <2>2. Chances'  BY <2>1, BidsUntouched DEF bids
  <2>3. status' \in Statuses /\ stopped' \in BOOLEAN /\ due' \in BOOLEAN
        BY <1>5 DEF BiddingStops, DeadlinePasses, Pay, SetStatus, vars, TypeOK, Statuses
  <2>4. RowsOK'  BY <2>1, <2>3 DEF TypeOK, RowsOK, bids
  <2>5. DOMAIN req' = Workers /\ (\A v \in Workers : Requests(v))'
        BY <2>1 DEF TypeOK, Requests, Transit
  <2> QED  BY <2>2, <2>4, <2>5, TypeLater
<1> QED  BY <1>1, <1>2, <1>3, <1>4, <1>5 DEF Next, Continue

LEMMA Invariance == Spec => []IInv
<1> QED  BY InitInv, NextInv, PTL DEF Spec

-----------------------------------------------------------------------------
\* The rows of the order and its bids keep their types, and every transition
\* under way is one the rules allow from the status that was read
\* (OrderStateMachine, transitionStatus), for any number of requests.
THEOREM SelectionTypeCorrect == Spec => []TypeOK
<1>1. IInv => TypeOK  BY DEF IInv
<1> QED  BY Invariance, <1>1, PTL

\* However many accepts overlap, and whatever withdrawals, rejections and expiries
\* they meet, two rivals win a part only if one was made after the other had won
\* (acceptOffer, acceptOfferForPart).
THEOREM RivalsExclude == Spec => []RivalsNeverBothWin
<1>1. IInv => RivalsNeverBothWin
      BY DEF IInv, Chances, Exclusive, RivalsNeverBothWin, Having, Rivals, OnPart
<1> QED  BY Invariance, <1>1, PTL

\* A bid that was withdrawn, deleted by its merchant or expired is neither the
\* customer's choice nor up for it again (cancelByVendor, withdraw,
\* expireUnresolvedShippingReviews).
THEOREM WithdrawnStaysOut == Spec => []WithdrawnNeverWins
<1>1. IInv => WithdrawnNeverWins
      BY DEF IInv, Chances, Gone, WithdrawnNeverWins, Having
<1> QED  BY Invariance, <1>1, PTL

\* No cron, enforcement or request draws an order back to the choice of a bid
\* once it has left the collection (transitionStatus), and none expires a bid that
\* the administrator has approved (expireUnresolvedShippingReviews).
THEOREM DecisionsAreKept == Spec => DecisionsStand
<1> DEFINE A == status' = "AWAITING_SELECTION" /\ status' # status
                => status = "COLLECTING_OFFERS"
<1> DEFINE B == \A o \in Offers : review[o] = "APPROVED" => review'[o] # "EXPIRED"
<1>1. ASSUME IInv, [Next]_vars PROVE A
  <2>1. CASE \E w \in Workers : ApplyTransition(w)
    <3>1. PICK w \in Workers : ApplyTransition(w)  BY <2>1
    <3>2. status' = status \/ (status = req[w].seen /\ status' = req[w].to)
          BY <3>1 DEF ApplyTransition, Unmoved, SetStatus, order
    <3>3. req[w].seen \in Statuses /\ req[w].to \in TRANSITION_RULES[req[w].seen]
          BY <1>1, <3>1, Named DEF ApplyTransition, IInv
    <3> QED  BY <3>2, <3>3, Rules
  <2>2. ASSUME NEW w \in Workers, AcceptOffer(w) \/ AcceptOfferForPart(w) PROVE A
        BY <2>2 DEF AcceptOffer, AcceptOfferForPart, SetStatus, order
  <2>3. ASSUME NEW w \in Workers, Begin(w) PROVE A
        BY <1>1, <2>3, BeginKeeps DEF order, IInv
  <2>4. ASSUME NEW w \in Workers,
               \/ Create(w) \/ Edit(w) \/ Retract(w) \/ Expire(w) \/ Resolve(w)
               \/ Reject(w) \/ ReadUnresolved(w) \/ ExpireUnresolved(w)
               \/ CountBids(w) \/ CheckTransition(w)
        PROVE  A
        BY <2>4 DEF Create, Edit, Retract, Expire, Resolve, Reject, ReadUnresolved,
           ExpireUnresolved, CountBids, CheckTransition, order
  <2>5. CASE BiddingStops \/ DeadlinePasses \/ Pay \/ UNCHANGED vars
        BY <2>5 DEF BiddingStops, DeadlinePasses, Pay, SetStatus, vars
  <2> QED  BY <1>1, <2>1, <2>2, <2>3, <2>4, <2>5 DEF Next, Continue
<1>2. ASSUME IInv, [Next]_vars PROVE B
  <2>. SUFFICES ASSUME NEW p \in Offers, review[p] = "APPROVED"
                PROVE  review'[p] # "EXPIRED"
       OBVIOUS
  <2>1. review \in [Offers -> Reviews] /\ TypeOK
        BY <1>2 DEF IInv, TypeOK
  <2>2. ASSUME NEW w \in Workers, Create(w) \/ Edit(w) PROVE review'[p] # "EXPIRED"
        BY <2>1, <2>2 DEF Create, Edit, Reviewable
  <2>3. ASSUME NEW w \in Workers, Expire(w) \/ ExpireUnresolved(w)
        PROVE  review'[p] # "EXPIRED"
        BY <2>1, <2>3 DEF Expire, ExpireUnresolved, ExpireReview, Expirable, Held
  <2>4. ASSUME NEW w \in Workers, Resolve(w) PROVE review'[p] # "EXPIRED"
    <3> DEFINE r == req[w].o
               decided == IF req[w].held THEN Approved(r) ELSE review
    <3>1. decided[p] = "APPROVED"
          BY <2>1 DEF Approved
    <3>2. \/ review' = review \/ review' = decided
          \/ \E odd \in SUBSET Reviewed(r) : review' = Reclassified(decided, r, odd)
          BY <2>4 DEF Resolve
    <3>3. ASSUME NEW odd, review' = Reclassified(decided, r, odd)
          PROVE  review'[p] # "EXPIRED"
          BY <3>1, <3>3 DEF Reclassified
    <3> HIDE DEF decided
    <3> QED  BY <3>1, <3>2, <3>3
  <2>5. ASSUME NEW w \in Workers, Begin(w) PROVE review'[p] # "EXPIRED"
        BY <2>1, <2>5, BeginKeeps DEF bids
  <2>6. CASE UNCHANGED review
        BY <2>6
  <2>7. ASSUME NEW w \in Workers, Continue(w)
        PROVE  \/ Create(w) \/ Edit(w) \/ Expire(w) \/ ExpireUnresolved(w)
               \/ Resolve(w) \/ UNCHANGED review
        BY <2>7 DEF Continue, Retract, AcceptOffer, AcceptOfferForPart, Reject,
           ReadUnresolved, CountBids, CheckTransition, ApplyTransition, SetStatus, bids
  <2>8. BiddingStops \/ DeadlinePasses \/ Pay \/ UNCHANGED vars => UNCHANGED review
        BY DEF BiddingStops, DeadlinePasses, Pay, SetStatus, bids, vars
  <2> QED  BY <1>2, <2>2, <2>3, <2>4, <2>5, <2>6, <2>7, <2>8 DEF Next
<1> QED  BY <1>1, <1>2, Invariance, PTL DEF Spec, DecisionsStand
=============================================================================
