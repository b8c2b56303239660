---------------------------- MODULE EscrowProofs ----------------------------
(***************************************************************************)
(* Proofs about Escrow for every set of payments and workers, every amount *)
(* and every bound on faults and cases: the types, the merchant share that *)
(* is conserved, Stripe ahead of the ledger, and one release per escrow.   *)
(* Conservation is not inductive as it stands: a request on a payment      *)
(* without an escrow row would move money that was never captured.         *)
(* OnlyCaptured says that there is none.                                   *)
(***************************************************************************)
EXTENDS Escrow, TLAPS

-----------------------------------------------------------------------------
(* The requests in flight.                                                  *)

\* A worker whose next step is named holds a whole request.
LEMMA RequestAt ==
    ASSUME req \in [Workers -> Requests \cup {Idle}],
           NEW w \in Workers, NEW pc \in Pcs, At(w, pc)
    PROVE  req[w] \in Requests
BY DEF At, Idle, Pcs

\* Starting a request keeps the requests well formed.
LEMMA BeginType ==
    ASSUME req \in [Workers -> Requests \cup {Idle}],
           NEW w \in Workers, NEW p \in Payments, NEW pc \in Pcs,
           NEW k \in Askers, Begin(w, p, pc, k)
    PROVE  req' \in [Workers -> Requests \cup {Idle}]
<1> DEFINE r == [pc |-> pc, p |-> p, k |-> k, seen |-> "NONE", prior |-> 0,
                 amt |-> 0, skip |-> FALSE]
<1>1. r \in Requests  BY DEF Requests, EscrowStatuses
<1>2. req' = [req EXCEPT ![w] = r]  BY DEF Begin
<1> HIDE DEF r
<1> QED  BY <1>1, <1>2

\* So does a step of a request to its next step, and its end.
LEMMA GotoType ==
    ASSUME req \in [Workers -> Requests \cup {Idle}],
           NEW w \in Workers, NEW pc \in Pcs,
           req[w] \in Requests, Goto(w, pc)
    PROVE  req' \in [Workers -> Requests \cup {Idle}]
<1>1. [req[w] EXCEPT !.pc = pc] \in Requests  BY DEF Requests
<1> QED  BY <1>1 DEF Goto

LEMMA FinishType ==
    ASSUME req \in [Workers -> Requests \cup {Idle}],
           NEW w \in Workers, Finish(w)
    PROVE  req' \in [Workers -> Requests \cup {Idle}]
BY DEF Finish

-----------------------------------------------------------------------------
(* Type correctness.                                                        *)

LEMMA InitType == Init => TypeOK
BY AmountsAssumption DEF Init, TypeOK, Stages, EscrowStatuses, PaymentStatuses,
   PaymentEscrow, CaseStatuses, OpenStatuses, OwedStates, ExecStatuses, Kinds

\* The environment keeps the types.
LEMMA EnvironmentType ==
    ASSUME TypeOK, NEW p \in Payments, Environment(p)
    PROVE  TypeOK'
<1> USE AmountsAssumption DEF TypeOK, Stages, EscrowStatuses, PaymentStatuses,
        AddTo, Counted, partVars, payVars, bucketVars, ledgerVars, stripeVars,
        caseVars
<1>1. CASE HoldFunds(p)  BY <1>1 DEF HoldFunds
<1>2. CASE Deliver(p)  BY <1>2 DEF Deliver
<1>3. CASE WindowEnds(p)  BY <1>3 DEF WindowEnds
<1>4. CASE CompleteOffer(p)  BY <1>4 DEF CompleteOffer
<1>5. CASE WarrantyEnds(p)  BY <1>5 DEF WarrantyEnds
<1>6. ASSUME NEW e \in events[p], ChargeRefunded(p, e)
      PROVE  TypeOK'
      BY <1>6 DEF ChargeRefunded
<1>7. CASE RetryLapses(p)  BY <1>7 DEF RetryLapses, OwedStates
<1> QED  BY <1>1, <1>2, <1>3, <1>4, <1>5, <1>6, <1>7 DEF Environment

\* Starting a request changes the requests, and the part that is cancelled.
LEMMA StartType ==
    ASSUME TypeOK, NEW w \in Workers, NEW p \in Payments, Start(w, p)
    PROVE  TypeOK'
<1> USE DEF TypeOK, Stages, partVars, payVars, bucketVars, ledgerVars,
        stripeVars, caseVars
<1>1. \A pc \in Pcs, k \in Askers :
          Begin(w, p, pc, k) => req' \in [Workers -> Requests \cup {Idle}]
      BY BeginType
<1> USE <1>1 DEF Pcs, Askers, Kinds
<1>2. CASE StartSettlement(w, p) \/ StartSync(w, p)
      BY <1>2 DEF StartSettlement, StartSync
<1>3. CASE StartAdminRelease(w, p)  BY <1>3 DEF StartAdminRelease
<1>4. ASSUME NEW k \in Kinds, StartOpenCase(w, p, k)
      PROVE  TypeOK'
      BY <1>4 DEF StartOpenCase
<1>5. ASSUME NEW k \in Kinds, StartEscalate(w, p, k)
      PROVE  TypeOK'
      BY <1>5 DEF StartEscalate
<1>6. ASSUME NEW k \in Kinds, StartVerdict(w, p, k)
      PROVE  TypeOK'
      BY <1>6 DEF StartVerdict
<1>7. ASSUME NEW k \in Kinds, RetryVerdict(w, p, k)
      PROVE  TypeOK'
      BY <1>7 DEF RetryVerdict
<1>8. CASE StartCloseReturn(w, p)  BY <1>8 DEF StartCloseReturn
<1>9. CASE CancelPart(w, p)  BY <1>9 DEF CancelPart
<1>10. CASE CancelOrder(w, p)  BY <1>10 DEF CancelOrder
<1>11. CASE RetryPart(w, p)  BY <1>11 DEF RetryPart
<1> QED  BY <1>2, <1>3, <1>4, <1>5, <1>6, <1>7, <1>8, <1>9, <1>10, <1>11 DEF Start

\* The steps of releases, cases and verdicts keep the types.
LEMMA CaseStepType ==
    ASSUME TypeOK, NEW w \in Workers,
           \/ MarkReleasing(w) \/ SettleRelease(w)
           \/ ReadHeld(w) \/ Freeze(w) \/ CreateCase(w)
           \/ CloseReturn(w) \/ ReadFrozen(w) \/ Unfreeze(w) \/ EscalateCase(w)
           \/ ReadAwarded(w) \/ Award(w) \/ DecideRefund(w) \/ MarkOwed(w)
    PROVE  TypeOK'
<1>1. \A pc \in Pcs : At(w, pc) => req[w] \in Requests
      BY RequestAt DEF TypeOK
<1>2. \A pc \in Pcs : req[w] \in Requests /\ Goto(w, pc)
          => req' \in [Workers -> Requests \cup {Idle}]
      BY GotoType DEF TypeOK
<1>3. Finish(w) => req' \in [Workers -> Requests \cup {Idle}]
      BY FinishType DEF TypeOK
<1>4. req[w] \in Requests => req[w].p \in Payments  BY DEF Requests
<1> USE AmountsAssumption, <1>1, <1>4 DEF TypeOK, Pcs, EscrowStatuses, PaymentEscrow,
        AddTo, Counted, partVars, payVars, bucketVars, ledgerVars, stripeVars,
        caseVars
<1>5. CASE MarkReleasing(w)  BY <1>2, <1>5 DEF MarkReleasing
<1>6. CASE SettleRelease(w)
  <2>1. req[w].p \in Payments  BY <1>6 DEF SettleRelease
  <2>2. req' \in [Workers -> Requests \cup {Idle}]  BY <1>3, <1>6 DEF SettleRelease
  <2>3. Merchant[req[w].p] \in Int  BY <2>1
  <2>4. /\ escrow' \in [Payments -> EscrowStatuses]
        /\ payEscrow' \in [Payments -> PaymentEscrow]
        BY <1>6, <2>1 DEF SettleRelease, PayMerchant
  <2>5. /\ pending' \in [Payments -> Int]
        /\ balance' \in [Payments -> Int]
        /\ releases' \in [Payments -> Nat]
    <3> DEFINE q == req[w].p
    <3>1. CASE UNCHANGED <<pending, balance, releases>>  BY <3>1
    <3>2. CASE PayMerchant(q)  BY <3>2, <2>1, <2>3 DEF PayMerchant
    <3> QED  BY <1>6, <3>1, <3>2 DEF SettleRelease
  <2> QED  BY <1>6, <2>2, <2>4, <2>5 DEF SettleRelease
<1>7. CASE ReadHeld(w)  BY <1>2, <1>3, <1>7 DEF ReadHeld
<1>8. CASE Freeze(w)  BY <1>2, <1>8 DEF Freeze
<1>9. CASE CreateCase(w)
      BY <1>3, <1>9 DEF CreateCase, CaseStatuses, OpenStatuses, ExecStatuses
<1>10. CASE CloseReturn(w)
       BY <1>2, <1>10 DEF CloseReturn, ClosedAs, CaseStatuses
<1>11. CASE ReadFrozen(w)  BY <1>2, <1>3, <1>11 DEF ReadFrozen
<1>12. CASE Unfreeze(w)  BY <1>3, <1>12 DEF Unfreeze
<1>13. CASE EscalateCase(w)
       BY <1>3, <1>13 DEF EscalateCase, CaseStatuses, OpenStatuses
<1>14. CASE ReadAwarded(w)
  <2> DEFINE s == IF escrow[req[w].p] \in {"HELD", "FROZEN"}
                  THEN escrow[req[w].p] ELSE "NONE"
  <2>1. req[w] \in Requests  BY <1>14 DEF ReadAwarded
  <2>2. [req[w] EXCEPT !.pc = "awarding", !.seen = s] \in Requests
        BY <2>1 DEF Requests
  <2>3. req' = [req EXCEPT ![w] = [req[w] EXCEPT !.pc = "awarding", !.seen = s]]
        BY <1>14 DEF ReadAwarded
  <2> QED  BY <1>14, <2>2, <2>3 DEF ReadAwarded
<1>15. CASE Award(w)
  <2>1. req[w].p \in Payments  BY <1>15 DEF Award
  <2>2. req' \in [Workers -> Requests \cup {Idle}]  BY <1>3, <1>15 DEF Award
  <2>3. Merchant[req[w].p] \in Int  BY <2>1
  <2>4. /\ escrow' \in [Payments -> EscrowStatuses]
        /\ pending' \in [Payments -> Int]
        /\ frozen' \in [Payments -> Int]
        /\ balance' \in [Payments -> Int]
        /\ awards' \in [Payments -> Nat]
        /\ commission' \in [Payments -> Nat]
    <3> DEFINE q == req[w].p
    <3>1. CASE UNCHANGED <<escrow, bucketVars, awards, commission>>  BY <3>1
    <3>2. ASSUME /\ escrow' = [escrow EXCEPT ![q] = "RELEASED"]
                 /\ IF AwardsFrozen(w)
                    THEN AddTo(frozen, q, -Merchant[q]) /\ UNCHANGED pending
                    ELSE AddTo(pending, q, -Merchant[q]) /\ UNCHANGED frozen
                 /\ AddTo(balance, q, Merchant[q])
                 /\ Counted(awards, q)
                 /\ Counted(commission, q)
          PROVE  /\ escrow' \in [Payments -> EscrowStatuses]
                 /\ pending' \in [Payments -> Int]
                 /\ frozen' \in [Payments -> Int]
                 /\ balance' \in [Payments -> Int]
                 /\ awards' \in [Payments -> Nat]
                 /\ commission' \in [Payments -> Nat]
          BY <3>2, <2>1, <2>3
    <3> QED  BY <1>15, <3>1, <3>2 DEF Award
  <2>6. /\ case' \in [Payments -> [Kinds -> CaseStatuses]]
        /\ verdictLocked' \in [Payments -> [Kinds -> BOOLEAN]]
        /\ exec' \in [Payments -> [Kinds -> ExecStatuses]]
        /\ stage' \in [Payments -> Stages]
        /\ locked' \in [Payments -> BOOLEAN]
        BY <1>15 DEF Award, CaseStatuses, ExecStatuses, Stages
  <2> QED  BY <1>15, <2>2, <2>4, <2>6 DEF Award
<1>16. CASE DecideRefund(w)
  <2>1. req' \in [Workers -> Requests \cup {Idle}]  BY <1>2, <1>16 DEF DecideRefund
  <2>2. /\ case' \in [Payments -> [Kinds -> CaseStatuses]]
        /\ stage' \in [Payments -> Stages]
    <3> DEFINE p == req[w].p
               k == req[w].k
    <3>1. CASE /\ case' = [case EXCEPT ![p][k] = "APPROVED"]
               /\ UNCHANGED stage
          BY <3>1 DEF CaseStatuses
    <3>2. CASE /\ case' = [case EXCEPT ![p][k] = "REFUNDED"]
               /\ stage' = [stage EXCEPT ![p] = "CANCELLED"]
          BY <3>2 DEF CaseStatuses, Stages
    <3> QED  BY <1>16, <3>1, <3>2 DEF DecideRefund
  <2>3. /\ verdictLocked' \in [Payments -> [Kinds -> BOOLEAN]]
        /\ exec' \in [Payments -> [Kinds -> ExecStatuses]]
        /\ locked' \in [Payments -> BOOLEAN]
        BY <1>16 DEF DecideRefund, ExecStatuses
  <2> QED  BY <1>16, <2>1, <2>2, <2>3 DEF DecideRefund
<1>17. CASE MarkOwed(w)  BY <1>3, <1>17 DEF MarkOwed, Owes, OwedStates
<1> QED
    BY <1>5, <1>6, <1>7, <1>8, <1>9, <1>10, <1>11, <1>12, <1>13, <1>14, <1>15,
       <1>16, <1>17

\* What a request wants to refund is an amount; a verdict wants a positive one.
LEMMA RequestedType ==
    ASSUME TypeOK, NEW p \in Payments, NEW k \in Askers,
           NEW target \in Targets(p, k)
    PROVE  /\ Requested(p, k, target) \in Int
           /\ k \in Kinds => Requested(p, k, target) > 0
<1>1. target \in Nat /\ (k \in Kinds => target = Verdict[p])
  <2>1. CASE k \in Kinds  BY <2>1, AmountsAssumption DEF Targets, Kinds
  <2>2. CASE k = "part"  BY <2>2, AmountsAssumption DEF Targets, Kinds
  <2>3. CASE k \notin Kinds /\ k # "part"
        BY <2>3, AmountsAssumption DEF Targets, Kinds
  <2> QED  BY <2>1, <2>2, <2>3
<1> QED  BY <1>1, AmountsAssumption DEF Requested, TypeOK

\* The amount sent to Stripe is positive.
LEMMA AmountWithinRest ==
    ASSUME TypeOK, NEW p \in Payments, NEW wanted \in Int,
           wanted > 0, MaxRefundable(p) > 0
    PROVE  /\ MinOf(wanted, MaxRefundable(p)) \in Nat
           /\ MinOf(wanted, MaxRefundable(p)) > 0
           /\ MinOf(wanted, MaxRefundable(p)) <= wanted
           /\ MinOf(wanted, MaxRefundable(p)) <= Paid[p] - refunded[p]
           /\ MinOf(wanted, MaxRefundable(p)) <= Paid[p] - chargeBack[p]
BY AmountsAssumption DEF TypeOK, MaxRefundable, MinOf

\* The steps of a refund keep the types.
LEMMA RefundStepType ==
    ASSUME TypeOK, NEW w \in Workers,
           \/ \E t \in Targets(req[w].p, req[w].k) : FixTarget(w, t)
           \/ ReadRows(w) \/ FixAmount(w)
           \/ CallStripe(w) \/ CheckApplied(w) \/ ApplyRefund(w)
    PROVE  TypeOK'
<1> DEFINE p == req[w].p
           k == req[w].k
<1>1. req[w] \in Requests
      BY RequestAt DEF TypeOK, FixTarget, ReadRows, FixAmount, CallStripe,
         CheckApplied, ApplyRefund, Pcs
<1>2. /\ p \in Payments /\ k \in Askers
      /\ req[w].amt \in Nat /\ req[w].prior \in Nat
      BY <1>1 DEF Requests
<1>3. Finish(w) => req' \in [Workers -> Requests \cup {Idle}]
      BY FinishType DEF TypeOK
<1>4. \A pc \in Pcs : Goto(w, pc) => req' \in [Workers -> Requests \cup {Idle}]
      BY <1>1, GotoType DEF TypeOK
<1>5. RefundError(w) => /\ exec' \in [Payments -> [Kinds -> ExecStatuses]]
                        /\ owed' \in [Payments -> OwedStates]
                        /\ req' \in [Workers -> Requests \cup {Idle}]
      BY <1>2, <1>3 DEF RefundError, Owes, OwedStates, TypeOK, ExecStatuses
<1> USE DEF TypeOK, partVars, payVars, bucketVars, ledgerVars, stripeVars, caseVars
<1>6. ASSUME NEW t \in Targets(p, k), FixTarget(w, t)
      PROVE  TypeOK'
  <2> DEFINE wanted == Requested(p, k, t)
  <2>1. /\ exec' \in [Payments -> [Kinds -> ExecStatuses]]
        /\ owed' \in [Payments -> OwedStates]
    <3>1. CASE owed' = [owed EXCEPT ![p] = "no"] /\ UNCHANGED exec
          BY <3>1 DEF OwedStates
    <3>2. CASE /\ exec' = IF k \in Kinds
                          THEN [exec EXCEPT ![p][k] = "PROCESSING"] ELSE exec
               /\ UNCHANGED owed
          BY <3>2 DEF ExecStatuses
    <3> QED  BY <1>6, <3>1, <3>2 DEF FixTarget
  <2>2. req' \in [Workers -> Requests \cup {Idle}]
    <3>1. CASE Finish(w)  BY <3>1, <1>3
    <3>2. CASE /\ k \in Kinds \/ wanted > 0
               /\ req' = [req EXCEPT ![w].pc = "reading", ![w].amt = wanted]
      <4>1. wanted \in Int /\ wanted > 0  BY <1>2, <3>2, RequestedType
      <4>4. wanted \in Nat  BY <4>1
      <4> HIDE DEF wanted
      <4>2. [req[w] EXCEPT !.pc = "reading", !.amt = wanted] \in Requests
            BY <1>1, <4>4 DEF Requests, Pcs
      <4>3. req' = [req EXCEPT ![w] =
                [req[w] EXCEPT !.pc = "reading", !.amt = wanted]]
            BY <3>2
      <4> QED  BY <4>2, <4>3
    <3> QED  BY <1>6, <3>1, <3>2 DEF FixTarget
  <2> QED  BY <1>6, <2>1, <2>2 DEF FixTarget
<1>10. CASE ReadRows(w)
  <2>1. escrow[p] \in EscrowStatuses /\ refunded[p] \in Nat  BY <1>2
  <2>2. [req[w] EXCEPT !.pc = "limiting", !.seen = escrow[p],
                       !.prior = refunded[p]] \in Requests
        BY <1>1, <2>1 DEF Requests, Pcs
  <2>3. req' = [req EXCEPT ![w] =
            [req[w] EXCEPT !.pc = "limiting", !.seen = escrow[p],
                           !.prior = refunded[p]]]
        BY <1>10 DEF ReadRows
  <2>4. req' \in [Workers -> Requests \cup {Idle}]  BY <2>2, <2>3
  <2> QED  BY <1>10, <2>4 DEF ReadRows
<1>11. CASE FixAmount(w)
  <2>1. ASSUME NEW pc \in Pcs, NEW n \in Nat,
               req' = [req EXCEPT ![w].pc = pc, ![w].amt = n]
        PROVE  req' \in [Workers -> Requests \cup {Idle}]
    <3>1. [req[w] EXCEPT !.pc = pc, !.amt = n] \in Requests
          BY <1>1 DEF Requests
    <3>2. req' = [req EXCEPT ![w] = [req[w] EXCEPT !.pc = pc, !.amt = n]]
          BY <2>1
    <3> QED  BY <3>1, <3>2
  <2>2. CASE RefundError(w)  BY <1>5, <1>11, <2>2 DEF FixAmount
  <2>3. CASE /\ UNCHANGED <<exec, owed>>
             /\ req' = [req EXCEPT
                    ![w].pc = IF k \in Kinds THEN "checking" ELSE "applying",
                    ![w].amt = chargeBack[p]]
    <3>1. chargeBack[p] \in Nat  BY <1>2
    <3>2. req' \in [Workers -> Requests \cup {Idle}]  BY <2>1, <2>3, <3>1 DEF Pcs
    <3> QED  BY <1>11, <2>3, <3>2 DEF FixAmount
  <2>4. CASE /\ UNCHANGED <<exec, owed>>
             /\ MaxRefundable(p) > 0
             /\ req' = [req EXCEPT ![w].pc = "charging",
                                   ![w].amt = MinOf(@, MaxRefundable(p))]
    <3>1. MinOf(req[w].amt, MaxRefundable(p)) \in Nat
          BY <1>2, <2>4, AmountsAssumption DEF MinOf, MaxRefundable
    <3>2. req' = [req EXCEPT ![w].pc = "charging",
                             ![w].amt = MinOf(req[w].amt, MaxRefundable(p))]
          BY <2>4
    <3>3. req' \in [Workers -> Requests \cup {Idle}]  BY <2>1, <3>1, <3>2 DEF Pcs
    <3> QED  BY <1>11, <2>4, <3>3 DEF FixAmount
  <2> QED  BY <1>11, <2>2, <2>3, <2>4 DEF FixAmount
<1>7. CASE CallStripe(w)
  <2>1. /\ req' \in [Workers -> Requests \cup {Idle}]
        /\ exec' \in [Payments -> [Kinds -> ExecStatuses]]
        /\ owed' \in [Payments -> OwedStates]
        BY <1>4, <1>5, <1>7 DEF CallStripe, Pcs
  <2>2. /\ charge' \in [Payments -> SUBSET Nat]
        /\ chargeBack' \in [Payments -> Nat]
        /\ events' \in [Payments -> SUBSET Nat]
    <3> DEFINE a == req[w].amt
    <3>1. CASE UNCHANGED stripeVars  BY <3>1
    <3>2. CASE /\ charge' = [charge EXCEPT ![p] = @ \cup {a}]
               /\ chargeBack' = [chargeBack EXCEPT ![p] = @ + a]
               /\ events' = [events EXCEPT ![p] = @ \cup {chargeBack[p] + a}]
      <4>1. a \in Nat /\ chargeBack[p] + a \in Nat  BY <1>2
      <4> HIDE DEF a
      <4> QED  BY <1>2, <3>2, <4>1
    <3> QED  BY <1>7, <3>1, <3>2 DEF CallStripe
  <2> QED  BY <1>7, <2>1, <2>2 DEF CallStripe
<1>8. CASE CheckApplied(w)
  <2> DEFINE b == refunded[p] >= req[w].amt /\ payEscrow[p] = "REFUNDED"
  <2>1. b \in BOOLEAN  OBVIOUS
  <2>2. req' = [req EXCEPT ![w] = [req[w] EXCEPT !.pc = "applying", !.skip = b]]
        BY <1>8 DEF CheckApplied
  <2> HIDE DEF b
  <2>3. [req[w] EXCEPT !.pc = "applying", !.skip = b] \in Requests
        BY <1>1, <2>1 DEF Requests, Pcs
  <2>4. req' \in [Workers -> Requests \cup {Idle}]  BY <2>2, <2>3
  <2> QED  BY <1>8, <2>4 DEF CheckApplied
<1>9. CASE ApplyRefund(w)
  <2>1. /\ escrow' \in [Payments -> EscrowStatuses]
        /\ payStatus' \in [Payments -> PaymentStatuses]
        /\ payEscrow' \in [Payments -> PaymentEscrow]
        /\ refunded' \in [Payments -> Nat]
        /\ pending' \in [Payments -> Int]
        /\ frozen' \in [Payments -> Int]
        /\ balance' \in [Payments -> Int]
        /\ debits' \in [Payments -> Nat]
    <3>1. CASE UNCHANGED <<escrow, payVars, bucketVars, debits>>  BY <3>1
    <3>2. CASE ApplyLedger(w)
      <4>1. /\ escrow' \in [Payments -> EscrowStatuses]
            /\ payStatus' \in [Payments -> PaymentStatuses]
            /\ payEscrow' \in [Payments -> PaymentEscrow]
            /\ refunded' \in [Payments -> Nat]
            BY <1>2, <3>2 DEF ApplyLedger, EscrowStatuses, PaymentEscrow, PaymentStatuses
      <4>2. Merchant[p] \in Int  BY <1>2, AmountsAssumption
      <4>3. /\ pending' \in [Payments -> Int]
            /\ frozen' \in [Payments -> Int]
            /\ balance' \in [Payments -> Int]
        <5>1. pending' \in [Payments -> Int]
              BY <1>2, <3>2, <4>2 DEF ApplyLedger, AddTo
        <5>2. frozen' \in [Payments -> Int]
              BY <1>2, <3>2, <4>2 DEF ApplyLedger, AddTo
        <5>3. balance' \in [Payments -> Int]
              BY <1>2, <3>2, <4>2 DEF ApplyLedger, AddTo
        <5> QED  BY <5>1, <5>2, <5>3
      <4>4. debits' \in [Payments -> Nat]
        <5>1. CASE UNCHANGED debits  BY <5>1
        <5>2. CASE Counted(debits, p)  BY <1>2, <5>2 DEF Counted
        <5> QED  BY <3>2, <5>1, <5>2 DEF ApplyLedger
      <4> QED  BY <4>1, <4>3, <4>4
    <3> QED  BY <1>9, <3>1, <3>2 DEF ApplyRefund
  <2>2. /\ exec' \in [Payments -> [Kinds -> ExecStatuses]]
        /\ stage' \in [Payments -> Stages]
        /\ locked' \in [Payments -> BOOLEAN]
        /\ owed' \in [Payments -> OwedStates]
    <3>1. CASE k \in Kinds
      <4>1. /\ exec' = [exec EXCEPT ![p][k] = "SUCCEEDED"]
            /\ stage' = [stage EXCEPT ![p] = "CANCELLED"]
            /\ locked' = [locked EXCEPT ![p] = TRUE]
            /\ UNCHANGED owed
            BY <1>9, <3>1 DEF ApplyRefund
      <4> QED  BY <4>1 DEF ExecStatuses, Stages
    <3>2. CASE k \notin Kinds
      <4>1. /\ owed' = IF k = "part" THEN [owed EXCEPT ![p] = "no"] ELSE owed
            /\ UNCHANGED <<exec, stage, locked>>
            BY <1>9, <3>2 DEF ApplyRefund
      <4> QED  BY <4>1 DEF OwedStates
    <3> QED  BY <3>1, <3>2
  <2> QED  BY <1>3, <1>9, <2>1, <2>2 DEF ApplyRefund
<1> QED  BY <1>6, <1>7, <1>8, <1>9, <1>10, <1>11

\* A fault ends the request and keeps the types.
LEMMA FaultType ==
    ASSUME TypeOK, NEW w \in Workers, Crash(w) \/ RefundFails(w)
    PROVE  TypeOK'
<1> USE DEF TypeOK, partVars, payVars, bucketVars, ledgerVars, stripeVars, caseVars
<1>1. Finish(w) => req' \in [Workers -> Requests \cup {Idle}]
      BY FinishType
<1>2. CASE Crash(w)  BY <1>1, <1>2 DEF Crash
<1>3. CASE RefundFails(w)
  <2>1. RefundError(w)  BY <1>3 DEF RefundFails
  <2>2. exec' \in [Payments -> [Kinds -> ExecStatuses]]
    <3>1. CASE exec' = [exec EXCEPT ![req[w].p][req[w].k] = "FAILED"]
          BY <3>1 DEF ExecStatuses
    <3> QED  BY <2>1, <3>1 DEF RefundError
  <2>3. owed' \in [Payments -> OwedStates]
    <3>1. CASE Owes(req[w].p)  BY <3>1 DEF Owes, OwedStates
    <3>2. CASE UNCHANGED owed  BY <3>2
    <3> QED  BY <2>1, <3>1, <3>2 DEF RefundError
  <2>4. req' \in [Workers -> Requests \cup {Idle}]  BY <1>1, <2>1 DEF RefundError
  <2> QED  BY <1>3, <2>2, <2>3, <2>4 DEF RefundFails
<1> QED  BY <1>2, <1>3

\* Every step of the system is one of these.
LEMMA NextType == TypeOK /\ [Next]_vars => TypeOK'
<1> SUFFICES ASSUME TypeOK, [Next]_vars
             PROVE  TypeOK'
    OBVIOUS
<1>1. CASE UNCHANGED vars
      BY <1>1 DEF vars, TypeOK, partVars, payVars, bucketVars, ledgerVars,
         stripeVars, caseVars
<1>2. ASSUME NEW p \in Payments, Environment(p)
      PROVE  TypeOK'
      BY <1>2, EnvironmentType
<1>3. ASSUME NEW w \in Workers, NEW p \in Payments, Start(w, p)
      PROVE  TypeOK'
      BY <1>3, StartType
<1>4. ASSUME NEW w \in Workers, Continue(w)
      PROVE  TypeOK'
      BY <1>4, CaseStepType, RefundStepType DEF Continue
<1>5. ASSUME NEW w \in Workers, Crash(w) \/ RefundFails(w)
      PROVE  TypeOK'
      BY <1>5, FaultType
<1> QED  BY <1>1, <1>2, <1>3, <1>4, <1>5 DEF Next

\* The rows, counters and requests keep their types (TypeOK) whatever the
\* payments, the workers, the amounts and the bounds.
THEOREM TypeCorrect == Spec => []TypeOK
<1>1. Init => TypeOK  BY InitType
<1>2. TypeOK /\ [Next]_vars => TypeOK'  BY NextType
<1> QED  BY <1>1, <1>2, PTL DEF Spec

-----------------------------------------------------------------------------
(* A step of a request in flight concerns its worker and its payment only.  *)

Advances(w) ==
    /\ req[w] \in Requests
    /\ \A v \in Workers : v # w => req'[v] = req[v]
    /\ req'[w].pc = "idle" \/ req'[w].p = req[w].p

LEMMA GotoAdvances ==
    ASSUME TypeOK, NEW w \in Workers, req[w] \in Requests,
           NEW pc \in Pcs, Goto(w, pc)
    PROVE  Advances(w)
<1>1. [req[w] EXCEPT !.pc = pc].p = req[w].p  BY DEF Requests
<1>2. req'[w] = [req[w] EXCEPT !.pc = pc]  BY DEF Goto, TypeOK
<1>3. \A v \in Workers : v # w => req'[v] = req[v]  BY DEF Goto, TypeOK
<1> QED  BY <1>1, <1>2, <1>3 DEF Advances

LEMMA FinishAdvances ==
    ASSUME TypeOK, NEW w \in Workers, req[w] \in Requests, Finish(w)
    PROVE  Advances(w)
<1>1. req'[w] = Idle  BY DEF Finish, TypeOK
<1>2. \A v \in Workers : v # w => req'[v] = req[v]  BY SMTT(20) DEF Finish, TypeOK
<1> QED  BY <1>1, <1>2 DEF Idle, Advances

LEMMA ContinueAdvances ==
    ASSUME TypeOK, NEW w \in Workers, Continue(w)
    PROVE  Advances(w)
<1>1. req[w] \in Requests
      BY RequestAt DEF TypeOK, Pcs, Continue, MarkReleasing, SettleRelease, ReadHeld,
         Freeze, CreateCase, CloseReturn, ReadFrozen, Unfreeze, EscalateCase,
         ReadAwarded, Award, DecideRefund, MarkOwed, ReadRows, FixAmount,
         CallStripe, CheckApplied, ApplyRefund
<1>2. CASE Finish(w)  BY <1>1, <1>2, FinishAdvances
<1>3. ASSUME NEW pc \in Pcs, Goto(w, pc)
      PROVE  Advances(w)
      BY <1>1, <1>3, GotoAdvances
<1>4. ASSUME NEW r, req' = [req EXCEPT ![w] = r], r.p = req[w].p
      PROVE  Advances(w)
      BY <1>1, <1>4 DEF Advances, TypeOK
<1>5. CASE ReadAwarded(w)
  <2> DEFINE s == IF escrow[req[w].p] \in {"HELD", "FROZEN"}
                  THEN escrow[req[w].p] ELSE "NONE"
             r == [req[w] EXCEPT !.pc = "awarding", !.seen = s]
  <2>1. r.p = req[w].p  BY <1>1 DEF Requests
  <2>2. req' = [req EXCEPT ![w] = r]  BY <1>5 DEF ReadAwarded
  <2> HIDE DEF r
  <2> QED  BY <1>4, <2>1, <2>2
<1>6. CASE CheckApplied(w)
  <2> DEFINE b == refunded[req[w].p] >= req[w].amt /\ payEscrow[req[w].p] = "REFUNDED"
             r == [req[w] EXCEPT !.pc = "applying", !.skip = b]
  <2>1. r.p = req[w].p  BY <1>1 DEF Requests
  <2>2. req' = [req EXCEPT ![w] = r]  BY <1>6 DEF CheckApplied
  <2> HIDE DEF r
  <2> QED  BY <1>4, <2>1, <2>2
<1>7. ASSUME NEW pc, NEW n, req' = [req EXCEPT ![w].pc = pc, ![w].amt = n]
      PROVE  Advances(w)
  <2> DEFINE r == [req[w] EXCEPT !.pc = pc, !.amt = n]
  <2>1. r.p = req[w].p  BY <1>1 DEF Requests
  <2>2. req' = [req EXCEPT ![w] = r]  BY <1>7
  <2> HIDE DEF r
  <2> QED  BY <1>4, <2>1, <2>2
<1>8. ASSUME NEW t \in Targets(req[w].p, req[w].k), FixTarget(w, t)
      PROVE  Advances(w)
      BY <1>2, <1>7, <1>8 DEF FixTarget
<1>9. CASE ReadRows(w)
  <2> DEFINE r == [req[w] EXCEPT !.pc = "limiting", !.seen = escrow[req[w].p],
                                 !.prior = refunded[req[w].p]]
  <2>1. r.p = req[w].p  BY <1>1 DEF Requests
  <2>2. req' = [req EXCEPT ![w] = r]  BY <1>9 DEF ReadRows
  <2> HIDE DEF r
  <2> QED  BY <1>4, <2>1, <2>2
<1>10. CASE FixAmount(w)
  <2> DEFINE n == MinOf(req[w].amt, MaxRefundable(req[w].p))
  <2>1. ASSUME req' = [req EXCEPT ![w].pc = "charging",
                                  ![w].amt = MinOf(@, MaxRefundable(req[w].p))]
        PROVE  Advances(w)
    <3>1. req' = [req EXCEPT ![w].pc = "charging", ![w].amt = n]  BY <2>1
    <3> QED  BY <1>7, <3>1
  <2> QED  BY <1>2, <1>7, <1>10, <2>1 DEF FixAmount, RefundError
<1> QED
    BY <1>2, <1>3, <1>5, <1>6, <1>8, <1>9, <1>10 DEF Pcs, Continue, MarkReleasing, SettleRelease,
       ReadHeld, Freeze, CreateCase, CloseReturn, ReadFrozen, Unfreeze,
       EscalateCase, Award, DecideRefund, MarkOwed, CallStripe, ApplyRefund,
       RefundError

\* The rows of a payment that the invariants read.
SameRows(q) ==
    /\ stage'[q] = stage[q] /\ escrow'[q] = escrow[q] /\ owed'[q] = owed[q]
    /\ case'[q] = case[q] /\ verdictLocked'[q] = verdictLocked[q]
    /\ pending'[q] = pending[q] /\ frozen'[q] = frozen[q]
    /\ balance'[q] = balance[q] /\ debits'[q] = debits[q]
    /\ releases'[q] = releases[q] /\ awards'[q] = awards[q]
    /\ locked'[q] = locked[q] /\ payEscrow'[q] = payEscrow[q]
    /\ chargeBack'[q] = chargeBack[q] /\ charge'[q] = charge[q]
    /\ events'[q] = events[q] /\ refunded'[q] = refunded[q]

\* A step of a request changes the rows of its own payment only, and never
\* removes an escrow row.
LEMMA ContinueKeepsRows ==
    ASSUME TypeOK, NEW w \in Workers, Continue(w)
    PROVE  /\ \A q \in Payments : q # req[w].p => SameRows(q)
           /\ escrow'[req[w].p] = escrow[req[w].p] \/ escrow'[req[w].p] # "NONE"
<1>1. req[w] \in Requests  BY ContinueAdvances DEF Advances
<1>2. req[w].p \in Payments  BY <1>1 DEF Requests
<1> USE <1>2 DEF TypeOK, SameRows, AddTo, Counted, partVars, payVars, bucketVars,
        ledgerVars, stripeVars, caseVars
<1>3. CASE MarkReleasing(w)  BY <1>3 DEF MarkReleasing
<1>4. CASE SettleRelease(w)  BY <1>4 DEF SettleRelease, PayMerchant
<1>5. CASE ReadHeld(w)  BY <1>5 DEF ReadHeld
<1>6. CASE Freeze(w)  BY <1>6 DEF Freeze
<1>7. CASE CreateCase(w)  BY <1>7 DEF CreateCase
<1>8. CASE CloseReturn(w)  BY <1>8 DEF CloseReturn
<1>9. CASE ReadFrozen(w)  BY <1>9 DEF ReadFrozen
<1>10. CASE Unfreeze(w)  BY <1>10 DEF Unfreeze
<1>11. CASE EscalateCase(w)  BY <1>11 DEF EscalateCase
<1>12. CASE ReadAwarded(w)  BY <1>12 DEF ReadAwarded
<1>13. CASE Award(w)  BY <1>13 DEF Award
<1>14. CASE DecideRefund(w)  BY <1>14 DEF DecideRefund
<1>15. CASE MarkOwed(w)  BY <1>15 DEF MarkOwed, Owes
<1>16. ASSUME \/ \E t \in Targets(req[w].p, req[w].k) : FixTarget(w, t)
              \/ ReadRows(w) \/ FixAmount(w)
       PROVE  /\ \A q \in Payments : q # req[w].p => SameRows(q)
              /\ escrow' = escrow
  <2>1. \A q \in Payments : q # req[w].p => owed'[q] = owed[q]
        BY <1>16 DEF FixTarget, ReadRows, FixAmount, RefundError, Owes
  <2> QED  BY <1>16, <2>1 DEF FixTarget, ReadRows, FixAmount
<1>17. CASE CallStripe(w)
  <2>1. \A q \in Payments : q # req[w].p => owed'[q] = owed[q]
        BY <1>17 DEF CallStripe, RefundError, Owes
  <2> QED  BY <1>17, <2>1 DEF CallStripe
<1>18. CASE CheckApplied(w)  BY <1>18 DEF CheckApplied
<1>19. CASE ApplyRefund(w)  BY <1>19 DEF ApplyRefund, ApplyLedger
<1> QED
    BY <1>3, <1>4, <1>5, <1>6, <1>7, <1>8, <1>9, <1>10, <1>11, <1>12, <1>13, <1>14,
       <1>15, <1>16, <1>17, <1>18, <1>19 DEF Continue

\* So does a fault.
LEMMA FaultKeepsRows ==
    ASSUME TypeOK, NEW w \in Workers, Crash(w) \/ RefundFails(w)
    PROVE  /\ Advances(w)
           /\ \A q \in Payments : q # req[w].p => SameRows(q)
           /\ UNCHANGED <<escrow, bucketVars, debits>>
<1>1. req[w] \in Requests
      BY RequestAt DEF TypeOK, Crash, RefundFails, IsIdle, Idle, At, Pcs
<1>2. Finish(w)  BY DEF Crash, RefundFails, RefundError
<1>3. Advances(w)  BY <1>1, <1>2, FinishAdvances
<1>4. \A q \in Payments : q # req[w].p => owed'[q] = owed[q]
      BY DEF TypeOK, Crash, RefundFails, RefundError, Owes
<1> QED
    BY <1>3, <1>4 DEF Crash, RefundFails, SameRows, partVars, payVars, bucketVars,
       ledgerVars, stripeVars, caseVars

-----------------------------------------------------------------------------
(* Nothing happens to a payment before its escrow row exists.               *)

Blank(q) ==
    /\ stage[q] = "AWAITING_PAYMENT"
    /\ owed[q] = "no"
    /\ debits[q] = 0
    /\ \A k \in Kinds : case[q][k] = "NONE" /\ ~verdictLocked[q][k]
    /\ \A w \in Workers : ~IsIdle(w) => req[w].p # q

OnlyCaptured == \A q \in Payments : escrow[q] = "NONE" => Blank(q)

\* The environment creates an escrow row only with HoldFunds.
LEMMA CapturedEnvironment ==
    ASSUME TypeOK, OnlyCaptured, NEW p \in Payments, Environment(p)
    PROVE  OnlyCaptured'
<1> USE DEF OnlyCaptured, Blank, TypeOK, IsIdle, partVars, payVars, bucketVars,
        ledgerVars, stripeVars, caseVars
<1>1. CASE HoldFunds(p)  BY <1>1 DEF HoldFunds
<1>2. CASE Deliver(p)  BY <1>2 DEF Deliver
<1>3. CASE WindowEnds(p)  BY <1>3 DEF WindowEnds
<1>4. CASE CompleteOffer(p)  BY <1>4 DEF CompleteOffer
<1>5. CASE WarrantyEnds(p)  BY <1>5 DEF WarrantyEnds
<1>6. ASSUME NEW e \in events[p], ChargeRefunded(p, e)
      PROVE  OnlyCaptured'
      BY <1>6, SMTT(20) DEF ChargeRefunded
<1>7. CASE RetryLapses(p)  BY <1>7 DEF RetryLapses
<1> QED  BY <1>1, <1>2, <1>3, <1>4, <1>5, <1>6, <1>7 DEF Environment

\* Every request starts on a payment that has an escrow row.
LEMMA CapturedStart ==
    ASSUME TypeOK, OnlyCaptured, NEW w \in Workers, NEW p \in Payments, Start(w, p)
    PROVE  OnlyCaptured'
<1>1. ASSUME escrow[p] # "NONE", NEW pc \in Pcs, NEW k \in Askers,
             Begin(w, p, pc, k),
             \A q \in Payments : stage'[q] = stage[q] \/ q = p,
             UNCHANGED <<escrow, owed, debits, case, verdictLocked>>
      PROVE  OnlyCaptured'
      BY <1>1 DEF OnlyCaptured, Blank, TypeOK, IsIdle, Begin
<1> USE <1>1 DEF TypeOK, OnlyCaptured, Blank, partVars, payVars, bucketVars,
        ledgerVars, stripeVars, caseVars, Pcs, Askers, Kinds
<1>2. CASE StartSettlement(w, p) \/ StartSync(w, p)
      BY <1>2 DEF StartSettlement, StartSync, Settleable, Releasable
<1>3. CASE StartAdminRelease(w, p)  BY <1>3 DEF StartAdminRelease, Releasable
<1>4. ASSUME NEW k \in Kinds, StartOpenCase(w, p, k)
      PROVE  OnlyCaptured'
      BY <1>4 DEF StartOpenCase
<1>5. ASSUME NEW k \in Kinds, StartEscalate(w, p, k)
      PROVE  OnlyCaptured'
      BY <1>5 DEF StartEscalate
<1>6. ASSUME NEW k \in Kinds, StartVerdict(w, p, k)
      PROVE  OnlyCaptured'
      BY <1>6 DEF StartVerdict, Undecided
<1>7. ASSUME NEW k \in Kinds, RetryVerdict(w, p, k)
      PROVE  OnlyCaptured'
      BY <1>7 DEF RetryVerdict
<1>8. CASE StartCloseReturn(w, p)  BY <1>8 DEF StartCloseReturn
<1>9. CASE CancelPart(w, p)  BY <1>9 DEF CancelPart
<1>10. CASE CancelOrder(w, p)  BY <1>10 DEF CancelOrder
<1>11. CASE RetryPart(w, p)  BY <1>11 DEF RetryPart, Retriable
<1> QED
    BY <1>2, <1>3, <1>4, <1>5, <1>6, <1>7, <1>8, <1>9, <1>10, <1>11 DEF Start

\* A step of a request in flight stays on its payment, which has one.
LEMMA CapturedContinue ==
    ASSUME TypeOK, OnlyCaptured, NEW w \in Workers, ~IsIdle(w), Advances(w),
           \A q \in Payments : q # req[w].p => SameRows(q),
           escrow'[req[w].p] = escrow[req[w].p] \/ escrow'[req[w].p] # "NONE"
    PROVE  OnlyCaptured'
<1>1. req[w].p \in Payments  BY DEF Advances, Requests
<1>2. escrow'[req[w].p] # "NONE"  BY <1>1 DEF OnlyCaptured, Blank
<1>3. ASSUME NEW q \in Payments, escrow'[q] = "NONE"
      PROVE  Blank(q)'
  <2>1. q # req[w].p /\ SameRows(q)  BY <1>2, <1>3
  <2>2. Blank(q)  BY <1>3, <2>1 DEF OnlyCaptured, SameRows
  <2>3. \A v \in Workers : ~IsIdle(v)' => req'[v].p # q
        BY <2>1, <2>2 DEF Advances, IsIdle, Blank
  <2> QED  BY <2>1, <2>2, <2>3 DEF Blank, SameRows, IsIdle
<1> QED  BY <1>3 DEF OnlyCaptured

LEMMA ContinueActive ==
    ASSUME NEW w \in Workers, Continue(w) \/ Crash(w) \/ RefundFails(w)
    PROVE  ~IsIdle(w)
BY Zenon DEF IsIdle, At, Continue, MarkReleasing, SettleRelease, ReadHeld, Freeze,
   CreateCase, CloseReturn, ReadFrozen, Unfreeze, EscalateCase, ReadAwarded, Award,
   DecideRefund, MarkOwed, FixTarget, ReadRows, FixAmount, CallStripe,
   CheckApplied, ApplyRefund, Crash, RefundFails

LEMMA CapturedNext == TypeOK /\ OnlyCaptured /\ [Next]_vars => OnlyCaptured'
<1> SUFFICES ASSUME TypeOK, OnlyCaptured, [Next]_vars
             PROVE  OnlyCaptured'
    OBVIOUS
<1>1. CASE UNCHANGED vars
      BY <1>1 DEF vars, OnlyCaptured, Blank, IsIdle, partVars, payVars, bucketVars,
         ledgerVars, stripeVars, caseVars
<1>2. ASSUME NEW p \in Payments, Environment(p)
      PROVE  OnlyCaptured'
      BY <1>2, CapturedEnvironment
<1>3. ASSUME NEW w \in Workers, NEW p \in Payments, Start(w, p)
      PROVE  OnlyCaptured'
      BY <1>3, CapturedStart
<1>4. ASSUME NEW w \in Workers, Continue(w)
      PROVE  OnlyCaptured'
      BY <1>4, ContinueActive, ContinueAdvances, ContinueKeepsRows, CapturedContinue
<1>5. ASSUME NEW w \in Workers, Crash(w) \/ RefundFails(w)
      PROVE  OnlyCaptured'
      BY <1>5, ContinueActive, FaultKeepsRows, CapturedContinue
<1> QED  BY <1>1, <1>2, <1>3, <1>4, <1>5 DEF Next

-----------------------------------------------------------------------------
(* Conservation of the merchant share.                                      *)

Share(q) == pending[q] + frozen[q] + balance[q]

Conserved(q) ==
    Share(q) = IF escrow[q] = "NONE" THEN 0 ELSE Merchant[q] - Merchant[q] * debits[q]

LEMMA OneMoreDebit == \A m, d \in Nat : m - m * (d + 1) = (m - m * d) - m
OBVIOUS

\* A step of a request moves the share between buckets, or takes it back once.
LEMMA ContinueMovesShare ==
    ASSUME TypeOK, NEW w \in Workers, Continue(w),
           NEW p \in Payments, p = req[w].p
    PROVE  \/ Share(p)' = Share(p) /\ debits'[p] = debits[p]
           \/ Share(p)' = Share(p) - Merchant[p] /\ debits'[p] = debits[p] + 1
<1>1. /\ pending[p] \in Int /\ frozen[p] \in Int /\ balance[p] \in Int
      /\ Merchant[p] \in Int
      BY AmountsAssumption DEF TypeOK
<1>2. CASE UNCHANGED <<bucketVars, debits>>  BY <1>2 DEF bucketVars, Share
<1> USE <1>1, <1>2 DEF Share, TypeOK, AddTo, Counted, ledgerVars
<1>3. CASE SettleRelease(w)
  <2>1. CASE UNCHANGED <<pending, balance>>
        BY <1>3, <2>1 DEF SettleRelease, bucketVars
  <2>2. CASE PayMerchant(p)  BY <1>3, <2>2 DEF SettleRelease, PayMerchant
  <2> QED  BY <1>3, <2>1, <2>2 DEF SettleRelease
<1>4. CASE Freeze(w)  BY <1>4 DEF Freeze
<1>5. CASE Unfreeze(w)  BY <1>5 DEF Unfreeze
<1>6. CASE Award(w)
  <2>1. CASE /\ AddTo(frozen, p, -Merchant[p]) /\ UNCHANGED pending
             /\ AddTo(balance, p, Merchant[p])
        BY <1>6, <2>1 DEF Award
  <2>2. CASE /\ AddTo(pending, p, -Merchant[p]) /\ UNCHANGED frozen
             /\ AddTo(balance, p, Merchant[p])
        BY <1>6, <2>2 DEF Award
  <2> QED  BY <1>6, <2>1, <2>2 DEF Award
<1>7. CASE ApplyRefund(w)
  <2>1. CASE ApplyLedger(w)
    <3>1. CASE req[w].seen = "HELD"  BY <2>1, <3>1 DEF ApplyLedger
    <3>2. CASE req[w].seen = "FROZEN"  BY <2>1, <3>2 DEF ApplyLedger
    <3>3. CASE req[w].seen = "RELEASED"  BY <2>1, <3>3 DEF ApplyLedger
    <3>4. CASE req[w].seen \notin {"HELD", "FROZEN", "RELEASED"}
          BY <2>1, <3>4 DEF ApplyLedger, bucketVars
    <3> QED  BY <3>1, <3>2, <3>3, <3>4
  <2> QED  BY <1>7, <2>1 DEF ApplyRefund
<1>8. ASSUME NEW t \in Targets(req[w].p, req[w].k), FixTarget(w, t)
      PROVE  UNCHANGED <<bucketVars, debits>>
      BY <1>8 DEF FixTarget
<1> QED
    BY <1>3, <1>4, <1>5, <1>6, <1>7, <1>8 DEF Continue, MarkReleasing, ReadHeld,
       CreateCase, CloseReturn, ReadFrozen, EscalateCase, ReadAwarded, DecideRefund,
       MarkOwed, ReadRows, FixAmount, CallStripe, CheckApplied

\* The steps that start a request move no money.
LEMMA StartMovesNothing ==
    ASSUME NEW w \in Workers, NEW p \in Payments, Start(w, p)
    PROVE  UNCHANGED <<escrow, bucketVars, debits>>
BY DEF Start, StartSettlement, StartSync, StartAdminRelease, StartOpenCase, StartEscalate,
   StartVerdict, RetryVerdict, StartCloseReturn, CancelPart, CancelOrder, RetryPart,
   ledgerVars

LEMMA ConservedNext ==
    TypeOK /\ OnlyCaptured /\ ShareIsConserved /\ [Next]_vars => ShareIsConserved'
<1> SUFFICES ASSUME TypeOK, OnlyCaptured, ShareIsConserved, [Next]_vars
             PROVE  ShareIsConserved'
    OBVIOUS
<1>1. \A q \in Payments : Conserved(q)  BY DEF ShareIsConserved, Conserved, Share
<1>2. CASE UNCHANGED <<escrow, bucketVars, debits>>
      BY <1>2 DEF ShareIsConserved, bucketVars
<1>3. ASSUME NEW w \in Workers, Continue(w)
      PROVE  ShareIsConserved'
  <2> PICK p \in Payments : p = req[w].p
      BY <1>3, ContinueAdvances DEF Advances, Requests
  <2>1. escrow[p] # "NONE"
        BY <1>3, ContinueActive DEF OnlyCaptured, Blank
  <2>2. escrow'[p] # "NONE"  BY <1>3, <2>1, ContinueKeepsRows
  <2>3. debits[p] \in Nat /\ Merchant[p] \in Nat
        BY AmountsAssumption DEF TypeOK
  <2>4. Merchant[p] - Merchant[p] * (debits[p] + 1)
            = (Merchant[p] - Merchant[p] * debits[p]) - Merchant[p]
        BY <2>3, OneMoreDebit
  <2>5. Share(p)' = Merchant[p] - Merchant[p] * debits'[p]
    <3>1. Share(p) = Merchant[p] - Merchant[p] * debits[p]
          BY <1>1, <2>1 DEF Conserved
    <3>2. \/ Share(p)' = Share(p) /\ debits'[p] = debits[p]
          \/ Share(p)' = Share(p) - Merchant[p] /\ debits'[p] = debits[p] + 1
          BY <1>3, ContinueMovesShare
    <3> QED  BY <2>4, <3>1, <3>2
  <2>6. \A q \in Payments : q # p => Conserved(q)'
        BY <1>1, <1>3, ContinueKeepsRows DEF SameRows, Conserved, Share
  <2> QED  BY <2>2, <2>5, <2>6 DEF ShareIsConserved, Conserved, Share
<1>4. ASSUME NEW p \in Payments, HoldFunds(p)
      PROVE  ShareIsConserved'
  <2>1. debits[p] = 0 /\ Share(p) = 0
        BY <1>1, <1>4 DEF HoldFunds, OnlyCaptured, Blank, Conserved
  <2>2. Merchant[p] \in Nat  BY AmountsAssumption
  <2>3. Share(p)' = Merchant[p] - Merchant[p] * debits'[p]
    <3>1. debits'[p] = 0  BY <1>4, <2>1 DEF HoldFunds
    <3>2. Share(p)' = Share(p) + Merchant[p]
          BY <1>4, <2>2 DEF HoldFunds, Share, AddTo, TypeOK
    <3>3. Merchant[p] - Merchant[p] * 0 = Merchant[p]  BY <2>2
    <3> QED  BY <2>1, <2>2, <3>1, <3>2, <3>3
  <2>4. \A q \in Payments : q # p => Conserved(q)'
    <3>1. \A q \in Payments : q # p =>
              /\ pending'[q] = pending[q] /\ frozen'[q] = frozen[q]
              /\ balance'[q] = balance[q]
              /\ escrow'[q] = escrow[q] /\ debits'[q] = debits[q]
          BY <1>4 DEF HoldFunds, AddTo, TypeOK
    <3> QED  BY <1>1, <3>1 DEF Conserved, Share
  <2>5. escrow'[p] # "NONE"  BY <1>4 DEF HoldFunds, TypeOK
  <2> QED  BY <2>3, <2>4, <2>5 DEF ShareIsConserved, Conserved, Share
<1>5. ASSUME NEW p \in Payments, Environment(p), ~HoldFunds(p)
      PROVE  UNCHANGED <<escrow, bucketVars, debits>>
      BY <1>5 DEF Environment, Deliver, WindowEnds, CompleteOffer, WarrantyEnds,
         RetryLapses, ChargeRefunded, ledgerVars
<1>6. ASSUME NEW w \in Workers, Crash(w) \/ RefundFails(w)
      PROVE  UNCHANGED <<escrow, bucketVars, debits>>
      BY <1>6, FaultKeepsRows
<1>7. UNCHANGED vars => UNCHANGED <<escrow, bucketVars, debits>>
      BY DEF vars, ledgerVars
<1> QED  BY <1>2, <1>3, <1>4, <1>5, <1>6, <1>7, StartMovesNothing DEF Next

\* Whatever the order of freezes, releases, verdicts and refunds of
\* escrow.service.ts and issueVerdict, with any number of requests in flight,
\* the store's buckets together hold the merchant share less what was taken back
\* (ShareIsConserved).
THEOREM ShareConserved == Spec => []ShareIsConserved
<1> DEFINE Inv == TypeOK /\ OnlyCaptured /\ ShareIsConserved
<1>1. Init => Inv
  <2>1. Init => OnlyCaptured  BY DEF Init, OnlyCaptured, Blank, IsIdle, Idle
  <2>2. Init => ShareIsConserved  BY DEF Init, ShareIsConserved
  <2> QED  BY <2>1, <2>2, InitType
<1>2. Inv /\ [Next]_vars => Inv'  BY NextType, CapturedNext, ConservedNext
<1>3. Inv => ShareIsConserved  OBVIOUS
<1> HIDE DEF Inv
<1> QED  BY <1>1, <1>2, <1>3, PTL DEF Spec

-----------------------------------------------------------------------------
(* Stripe refunds within the charge and before the ledger, and an escrow is *)
(* released at most once.  What makes the refund properties inductive is   *)
(* what each refund in flight carries (SafeRefund).                        *)

Refunding == {"reading", "limiting", "charging", "checking", "applying"}

\* A refund in flight has a positive amount, and is applied only after Stripe
\* has refunded something.
SafeRefund(w) ==
    /\ req[w].pc \in Refunding => req[w].amt > 0
    /\ req[w].pc \in {"checking", "applying"} => chargeBack[req[w].p] > 0

\* Stripe's side of a payment, its undelivered events included, and the ledger.
SafeRows(q) ==
    /\ chargeBack[q] <= Paid[q]
    /\ charge[q] # {} \/ events[q] # {} \/ refunded[q] > 0 => chargeBack[q] > 0
    /\ debits[q] > 0 \/ (\E k \in Kinds : exec[q][k] = "SUCCEEDED")
           => chargeBack[q] > 0

RefundsAreSafe ==
    /\ \A q \in Payments : SafeRows(q)
    /\ \A w \in Workers : SafeRefund(w)

-----------------------------------------------------------------------------
\* A step that touches neither the refunds nor Stripe keeps them safe.
LEMMA QuietStep ==
    ASSUME TypeOK, RefundsAreSafe,
           UNCHANGED <<refunded, stripeVars, debits>>,
           \A q \in Payments, k \in Kinds :
               exec'[q][k] = "SUCCEEDED" => exec[q][k] = "SUCCEEDED",
           \A v \in Workers : req'[v] = req[v] \/ req'[v].pc \notin Refunding
    PROVE  RefundsAreSafe'
<1>1. ASSUME NEW v \in Workers
      PROVE  SafeRefund(v)'
  <2>1. CASE req'[v] = req[v]
        BY <2>1 DEF RefundsAreSafe, SafeRefund, stripeVars
  <2>2. CASE req'[v].pc \notin Refunding  BY <2>2 DEF SafeRefund, Refunding
  <2> QED  BY <2>1, <2>2
<1>2. \A q \in Payments : SafeRows(q)'
      BY DEF RefundsAreSafe, SafeRows, stripeVars
<1> QED  BY <1>1, <1>2 DEF RefundsAreSafe

\* A step that takes one request on, and changes the rows of its payment only.
LEMMA LocalStep ==
    ASSUME TypeOK, TypeOK', RefundsAreSafe,
           NEW w \in Workers, NEW p \in Payments,
           \A v \in Workers : v # w => req'[v] = req[v],
           \A q \in Payments : chargeBack'[q] >= chargeBack[q],
           \A q \in Payments : q # p =>
               /\ refunded'[q] = refunded[q] /\ chargeBack'[q] = chargeBack[q]
               /\ events'[q] = events[q] /\ charge'[q] = charge[q]
               /\ debits'[q] = debits[q] /\ exec'[q] = exec[q],
           SafeRows(p)', SafeRefund(w)'
    PROVE  RefundsAreSafe'
<1>1. ASSUME NEW v \in Workers, v # w
      PROVE  SafeRefund(v)'
  <2>1. SafeRefund(v) /\ req'[v] = req[v]  BY <1>1 DEF RefundsAreSafe
  <2>2. CASE req[v].pc \in Refunding
    <3>1. req[v].p \in Payments
          BY <2>2 DEF TypeOK, Refunding, Idle, Requests
    <3>2. /\ chargeBack[req[v].p] \in Nat /\ chargeBack'[req[v].p] \in Nat
          /\ chargeBack'[req[v].p] >= chargeBack[req[v].p]
          BY <3>1 DEF TypeOK
    <3> QED  BY <2>1, <2>2, <3>2 DEF SafeRefund
  <2>3. CASE req[v].pc \notin Refunding  BY <2>1, <2>3 DEF SafeRefund, Refunding
  <2> QED  BY <2>2, <2>3
<1>2. ASSUME NEW q \in Payments, q # p
      PROVE  SafeRows(q)'
      BY <1>2 DEF RefundsAreSafe, SafeRows
<1> QED  BY <1>1, <1>2 DEF RefundsAreSafe

-----------------------------------------------------------------------------
\* The environment: only an event of Stripe touches the refunds.
LEMMA EnvironmentSafe ==
    ASSUME TypeOK, TypeOK', RefundsAreSafe, NEW p \in Payments, Environment(p)
    PROVE  RefundsAreSafe'
<1>1. CASE \E e \in events[p] : ChargeRefunded(p, e)
  <2> PICK e \in events[p] : ChargeRefunded(p, e)  BY <1>1
  <2>1. \A q \in Payments : SafeRows(q)'
    <3>1. chargeBack[p] > 0  BY DEF RefundsAreSafe, SafeRows
    <3>2. /\ refunded' = [refunded EXCEPT ![p] = e]
          /\ events' = [events EXCEPT ![p] = @ \ {e}]
          /\ UNCHANGED <<charge, chargeBack, debits, exec>>
          BY DEF ChargeRefunded, ledgerVars, caseVars
    <3> QED  BY <3>1, <3>2 DEF RefundsAreSafe, SafeRows, TypeOK
  <2>2. \A w \in Workers : SafeRefund(w)'
        BY DEF RefundsAreSafe, SafeRefund, ChargeRefunded
  <2> QED  BY <2>1, <2>2 DEF RefundsAreSafe
<1>2. CASE HoldFunds(p) \/ Deliver(p) \/ WindowEnds(p) \/ CompleteOffer(p)
           \/ WarrantyEnds(p) \/ RetryLapses(p)
  <2>1. UNCHANGED <<refunded, stripeVars, debits, exec, req>>
        BY <1>2 DEF HoldFunds, Deliver, WindowEnds, CompleteOffer, WarrantyEnds,
           RetryLapses, payVars, ledgerVars, caseVars
  <2> QED  BY <2>1, QuietStep
<1> QED  BY <1>1, <1>2 DEF Environment

\* Only a new SUCCEEDED makes a case executed.
LEMMA ExecSet ==
    ASSUME exec \in [Payments -> [Kinds -> ExecStatuses]],
           NEW p \in Payments, NEW k, NEW s, s # "SUCCEEDED",
           exec' = [exec EXCEPT ![p][k] = s]
    PROVE  \A q \in Payments, j \in Kinds :
               exec'[q][j] = "SUCCEEDED" => exec[q][j] = "SUCCEEDED"
<1> TAKE q \in Payments, j \in Kinds
<1>1. exec'[q] = IF q = p THEN [exec[p] EXCEPT ![k] = s] ELSE exec[q]
      OBVIOUS
<1>2. exec[q] \in [Kinds -> ExecStatuses]  OBVIOUS
<1>3. exec'[q][j] = IF q = p /\ j = k THEN s ELSE exec[q][j]
      BY <1>1, <1>2
<1> QED  BY <1>3

\* A request starts at a step where it has not fixed an amount yet.
LEMMA StartSafe ==
    ASSUME TypeOK, RefundsAreSafe,
           NEW w \in Workers, NEW p \in Payments, Start(w, p)
    PROVE  RefundsAreSafe'
<1>1. ASSUME NEW pc \in Pcs \ Refunding, NEW k \in Askers, Begin(w, p, pc, k)
      PROVE  \A v \in Workers : req'[v] = req[v] \/ req'[v].pc \notin Refunding
      BY <1>1 DEF Begin, TypeOK
<1>2. \A v \in Workers : req'[v] = req[v] \/ req'[v].pc \notin Refunding
      BY <1>1 DEF Start, StartSettlement, StartSync, StartAdminRelease, StartOpenCase,
         StartEscalate, StartVerdict, RetryVerdict, StartCloseReturn, CancelPart,
         CancelOrder, RetryPart, Pcs, Refunding, Askers, Kinds
<1>3. UNCHANGED <<refunded, stripeVars, debits, exec>>
      BY DEF Start, StartSettlement, StartSync, StartAdminRelease, StartOpenCase,
         StartEscalate, StartVerdict, RetryVerdict, StartCloseReturn, CancelPart,
         CancelOrder, RetryPart, payVars, ledgerVars, caseVars
<1> QED  BY <1>2, <1>3, QuietStep

\* Releases, cases and verdicts do not touch the refunds.
LEMMA CaseStepSafe ==
    ASSUME TypeOK, RefundsAreSafe, NEW w \in Workers,
           \/ MarkReleasing(w) \/ SettleRelease(w)
           \/ ReadHeld(w) \/ Freeze(w) \/ CreateCase(w)
           \/ CloseReturn(w) \/ ReadFrozen(w) \/ Unfreeze(w) \/ EscalateCase(w)
           \/ ReadAwarded(w) \/ Award(w) \/ DecideRefund(w) \/ MarkOwed(w)
    PROVE  RefundsAreSafe'
<1>1. req[w] \in Requests
      BY ContinueAdvances DEF Advances, Continue
<1>2. req[w].p \in Payments /\ req[w].k \in Askers  BY <1>1 DEF Requests
<1>3. UNCHANGED <<refunded, stripeVars, debits>>
      BY DEF MarkReleasing, SettleRelease, ReadHeld, Freeze, CreateCase,
         CloseReturn, ReadFrozen, Unfreeze, EscalateCase, ReadAwarded, Award,
         DecideRefund, MarkOwed, payVars, ledgerVars
<1>4. \A q \in Payments, k \in Kinds :
          exec'[q][k] = "SUCCEEDED" => exec[q][k] = "SUCCEEDED"
  <2>1. \/ UNCHANGED exec
        \/ exec' = [exec EXCEPT ![req[w].p][req[w].k] = "NOT_REQUIRED"]
        \/ exec' = [exec EXCEPT ![req[w].p][req[w].k] = "PENDING"]
        BY DEF MarkReleasing, SettleRelease, ReadHeld, Freeze, CreateCase,
           CloseReturn, ReadFrozen, Unfreeze, EscalateCase, ReadAwarded, Award,
           DecideRefund, MarkOwed, caseVars
  <2> QED  BY <1>2, <2>1, ExecSet DEF TypeOK
<1>5. \A v \in Workers : req'[v] = req[v] \/ req'[v].pc \notin Refunding
  <2>1. CASE Finish(w)  BY <2>1 DEF Finish, Idle, TypeOK, Refunding
  <2>2. ASSUME NEW pc \in Pcs \ Refunding, Goto(w, pc)
        PROVE  \A v \in Workers : req'[v] = req[v] \/ req'[v].pc \notin Refunding
    <3>1. [req[w] EXCEPT !.pc = pc].pc = pc  BY <1>1 DEF Requests
    <3>2. req'[w] = [req[w] EXCEPT !.pc = pc]  BY <2>2 DEF Goto, TypeOK
    <3>3. \A v \in Workers : v # w => req'[v] = req[v]  BY <2>2 DEF Goto, TypeOK
    <3> QED  BY <3>1, <3>2, <3>3
  <2>3. CASE ReadAwarded(w)
    <3> DEFINE s == IF escrow[req[w].p] \in {"HELD", "FROZEN"}
                    THEN escrow[req[w].p] ELSE "NONE"
               r == [req[w] EXCEPT !.pc = "awarding", !.seen = s]
    <3>1. r.pc = "awarding"  BY <1>1 DEF Requests
    <3>2. req' = [req EXCEPT ![w] = r]  BY <2>3 DEF ReadAwarded
    <3> HIDE DEF r
    <3> QED  BY <3>1, <3>2 DEF TypeOK, Refunding
  <2> QED
      BY <2>1, <2>2, <2>3 DEF MarkReleasing, SettleRelease, ReadHeld, Freeze,
         CreateCase, CloseReturn, ReadFrozen, Unfreeze, EscalateCase, Award,
         DecideRefund, MarkOwed, Pcs, Refunding
<1> QED  BY <1>3, <1>4, <1>5, QuietStep

\* A refund that ends in an error, or is cut off, changed nothing.
LEMMA ErrorSafe ==
    ASSUME TypeOK, RefundsAreSafe, NEW w \in Workers, req[w] \in Requests,
           RefundError(w) \/ (Finish(w) /\ UNCHANGED exec),
           UNCHANGED <<refunded, stripeVars, debits>>
    PROVE  RefundsAreSafe'
<1>1. req[w].p \in Payments  BY DEF Requests
<1>2. \A q \in Payments, k \in Kinds :
          exec'[q][k] = "SUCCEEDED" => exec[q][k] = "SUCCEEDED"
  <2>1. UNCHANGED exec \/ exec' = [exec EXCEPT ![req[w].p][req[w].k] = "FAILED"]
        BY DEF RefundError
  <2> QED  BY <1>1, <2>1, ExecSet DEF TypeOK
<1>3. \A v \in Workers : req'[v] = req[v] \/ req'[v].pc \notin Refunding
      BY DEF RefundError, Finish, Idle, TypeOK, Refunding
<1> QED  BY <1>2, <1>3, QuietStep

-----------------------------------------------------------------------------
(* The steps of a refund.                                                   *)

\* A request that is taken on by its record alone.
LEMMA RecordSafe ==
    ASSUME TypeOK, RefundsAreSafe, NEW w \in Workers, NEW r,
           req' = [req EXCEPT ![w] = r], r.p = req[w].p, r.amt > 0,
           r.pc \in {"checking", "applying"} => chargeBack[req[w].p] > 0,
           UNCHANGED <<refunded, stripeVars, debits>>,
           \A q \in Payments, k \in Kinds :
               exec'[q][k] = "SUCCEEDED" => exec[q][k] = "SUCCEEDED"
    PROVE  RefundsAreSafe'
<1>1. req'[w] = r /\ \A v \in Workers : v # w => req'[v] = req[v]
      BY DEF TypeOK
<1>2. SafeRefund(w)'  BY <1>1 DEF SafeRefund, stripeVars
<1>3. \A v \in Workers : v # w => SafeRefund(v)'
      BY <1>1 DEF RefundsAreSafe, SafeRefund, stripeVars
<1>4. \A q \in Payments : SafeRows(q)'
      BY DEF RefundsAreSafe, SafeRows, stripeVars
<1> QED  BY <1>2, <1>3, <1>4 DEF RefundsAreSafe

\* What is wanted is positive, and stays so until Stripe is called.
LEMMA TargetSafe ==
    ASSUME TypeOK, RefundsAreSafe, NEW w \in Workers,
           NEW t \in Targets(req[w].p, req[w].k), FixTarget(w, t)
    PROVE  RefundsAreSafe'
<1>1. req[w] \in Requests  BY RequestAt DEF TypeOK, FixTarget, Pcs
<1> PICK p \in Payments, k \in Askers : p = req[w].p /\ k = req[w].k
    BY <1>1 DEF Requests
<1> DEFINE wanted == Requested(p, k, t)
           r == [req[w] EXCEPT !.pc = "reading", !.amt = wanted]
<1>2. UNCHANGED <<refunded, stripeVars, debits>>
      BY DEF FixTarget, payVars, ledgerVars
<1>3. CASE Finish(w) /\ UNCHANGED exec  BY <1>1, <1>2, <1>3, ErrorSafe
<1>4. CASE /\ k \in Kinds \/ wanted > 0
           /\ req' = [req EXCEPT ![w].pc = "reading", ![w].amt = wanted]
           /\ exec' = IF k \in Kinds
                      THEN [exec EXCEPT ![p][k] = "PROCESSING"] ELSE exec
  <2>1. wanted \in Int /\ wanted > 0  BY <1>4, RequestedType
  <2> HIDE DEF wanted
  <2>2. r.p = req[w].p /\ r.pc = "reading" /\ r.amt = wanted
        BY <1>1 DEF Requests
  <2>3. req' = [req EXCEPT ![w] = r]  BY <1>4
  <2>4. \A q \in Payments, j \in Kinds :
            exec'[q][j] = "SUCCEEDED" => exec[q][j] = "SUCCEEDED"
        BY <1>4, ExecSet DEF TypeOK
  <2> HIDE DEF r
  <2> QED  BY <1>2, <2>1, <2>2, <2>3, <2>4, RecordSafe
<1> QED  BY <1>3, <1>4 DEF FixTarget

LEMMA ReadRowsSafe ==
    ASSUME TypeOK, RefundsAreSafe, NEW w \in Workers, ReadRows(w)
    PROVE  RefundsAreSafe'
<1> DEFINE r == [req[w] EXCEPT !.pc = "limiting", !.seen = escrow[req[w].p],
                               !.prior = refunded[req[w].p]]
<1>1. req[w] \in Requests  BY RequestAt DEF TypeOK, ReadRows, Pcs
<1>2. r.p = req[w].p /\ r.pc = "limiting" /\ r.amt = req[w].amt
      BY <1>1 DEF Requests
<1>3. req' = [req EXCEPT ![w] = r]  BY DEF ReadRows
<1>4. UNCHANGED <<refunded, stripeVars, debits, exec>>
      BY DEF ReadRows, payVars, ledgerVars, caseVars
<1>5. req[w].amt > 0
      BY DEF ReadRows, At, Refunding, RefundsAreSafe, SafeRefund
<1> HIDE DEF r
<1> QED  BY <1>2, <1>3, <1>4, <1>5, RecordSafe

\* Stripe has refunded something when the payment has nothing left to refund.
LEMMA NothingLeft ==
    ASSUME TypeOK, RefundsAreSafe, NEW p \in Payments, MaxRefundable(p) <= 0
    PROVE  chargeBack[p] > 0
<1>1. /\ Paid[p] \in Nat /\ Paid[p] > 0
      /\ refunded[p] \in Nat /\ chargeBack[p] \in Nat
      BY AmountsAssumption DEF TypeOK
<1>2. refunded[p] > 0 => chargeBack[p] > 0  BY DEF RefundsAreSafe, SafeRows
<1> QED  BY <1>1, <1>2 DEF MaxRefundable, MinOf

LEMMA AmountSafe ==
    ASSUME TypeOK, RefundsAreSafe, NEW w \in Workers, FixAmount(w)
    PROVE  RefundsAreSafe'
<1>1. req[w] \in Requests  BY RequestAt DEF TypeOK, FixAmount, Pcs
<1> PICK p \in Payments, a \in Nat : p = req[w].p /\ a = req[w].amt
    BY <1>1 DEF Requests
<1>2. UNCHANGED <<refunded, stripeVars, debits>>
      BY DEF FixAmount, payVars, ledgerVars
<1>3. a > 0  BY DEF FixAmount, At, Refunding, RefundsAreSafe, SafeRefund
<1>4. ASSUME NEW pc \in {"charging", "checking", "applying"}, NEW n \in Nat,
             n > 0, pc # "charging" => chargeBack[p] > 0, UNCHANGED exec,
             req' = [req EXCEPT ![w].pc = pc, ![w].amt = n]
      PROVE  RefundsAreSafe'
  <2> DEFINE r == [req[w] EXCEPT !.pc = pc, !.amt = n]
  <2>1. r.p = req[w].p /\ r.pc = pc /\ r.amt = n  BY <1>1 DEF Requests
  <2>2. req' = [req EXCEPT ![w] = r]  BY <1>4
  <2> HIDE DEF r
  <2> QED  BY <1>2, <1>4, <2>1, <2>2, RecordSafe
<1>5. CASE RefundError(w)  BY <1>1, <1>2, <1>5, ErrorSafe
<1>6. CASE /\ SyncFromStripe(w) /\ UNCHANGED exec
           /\ req' = [req EXCEPT
                  ![w].pc = IF req[w].k \in Kinds THEN "checking" ELSE "applying",
                  ![w].amt = chargeBack[p]]
  <2>1. chargeBack[p] \in Nat /\ chargeBack[p] > 0
        BY <1>6, NothingLeft DEF SyncFromStripe, TypeOK
  <2> QED  BY <1>4, <1>6, <2>1
<1>7. CASE /\ MaxRefundable(p) > 0 /\ UNCHANGED exec
           /\ req' = [req EXCEPT ![w].pc = "charging",
                                 ![w].amt = MinOf(@, MaxRefundable(p))]
  <2> DEFINE n == MinOf(a, MaxRefundable(p))
  <2>1. n \in Nat /\ n > 0  BY <1>3, <1>7, AmountWithinRest
  <2>2. req' = [req EXCEPT ![w].pc = "charging", ![w].amt = n]  BY <1>7
  <2> HIDE DEF n
  <2> QED  BY <1>4, <1>7, <2>1, <2>2
<1> QED  BY <1>5, <1>6, <1>7 DEF FixAmount

\* Stripe refunds no more than the charge, and then has refunded something.
LEMMA CallStripeSafe ==
    ASSUME TypeOK, TypeOK', RefundsAreSafe, NEW w \in Workers, CallStripe(w)
    PROVE  RefundsAreSafe'
<1>1. req[w] \in Requests  BY RequestAt DEF TypeOK, CallStripe, Pcs
<1> PICK p \in Payments, a \in Nat : p = req[w].p /\ a = req[w].amt
    BY <1>1 DEF Requests
<1> DEFINE pc == IF req[w].k \in Kinds THEN "checking" ELSE "applying"
           r == [req[w] EXCEPT !.pc = pc]
<1>2. /\ UNCHANGED <<refunded, debits>>
      /\ UNCHANGED exec \/ RefundError(w)
      BY DEF CallStripe, payVars, ledgerVars
<1>3. a > 0
      BY DEF CallStripe, At, Refunding, RefundsAreSafe, SafeRefund
<1>4. CASE RefundError(w) /\ UNCHANGED stripeVars
      BY <1>1, <1>2, <1>4, ErrorSafe
<1>5. ASSUME req' = [req EXCEPT ![w] = r], UNCHANGED exec,
             SafeRows(p)', chargeBack'[p] > 0,
             chargeBack'[p] >= chargeBack[p],
             \A q \in Payments : q # p =>
                 /\ chargeBack'[q] = chargeBack[q]
                 /\ events'[q] = events[q] /\ charge'[q] = charge[q]
      PROVE  RefundsAreSafe'
  <2>1. r.p = p /\ r.amt = a  BY <1>1 DEF Requests
  <2>2. req'[w] = r /\ \A v \in Workers : v # w => req'[v] = req[v]
        BY <1>5 DEF TypeOK
  <2> HIDE DEF r
  <2>3. SafeRefund(w)'  BY <1>3, <1>5, <2>1, <2>2 DEF SafeRefund
  <2>4. ASSUME NEW q \in Payments
        PROVE  chargeBack'[q] >= chargeBack[q]
    <3>1. chargeBack[q] \in Nat  BY DEF TypeOK
    <3>2. q = p \/ chargeBack'[q] = chargeBack[q]  BY <1>5
    <3> QED  BY <1>5, <3>1, <3>2
  <2> QED  BY <1>2, <1>5, <2>2, <2>3, <2>4, LocalStep
<1>6. CASE req' = [req EXCEPT ![w] = r] /\ UNCHANGED <<stripeVars, exec>>
           /\ a \in charge[p]
  <2>1. SafeRows(p)'  BY <1>2, <1>6 DEF RefundsAreSafe, SafeRows, stripeVars
  <2>2. chargeBack[p] > 0  BY <1>6 DEF RefundsAreSafe, SafeRows
  <2>3. UNCHANGED <<charge, chargeBack, events>>  BY <1>6 DEF stripeVars
  <2>4. chargeBack[p] \in Nat  BY DEF TypeOK
  <2> HIDE DEF r
  <2> QED  BY <1>5, <1>6, <2>1, <2>2, <2>3, <2>4
<1>7. CASE /\ req' = [req EXCEPT ![w] = r] /\ UNCHANGED exec
           /\ chargeBack[p] + a <= Paid[p]
           /\ charge' = [charge EXCEPT ![p] = @ \cup {a}]
           /\ chargeBack' = [chargeBack EXCEPT ![p] = @ + a]
           /\ events' = [events EXCEPT ![p] = @ \cup {chargeBack[p] + a}]
  <2>1. chargeBack[p] \in Nat /\ chargeBack'[p] = chargeBack[p] + a
        BY <1>7 DEF TypeOK
  <2>4. SafeRows(p)'
        BY <1>2, <1>3, <1>7, <2>1 DEF RefundsAreSafe, SafeRows
  <2>5. \A q \in Payments : q # p =>
            /\ chargeBack'[q] = chargeBack[q]
            /\ events'[q] = events[q] /\ charge'[q] = charge[q]
        BY <1>7 DEF TypeOK
  <2> HIDE DEF r
  <2> QED  BY <1>3, <1>5, <1>7, <2>1, <2>4, <2>5
<1> QED  BY <1>4, <1>6, <1>7 DEF CallStripe, Goto

\* The ledger is written after Stripe, with the amounts of the snapshot.
LEMMA ApplySafe ==
    ASSUME TypeOK, TypeOK', RefundsAreSafe, NEW w \in Workers,
           CheckApplied(w) \/ ApplyRefund(w)
    PROVE  RefundsAreSafe'
<1>1. req[w] \in Requests
      BY RequestAt DEF TypeOK, CheckApplied, ApplyRefund, Pcs
<1> PICK p \in Payments : p = req[w].p  BY <1>1 DEF Requests
<1>2. /\ req[w].pc \in Refunding /\ req[w].pc # "charging"
      /\ chargeBack[p] > 0 /\ req[w].amt > 0
      BY DEF CheckApplied, ApplyRefund, At, Refunding, RefundsAreSafe, SafeRefund
<1>3. UNCHANGED stripeVars  BY DEF CheckApplied, ApplyRefund
<1>4. CASE CheckApplied(w)
  <2> DEFINE b == refunded[p] >= req[w].amt /\ payEscrow[p] = "REFUNDED"
             r == [req[w] EXCEPT !.pc = "applying", !.skip = b]
  <2>1. r.p = p /\ r.amt = req[w].amt  BY <1>1 DEF Requests
  <2>2. req' = [req EXCEPT ![w] = r]  BY <1>4 DEF CheckApplied
  <2> HIDE DEF r
  <2>3. req'[w] = r /\ \A v \in Workers : v # w => req'[v] = req[v]
        BY <2>2 DEF TypeOK
  <2>4. UNCHANGED <<refunded, debits, exec>>
        BY <1>4 DEF CheckApplied, payVars, ledgerVars, caseVars
  <2>5. SafeRefund(w)'  BY <1>2, <1>3, <2>1, <2>3 DEF SafeRefund, stripeVars
  <2>6. \A v \in Workers : v # w => SafeRefund(v)'
        BY <1>3, <2>3 DEF RefundsAreSafe, SafeRefund, stripeVars
  <2>7. \A q \in Payments : SafeRows(q)'
        BY <1>3, <2>4 DEF RefundsAreSafe, SafeRows, stripeVars
  <2> QED  BY <2>5, <2>6, <2>7 DEF RefundsAreSafe
<1>5. CASE ApplyRefund(w)
  <2>1. SafeRefund(w)' /\ \A v \in Workers : v # w => req'[v] = req[v]
        BY <1>5 DEF ApplyRefund, Finish, Idle, TypeOK, SafeRefund, Refunding
  <2>2. \A q \in Payments : q # p =>
            /\ refunded'[q] = refunded[q] /\ debits'[q] = debits[q]
            /\ exec'[q] = exec[q]
        BY <1>5 DEF ApplyRefund, ApplyLedger, Counted, TypeOK, payVars
  <2>4. SafeRows(p)'  BY <1>2, <1>3 DEF RefundsAreSafe, SafeRows, stripeVars
  <2>5. \A q \in Payments : chargeBack'[q] >= chargeBack[q]
        BY <1>3 DEF TypeOK, stripeVars
  <2> QED  BY <1>3, <2>1, <2>2, <2>4, <2>5, LocalStep DEF stripeVars
<1> QED  BY <1>4, <1>5

LEMMA FaultSafe ==
    ASSUME TypeOK, RefundsAreSafe, NEW w \in Workers, Crash(w) \/ RefundFails(w)
    PROVE  RefundsAreSafe'
<1>1. req[w] \in Requests  BY FaultKeepsRows DEF Advances
<1>2. UNCHANGED <<refunded, stripeVars, debits>>
      BY DEF Crash, RefundFails, payVars, ledgerVars
<1>3. RefundError(w) \/ (Finish(w) /\ UNCHANGED exec)
      BY DEF Crash, RefundFails, caseVars
<1> QED  BY <1>1, <1>2, <1>3, ErrorSafe

LEMMA RefundsNext ==
    TypeOK /\ RefundsAreSafe /\ [Next]_vars => RefundsAreSafe'
<1> SUFFICES ASSUME TypeOK, RefundsAreSafe, [Next]_vars
             PROVE  RefundsAreSafe'
    OBVIOUS
<1>1. TypeOK'  BY NextType
<1>2. CASE UNCHANGED vars
  <2>1. UNCHANGED <<refunded, stripeVars, debits, exec, req>>
        BY <1>2 DEF vars, payVars, ledgerVars, caseVars
  <2> QED  BY <2>1, QuietStep
<1>3. ASSUME NEW p \in Payments, Environment(p)
      PROVE  RefundsAreSafe'
      BY <1>1, <1>3, EnvironmentSafe
<1>4. ASSUME NEW w \in Workers, NEW p \in Payments, Start(w, p)
      PROVE  RefundsAreSafe'
      BY <1>4, StartSafe
<1>5. ASSUME NEW w \in Workers, Continue(w)
      PROVE  RefundsAreSafe'
      BY <1>1, <1>5, CaseStepSafe, TargetSafe, ReadRowsSafe, AmountSafe,
         CallStripeSafe, ApplySafe DEF Continue
<1>6. ASSUME NEW w \in Workers, Crash(w) \/ RefundFails(w)
      PROVE  RefundsAreSafe'
      BY <1>6, FaultSafe
<1> QED  BY <1>2, <1>3, <1>4, <1>5, <1>6 DEF Next

LEMMA RefundsInit == Init => RefundsAreSafe
<1> SUFFICES ASSUME Init
             PROVE  RefundsAreSafe
    OBVIOUS
<1>1. \A w \in Workers : SafeRefund(w)
      BY DEF Init, SafeRefund, Refunding, Idle
<1>2. \A q \in Payments : SafeRows(q)
      BY AmountsAssumption DEF Init, SafeRows
<1> QED  BY <1>1, <1>2 DEF RefundsAreSafe

\* Refunds in flight and their rows stay safe (RefundsAreSafe), whatever overlaps.
THEOREM RefundsSafe == Spec => []RefundsAreSafe
<1> DEFINE Inv == TypeOK /\ RefundsAreSafe
<1>1. Init => Inv  BY RefundsInit, InitType
<1>2. Inv /\ [Next]_vars => Inv'  BY NextType, RefundsNext
<1>3. Inv => RefundsAreSafe  OBVIOUS
<1> HIDE DEF Inv
<1> QED  BY <1>1, <1>2, <1>3, PTL DEF Spec

\* The merchant is debited and a verdict is executed only once Stripe has
\* refunded from the charge, crashes and failed calls included
\* (StripeBeforeLedger).
THEOREM LedgerFollowsStripe == Spec => []StripeBeforeLedger
<1>1. RefundsAreSafe => StripeBeforeLedger
      BY DEF RefundsAreSafe, SafeRows, StripeBeforeLedger
<1> QED  BY <1>1, RefundsSafe, PTL

-----------------------------------------------------------------------------
(* Releases.                                                                *)

\* Only the release transaction writes an ESCROW_RELEASE row.
LEMMA OnlySettleReleases ==
    [Next]_vars => UNCHANGED releases \/ \E w \in Workers : SettleRelease(w)
<1> SUFFICES ASSUME [Next]_vars, \A w \in Workers : ~SettleRelease(w)
             PROVE  UNCHANGED releases
    OBVIOUS
<1>1. CASE UNCHANGED vars  BY <1>1 DEF vars, ledgerVars
<1>2. ASSUME NEW p \in Payments, Environment(p)
      PROVE  UNCHANGED releases
      BY <1>2 DEF Environment, HoldFunds, Deliver, WindowEnds, CompleteOffer,
         WarrantyEnds, RetryLapses, ChargeRefunded, ledgerVars
<1>3. ASSUME NEW w \in Workers, NEW p \in Payments, Start(w, p)
      PROVE  UNCHANGED releases
      BY <1>3 DEF Start, StartSettlement, StartSync, StartAdminRelease, StartOpenCase,
         StartEscalate, StartVerdict, RetryVerdict, StartCloseReturn, CancelPart,
         CancelOrder, RetryPart, ledgerVars
<1>4. ASSUME NEW w \in Workers, Continue(w)
      PROVE  UNCHANGED releases
      BY <1>4, Zenon DEF Continue, MarkReleasing, ReadHeld, Freeze, CreateCase,
         CloseReturn, ReadFrozen, Unfreeze, EscalateCase, ReadAwarded, Award,
         DecideRefund, MarkOwed, FixTarget, ReadRows, FixAmount, CallStripe,
         CheckApplied, ApplyRefund, ledgerVars
<1>5. ASSUME NEW w \in Workers, Crash(w) \/ RefundFails(w)
      PROVE  UNCHANGED releases
      BY <1>5 DEF Crash, RefundFails, ledgerVars
<1> QED  BY <1>1, <1>2, <1>3, <1>4, <1>5 DEF Next

\* However many completions, crons and administrators run releaseFunds at once,
\* it credits the merchant of an escrow at most once (ReleasedOnce).
THEOREM ReleasedAtMostOnce == Spec => []ReleasedOnce
<1> DEFINE Inv == TypeOK /\ ReleasedOnce
<1>1. Init => Inv  BY InitType DEF Init, ReleasedOnce
<1>2. Inv /\ [Next]_vars => Inv'
  <2> SUFFICES ASSUME TypeOK, ReleasedOnce, [Next]_vars
               PROVE  ReleasedOnce'
      BY NextType
  <2>1. CASE UNCHANGED releases  BY <2>1 DEF ReleasedOnce
  <2>2. ASSUME NEW w \in Workers, SettleRelease(w)
        PROVE  ReleasedOnce'
        BY <2>2 DEF SettleRelease, PayMerchant, AlreadyReleased, Counted,
           ReleasedOnce, TypeOK
  <2> QED  BY <2>1, <2>2, OnlySettleReleases
<1>3. Inv => ReleasedOnce  OBVIOUS
<1> HIDE DEF Inv
<1> QED  BY <1>1, <1>2, <1>3, PTL DEF Spec
=============================================================================
