------------------------- MODULE EscrowSerialProofs -------------------------
(***************************************************************************)
(* Schedules in which the requests of one payment do not overlap (Serial), *)
(* for every set of payments and workers, every amount and every bound.    *)
(* Requests of different payments, the environment, the webhooks and the   *)
(* faults interleave freely.  What a request read in an earlier step is    *)
(* then still so when it writes: EscrowInv says it of the escrow row,      *)
(* CaseInv of the cases, WithinInv of the refunded totals, PlaceInv of the *)
(* bucket that holds the share.                                            *)
(***************************************************************************)
EXTENDS EscrowImplementsAccount, EscrowProofs

\* No two requests in flight concern the same payment.
Serial == \A v, w \in Workers :
    v # w /\ ~IsIdle(v) /\ ~IsIdle(w) => req[v].p # req[w].p

-----------------------------------------------------------------------------
(* The record of a request after a step.                                    *)

LEMMA BeginSays ==
    ASSUME TypeOK, NEW w \in Workers, NEW p, NEW pc, NEW k, Begin(w, p, pc, k)
    PROVE  /\ req'[w].pc = pc /\ req'[w].p = p /\ req'[w].k = k
           /\ \A v \in Workers : v # w => req'[v] = req[v]
BY DEF TypeOK, Begin

LEMMA GotoSays ==
    ASSUME TypeOK, NEW w \in Workers, req[w] \in Requests, NEW pc, Goto(w, pc)
    PROVE  /\ req'[w].pc = pc /\ req'[w].p = req[w].p /\ req'[w].k = req[w].k
           /\ req'[w].seen = req[w].seen /\ req'[w].skip = req[w].skip
<1> DEFINE r == [req[w] EXCEPT !.pc = pc]
<1>1. /\ r.pc = pc /\ r.p = req[w].p /\ r.k = req[w].k
      /\ r.seen = req[w].seen /\ r.skip = req[w].skip
      BY DEF Requests
<1>2. req'[w] = r  BY DEF Goto, TypeOK
<1> QED  BY <1>1, <1>2

LEMMA FinishSays ==
    ASSUME TypeOK, NEW w \in Workers, Finish(w)
    PROVE  IsIdle(w)'
BY DEF TypeOK, Finish, IsIdle, Idle

\* A step of a request in flight touches neither the requests nor the rows of
\* other payments, and no other request is at its payment.
Apart(w, p) ==
    /\ \A v \in Workers : v # w => req'[v] = req[v]
    /\ \A v \in Workers : v # w /\ ~IsIdle(v) => req[v].p # p
    /\ \A q \in Payments : q # p => SameRows(q)

LEMMA StepApart ==
    ASSUME TypeOK, Serial, NEW w \in Workers,
           Continue(w) \/ Crash(w) \/ RefundFails(w)
    PROVE  /\ req[w] \in Requests /\ req[w].p \in Payments /\ req[w].k \in Askers
           /\ Apart(w, req[w].p)
<1>1. Advances(w) /\ \A q \in Payments : q # req[w].p => SameRows(q)
      BY ContinueAdvances, ContinueKeepsRows, FaultKeepsRows
<1>2. req[w] \in Requests /\ \A v \in Workers : v # w => req'[v] = req[v]
      BY <1>1 DEF Advances
<1>3. \A v \in Workers : v # w /\ ~IsIdle(v) => req[v].p # req[w].p
      BY ContinueActive DEF Serial
<1> QED  BY <1>1, <1>2, <1>3 DEF Apart, Requests

\* Starting a request writes the request and, for a cancellation, the stage.
\* What it requires of the payment depends on its first step and its asker.
Entitled(p, pc, k) ==
    \/ /\ UNCHANGED stage
       /\ \/ pc = "marking" /\ Releasable(p)
          \/ /\ pc = "uploading" /\ k \in Kinds
             /\ stage[p] = "DELIVERED" /\ ~locked[p] /\ NoCase(p, k)
          \/ pc = "cancelling" /\ case[p]["return"] = "PENDING"
          \/ pc = "expiring" /\ case[p]["return"] = "APPROVED"
          \/ pc = "escalating" /\ k \in Kinds /\ case[p][k] = "PENDING"
          \/ pc \in {"judging", "deciding"} /\ k \in Kinds /\ Undecided(p, k)
          \/ pc = "refund" /\ k \in Kinds /\ verdictLocked[p][k]
          \/ pc = "refund" /\ k = "part" /\ owed[p] = "due"
    \/ /\ stage[p] = "IN_PREPARATION"
       /\ stage' = [stage EXCEPT ![p] = "CANCELLED"]
       /\ pc \in {"refund", "owing"} /\ k \in {"part", "order"}

LEMMA StartSays ==
    ASSUME NEW w \in Workers, NEW p \in Payments, Start(w, p)
    PROVE  /\ IsIdle(w)
           /\ \E pc \in Pcs, k \in Askers : Begin(w, p, pc, k) /\ Entitled(p, pc, k)
           /\ UNCHANGED <<locked, escrow, payVars, bucketVars, ledgerVars,
                          stripeVars, caseVars, owed>>
<1> DEFINE Begins == \E pc \in Pcs, k \in Askers :
                         Begin(w, p, pc, k) /\ Entitled(p, pc, k)
<1> USE DEF Pcs, Askers, Kinds, partVars, Entitled
<1>1. CASE StartSettlement(w, p) \/ StartSync(w, p)
      BY <1>1 DEF StartSettlement, StartSync, Settleable
<1>2. CASE StartAdminRelease(w, p)  BY <1>2 DEF StartAdminRelease
<1>3. ASSUME NEW k \in Kinds, StartOpenCase(w, p, k)
      PROVE  Begins
      BY <1>3 DEF StartOpenCase
<1>4. ASSUME NEW k \in Kinds, StartEscalate(w, p, k)
      PROVE  Begins
      BY <1>4 DEF StartEscalate
<1>5. ASSUME NEW k \in Kinds, StartVerdict(w, p, k)
      PROVE  Begins
      BY <1>5 DEF StartVerdict
<1>6. ASSUME NEW k \in Kinds, RetryVerdict(w, p, k)
      PROVE  Begins
      BY <1>6 DEF RetryVerdict
<1>7. CASE StartCloseReturn(w, p)  BY <1>7 DEF StartCloseReturn
<1>8. CASE CancelPart(w, p)  BY <1>8 DEF CancelPart
<1>9. CASE CancelOrder(w, p)  BY <1>9 DEF CancelOrder
<1>10. CASE RetryPart(w, p)  BY <1>10 DEF RetryPart, Retriable
<1>11. Begins
    BY <1>1, <1>2, <1>3, <1>4, <1>5, <1>6, <1>7, <1>8, <1>9, <1>10 DEF Start,
       StartSettlement, StartSync, StartAdminRelease
<1>12. /\ IsIdle(w)
       /\ UNCHANGED <<locked, escrow, payVars, bucketVars, ledgerVars,
                      stripeVars, caseVars, owed>>
    BY DEF Start, StartSettlement, StartSync, StartAdminRelease, StartOpenCase, StartEscalate,
       StartVerdict, RetryVerdict, StartCloseReturn, CancelPart, CancelOrder, RetryPart
<1> QED  BY <1>11, <1>12

\* A request begins alone on its payment.
LEMMA StartApart ==
    ASSUME TypeOK, Serial', NEW w \in Workers, NEW p \in Payments, Start(w, p)
    PROVE  Apart(w, p)
<1>1. PICK pc \in Pcs, k \in Askers : Begin(w, p, pc, k) /\ Entitled(p, pc, k)
      BY StartSays
<1>2. /\ req'[w].pc = pc /\ req'[w].p = p
      /\ \A v \in Workers : v # w => req'[v] = req[v]
      BY <1>1, BeginSays
<1>3. \A v \in Workers : v # w /\ ~IsIdle(v) => req[v].p # p
      BY <1>2 DEF Serial, IsIdle, Pcs
<1>4. \A q \in Payments : q # p => stage'[q] = stage[q]
      BY <1>1 DEF Entitled, TypeOK
<1>5. \A q \in Payments : q # p => SameRows(q)
      BY <1>4, StartSays DEF SameRows, payVars, bucketVars, ledgerVars, stripeVars,
         caseVars
<1> QED  BY <1>2, <1>3, <1>5 DEF Apart

-----------------------------------------------------------------------------
(* The escrow row is as the request in flight read it.                      *)

\* A share that was paid out or taken back does not come back into escrow.
SettledRows(q) ==
    /\ releases[q] + awards[q] <= 1 /\ debits[q] <= 1
    /\ releases[q] + awards[q] = 1 => escrow[q] \in {"RELEASED", "REFUNDED"}
    /\ debits[q] = 1 => escrow[q] = "REFUNDED"

\* The steps of a refund that has read the rows.
WithRows == {"limiting", "charging", "checking", "applying"}

EscrowAsRead(w) ==
    LET now == escrow[req[w].p] IN
    /\ At(w, "marking") => now \in {"HELD", "RELEASING"}
    /\ At(w, "releasing") => now = "RELEASING"
    /\ At(w, "freezing") => now = "HELD"
    /\ At(w, "recording") \/ At(w, "unfreezing") => now = "FROZEN"
    /\ At(w, "awarding") => \/ req[w].seen = "NONE"
                            \/ req[w].seen = now /\ now \in {"HELD", "FROZEN"}
    /\ req[w].pc \in WithRows => req[w].seen = now

EscrowInv ==
    /\ \A q \in Payments : SettledRows(q)
    /\ \A w \in Workers : ~IsIdle(w) => EscrowAsRead(w)

\* Only the payment and the request of the step have to be looked at.
LEMMA EscrowStep ==
    ASSUME TypeOK, EscrowInv, NEW w \in Workers, NEW p \in Payments, Apart(w, p),
           SettledRows(p)', ~IsIdle(w)' => EscrowAsRead(w)',
           \A v \in Workers : ~IsIdle(v) => req[v].p \in Payments
    PROVE  EscrowInv'
<1>1. \A q \in Payments : SettledRows(q)'
      BY DEF EscrowInv, SettledRows, Apart, SameRows
<1>2. ASSUME NEW v \in Workers, v # w, ~IsIdle(v)'
      PROVE  EscrowAsRead(v)'
  <2>1. req'[v] = req[v] /\ ~IsIdle(v) /\ req[v].p # p  BY <1>2 DEF Apart, IsIdle
  <2>2. escrow'[req[v].p] = escrow[req[v].p]  BY <2>1 DEF Apart, SameRows
  <2>3. EscrowAsRead(v)  BY <2>1 DEF EscrowInv
  <2> QED  BY <2>1, <2>2, <2>3 DEF EscrowAsRead, At
<1> QED  BY <1>1, <1>2 DEF EscrowInv

\* A request in flight is a whole record.
LEMMA AtPayment ==
    ASSUME TypeOK, NEW v \in Workers, ~IsIdle(v)
    PROVE  req[v] \in Requests /\ req[v].p \in Payments /\ req[v].k \in Askers
BY DEF TypeOK, IsIdle, Idle, Requests

LEMMA EscrowEnvironment ==
    ASSUME TypeOK, OnlyCaptured, EscrowInv, NEW p \in Payments, Environment(p)
    PROVE  EscrowInv'
<1>1. CASE UNCHANGED <<escrow, releases, awards, debits, req>>
      BY <1>1 DEF EscrowInv, SettledRows, EscrowAsRead, At, IsIdle
<1>2. CASE HoldFunds(p)
  <2>1. /\ escrow[p] = "NONE" /\ escrow' = [escrow EXCEPT ![p] = "HELD"]
        /\ UNCHANGED <<releases, awards, debits, req>>
        BY <1>2 DEF HoldFunds
  <2>2. \A w \in Workers : ~IsIdle(w) => req[w].p \in Payments /\ req[w].p # p
        BY <2>1, AtPayment DEF OnlyCaptured, Blank
  <2>3. \A w \in Workers : ~IsIdle(w)' => EscrowAsRead(w)'
        BY <2>1, <2>2 DEF EscrowInv, EscrowAsRead, At, IsIdle, TypeOK
  <2>4. \A q \in Payments : SettledRows(q)'
        BY <2>1 DEF EscrowInv, SettledRows, TypeOK
  <2> QED  BY <2>3, <2>4 DEF EscrowInv
<1> QED
    BY <1>1, <1>2 DEF Environment, Deliver, WindowEnds, CompleteOffer, WarrantyEnds,
       RetryLapses, ChargeRefunded, ledgerVars

LEMMA EscrowStart ==
    ASSUME TypeOK, EscrowInv, Serial', NEW w \in Workers, NEW p \in Payments,
           Start(w, p)
    PROVE  EscrowInv'
<1>1. PICK pc \in Pcs, k \in Askers : Begin(w, p, pc, k) /\ Entitled(p, pc, k)
      BY StartSays
<1>2. req'[w].pc = pc /\ req'[w].p = p  BY <1>1, BeginSays
<1>3. UNCHANGED <<escrow, releases, awards, debits>>
      BY StartSays DEF ledgerVars
<1>4. SettledRows(p)'  BY <1>3 DEF EscrowInv, SettledRows
<1>5. pc = "marking" => Releasable(p)  BY <1>1 DEF Entitled
<1>6. pc \notin {"releasing", "freezing", "recording", "unfreezing", "awarding"}
               \cup WithRows
      BY <1>1 DEF Entitled, WithRows
<1>7. EscrowAsRead(w)'
      BY <1>2, <1>3, <1>5, <1>6 DEF EscrowAsRead, At, Releasable
<1> QED  BY <1>4, <1>7, StartApart, AtPayment, EscrowStep

LEMMA EscrowFault ==
    ASSUME TypeOK, EscrowInv, Serial, NEW w \in Workers, Crash(w) \/ RefundFails(w)
    PROVE  EscrowInv'
<1>1. IsIdle(w)'  BY FinishSays DEF Crash, RefundFails, RefundError
<1>2. UNCHANGED <<escrow, releases, awards, debits>>
      BY DEF Crash, RefundFails, ledgerVars
<1>3. PICK p \in Payments : p = req[w].p /\ Apart(w, p)  BY StepApart
<1>4. SettledRows(p)'  BY <1>2 DEF EscrowInv, SettledRows
<1> QED  BY <1>1, <1>3, <1>4, AtPayment, EscrowStep

\* A step that leaves the escrow row alone.
LEMMA EscrowKept ==
    ASSUME TypeOK, EscrowInv, NEW w \in Workers, NEW p \in Payments, Apart(w, p),
           escrow'[p] = escrow[p], releases'[p] = releases[p],
           awards'[p] = awards[p], debits'[p] = debits[p],
           ~IsIdle(w)' => EscrowAsRead(w)'
    PROVE  EscrowInv'
<1>1. SettledRows(p)'  BY DEF EscrowInv, SettledRows
<1> QED  BY <1>1, AtPayment, EscrowStep

\* The writes of releases, cases and verdicts.
LEMMA EscrowCaseStep ==
    ASSUME TypeOK, EscrowInv, NEW w \in Workers, NEW p \in Payments,
           p = req[w].p, req[w] \in Requests, Apart(w, p),
           \/ MarkReleasing(w) \/ SettleRelease(w)
           \/ ReadHeld(w) \/ Freeze(w) \/ CreateCase(w)
           \/ CloseReturn(w) \/ ReadFrozen(w) \/ Unfreeze(w) \/ EscalateCase(w)
           \/ ReadAwarded(w) \/ Award(w) \/ DecideRefund(w) \/ MarkOwed(w)
    PROVE  EscrowInv'
<1>1. EscrowAsRead(w) /\ SettledRows(p)
  <2>1. ~IsIdle(w)
        BY ContinueActive DEF Continue
  <2> QED  BY <2>1 DEF EscrowInv
<1>2. /\ escrow[p] \in EscrowStatuses
      /\ releases[p] \in Nat /\ awards[p] \in Nat /\ debits[p] \in Nat
      BY DEF TypeOK
<1>3. \A pc \in Pcs : Goto(w, pc) =>
          req'[w].pc = pc /\ req'[w].p = p /\ req'[w].seen = req[w].seen
      BY GotoSays
<1>4. Finish(w) => IsIdle(w)'  BY FinishSays
<1>5. ASSUME SettledRows(p)', ~IsIdle(w)' => EscrowAsRead(w)'
      PROVE  EscrowInv'
      BY <1>5, AtPayment, EscrowStep
<1> USE <1>1, <1>2 DEF EscrowAsRead, SettledRows, At, WithRows, Pcs, ledgerVars
<1>6. CASE MarkReleasing(w)
  <2>1. escrow'[p] = "RELEASING" /\ req'[w].pc = "releasing" /\ req'[w].p = p
        BY <1>3, <1>6 DEF MarkReleasing, TypeOK
  <2>2. UNCHANGED <<releases, awards, debits>>  BY <1>6 DEF MarkReleasing
  <2>3. escrow[p] \in {"HELD", "RELEASING"}  BY <1>6 DEF MarkReleasing
  <2> QED  BY <1>5, <2>1, <2>2, <2>3
<1>7. CASE SettleRelease(w)
  <2>1. IsIdle(w)' /\ escrow[p] = "RELEASING" /\ UNCHANGED <<awards, debits>>
        BY <1>4, <1>7 DEF SettleRelease
  <2>2. releases[p] = 0 /\ awards[p] = 0 /\ debits[p] = 0  BY <2>1
  <2>3. ~AlreadyReleased(req[w].p)  BY <2>2 DEF AlreadyReleased
  <2>4. Claimable(req[w].p)  BY <2>1 DEF Claimable
  <2>5. PayMerchant(req[w].p)  BY <1>7, <2>3, <2>4, Zenon DEF SettleRelease
  <2>6. escrow'[p] = "RELEASED" /\ releases'[p] = 1
        BY <2>2, <2>5 DEF PayMerchant, Counted, TypeOK
  <2> QED  BY <1>5, <2>1, <2>2, <2>6
<1>8. CASE ReadHeld(w)
  <2>1. UNCHANGED <<escrow, releases, awards, debits>>  BY <1>8 DEF ReadHeld
  <2>2. IsIdle(w)' \/ (req'[w].pc = "freezing" /\ req'[w].p = p /\ escrow[p] = "HELD")
        BY <1>3, <1>4, <1>8 DEF ReadHeld, Freezable
  <2> QED  BY <1>5, <2>1, <2>2
<1>9. CASE Freeze(w)
  <2>1. escrow'[p] = "FROZEN" /\ req'[w].pc = "recording" /\ req'[w].p = p
        BY <1>3, <1>9 DEF Freeze, TypeOK
  <2>2. UNCHANGED <<releases, awards, debits>>  BY <1>9 DEF Freeze
  <2>3. escrow[p] = "HELD"  BY <1>9 DEF Freeze
  <2> QED  BY <1>5, <2>1, <2>2, <2>3
<1>10. CASE CreateCase(w) \/ EscalateCase(w) \/ MarkOwed(w)
  <2>1. UNCHANGED <<escrow, releases, awards, debits>> /\ IsIdle(w)'
        BY <1>4, <1>10 DEF CreateCase, EscalateCase, MarkOwed
  <2> QED  BY <1>5, <2>1
<1>11. CASE CloseReturn(w) \/ DecideRefund(w)
  <2>1. UNCHANGED <<escrow, releases, awards, debits>>
        BY <1>11 DEF CloseReturn, DecideRefund
  <2>2. req'[w].pc \in {"unfreeze", "refund"}
        BY <1>3, <1>11 DEF CloseReturn, DecideRefund
  <2> QED  BY <1>5, <2>1, <2>2
<1>12. CASE ReadFrozen(w)
  <2>1. UNCHANGED <<escrow, releases, awards, debits>>  BY <1>12 DEF ReadFrozen
  <2>2. \/ IsIdle(w)'
        \/ req'[w].pc = "unfreezing" /\ req'[w].p = p /\ escrow[p] = "FROZEN"
        BY <1>3, <1>4, <1>12 DEF ReadFrozen, Unfreezable
  <2> QED  BY <1>5, <2>1, <2>2
<1>13. CASE Unfreeze(w)
  <2>1. escrow'[p] = "HELD" /\ IsIdle(w)'  BY <1>4, <1>13 DEF Unfreeze, TypeOK
  <2>2. UNCHANGED <<releases, awards, debits>>  BY <1>13 DEF Unfreeze
  <2>3. escrow[p] = "FROZEN"  BY <1>13 DEF Unfreeze
  <2> QED  BY <1>5, <2>1, <2>2, <2>3
<1>14. CASE ReadAwarded(w)
  <2> DEFINE s == IF escrow[p] \in {"HELD", "FROZEN"} THEN escrow[p] ELSE "NONE"
             r == [req[w] EXCEPT !.pc = "awarding", !.seen = s]
  <2>1. r.pc = "awarding" /\ r.p = p /\ r.seen = s  BY DEF Requests
  <2>2. req' = [req EXCEPT ![w] = r]  BY <1>14 DEF ReadAwarded
  <2>3. UNCHANGED <<escrow, releases, awards, debits>>  BY <1>14 DEF ReadAwarded
  <2> HIDE DEF r
  <2>4. req'[w] = r  BY <2>2 DEF TypeOK
  <2> QED  BY <1>5, <2>1, <2>3, <2>4
<1>15. CASE Award(w)
  <2>1. IsIdle(w)' /\ UNCHANGED <<releases, debits>>  BY <1>4, <1>15 DEF Award
  <2>2. CASE UNCHANGED <<escrow, awards>>  BY <1>5, <2>1, <2>2
  <2>3. CASE req[w].seen # "NONE" /\ Counted(awards, p)
             /\ escrow' = [escrow EXCEPT ![p] = "RELEASED"]
    <3>1. escrow[p] \in {"HELD", "FROZEN"}  BY <1>15, <2>3 DEF Award
    <3>2. escrow'[p] = "RELEASED" /\ awards'[p] = awards[p] + 1
          BY <2>3 DEF Counted, TypeOK
    <3> QED  BY <1>5, <2>1, <3>1, <3>2
  <2> QED  BY <1>15, <2>2, <2>3 DEF Award
<1> QED
    BY <1>6, <1>7, <1>8, <1>9, <1>10, <1>11, <1>12, <1>13, <1>14, <1>15

\* What the first steps of a refund write in the request: what is wanted, ...
LEMMA TargetSays ==
    ASSUME TypeOK, NEW w \in Workers, NEW p \in Payments, p = req[w].p,
           req[w] \in Requests, NEW t \in Targets(p, req[w].k), FixTarget(w, t)
    PROVE  \/ IsIdle(w)'
           \/ /\ req'[w].pc = "reading"
              /\ req'[w].p = p /\ req'[w].k = req[w].k /\ req'[w].skip = req[w].skip
              /\ req'[w].amt = Requested(p, req[w].k, t)
<1> DEFINE n == Requested(p, req[w].k, t)
           r == [req[w] EXCEPT !.pc = "reading", !.amt = n]
<1>1. Finish(w) \/ req' = [req EXCEPT ![w] = r]  BY DEF FixTarget
<1> HIDE DEF n
<1>2. /\ r.pc = "reading" /\ r.p = p /\ r.k = req[w].k /\ r.skip = req[w].skip
      /\ r.amt = n
      BY DEF Requests
<1> HIDE DEF r
<1>3. CASE Finish(w)  BY <1>3, FinishSays
<1>4. CASE req' = [req EXCEPT ![w] = r]
  <2>1. req'[w] = r  BY <1>4 DEF TypeOK
  <2> QED  BY <1>2, <2>1 DEF n
<1> QED  BY <1>1, <1>3, <1>4

\* ... the rows, ...
LEMMA ReadSays ==
    ASSUME TypeOK, NEW w \in Workers, NEW p \in Payments, p = req[w].p,
           req[w] \in Requests, ReadRows(w)
    PROVE  /\ req'[w].pc = "limiting"
           /\ req'[w].p = p /\ req'[w].k = req[w].k /\ req'[w].skip = req[w].skip
           /\ req'[w].amt = req[w].amt
           /\ req'[w].seen = escrow[p] /\ req'[w].prior = refunded[p]
<1> DEFINE r == [req[w] EXCEPT !.pc = "limiting", !.seen = escrow[p],
                               !.prior = refunded[p]]
<1>1. /\ r.pc = "limiting" /\ r.p = p /\ r.k = req[w].k /\ r.skip = req[w].skip
      /\ r.amt = req[w].amt /\ r.seen = escrow[p] /\ r.prior = refunded[p]
      BY DEF Requests
<1>2. req' = [req EXCEPT ![w] = r]  BY DEF ReadRows
<1> HIDE DEF r
<1> QED  BY <1>1, <1>2 DEF TypeOK

\* ... and the amount.
LEMMA AmountSays ==
    ASSUME TypeOK, NEW w \in Workers, NEW p \in Payments, p = req[w].p,
           req[w] \in Requests, FixAmount(w)
    PROVE  \/ IsIdle(w)'
           \/ /\ req'[w].p = p /\ req'[w].k = req[w].k /\ req'[w].skip = req[w].skip
              /\ req'[w].seen = req[w].seen /\ req'[w].prior = req[w].prior
              /\ \/ /\ SyncFromStripe(w)
                    /\ req'[w].pc = IF req[w].k \in Kinds THEN "checking"
                                    ELSE "applying"
                    /\ req'[w].amt = chargeBack[p]
                 \/ /\ ~SyncFromStripe(w) /\ MaxRefundable(p) > 0
                    /\ req'[w].pc = "charging"
                    /\ req'[w].amt = MinOf(req[w].amt, MaxRefundable(p))
<1>1. ASSUME NEW pc, NEW n, req' = [req EXCEPT ![w].pc = pc, ![w].amt = n]
      PROVE  /\ req'[w].p = p /\ req'[w].k = req[w].k /\ req'[w].skip = req[w].skip
             /\ req'[w].seen = req[w].seen /\ req'[w].prior = req[w].prior
             /\ req'[w].pc = pc /\ req'[w].amt = n
  <2> DEFINE r == [req[w] EXCEPT !.pc = pc, !.amt = n]
  <2>1. /\ r.p = p /\ r.k = req[w].k /\ r.skip = req[w].skip
        /\ r.seen = req[w].seen /\ r.prior = req[w].prior
        /\ r.pc = pc /\ r.amt = n
        BY DEF Requests
  <2>2. req' = [req EXCEPT ![w] = r]  BY <1>1
  <2> HIDE DEF r
  <2> QED  BY <2>1, <2>2 DEF TypeOK
<1>2. CASE Finish(w)  BY <1>2, FinishSays
<1>3. CASE /\ SyncFromStripe(w)
           /\ req' = [req EXCEPT
                  ![w].pc = IF req[w].k \in Kinds THEN "checking" ELSE "applying",
                  ![w].amt = chargeBack[p]]
      BY <1>1, <1>3
<1>4. CASE /\ ~SyncFromStripe(w) /\ MaxRefundable(p) > 0
           /\ req' = [req EXCEPT ![w].pc = "charging",
                                 ![w].amt = MinOf(@, MaxRefundable(p))]
  <2> DEFINE n == MinOf(req[w].amt, MaxRefundable(p))
  <2>1. req' = [req EXCEPT ![w].pc = "charging", ![w].amt = n]  BY <1>4
  <2> HIDE DEF n
  <2> QED  BY <1>1, <1>4, <2>1 DEF n
<1> QED  BY <1>2, <1>3, <1>4 DEF FixAmount, RefundError

\* What the check of a verdict's refund transaction wrote in it.
LEMMA CheckSays ==
    ASSUME TypeOK, NEW w \in Workers, req[w] \in Requests, CheckApplied(w)
    PROVE  /\ req'[w].pc = "applying" /\ req'[w].p = req[w].p
           /\ req'[w].k = req[w].k /\ req'[w].seen = req[w].seen
           /\ req'[w].prior = req[w].prior /\ req'[w].amt = req[w].amt
           /\ req'[w].skip <=> /\ refunded[req[w].p] >= req[w].amt
                              /\ payEscrow[req[w].p] = "REFUNDED"
<1> DEFINE b == refunded[req[w].p] >= req[w].amt /\ payEscrow[req[w].p] = "REFUNDED"
           r == [req[w] EXCEPT !.pc = "applying", !.skip = b]
<1>1. /\ r.pc = "applying" /\ r.p = req[w].p /\ r.k = req[w].k
      /\ r.seen = req[w].seen /\ r.prior = req[w].prior
      /\ r.amt = req[w].amt /\ r.skip = b
      BY DEF Requests
<1>2. req' = [req EXCEPT ![w] = r]  BY DEF CheckApplied
<1> HIDE DEF r
<1>3. req'[w] = r  BY <1>2 DEF TypeOK
<1> QED  BY <1>1, <1>3

\* The writes of a refund.
LEMMA EscrowRefundStep ==
    ASSUME TypeOK, EscrowInv, NEW w \in Workers, NEW p \in Payments,
           p = req[w].p, req[w] \in Requests, Apart(w, p),
           \/ \E t \in Targets(p, req[w].k) : FixTarget(w, t)
           \/ ReadRows(w) \/ FixAmount(w)
           \/ CallStripe(w) \/ CheckApplied(w) \/ ApplyRefund(w)
    PROVE  EscrowInv'
<1>1. EscrowAsRead(w) /\ SettledRows(p)
  <2>1. ~IsIdle(w)
        BY Zenon DEF IsIdle, At, FixTarget, ReadRows, FixAmount, CallStripe,
           CheckApplied, ApplyRefund
  <2> QED  BY <2>1 DEF EscrowInv
<1>2. /\ escrow[p] \in EscrowStatuses
      /\ releases[p] \in Nat /\ awards[p] \in Nat /\ debits[p] \in Nat
      BY DEF TypeOK
<1>3. ASSUME UNCHANGED <<escrow, releases, awards, debits>>,
             \/ IsIdle(w)' \/ req'[w].pc = "reading"
             \/ /\ req'[w].pc \in WithRows /\ req'[w].p = p
                /\ req'[w].seen = escrow[p]
      PROVE  EscrowInv'
      BY <1>3, EscrowKept DEF EscrowAsRead, At, WithRows
<1>4. CASE \/ \E t \in Targets(p, req[w].k) : FixTarget(w, t)
           \/ ReadRows(w) \/ FixAmount(w)
  <2>1. UNCHANGED <<escrow, releases, awards, debits>>
        BY <1>4 DEF FixTarget, ReadRows, FixAmount, ledgerVars
  <2>2. CASE \E t \in Targets(p, req[w].k) : FixTarget(w, t)
        BY <1>3, <2>1, <2>2, TargetSays
  <2>3. CASE ReadRows(w)  BY <1>3, <2>1, <2>3, ReadSays DEF WithRows
  <2>4. CASE FixAmount(w)
    <3>1. req[w].seen = escrow[p]
          BY <1>1, <2>4 DEF FixAmount, EscrowAsRead, At, WithRows
    <3> QED  BY <1>3, <2>1, <2>4, <3>1, AmountSays DEF WithRows
  <2> QED  BY <1>4, <2>2, <2>3, <2>4
<1>5. CASE CallStripe(w)
  <2>1. UNCHANGED <<escrow, releases, awards, debits>>
        BY <1>5 DEF CallStripe, ledgerVars
  <2>2. req[w].seen = escrow[p]
        BY <1>1, <1>5 DEF CallStripe, EscrowAsRead, At, WithRows
  <2>3. Finish(w) \/ \E pc \in {"checking", "applying"} : Goto(w, pc)
        BY <1>5 DEF CallStripe, RefundError
  <2>4. IsIdle(w)' \/ /\ req'[w].pc \in WithRows /\ req'[w].p = p
                      /\ req'[w].seen = escrow[p]
        BY <2>2, <2>3, FinishSays, GotoSays DEF WithRows
  <2> QED  BY <1>3, <2>1, <2>4
<1>6. CASE CheckApplied(w)
  <2>1. UNCHANGED <<escrow, releases, awards, debits>>
        BY <1>6 DEF CheckApplied, ledgerVars
  <2>2. req[w].seen = escrow[p]
        BY <1>1, <1>6 DEF CheckApplied, EscrowAsRead, At, WithRows
  <2> QED  BY <1>3, <1>6, <2>1, <2>2, CheckSays DEF WithRows
<1>7. CASE ApplyRefund(w)
  <2>1. IsIdle(w)' /\ UNCHANGED <<releases, awards>>
        BY <1>7, FinishSays DEF ApplyRefund
  <2>2. req[w].seen = escrow[p]
        BY <1>1, <1>7 DEF ApplyRefund, EscrowAsRead, At, WithRows
  <2>3. CASE UNCHANGED <<escrow, debits>>  BY <1>3, <2>1, <2>3
  <2>4. CASE ApplyLedger(w)
    <3>1. escrow'[p] = "REFUNDED"  BY <2>4 DEF ApplyLedger, TypeOK
    <3>2. debits'[p] = IF escrow[p] \in {"HELD", "FROZEN", "RELEASED"}
                       THEN debits[p] + 1 ELSE debits[p]
          BY <2>2, <2>4 DEF ApplyLedger, Counted, TypeOK
    <3>3. SettledRows(p)'  BY <1>1, <1>2, <2>1, <3>1, <3>2 DEF SettledRows
    <3> QED  BY <2>1, <3>3, AtPayment, EscrowStep
  <2> QED  BY <1>7, <2>3, <2>4 DEF ApplyRefund
<1> QED  BY <1>4, <1>5, <1>6, <1>7

LEMMA EscrowNext ==
    TypeOK /\ OnlyCaptured /\ EscrowInv /\ Serial /\ Serial' /\ [Next]_vars
        => EscrowInv'
<1> SUFFICES ASSUME TypeOK, OnlyCaptured, EscrowInv, Serial, Serial', [Next]_vars
             PROVE  EscrowInv'
    OBVIOUS
<1>1. CASE UNCHANGED vars
      BY <1>1 DEF vars, ledgerVars, EscrowInv, SettledRows, EscrowAsRead, At, IsIdle
<1>2. ASSUME NEW p \in Payments, Environment(p)
      PROVE  EscrowInv'
      BY <1>2, EscrowEnvironment
<1>3. ASSUME NEW w \in Workers, NEW p \in Payments, Start(w, p)
      PROVE  EscrowInv'
      BY <1>3, EscrowStart
<1>4. ASSUME NEW w \in Workers, Continue(w)
      PROVE  EscrowInv'
      BY <1>4, StepApart, EscrowCaseStep, EscrowRefundStep DEF Continue
<1>5. ASSUME NEW w \in Workers, Crash(w) \/ RefundFails(w)
      PROVE  EscrowInv'
      BY <1>5, EscrowFault
<1> QED  BY <1>1, <1>2, <1>3, <1>4, <1>5 DEF Next

LEMMA InitEscrow == Init => EscrowInv
BY DEF Init, EscrowInv, SettledRows, IsIdle, Idle

\* When the requests of a payment do not overlap, the merchant is paid at most
\* once, by completion or by verdict, and pays back at most once, whatever the
\* webhooks, crashes, lost answers and retries in between (SettledOnce).
THEOREM SerialSettledOnce == Spec /\ []Serial => []SettledOnce
<1> DEFINE Inv == TypeOK /\ OnlyCaptured /\ EscrowInv
<1>1. Init => Inv
  <2>1. Init => OnlyCaptured  BY DEF Init, OnlyCaptured, Blank, IsIdle, Idle
  <2> QED  BY <2>1, InitType, InitEscrow
<1>2. Inv /\ Serial /\ Serial' /\ [Next]_vars => Inv'
      BY NextType, CapturedNext, EscrowNext
<1>3. Inv => SettledOnce  BY DEF EscrowInv, SettledRows, SettledOnce
<1> HIDE DEF Inv
<1> QED  BY <1>1, <1>2, <1>3, PTL DEF Spec

-----------------------------------------------------------------------------
(* The cases are as the request in flight read them.                        *)

Open(q, k) == case[q][k] \in OpenStatuses
Uncased(q) == \A k \in Kinds : case[q][k] = "NONE"

\* A case waits for the first verdict on the part.
Waiting(q) ==
    /\ \E k \in Kinds : Open(q, k)
    /\ \A k \in Kinds : ~verdictLocked[q][k]

Early == {"AWAITING_PAYMENT", "IN_PREPARATION"}

\* The part stays locked while a case waits on it, so that no second one opens.
CaseRows(q) ==
    /\ Waiting(q) => escrow[q] = "FROZEN"
    /\ stage[q] \in Early => Uncased(q)
    /\ owed[q] # "no" => Uncased(q) /\ stage[q] = "CANCELLED"
    /\ case[q]["return"] \in {"NONE", "CANCELLED", "PENDING"}
           => ~verdictLocked[q]["return"]
    /\ case[q]["return"] \in {"PENDING", "ESCALATED", "APPROVED"} => locked[q]
    /\ Open(q, "dispute") /\ ~verdictLocked[q]["return"] => locked[q]
    /\ ~(Open(q, "return") /\ Open(q, "dispute"))

Refund == {"refund", "reading"} \cup WithRows

CaseAsRead(w) ==
    LET p == req[w].p
        k == req[w].k IN
    /\ req[w].pc \in {"uploading", "freezing", "recording"} =>
           /\ k \in Kinds /\ stage[p] \in {"DELIVERED", "COMPLETED"}
           /\ ~Open(p, "return") /\ ~Open(p, "dispute")
    /\ req[w].pc \in {"unfreeze", "unfreezing"} => ~Waiting(p)
    /\ At(w, "cancelling") => case[p]["return"] = "PENDING"
    /\ At(w, "expiring") => case[p]["return"] = "APPROVED"
    /\ At(w, "escalating") => k \in Kinds /\ case[p][k] = "PENDING"
    /\ req[w].pc \in {"judging", "awarding", "deciding"} =>
           k \in Kinds /\ case[p][k] # "NONE"
    /\ req[w].pc \in Refund /\ k \in Kinds => verdictLocked[p][k]
    /\ At(w, "owing") \/ (req[w].pc \in Refund /\ k \notin Kinds) =>
           Uncased(p) /\ stage[p] = "CANCELLED"

CaseInv ==
    /\ \A q \in Payments : CaseRows(q)
    /\ \A w \in Workers : ~IsIdle(w) => CaseAsRead(w)

LEMMA CaseStep ==
    ASSUME TypeOK, CaseInv, NEW w \in Workers, NEW p \in Payments, Apart(w, p),
           CaseRows(p)', ~IsIdle(w)' => CaseAsRead(w)'
    PROVE  CaseInv'
<1>1. ASSUME NEW q \in Payments, q # p
      PROVE  CaseRows(q)'
  <2>1. SameRows(q) /\ CaseRows(q)  BY <1>1 DEF CaseInv, Apart
  <2> QED  BY <2>1 DEF CaseRows, SameRows, Waiting, Open, Uncased
<1>2. ASSUME NEW v \in Workers, v # w, ~IsIdle(v)'
      PROVE  CaseAsRead(v)'
  <2>1. req'[v] = req[v] /\ ~IsIdle(v) /\ req[v].p # p  BY <1>2 DEF Apart, IsIdle
  <2>2. SameRows(req[v].p)  BY <2>1, AtPayment DEF Apart
  <2>3. CaseAsRead(v)  BY <2>1 DEF CaseInv
  <2> QED
      BY <2>1, <2>2, <2>3 DEF CaseAsRead, At, SameRows, Waiting, Open, Uncased
<1> QED  BY <1>1, <1>2 DEF CaseInv

\* The environment changes no case; a part it completes was delivered.
LEMMA CaseEnvironment ==
    ASSUME TypeOK, OnlyCaptured, CaseInv, NEW p \in Payments, Environment(p)
    PROVE  CaseInv'
<1> DEFINE Same(q) == /\ case'[q] = case[q] /\ verdictLocked'[q] = verdictLocked[q]
                      /\ (owed'[q] # "no" => owed[q] # "no") /\ (locked[q] => locked'[q])
                      /\ escrow'[q] = escrow[q] \/ escrow[q] = "NONE"
                      /\ \/ stage'[q] = stage[q]
                         \/ stage[q] = "AWAITING_PAYMENT" /\ escrow[q] = "NONE"
                         \/ stage[q] = "IN_PREPARATION" /\ stage'[q] = "DELIVERED"
                         \/ stage[q] = "DELIVERED" /\ stage'[q] = "COMPLETED"
<1>1. UNCHANGED req /\ \A q \in Payments : Same(q)
  <2> USE DEF TypeOK, caseVars, partVars
  <2>1. CASE HoldFunds(p)  BY <2>1 DEF HoldFunds
  <2>2. CASE Deliver(p)  BY <2>2 DEF Deliver
  <2>3. CASE WindowEnds(p)  BY <2>3 DEF WindowEnds
  <2>4. CASE CompleteOffer(p)  BY <2>4 DEF CompleteOffer
  <2>5. CASE WarrantyEnds(p)  BY <2>5 DEF WarrantyEnds
  <2>6. CASE \E e \in events[p] : ChargeRefunded(p, e)  BY <2>6 DEF ChargeRefunded
  <2>7. CASE RetryLapses(p)  BY <2>7 DEF RetryLapses
  <2> QED  BY <2>1, <2>2, <2>3, <2>4, <2>5, <2>6, <2>7 DEF Environment
<1>2. ASSUME NEW q \in Payments
      PROVE  CaseRows(q)'
  <2>1. Same(q) /\ CaseRows(q)  BY <1>1 DEF CaseInv
  <2>2. escrow[q] = "NONE" => Uncased(q) /\ owed[q] = "no"
        BY DEF OnlyCaptured, Blank, Uncased
  <2> QED
      BY <2>1, <2>2 DEF CaseRows, Waiting, Open, Uncased, OpenStatuses, Early, Kinds
<1>3. ASSUME NEW v \in Workers, ~IsIdle(v)'
      PROVE  CaseAsRead(v)'
  <2>1. req'[v] = req[v] /\ ~IsIdle(v)  BY <1>1, <1>3 DEF IsIdle
  <2>2. CaseAsRead(v) /\ Same(req[v].p)  BY <1>1, <2>1, AtPayment DEF CaseInv
  <2>3. escrow[req[v].p] # "NONE"  BY <2>1, AtPayment DEF OnlyCaptured, Blank
  <2> QED  BY <2>1, <2>2, <2>3 DEF CaseAsRead, At, Waiting, Open, Uncased
<1> QED  BY <1>2, <1>3 DEF CaseInv

LEMMA CaseStart ==
    ASSUME TypeOK, CaseInv, Serial', NEW w \in Workers, NEW p \in Payments,
           Start(w, p)
    PROVE  CaseInv'
<1>1. PICK pc \in Pcs, k \in Askers : Begin(w, p, pc, k) /\ Entitled(p, pc, k)
      BY StartSays
<1>2. req'[w].pc = pc /\ req'[w].p = p /\ req'[w].k = k  BY <1>1, BeginSays
<1>3. UNCHANGED <<escrow, case, verdictLocked, locked, owed>>
      BY StartSays DEF caseVars
<1>4. CaseRows(p)  BY DEF CaseInv
<1>5. \/ UNCHANGED stage
      \/ stage[p] = "IN_PREPARATION" /\ stage'[p] = "CANCELLED"
      BY <1>1 DEF Entitled, TypeOK
<1>6. CaseRows(p)'
      BY <1>3, <1>4, <1>5 DEF CaseRows, Waiting, Open, Uncased, Early
<1>7. CaseAsRead(w)'
  <2> USE <1>2, <1>3, <1>4 DEF CaseAsRead, At, Waiting, Open, Uncased, Refund, WithRows,
          CaseRows
  <2>1. CASE pc = "uploading"
    <3>1. stage[p] = "DELIVERED" /\ UNCHANGED stage /\ ~locked[p] /\ NoCase(p, k)
          /\ k \in Kinds
          BY <1>1, <2>1 DEF Entitled
    <3>2. ~Open(p, "return")  BY <3>1 DEF OpenStatuses
    <3>3. ~Open(p, "dispute")
          BY <3>1, <3>2 DEF OpenStatuses, NoCase, Kinds
    <3> QED  BY <2>1, <3>1, <3>2, <3>3
  <2>2. CASE pc \in {"refund", "owing"}
    <3>1. \/ k \in Kinds /\ verdictLocked[p][k] /\ pc = "refund"
          \/ k \notin Kinds /\ owed[p] = "due" /\ UNCHANGED stage
          \/ k \notin Kinds /\ stage[p] = "IN_PREPARATION" /\ stage'[p] = "CANCELLED"
          BY <1>1, <2>2 DEF Entitled, TypeOK, Kinds
    <3> QED  BY <2>2, <3>1 DEF Early
  <2>3. CASE pc \notin {"uploading", "refund", "owing"}
    <3>1. \/ pc = "marking"
          \/ pc = "expiring" /\ case[p]["return"] = "APPROVED"
          \/ pc = "cancelling" /\ case[p]["return"] = "PENDING"
          \/ pc = "escalating" /\ k \in Kinds /\ case[p][k] = "PENDING"
          \/ pc \in {"judging", "deciding"} /\ k \in Kinds /\ case[p][k] # "NONE"
          BY <1>1, <2>3 DEF Entitled, Undecided
    <3> QED  BY <3>1
  <2> QED  BY <2>1, <2>2, <2>3
<1> QED  BY <1>6, <1>7, StartApart, CaseStep

LEMMA CaseFault ==
    ASSUME TypeOK, CaseInv, Serial, NEW w \in Workers, Crash(w) \/ RefundFails(w)
    PROVE  CaseInv'
<1>1. PICK p \in Payments : p = req[w].p /\ req[w] \in Requests /\ Apart(w, p)
      BY StepApart
<1>2. IsIdle(w)'  BY FinishSays DEF Crash, RefundFails, RefundError
<1>3. UNCHANGED <<escrow, case, verdictLocked, locked, stage>>
      BY DEF Crash, RefundFails, caseVars, partVars
<1>4. CaseRows(p) /\ CaseAsRead(w)
      BY ContinueActive DEF CaseInv
<1>5. owed'[p] # "no" =>
          owed[p] # "no" \/ (req[w].pc \in Refund /\ req[w].k \notin Kinds)
      BY <1>1 DEF Crash, RefundFails, RefundError, Owes, TypeOK, Refund, WithRows, Kinds
<1>6. CaseRows(p)'
      BY <1>1, <1>3, <1>4, <1>5 DEF CaseRows, CaseAsRead, Waiting, Open, Uncased
<1> QED  BY <1>1, <1>2, <1>6, CaseStep

\* The steps of releases, cases and verdicts.
LEMMA CasesCaseStep ==
    ASSUME TypeOK, EscrowInv, CaseInv, NEW w \in Workers, NEW p \in Payments,
           p = req[w].p, req[w] \in Requests, Apart(w, p),
           \/ MarkReleasing(w) \/ SettleRelease(w)
           \/ ReadHeld(w) \/ Freeze(w) \/ CreateCase(w)
           \/ CloseReturn(w) \/ ReadFrozen(w) \/ Unfreeze(w) \/ EscalateCase(w)
           \/ ReadAwarded(w) \/ Award(w) \/ DecideRefund(w) \/ MarkOwed(w)
    PROVE  CaseInv'
<1> DEFINE k == req[w].k
           Kept == /\ case'[p] = case[p] /\ verdictLocked'[p] = verdictLocked[p]
                   /\ stage'[p] = stage[p] /\ locked'[p] = locked[p]
<1>1. CaseAsRead(w) /\ CaseRows(p) /\ EscrowAsRead(w) /\ k \in Askers
  <2>1. ~IsIdle(w)  BY ContinueActive DEF Continue
  <2> QED  BY <2>1 DEF CaseInv, EscrowInv, Requests
<1>2. \A pc \in Pcs : Goto(w, pc) =>
          req'[w].pc = pc /\ req'[w].p = p /\ req'[w].k = k
      BY GotoSays
<1>3. Finish(w) => IsIdle(w)'  BY FinishSays
<1>4. ASSUME CaseRows(p)', ~IsIdle(w)' => CaseAsRead(w)'
      PROVE  CaseInv'
      BY <1>4, CaseStep
<1>5. ASSUME Kept, owed'[p] = owed[p],
             escrow'[p] = escrow[p] \/ escrow'[p] = "FROZEN" \/ ~Waiting(p)
      PROVE  CaseRows(p)'
      BY <1>1, <1>5 DEF CaseRows, Waiting, Open, Uncased
<1> USE DEF Pcs
<1>6. CASE MarkReleasing(w) \/ SettleRelease(w)
  <2>1. ~Waiting(p)
        BY <1>1, <1>6 DEF MarkReleasing, SettleRelease, EscrowAsRead, CaseRows, At
  <2>2. Kept /\ owed'[p] = owed[p]
        BY <1>6 DEF MarkReleasing, SettleRelease, partVars, caseVars
  <2>3. IsIdle(w)' \/ req'[w].pc = "releasing"
        BY <1>2, <1>3, <1>6 DEF MarkReleasing, SettleRelease
  <2> QED  BY <1>4, <1>5, <2>1, <2>2, <2>3 DEF CaseAsRead, At, Refund, WithRows
<1>7. CASE ReadHeld(w)
  <2>1. Kept /\ owed'[p] = owed[p] /\ escrow' = escrow
        BY <1>7 DEF ReadHeld, partVars, caseVars
  <2>2. \/ IsIdle(w)'
        \/ req'[w].pc = "freezing" /\ req'[w].p = p /\ req'[w].k = k
        BY <1>2, <1>3, <1>7 DEF ReadHeld
  <2>3. At(w, "uploading")  BY <1>7 DEF ReadHeld
  <2> QED
      BY <1>1, <1>4, <1>5, <2>1, <2>2, <2>3 DEF CaseAsRead, At, Refund, WithRows, Open
<1>8. CASE Freeze(w)
  <2>1. Kept /\ owed'[p] = owed[p] /\ escrow'[p] = "FROZEN"
        BY <1>8 DEF Freeze, partVars, caseVars, TypeOK
  <2>2. req'[w].pc = "recording" /\ req'[w].p = p /\ req'[w].k = k
        BY <1>2, <1>8 DEF Freeze
  <2>3. At(w, "freezing")  BY <1>8 DEF Freeze
  <2> QED
      BY <1>1, <1>4, <1>5, <2>1, <2>2, <2>3 DEF CaseAsRead, At, Refund, WithRows, Open
<1>9. CASE CreateCase(w)
  <2>1. IsIdle(w)' /\ escrow'[p] = escrow[p] /\ escrow[p] = "FROZEN"
        BY <1>1, <1>3, <1>9 DEF CreateCase, EscrowAsRead, At
  <2>2. /\ k \in Kinds /\ stage[p] \in {"DELIVERED", "COMPLETED"}
        /\ ~Open(p, "return") /\ ~Open(p, "dispute")
        BY <1>1, <1>9 DEF CreateCase, CaseAsRead, At
  <2>3. /\ locked'[p] /\ stage'[p] = stage[p] /\ owed'[p] = owed[p]
        /\ case'[p] = [case[p] EXCEPT ![k] = "PENDING"]
        /\ verdictLocked'[p] = [verdictLocked[p] EXCEPT ![k] = FALSE]
        BY <1>9 DEF CreateCase, TypeOK
  <2>4. /\ DOMAIN case[p] = Kinds /\ DOMAIN verdictLocked[p] = Kinds  BY DEF TypeOK
  <2>5. CaseRows(p)'
        BY <1>1, <2>1, <2>2, <2>3, <2>4 DEF CaseRows, Waiting, Open, OpenStatuses,
           Early, Kinds
  <2> QED  BY <1>4, <2>1, <2>5
<1>10. CASE CloseReturn(w)
  <2>1. /\ escrow'[p] = escrow[p] /\ stage'[p] = stage[p] /\ owed'[p] = owed[p]
        /\ case'[p] = [case[p] EXCEPT !["return"] = ClosedAs(w)]
        /\ verdictLocked'[p] = [verdictLocked[p] EXCEPT !["return"] =
                                    @ \/ At(w, "expiring")]
        BY <1>10 DEF CloseReturn, TypeOK
  <2>2. DOMAIN case[p] = Kinds /\ DOMAIN verdictLocked[p] = Kinds
        BY DEF TypeOK
  <2>3. req'[w].pc = "unfreeze" /\ req'[w].p = p  BY <1>2, <1>10 DEF CloseReturn
  <2>4. CASE At(w, "cancelling")
    <3>1. ~At(w, "expiring")  BY <2>4 DEF At
    <3>2. case[p]["return"] = "PENDING"  BY <1>1, <2>4 DEF CaseAsRead
    <3>3. ~verdictLocked[p]["return"] /\ ~Open(p, "dispute")
          BY <1>1, <3>2 DEF CaseRows, Open, OpenStatuses
    <3>4. /\ case'[p]["return"] = "CANCELLED" /\ ~verdictLocked'[p]["return"]
          /\ case'[p]["dispute"] = case[p]["dispute"]
          BY <2>1, <2>2, <2>4, <3>1, <3>3 DEF ClosedAs, Kinds
    <3>5. ~Waiting(p)'  BY <3>3, <3>4 DEF Waiting, Open, Kinds, OpenStatuses
    <3>6. CaseRows(p)'
          BY <1>1, <2>1, <3>2, <3>3, <3>4, <3>5 DEF CaseRows, Open, OpenStatuses,
             Uncased, Kinds
    <3> QED  BY <1>4, <2>3, <3>5, <3>6 DEF CaseAsRead, At, Refund, WithRows
  <2>5. CASE At(w, "expiring")
    <3>1. verdictLocked'[p]["return"]  BY <2>1, <2>2, <2>5 DEF Kinds
    <3>2. /\ case'[p]["return"] = "CLOSED"
          /\ case'[p]["dispute"] = case[p]["dispute"]
          BY <2>1, <2>2, <2>5 DEF ClosedAs, At, Kinds
    <3>3. ~Waiting(p)'  BY <3>1 DEF Waiting, Kinds
    <3>4. owed[p] = "no" /\ stage[p] \notin Early
          BY <1>1, <2>5 DEF CaseAsRead, CaseRows, Uncased, Kinds
    <3>5. CaseRows(p)'
          BY <1>1, <2>1, <3>1, <3>2, <3>3, <3>4 DEF CaseRows, Open, OpenStatuses
    <3> QED  BY <1>4, <2>3, <3>3, <3>5 DEF CaseAsRead, At, Refund, WithRows
  <2> QED  BY <1>10, <2>4, <2>5 DEF CloseReturn
<1>11. CASE ReadFrozen(w) \/ Unfreeze(w)
  <2>1. ~Waiting(p)
        BY <1>1, <1>11 DEF ReadFrozen, Unfreeze, CaseAsRead, At
  <2>2. Kept /\ owed'[p] = owed[p]
        BY <1>11 DEF ReadFrozen, Unfreeze, partVars, caseVars
  <2>3. IsIdle(w)' \/ (req'[w].pc = "unfreezing" /\ req'[w].p = p)
        BY <1>2, <1>3, <1>11 DEF ReadFrozen, Unfreeze
  <2>4. ~Waiting(p)'  BY <2>1, <2>2 DEF Waiting, Open
  <2> QED  BY <1>4, <1>5, <2>1, <2>2, <2>3, <2>4 DEF CaseAsRead, At, Refund, WithRows
<1>12. CASE EscalateCase(w)
  <2>1. k \in Kinds /\ case[p][k] = "PENDING"
        BY <1>1, <1>12 DEF EscalateCase, CaseAsRead
  <2>2. /\ escrow'[p] = escrow[p] /\ stage'[p] = stage[p] /\ owed'[p] = owed[p]
        /\ verdictLocked'[p] = verdictLocked[p] /\ locked'[p] = locked[p]
        /\ case'[p] = [case[p] EXCEPT ![k] = "ESCALATED"]
        /\ IsIdle(w)'
        BY <1>3, <1>12 DEF EscalateCase, TypeOK, partVars
  <2>3. DOMAIN case[p] = Kinds  BY DEF TypeOK
  <2>4. Waiting(p)' => Waiting(p)
        BY <2>1, <2>2, <2>3 DEF Waiting, Open, OpenStatuses, Kinds
  <2>5. CaseRows(p)'
        BY <1>1, <2>1, <2>2, <2>3, <2>4 DEF CaseRows, Open, OpenStatuses, Uncased, Kinds
  <2> QED  BY <1>4, <2>2, <2>5
<1>13. CASE ReadAwarded(w)
  <2> DEFINE s == IF escrow[p] \in {"HELD", "FROZEN"} THEN escrow[p] ELSE "NONE"
             r == [req[w] EXCEPT !.pc = "awarding", !.seen = s]
  <2>1. r.pc = "awarding" /\ r.p = p /\ r.k = k  BY DEF Requests
  <2>2. req' = [req EXCEPT ![w] = r]  BY <1>13 DEF ReadAwarded
  <2>3. Kept /\ owed'[p] = owed[p] /\ escrow' = escrow
        BY <1>13 DEF ReadAwarded, partVars, caseVars
  <2>4. k \in Kinds /\ case[p][k] # "NONE"
        BY <1>1, <1>13 DEF ReadAwarded, CaseAsRead, At
  <2> HIDE DEF r
  <2>5. req'[w] = r  BY <2>2 DEF TypeOK
  <2> QED  BY <1>4, <1>5, <2>1, <2>3, <2>4, <2>5 DEF CaseAsRead, At, Refund, WithRows
<1>14. CASE Award(w)
  <2>1. k \in Kinds /\ case[p][k] # "NONE"
        BY <1>1, <1>14 DEF Award, CaseAsRead, At
  <2>2. /\ stage'[p] = "COMPLETED" /\ owed'[p] = owed[p] /\ locked'[p]
        /\ verdictLocked'[p] = [verdictLocked[p] EXCEPT ![k] = TRUE]
        /\ case'[p] = [case[p] EXCEPT ![k] = "RESOLVED"]
        /\ IsIdle(w)'
        BY <1>3, <1>14 DEF Award, TypeOK
  <2>3. DOMAIN case[p] = Kinds /\ DOMAIN verdictLocked[p] = Kinds  BY DEF TypeOK
  <2>4. owed[p] = "no"  BY <1>1, <2>1 DEF CaseRows, Uncased
  <2>5. CaseRows(p)'
        BY <1>1, <2>1, <2>2, <2>3, <2>4 DEF CaseRows, Waiting, Open, OpenStatuses,
           Early, Kinds
  <2> QED  BY <1>4, <2>2, <2>5
<1>15. CASE DecideRefund(w)
  <2>1. k \in Kinds /\ case[p][k] # "NONE"
        BY <1>1, <1>15 DEF DecideRefund, CaseAsRead, At
  <2>2. /\ stage'[p] = stage[p] \/ stage'[p] = "CANCELLED"
        /\ owed'[p] = owed[p] /\ locked'[p]
        /\ verdictLocked'[p] = [verdictLocked[p] EXCEPT ![k] = TRUE]
        /\ \E c \in {"APPROVED", "REFUNDED"} : case'[p] = [case[p] EXCEPT ![k] = c]
        BY <1>15 DEF DecideRefund, TypeOK
  <2>3. req'[w].pc = "refund" /\ req'[w].p = p /\ req'[w].k = k
        BY <1>2, <1>15 DEF DecideRefund
  <2>4. DOMAIN case[p] = Kinds /\ DOMAIN verdictLocked[p] = Kinds  BY DEF TypeOK
  <2>5. owed[p] = "no" /\ stage[p] \notin Early  BY <1>1, <2>1 DEF CaseRows, Uncased
  <2>6. CaseRows(p)'
        BY <1>1, <2>1, <2>2, <2>4, <2>5 DEF CaseRows, Waiting, Open, OpenStatuses,
           Early, Kinds
  <2> QED  BY <1>4, <2>1, <2>2, <2>3, <2>4, <2>6 DEF CaseAsRead, At, Refund, WithRows
<1>16. CASE MarkOwed(w)
  <2>1. Kept /\ escrow' = escrow /\ IsIdle(w)'
        BY <1>3, <1>16 DEF MarkOwed, partVars, caseVars
  <2>2. At(w, "owing")  BY <1>16 DEF MarkOwed
  <2>3. Uncased(p) /\ stage[p] = "CANCELLED"  BY <1>1, <2>2 DEF CaseAsRead
  <2>4. CaseRows(p)'  BY <1>1, <2>1, <2>3 DEF CaseRows, Waiting, Open, Uncased
  <2> QED  BY <1>4, <2>1, <2>4
<1> QED
    BY <1>6, <1>7, <1>8, <1>9, <1>10, <1>11, <1>12, <1>13, <1>14, <1>15, <1>16

\* The steps of a refund.
LEMMA CasesRefundStep ==
    ASSUME TypeOK, CaseInv, NEW w \in Workers, NEW p \in Payments,
           p = req[w].p, req[w] \in Requests, Apart(w, p),
           \/ \E t \in Targets(p, req[w].k) : FixTarget(w, t)
           \/ ReadRows(w) \/ FixAmount(w)
           \/ CallStripe(w) \/ CheckApplied(w) \/ ApplyRefund(w)
    PROVE  CaseInv'
<1> DEFINE k == req[w].k
<1>1. CaseAsRead(w) /\ CaseRows(p) /\ req[w].pc \in Refund /\ k \in Askers
  <2>1. req[w].pc \in Refund
        BY DEF At, FixTarget, ReadRows, FixAmount, CallStripe, CheckApplied,
           ApplyRefund, Refund, WithRows
  <2>2. ~IsIdle(w)  BY <2>1 DEF IsIdle, Refund, WithRows
  <2> QED  BY <2>1, <2>2 DEF CaseInv, Requests
<1>2. k \in Kinds => verdictLocked[p][k]  BY <1>1 DEF CaseAsRead
<1>3. k \notin Kinds => Uncased(p) /\ stage[p] = "CANCELLED"
      BY <1>1 DEF CaseAsRead
<1>4. ~Waiting(p)  BY <1>2, <1>3 DEF Waiting, Open, Uncased, OpenStatuses
<1>5. UNCHANGED <<case, verdictLocked>>
      BY DEF FixTarget, ReadRows, FixAmount, CallStripe, CheckApplied, ApplyRefund,
         caseVars
<1>6. /\ locked'[p] = locked[p] \/ locked'[p]
      /\ stage'[p] = stage[p] \/ (k \in Kinds /\ stage'[p] = "CANCELLED")
      BY DEF FixTarget, ReadRows, FixAmount, CallStripe, CheckApplied, ApplyRefund,
         partVars, TypeOK
<1>7. owed'[p] # "no" => owed[p] # "no" \/ k \notin Kinds
  <2>1. CASE \E t \in Targets(p, k) : FixTarget(w, t)
        BY <2>1 DEF FixTarget, TypeOK
  <2>2. CASE CallStripe(w) \/ FixAmount(w)
        BY <2>2 DEF CallStripe, FixAmount, RefundError, Owes, TypeOK, Kinds
  <2>3. CASE ReadRows(w) \/ CheckApplied(w) \/ ApplyRefund(w)
        BY <2>3 DEF ReadRows, CheckApplied, ApplyRefund, TypeOK
  <2> QED  BY <2>1, <2>2, <2>3
<1>8. CaseRows(p)'
      BY <1>1, <1>3, <1>4, <1>5, <1>6, <1>7 DEF CaseRows, Waiting, Open, Uncased, Early
<1>9. IsIdle(w)' \/ (req'[w].pc \in Refund /\ req'[w].p = p /\ req'[w].k = k)
  <2>1. CASE \E t \in Targets(p, k) : FixTarget(w, t)
        BY <2>1, TargetSays DEF Refund
  <2>2. CASE CallStripe(w)
    <3>1. Finish(w) \/ \E pc \in {"checking", "applying"} : Goto(w, pc)
          BY <2>2 DEF CallStripe, RefundError
    <3> QED  BY <3>1, FinishSays, GotoSays DEF Refund, WithRows
  <2>3. CASE CheckApplied(w)  BY <2>3, CheckSays DEF Refund, WithRows
  <2>4. CASE ApplyRefund(w)  BY <2>4, FinishSays DEF ApplyRefund
  <2>5. CASE ReadRows(w)  BY <2>5, ReadSays DEF Refund, WithRows
  <2>6. CASE FixAmount(w)  BY <2>6, AmountSays DEF Refund, WithRows
  <2> QED  BY <2>1, <2>2, <2>3, <2>4, <2>5, <2>6
<1>10. ~IsIdle(w)' => CaseAsRead(w)'
       BY <1>2, <1>3, <1>5, <1>6, <1>9 DEF CaseAsRead, At, Refund, WithRows, Uncased
<1> QED  BY <1>8, <1>10, CaseStep

LEMMA CaseNext ==
    TypeOK /\ OnlyCaptured /\ EscrowInv /\ CaseInv /\ Serial /\ Serial'
        /\ [Next]_vars => CaseInv'
<1> SUFFICES ASSUME TypeOK, OnlyCaptured, EscrowInv, CaseInv, Serial, Serial',
                    [Next]_vars
             PROVE  CaseInv'
    OBVIOUS
<1>1. CASE UNCHANGED vars
      BY <1>1 DEF vars, caseVars, partVars, CaseInv, CaseRows, CaseAsRead, At, IsIdle,
         Waiting, Open, Uncased
<1>2. ASSUME NEW p \in Payments, Environment(p)
      PROVE  CaseInv'
      BY <1>2, CaseEnvironment
<1>3. ASSUME NEW w \in Workers, NEW p \in Payments, Start(w, p)
      PROVE  CaseInv'
      BY <1>3, CaseStart
<1>4. ASSUME NEW w \in Workers, Continue(w)
      PROVE  CaseInv'
      BY <1>4, StepApart, CasesCaseStep, CasesRefundStep DEF Continue
<1>5. ASSUME NEW w \in Workers, Crash(w) \/ RefundFails(w)
      PROVE  CaseInv'
      BY <1>5, CaseFault
<1> QED  BY <1>1, <1>2, <1>3, <1>4, <1>5 DEF Next

\* When the requests of a payment do not overlap, the merchant share of a part is
\* frozen for as long as a case on it waits for the first verdict, whatever the
\* completions, webhooks, crashes and retries in between (FrozenWhileCaseOpen).
THEOREM SerialFrozenWhileCaseOpen == Spec /\ []Serial => []FrozenWhileCaseOpen
<1> DEFINE Inv == TypeOK /\ OnlyCaptured /\ EscrowInv /\ CaseInv
<1>1. Init => Inv
  <2>1. Init => OnlyCaptured  BY DEF Init, OnlyCaptured, Blank, IsIdle, Idle
  <2>2. Init => CaseInv
        BY DEF Init, CaseInv, CaseRows, Waiting, Open, OpenStatuses, Uncased, IsIdle,
           Idle, Kinds
  <2> QED  BY <2>1, <2>2, InitType, InitEscrow
<1>2. Inv /\ Serial /\ Serial' /\ [Next]_vars => Inv'
      BY NextType, CapturedNext, EscrowNext, CaseNext
<1>3. Inv => FrozenWhileCaseOpen
      BY DEF CaseInv, CaseRows, Waiting, Open, FrozenWhileCaseOpen
<1> HIDE DEF Inv
<1> QED  BY <1>1, <1>2, <1>3, PTL DEF Spec

-----------------------------------------------------------------------------
(* The refunded amounts.  A verdict refunds its amount or what is left of the *)
(* charge, so that what a later request finds refunded is a whole verdict, or *)
(* everything, and nothing is taken twice.                                    *)

Cancelled(q) == Uncased(q) /\ stage[q] = "CANCELLED"
Taken(q) == payEscrow[q] = "REFUNDED"
Full(q) == chargeBack[q] = Paid[q]

\* Every refund of the charge of a part that was not just cancelled, and every
\* total Stripe reports of it, is at least the verdict, or all that was left.
VerdictRows(q) ==
    /\ chargeBack[q] = 0 \/ chargeBack[q] >= Verdict[q]
    /\ \A e \in events[q] : e >= Verdict[q]
    /\ ~Taken(q) => \A c \in charge[q] : c >= Verdict[q] \/ Full(q)
    /\ Taken(q) => refunded[q] >= Verdict[q] \/ Full(q)

WithinRows(q) ==
    /\ refunded[q] <= Paid[q]
    /\ Taken(q) => chargeBack[q] > 0
    /\ \A e \in events[q] : e <= chargeBack[q]
    /\ ~Taken(q) => refunded[q] <= chargeBack[q]
    /\ Taken(q) => escrow[q] = "REFUNDED"
    /\ stage[q] \in Early \/ owed[q] = "due" => ~Taken(q)
    /\ \A k \in Kinds : verdictLocked[q][k] => case[q][k] # "NONE"
    /\ ~Cancelled(q) => VerdictRows(q)

\* The total the ledger transaction would write fits the payment.
Fits(w) ==
    LET p == req[w].p
        total == req[w].prior + req[w].amt IN
    /\ total <= Paid[p]
    /\ req[w].k \in Kinds => total >= Verdict[p] \/ Full(p)

\* The verdict was already refunded: the transaction will find it applied.
Moot(w) ==
    LET p == req[w].p IN
    Taken(p) /\ refunded[p] >= Verdict[p] /\ req[w].amt <= Verdict[p]

\* What Stripe is asked for fits the payment, and leaves whole verdicts.
Charges(w) ==
    LET p == req[w].p
        amt == req[w].amt IN
    /\ req[w].prior + amt <= Paid[p]
    /\ req[w].k \in Kinds =>
           /\ amt = Verdict[p] \/ chargeBack[p] + amt = Paid[p]
           /\ chargeBack[p] = 0 => amt = Verdict[p]

WithinAsRead(w) ==
    LET p == req[w].p
        k == req[w].k IN
    /\ At(w, "owing") => ~Taken(p)
    /\ req[w].pc \in Refund /\ k \notin Kinds => ~Taken(p)
    /\ req[w].pc \in Refund /\ k \in {"none", "order"} => owed[p] = "no"
    /\ req[w].pc \in {"reading", "limiting"} /\ k \in Kinds => req[w].amt = Verdict[p]
    /\ At(w, "limiting") /\ ~Taken(p) => req[w].prior <= chargeBack[p]
    /\ At(w, "charging") => IF Taken(p) THEN Moot(w) ELSE Charges(w)
    /\ At(w, "checking") => k \in Kinds /\ (Fits(w) \/ Moot(w))
    /\ At(w, "applying") => req[w].skip \/ Fits(w)

WithinInv ==
    /\ \A q \in Payments : WithinRows(q)
    /\ \A w \in Workers : ~IsIdle(w) => WithinAsRead(w)

LEMMA WithinStep ==
    ASSUME TypeOK, WithinInv, NEW w \in Workers, NEW p \in Payments, Apart(w, p),
           WithinRows(p)', ~IsIdle(w)' => WithinAsRead(w)'
    PROVE  WithinInv'
<1>1. ASSUME NEW q \in Payments, q # p
      PROVE  WithinRows(q)'
  <2>1. SameRows(q) /\ WithinRows(q)  BY <1>1 DEF WithinInv, Apart
  <2> QED
      BY <2>1 DEF WithinRows, VerdictRows, Taken, Full, Cancelled, Uncased, SameRows
<1>2. ASSUME NEW v \in Workers, v # w, ~IsIdle(v)'
      PROVE  WithinAsRead(v)'
  <2>1. req'[v] = req[v] /\ ~IsIdle(v) /\ req[v].p # p  BY <1>2 DEF Apart, IsIdle
  <2>2. SameRows(req[v].p)  BY <2>1, AtPayment DEF Apart
  <2>3. WithinAsRead(v)  BY <2>1 DEF WithinInv
  <2> QED
      BY <2>1, <2>2, <2>3 DEF WithinAsRead, Fits, Moot, Charges, Taken, Full, At,
         SameRows
<1> QED  BY <1>1, <1>2 DEF WithinInv

\* A step that refunds nothing and takes no share back.
Calm(p) ==
    /\ refunded'[p] = refunded[p] /\ chargeBack'[p] = chargeBack[p]
    /\ charge'[p] = charge[p] /\ events'[p] = events[p]
    /\ Taken(p)' <=> Taken(p)
    /\ Taken(p) => /\ escrow'[p] = "REFUNDED"
                   /\ stage'[p] \notin Early /\ owed'[p] # "due"
    /\ Cancelled(p)' \/ ~Cancelled(p)
    /\ \A k \in Kinds : verdictLocked'[p][k] => case'[p][k] # "NONE"

LEMMA CalmRows ==
    ASSUME NEW p \in Payments, WithinRows(p), Calm(p)
    PROVE  WithinRows(p)'
<1>1. Full(p)' <=> Full(p)  BY DEF Calm, Full
<1>2. VerdictRows(p) => VerdictRows(p)'  BY <1>1 DEF Calm, VerdictRows
<1> QED  BY <1>2 DEF Calm, WithinRows

\* A case keeps its part from counting as just cancelled.
LEMMA DecidedIsNotCancelled ==
    ASSUME TypeOK, CaseInv, WithinInv, NEW w \in Workers, ~IsIdle(w),
           req[w].pc \in Refund
    PROVE  LET p == req[w].p IN
           /\ req[w].k \in Kinds => /\ ~Uncased(p) /\ owed[p] = "no"
                                    /\ VerdictRows(p)
           /\ req[w].k \notin Kinds => Cancelled(p) /\ ~Taken(p)
<1> DEFINE p == req[w].p
           k == req[w].k
<1>1. /\ p \in Payments /\ CaseAsRead(w) /\ WithinAsRead(w)
      /\ WithinRows(p) /\ CaseRows(p)
      BY AtPayment DEF CaseInv, WithinInv
<1>2. ASSUME k \in Kinds
      PROVE  ~Uncased(p) /\ owed[p] = "no" /\ VerdictRows(p)
  <2>1. verdictLocked[p][k]  BY <1>1, <1>2 DEF CaseAsRead
  <2>2. ~Uncased(p)  BY <1>1, <1>2, <2>1 DEF WithinRows, Uncased
  <2>3. owed[p] = "no"  BY <1>1, <2>2 DEF CaseRows
  <2> QED  BY <1>1, <2>2, <2>3 DEF WithinRows, Cancelled
<1>3. ASSUME k \notin Kinds
      PROVE  Cancelled(p) /\ ~Taken(p)
      BY <1>1, <1>3 DEF CaseAsRead, WithinAsRead, Cancelled
<1> QED  BY <1>2, <1>3

\* The environment: an event of Stripe writes a total Stripe has reached.
LEMMA WithinEnvironment ==
    ASSUME TypeOK, OnlyCaptured, RefundsAreSafe, CaseInv, WithinInv,
           NEW p \in Payments, Environment(p)
    PROVE  WithinInv'
<1>1. CASE \E e \in events[p] : ChargeRefunded(p, e)
  <2>1. PICK e \in events[p] : ChargeRefunded(p, e)  BY <1>1
  <2>2. /\ events' = [events EXCEPT ![p] = @ \ {e}]
        /\ refunded' = [refunded EXCEPT ![p] = e]
        /\ UNCHANGED <<stage, escrow, payEscrow, charge, chargeBack, case,
                       verdictLocked, owed, req>>
        BY <2>1 DEF ChargeRefunded, partVars, caseVars
  <2>3. WithinRows(p) /\ SafeRows(p) /\ e \in Nat
        BY DEF WithinInv, RefundsAreSafe, TypeOK
  <2>4. /\ e <= chargeBack[p] /\ chargeBack[p] <= Paid[p]
        /\ chargeBack[p] \in Nat /\ Paid[p] \in Nat
        BY <2>3, AmountsAssumption DEF WithinRows, SafeRows, TypeOK
  <2>5. e <= Paid[p]  BY <2>3, <2>4
  <2>6. refunded'[p] = e /\ events'[p] = events[p] \ {e}  BY <2>2 DEF TypeOK
  <2>7. VerdictRows(p) => VerdictRows(p)'
        BY <2>2, <2>6 DEF VerdictRows, Taken, Full
  <2>8. WithinRows(p)'
        BY <2>2, <2>3, <2>4, <2>5, <2>6, <2>7 DEF WithinRows, Taken, Cancelled, Uncased
  <2>9. ASSUME NEW q \in Payments, q # p
        PROVE  WithinRows(q)'
    <3>1. WithinRows(q) /\ refunded'[q] = refunded[q] /\ events'[q] = events[q]
          BY <2>2, <2>9 DEF WithinInv, TypeOK
    <3> QED
        BY <2>2, <3>1 DEF WithinRows, VerdictRows, Taken, Full, Cancelled, Uncased
  <2>10. ASSUME NEW v \in Workers, ~IsIdle(v)'
         PROVE  WithinAsRead(v)'
    <3>1. ~IsIdle(v) /\ WithinAsRead(v) /\ req' = req
          BY <2>2, <2>10 DEF WithinInv, IsIdle
    <3>2. Fits(v)' <=> Fits(v)  BY <2>2 DEF Fits, Full
    <3>3. Charges(v)' <=> Charges(v)  BY <2>2 DEF Charges
    <3>4. req[v].pc \in {"charging", "checking"} /\ Moot(v) => Moot(v)'
      <4> SUFFICES ASSUME req[v].pc \in {"charging", "checking"}, Moot(v)
                   PROVE  Moot(v)'
          OBVIOUS
      <4>1. req[v].pc \in Refund  BY DEF Refund, WithRows
      <4>2. req[v].k \in Kinds
            BY <3>1, <4>1 DEF WithinAsRead, Moot
      <4>3. VerdictRows(req[v].p)  BY <3>1, <4>1, <4>2, DecidedIsNotCancelled
      <4>4. CASE req[v].p = p
            BY <2>2, <2>6, <4>3, <4>4 DEF Moot, VerdictRows, Taken
      <4>5. CASE req[v].p # p
        <5>1. refunded'[req[v].p] = refunded[req[v].p]
              BY <2>2, <3>1, <4>5, AtPayment DEF TypeOK
        <5> QED  BY <2>2, <5>1 DEF Moot, Taken
      <4> QED  BY <4>4, <4>5
    <3> QED
        BY <2>2, <3>1, <3>2, <3>3, <3>4 DEF WithinAsRead, At, Taken
  <2> QED  BY <2>8, <2>9, <2>10 DEF WithinInv
<1>2. CASE ~\E e \in events[p] : ChargeRefunded(p, e)
  <2>1. /\ UNCHANGED <<refunded, payEscrow, chargeBack, charge, events, req, case,
                       verdictLocked>>
        /\ \A q \in Payments :
             /\ escrow'[q] = escrow[q] \/ escrow[q] = "NONE"
             /\ owed'[q] = owed[q] \/ (owed[q] = "due" /\ owed'[q] = "lapsed")
             /\ \/ stage'[q] = stage[q]
                \/ stage[q] \in Early /\ stage'[q] # "CANCELLED"
                \/ stage[q] = "DELIVERED" /\ stage'[q] = "COMPLETED"
    <3> USE DEF TypeOK, payVars, partVars, stripeVars, caseVars, Early
    <3>1. CASE HoldFunds(p)  BY <3>1 DEF HoldFunds
    <3>2. CASE Deliver(p)  BY <3>2 DEF Deliver
    <3>3. CASE WindowEnds(p)  BY <3>3 DEF WindowEnds
    <3>4. CASE CompleteOffer(p)  BY <3>4 DEF CompleteOffer
    <3>5. CASE WarrantyEnds(p)  BY <3>5 DEF WarrantyEnds
    <3>6. CASE RetryLapses(p)  BY <3>6 DEF RetryLapses
    <3> QED  BY <1>2, <3>1, <3>2, <3>3, <3>4, <3>5, <3>6 DEF Environment
  <2>2. ASSUME NEW q \in Payments
        PROVE  WithinRows(q)'
    <3>1. WithinRows(q)  BY DEF WithinInv
    <3>2. Taken(q)' <=> Taken(q)  BY <2>1 DEF Taken
    <3>3. Cancelled(q)' \/ ~Cancelled(q)
          BY <2>1 DEF Cancelled, Uncased, Early
    <3>4. Taken(q) => /\ escrow'[q] = "REFUNDED"
                      /\ stage'[q] \notin Early /\ owed'[q] # "due"
          BY <2>1, <3>1 DEF WithinRows, Early
    <3>5. Calm(q)  BY <2>1, <3>1, <3>2, <3>3, <3>4 DEF Calm, WithinRows
    <3> QED  BY <3>1, <3>5, CalmRows
  <2>3. ASSUME NEW v \in Workers, ~IsIdle(v)'
        PROVE  WithinAsRead(v)'
    <3>1. ~IsIdle(v) /\ WithinAsRead(v) /\ req[v].p \in Payments
          BY <2>1, <2>3, AtPayment DEF WithinInv, IsIdle
    <3>2. owed[req[v].p] = "no" => owed'[req[v].p] = "no"  BY <2>1, <3>1
    <3> QED
        BY <2>1, <3>1, <3>2 DEF WithinAsRead, Fits, Moot, Charges, Taken, Full, At
  <2> QED  BY <2>2, <2>3 DEF WithinInv
<1> QED  BY <1>1, <1>2

\* A cancellation, or the retry of an owed refund, takes nothing back yet.
LEMMA WithinStart ==
    ASSUME TypeOK, CaseInv, WithinInv, Serial', NEW w \in Workers,
           NEW p \in Payments, Start(w, p)
    PROVE  WithinInv'
<1>1. PICK pc \in Pcs, k \in Askers : Begin(w, p, pc, k) /\ Entitled(p, pc, k)
      BY StartSays
<1>2. req'[w].pc = pc /\ req'[w].p = p /\ req'[w].k = k  BY <1>1, BeginSays
<1>3. UNCHANGED <<escrow, refunded, payEscrow, chargeBack, charge, events, case,
                  verdictLocked, owed>>
      BY StartSays DEF payVars, stripeVars, caseVars
<1>4. WithinRows(p) /\ CaseRows(p)  BY DEF WithinInv, CaseInv
<1>5. \/ stage'[p] = stage[p]
      \/ stage[p] = "IN_PREPARATION" /\ stage'[p] = "CANCELLED"
      BY <1>1 DEF Entitled, TypeOK
<1>6. Taken(p)' <=> Taken(p)  BY <1>3 DEF Taken
<1>7. Cancelled(p)' \/ ~Cancelled(p)  BY <1>3, <1>5 DEF Cancelled, Uncased
<1>8. Taken(p) => /\ escrow'[p] = "REFUNDED"
                  /\ stage'[p] \notin Early /\ owed'[p] # "due"
      BY <1>3, <1>4, <1>5 DEF WithinRows, Early
<1>9. Calm(p)  BY <1>3, <1>4, <1>6, <1>7, <1>8 DEF Calm, WithinRows
<1>10. WithinRows(p)'  BY <1>4, <1>9, CalmRows
<1>11. pc \in {"owing"} \cup Refund => pc \in {"owing", "refund"}
       BY <1>1 DEF Entitled, Refund, WithRows
<1>12. pc = "owing" \/ (pc = "refund" /\ k \notin Kinds) => ~Taken(p)
  <2>1. pc = "owing" \/ (pc = "refund" /\ k \notin Kinds) =>
            stage[p] = "IN_PREPARATION" \/ owed[p] = "due"
        BY <1>1 DEF Entitled
  <2> QED  BY <1>4, <2>1 DEF WithinRows, Early
<1>13. pc = "refund" /\ k \in {"none", "order"} => owed[p] = "no"
  <2>1. pc = "refund" /\ k \in {"none", "order"} => stage[p] = "IN_PREPARATION"
        BY <1>1 DEF Entitled, Kinds
  <2> QED  BY <1>4, <2>1 DEF CaseRows
<1>14. WithinAsRead(w)'
       BY <1>2, <1>3, <1>6, <1>11, <1>12, <1>13 DEF WithinAsRead, At, Refund, WithRows
<1> QED  BY <1>10, <1>14, StartApart, WithinStep

\* A request that fails while it refunds a cancelled part owes the refund again.
LEMMA WithinFault ==
    ASSUME TypeOK, CaseInv, WithinInv, Serial, NEW w \in Workers,
           Crash(w) \/ RefundFails(w)
    PROVE  WithinInv'
<1>1. PICK p \in Payments : p = req[w].p /\ req[w] \in Requests /\ Apart(w, p)
      BY StepApart
<1>2. IsIdle(w)' /\ ~IsIdle(w)
      BY FinishSays, ContinueActive DEF Crash, RefundFails, RefundError
<1>3. UNCHANGED <<escrow, refunded, payEscrow, chargeBack, charge, events, case,
                  verdictLocked, stage>>
      BY DEF Crash, RefundFails, payVars, stripeVars, caseVars, partVars
<1>4. WithinRows(p) /\ WithinAsRead(w)  BY <1>2 DEF WithinInv
<1>5. owed'[p] = "due" =>
          owed[p] = "due" \/ (req[w].pc \in Refund /\ req[w].k \notin Kinds)
      BY <1>1 DEF Crash, RefundFails, RefundError, Owes, TypeOK, Refund, WithRows, Kinds
<1>6. (Taken(p)' <=> Taken(p)) /\ (Cancelled(p)' <=> Cancelled(p))
      BY <1>3 DEF Taken, Cancelled, Uncased
<1>7. Taken(p) => /\ escrow'[p] = "REFUNDED"
                  /\ stage'[p] \notin Early /\ owed'[p] # "due"
      BY <1>1, <1>3, <1>4, <1>5 DEF WithinRows, WithinAsRead
<1>8. Calm(p)  BY <1>3, <1>4, <1>6, <1>7 DEF Calm, WithinRows
<1> QED  BY <1>1, <1>2, <1>4, <1>8, CalmRows, WithinStep

\* The steps of releases, cases and verdicts: those that move the share find it
\* in escrow, so it was not taken back.
LEMMA WithinCaseStep ==
    ASSUME TypeOK, EscrowInv, CaseInv, WithinInv, NEW w \in Workers,
           NEW p \in Payments, p = req[w].p, req[w] \in Requests, Apart(w, p),
           \/ MarkReleasing(w) \/ SettleRelease(w)
           \/ ReadHeld(w) \/ Freeze(w) \/ CreateCase(w)
           \/ CloseReturn(w) \/ ReadFrozen(w) \/ Unfreeze(w) \/ EscalateCase(w)
           \/ ReadAwarded(w) \/ Award(w) \/ DecideRefund(w) \/ MarkOwed(w)
    PROVE  WithinInv'
<1> DEFINE k == req[w].k
           Same == case'[p] = case[p] /\ verdictLocked'[p] = verdictLocked[p]
<1>1. /\ CaseAsRead(w) /\ WithinAsRead(w) /\ EscrowAsRead(w)
      /\ WithinRows(p) /\ CaseRows(p)
  <2>1. ~IsIdle(w)  BY ContinueActive DEF Continue
  <2> QED  BY <2>1 DEF CaseInv, EscrowInv, WithinInv
<1>2. UNCHANGED <<refunded, chargeBack, charge, events>>
      BY DEF MarkReleasing, SettleRelease, ReadHeld, Freeze, CreateCase, CloseReturn,
         ReadFrozen, Unfreeze, EscalateCase, ReadAwarded, Award, DecideRefund, MarkOwed,
         payVars, stripeVars
<1>3. \/ payEscrow'[p] = payEscrow[p]
      \/ SettleRelease(w) /\ payEscrow'[p] = "RELEASED"
      BY DEF MarkReleasing, SettleRelease, PayMerchant, ReadHeld, Freeze, CreateCase,
         CloseReturn, ReadFrozen, Unfreeze, EscalateCase, ReadAwarded, Award,
         DecideRefund, MarkOwed, payVars, TypeOK
<1>4. escrow'[p] = escrow[p] \/ escrow[p] \in {"HELD", "RELEASING", "FROZEN"}
  <2>1. CASE MarkReleasing(w) \/ SettleRelease(w) \/ Freeze(w) \/ Unfreeze(w)
        BY <1>1, <2>1 DEF MarkReleasing, SettleRelease, Freeze, Unfreeze, EscrowAsRead,
           At
  <2>2. CASE Award(w)
        BY <1>1, <2>2 DEF Award, EscrowAsRead, At
  <2>3. CASE \/ ReadHeld(w) \/ CreateCase(w) \/ CloseReturn(w) \/ ReadFrozen(w)
             \/ EscalateCase(w) \/ ReadAwarded(w) \/ DecideRefund(w) \/ MarkOwed(w)
        BY <2>3 DEF ReadHeld, CreateCase, CloseReturn, ReadFrozen, EscalateCase,
           ReadAwarded, DecideRefund, MarkOwed
  <2> QED  BY <2>1, <2>2, <2>3
<1>5. SettleRelease(w) => ~Taken(p)
      BY <1>1 DEF SettleRelease, EscrowAsRead, At, WithinRows
<1>6. Taken(p)' <=> Taken(p)  BY <1>3, <1>5 DEF Taken
<1>7. Taken(p) => escrow'[p] = "REFUNDED"  BY <1>1, <1>4 DEF WithinRows
<1>8. \/ Same /\ stage'[p] = stage[p]
      \/ ~Uncased(p)
      \/ stage[p] \in {"DELIVERED", "COMPLETED"} /\ stage'[p] = stage[p]
  <2>1. CASE \/ MarkReleasing(w) \/ SettleRelease(w) \/ ReadHeld(w) \/ Freeze(w)
             \/ ReadFrozen(w) \/ Unfreeze(w) \/ ReadAwarded(w) \/ MarkOwed(w)
        BY <2>1 DEF MarkReleasing, SettleRelease, ReadHeld, Freeze, ReadFrozen, Unfreeze,
           ReadAwarded, MarkOwed, partVars, caseVars
  <2>2. CASE CreateCase(w)
        BY <1>1, <2>2 DEF CreateCase, CaseAsRead, At
  <2>3. CASE CloseReturn(w)
        BY <1>1, <2>3 DEF CloseReturn, CaseAsRead, Uncased, Kinds
  <2>4. CASE EscalateCase(w)
        BY <1>1, <2>4 DEF EscalateCase, CaseAsRead, Uncased
  <2>5. CASE Award(w) \/ DecideRefund(w)
        BY <1>1, <2>5 DEF Award, DecideRefund, CaseAsRead, At, Uncased
  <2> QED  BY <2>1, <2>2, <2>3, <2>4, <2>5
<1>9. Cancelled(p)' \/ ~Cancelled(p)  BY <1>8 DEF Cancelled, Uncased
<1>10. stage'[p] = stage[p] \/ stage'[p] \notin Early
       BY DEF MarkReleasing, SettleRelease, ReadHeld, Freeze, CreateCase, CloseReturn,
          ReadFrozen, Unfreeze, EscalateCase, ReadAwarded, Award, DecideRefund, MarkOwed,
          partVars, TypeOK, Early
<1>11. owed'[p] = owed[p] \/ ~Taken(p)
  <2>1. MarkOwed(w) => ~Taken(p)  BY <1>1 DEF MarkOwed, WithinAsRead
  <2> QED
      BY <2>1 DEF MarkReleasing, SettleRelease, ReadHeld, Freeze, CreateCase, CloseReturn,
         ReadFrozen, Unfreeze, EscalateCase, ReadAwarded, Award, DecideRefund
<1>12. ASSUME NEW j \in Kinds, verdictLocked'[p][j]
       PROVE  case'[p][j] # "NONE"
  <2>1. DOMAIN case[p] = Kinds /\ DOMAIN verdictLocked[p] = Kinds  BY DEF TypeOK
  <2>2. verdictLocked[p][j] => case[p][j] # "NONE"  BY <1>1 DEF WithinRows
  <2>3. CASE \/ MarkReleasing(w) \/ SettleRelease(w) \/ ReadHeld(w) \/ Freeze(w)
             \/ ReadFrozen(w) \/ Unfreeze(w) \/ ReadAwarded(w) \/ MarkOwed(w)
    <3>1. Same
          BY <2>3 DEF MarkReleasing, SettleRelease, ReadHeld, Freeze, ReadFrozen,
             Unfreeze, ReadAwarded, MarkOwed, caseVars
    <3> QED  BY <1>12, <2>2, <3>1
  <2>4. CASE CreateCase(w) \/ EscalateCase(w)
    <3>1. /\ \E c \in {"PENDING", "ESCALATED"} : case'[p] = [case[p] EXCEPT ![k] = c]
          /\ verdictLocked'[p] \in {verdictLocked[p],
                                    [verdictLocked[p] EXCEPT ![k] = FALSE]}
          BY <2>4 DEF CreateCase, EscalateCase, TypeOK
    <3> QED  BY <1>12, <2>1, <2>2, <3>1
  <2>5. CASE CloseReturn(w)
    <3>1. /\ \E c \in {"CANCELLED", "CLOSED"} :
                 case'[p] = [case[p] EXCEPT !["return"] = c]
          /\ verdictLocked'[p] = [verdictLocked[p] EXCEPT !["return"] =
                                      @ \/ At(w, "expiring")]
          BY <2>5 DEF CloseReturn, ClosedAs, TypeOK
    <3> QED  BY <1>12, <2>1, <2>2, <3>1
  <2>6. CASE Award(w) \/ DecideRefund(w)
    <3>1. /\ \E c \in {"RESOLVED", "APPROVED", "REFUNDED"} :
                 case'[p] = [case[p] EXCEPT ![k] = c]
          /\ verdictLocked'[p] = [verdictLocked[p] EXCEPT ![k] = TRUE]
          BY <2>6 DEF Award, DecideRefund, TypeOK
    <3> QED  BY <1>12, <2>1, <2>2, <3>1
  <2> QED  BY <2>3, <2>4, <2>5, <2>6
<1>13. Taken(p) => stage'[p] \notin Early /\ owed'[p] # "due"
       BY <1>1, <1>10, <1>11 DEF WithinRows
<1>14. Calm(p)  BY <1>2, <1>6, <1>7, <1>9, <1>12, <1>13 DEF Calm
<1>15. IsIdle(w)' \/ (req'[w].pc \notin {"owing"} \cup Refund)
       \/ (req'[w].pc = "refund" /\ req'[w].k \in Kinds)
  <2>1. \/ Finish(w) \/ DecideRefund(w) \/ ReadAwarded(w)
        \/ \E pc \in {"releasing", "freezing", "recording", "unfreeze", "unfreezing"} :
               Goto(w, pc)
        BY DEF MarkReleasing, SettleRelease, ReadHeld, Freeze, CreateCase, CloseReturn,
           ReadFrozen, Unfreeze, EscalateCase, Award, MarkOwed
  <2>2. CASE DecideRefund(w)
    <3>1. Goto(w, "refund") /\ k \in Kinds
          BY <1>1, <2>2 DEF DecideRefund, CaseAsRead, At
    <3> QED  BY <3>1, GotoSays
  <2>3. CASE ReadAwarded(w)
    <3> DEFINE s == IF escrow[p] \in {"HELD", "FROZEN"} THEN escrow[p] ELSE "NONE"
               r == [req[w] EXCEPT !.pc = "awarding", !.seen = s]
    <3>1. r.pc = "awarding"  BY DEF Requests
    <3>2. req' = [req EXCEPT ![w] = r]  BY <2>3 DEF ReadAwarded
    <3> HIDE DEF r
    <3>3. req'[w] = r  BY <3>2 DEF TypeOK
    <3> QED  BY <3>1, <3>3 DEF Refund, WithRows
  <2>4. CASE \E pc \in {"releasing", "freezing", "recording", "unfreeze",
                        "unfreezing"} : Goto(w, pc)
        BY <2>4, GotoSays DEF Refund, WithRows
  <2> QED  BY <2>1, <2>2, <2>3, <2>4, FinishSays
<1>16. ~IsIdle(w)' => WithinAsRead(w)'
       BY <1>15 DEF WithinAsRead, At, Refund, WithRows, Kinds
<1> QED  BY <1>1, <1>14, <1>16, CalmRows, WithinStep

\* What a refund in flight knows of its payment.
LEMMA RefundKnows ==
    ASSUME TypeOK, RefundsAreSafe, CaseInv, WithinInv, NEW w \in Workers,
           NEW p \in Payments, p = req[w].p, req[w] \in Requests,
           req[w].pc \in Refund
    PROVE  /\ WithinAsRead(w) /\ WithinRows(p) /\ CaseAsRead(w) /\ SafeRows(p)
           /\ SafeRefund(w)
           /\ req[w].k \in Kinds => ~Uncased(p) /\ owed[p] = "no" /\ VerdictRows(p)
           /\ req[w].k \notin Kinds => Cancelled(p) /\ ~Taken(p)
           /\ refunded[p] \in Nat /\ chargeBack[p] \in Nat
           /\ Paid[p] \in Nat /\ Verdict[p] \in Nat
           /\ Verdict[p] > 0 /\ Verdict[p] <= Paid[p]
           /\ req[w].prior \in Nat /\ req[w].amt \in Nat
<1>1. ~IsIdle(w)  BY DEF IsIdle, Refund, WithRows
<1>2. /\ WithinAsRead(w) /\ WithinRows(p) /\ CaseAsRead(w) /\ SafeRows(p)
      /\ SafeRefund(w)
      BY <1>1 DEF WithinInv, CaseInv, RefundsAreSafe
<1>3. /\ req[w].k \in Kinds => ~Uncased(p) /\ owed[p] = "no" /\ VerdictRows(p)
      /\ req[w].k \notin Kinds => Cancelled(p) /\ ~Taken(p)
      BY <1>1, DecidedIsNotCancelled
<1>4. /\ refunded[p] \in Nat /\ chargeBack[p] \in Nat
      /\ Paid[p] \in Nat /\ Verdict[p] \in Nat
      /\ Verdict[p] > 0 /\ Verdict[p] <= Paid[p]
      BY AmountsAssumption DEF TypeOK
<1>5. req[w].prior \in Nat /\ req[w].amt \in Nat  BY DEF Requests
<1> QED  BY <1>2, <1>3, <1>4, <1>5

\* A step of a refund that touches neither Stripe nor the ledger.
LEMMA WithinQuiet ==
    ASSUME TypeOK, RefundsAreSafe, CaseInv, WithinInv, NEW w \in Workers,
           NEW p \in Payments, p = req[w].p, req[w] \in Requests, Apart(w, p),
           req[w].pc \in Refund,
           UNCHANGED <<stage, escrow, payVars, stripeVars, case, verdictLocked>>,
           owed'[p] = owed[p] \/ owed'[p] = "no" \/ req[w].k \notin Kinds,
           ~IsIdle(w)' => WithinAsRead(w)'
    PROVE  WithinInv'
<1>1. /\ WithinRows(p)
      /\ req[w].k \notin Kinds => ~Taken(p)
      BY RefundKnows
<1>2. (Taken(p)' <=> Taken(p)) /\ (Cancelled(p)' <=> Cancelled(p))
      BY DEF Taken, Cancelled, Uncased, payVars
<1>3. Taken(p) => /\ escrow'[p] = "REFUNDED"
                  /\ stage'[p] \notin Early /\ owed'[p] # "due"
      BY <1>1 DEF WithinRows
<1>4. Calm(p)  BY <1>1, <1>2, <1>3 DEF Calm, WithinRows, payVars, stripeVars
<1> QED  BY <1>1, <1>4, CalmRows, WithinStep

LEMMA WithinTarget ==
    ASSUME TypeOK, RefundsAreSafe, CaseInv, WithinInv, NEW w \in Workers,
           NEW p \in Payments, p = req[w].p, req[w] \in Requests, Apart(w, p),
           NEW t \in Targets(p, req[w].k), FixTarget(w, t)
    PROVE  WithinInv'
<1>1. req[w].pc \in Refund  BY DEF FixTarget, At, Refund
<1>2. UNCHANGED <<stage, escrow, payVars, stripeVars, case, verdictLocked>>
      BY DEF FixTarget, partVars
<1>3. owed'[p] = owed[p] \/ owed'[p] = "no"  BY DEF FixTarget, TypeOK
<1>4. WithinAsRead(w)  BY <1>1, RefundKnows
<1>5. req[w].k \in Kinds => Requested(p, req[w].k, t) = Verdict[p]
      BY DEF Targets, Requested, Kinds
<1>6. ~IsIdle(w)' => WithinAsRead(w)'
  <2> SUFFICES ASSUME ~IsIdle(w)' PROVE WithinAsRead(w)'
      OBVIOUS
  <2>1. /\ req'[w].pc = "reading" /\ req'[w].p = p /\ req'[w].k = req[w].k
        /\ req'[w].amt = Requested(p, req[w].k, t)
        BY TargetSays
  <2>2. req[w].k \in {"none", "order"} => owed'[p] = "no"
        BY <1>1, <1>3, <1>4 DEF WithinAsRead
  <2>3. req[w].k \notin Kinds => ~Taken(p)'
        BY <1>1, <1>2, <1>4 DEF WithinAsRead, Taken, payVars
  <2> QED  BY <1>5, <2>1, <2>2, <2>3 DEF WithinAsRead, At
<1> QED  BY <1>1, <1>2, <1>3, <1>6, WithinQuiet

LEMMA WithinReadRows ==
    ASSUME TypeOK, RefundsAreSafe, CaseInv, WithinInv, NEW w \in Workers,
           NEW p \in Payments, p = req[w].p, req[w] \in Requests, Apart(w, p),
           ReadRows(w)
    PROVE  WithinInv'
<1>1. At(w, "reading") /\ req[w].pc \in Refund  BY DEF ReadRows, At, Refund
<1>2. UNCHANGED <<stage, escrow, payVars, stripeVars, case, verdictLocked, owed>>
      BY DEF ReadRows, partVars, caseVars
<1>3. WithinAsRead(w) /\ WithinRows(p)  BY <1>1, RefundKnows
<1>4. /\ req'[w].pc = "limiting" /\ req'[w].p = p /\ req'[w].k = req[w].k
      /\ req'[w].amt = req[w].amt /\ req'[w].prior = refunded[p]
      BY ReadSays
<1>5. WithinAsRead(w)'
      BY <1>1, <1>2, <1>3, <1>4 DEF WithinAsRead, WithinRows, At, Taken, payVars,
         stripeVars
<1> QED  BY <1>1, <1>2, <1>5, WithinQuiet

\* The amount: what Stripe shows when the ledger has nothing, or what is left.
LEMMA WithinAmount ==
    ASSUME TypeOK, RefundsAreSafe, CaseInv, WithinInv, NEW w \in Workers,
           NEW p \in Payments, p = req[w].p, req[w] \in Requests, Apart(w, p),
           FixAmount(w)
    PROVE  WithinInv'
<1> DEFINE k == req[w].k
<1>1. At(w, "limiting") /\ req[w].pc \in Refund
      BY DEF FixAmount, At, Refund, WithRows
<1>2. UNCHANGED <<stage, escrow, payVars, stripeVars, case, verdictLocked>>
      BY DEF FixAmount, partVars
<1>3. owed'[p] = owed[p] \/ (k \notin Kinds /\ IsIdle(w)')
      BY FinishSays DEF FixAmount, RefundError, Kinds
<1>4. /\ WithinAsRead(w) /\ WithinRows(p) /\ SafeRows(p) /\ SafeRefund(w)
      /\ k \in Kinds => VerdictRows(p)
      /\ k \notin Kinds => ~Taken(p)
      /\ refunded[p] \in Nat /\ chargeBack[p] \in Nat
      /\ Paid[p] \in Nat /\ Verdict[p] \in Nat
      /\ Verdict[p] > 0 /\ Verdict[p] <= Paid[p]
      /\ req[w].prior \in Nat /\ req[w].amt \in Nat
      BY <1>1, RefundKnows
<1>5. ASSUME ~IsIdle(w)'
      PROVE  WithinAsRead(w)'
  <2>1. /\ req'[w].p = p /\ req'[w].k = k /\ req'[w].prior = req[w].prior
        /\ \/ /\ SyncFromStripe(w)
              /\ req'[w].pc = IF k \in Kinds THEN "checking" ELSE "applying"
              /\ req'[w].amt = chargeBack[p]
           \/ /\ ~SyncFromStripe(w) /\ MaxRefundable(p) > 0
              /\ req'[w].pc = "charging"
              /\ req'[w].amt = MinOf(req[w].amt, MaxRefundable(p))
        BY <1>5, AmountSays
  <2>2. /\ Taken(p)' <=> Taken(p)
        /\ refunded'[p] = refunded[p] /\ chargeBack'[p] = chargeBack[p]
        BY <1>2 DEF Taken, payVars, stripeVars
  <2>3. k \in {"none", "order"} => owed'[p] = "no"
        BY <1>1, <1>3, <1>4, <1>5 DEF WithinAsRead
  <2>4. CASE SyncFromStripe(w) /\ req'[w].pc # "charging"
    <3>1. req[w].prior = 0 /\ MaxRefundable(p) <= 0  BY <2>4 DEF SyncFromStripe
    <3>2. chargeBack[p] > 0  BY <3>1, NothingLeft
    <3>3. chargeBack[p] <= Paid[p]  BY <1>4 DEF SafeRows
    <3>4. k \in Kinds => chargeBack[p] >= Verdict[p]
          BY <1>4, <3>2 DEF VerdictRows
    <3>5. /\ req'[w].prior = 0 /\ req'[w].amt = chargeBack[p]
          /\ req'[w].pc = IF k \in Kinds THEN "checking" ELSE "applying"
          BY <2>1, <2>4, <3>1
    <3>6. Fits(w)'  BY <1>4, <2>1, <3>3, <3>4, <3>5 DEF Fits
    <3> QED  BY <1>4, <2>1, <2>2, <2>3, <3>5, <3>6 DEF WithinAsRead, At
  <2>5. CASE ~SyncFromStripe(w) /\ MaxRefundable(p) > 0 /\ req'[w].pc = "charging"
    <3> DEFINE n == MinOf(req[w].amt, MaxRefundable(p))
    <3>1. req'[w].amt = n  BY <2>1, <2>5
    <3>2. req[w].amt \in Int /\ req[w].amt > 0
          BY <1>1, <1>4 DEF SafeRefund, Refunding, At
    <3>3. /\ n \in Nat /\ n > 0 /\ n <= req[w].amt
          /\ n <= Paid[p] - refunded[p] /\ n <= Paid[p] - chargeBack[p]
          BY <2>5, <3>2, AmountWithinRest
    <3>4. k \in Kinds => req[w].amt = Verdict[p]
          BY <1>1, <1>4 DEF WithinAsRead, At
    <3>5. CASE Taken(p)
      <4>1. k \in Kinds /\ VerdictRows(p)  BY <1>4, <3>5
      <4>2. chargeBack[p] # Paid[p]  BY <1>4, <3>3
      <4>3. refunded[p] >= Verdict[p]  BY <3>5, <4>1, <4>2 DEF VerdictRows, Full
      <4>4. n <= Verdict[p]  BY <3>3, <3>4, <4>1
      <4>5. Moot(w)'
            BY <2>1, <2>2, <3>1, <3>5, <4>3, <4>4 DEF Moot
      <4> QED
          BY <1>4, <2>1, <2>2, <2>3, <2>5, <3>5, <4>1, <4>5 DEF WithinAsRead, At
    <3>6. CASE ~Taken(p)
      <4>1. req[w].prior <= chargeBack[p] /\ refunded[p] <= chargeBack[p]
            BY <1>1, <1>4, <3>6 DEF WithinAsRead, WithinRows
      <4>2. req[w].prior + n <= Paid[p]  BY <1>4, <3>3, <4>1
      <4>3. MaxRefundable(p) = Paid[p] - chargeBack[p]
            BY <1>4, <4>1 DEF MaxRefundable, MinOf
      <4>4. k \in Kinds => /\ n = Verdict[p] \/ chargeBack[p] + n = Paid[p]
                           /\ chargeBack[p] = 0 => n = Verdict[p]
            BY <1>4, <3>4, <4>3 DEF MinOf
      <4>5. Charges(w)'
            BY <2>1, <2>2, <3>1, <4>2, <4>4 DEF Charges
      <4> QED
          BY <1>4, <2>1, <2>2, <2>3, <2>5, <3>6, <4>5 DEF WithinAsRead, At
    <3> QED  BY <3>5, <3>6
  <2> QED  BY <2>1, <2>4, <2>5
<1> QED  BY <1>1, <1>2, <1>3, <1>5, WithinQuiet

\* A known key repeats a refund made before; a new one adds a verdict, or the rest.
LEMMA WithinCall ==
    ASSUME TypeOK, RefundsAreSafe, CaseInv, WithinInv, NEW w \in Workers,
           NEW p \in Payments, p = req[w].p, req[w] \in Requests, Apart(w, p),
           CallStripe(w)
    PROVE  WithinInv'
<1> DEFINE k == req[w].k
           a == req[w].amt
           answer == IF k \in Kinds THEN "checking" ELSE "applying"
<1>1. At(w, "charging") /\ req[w].pc \in Refund
      BY DEF CallStripe, At, Refund, WithRows
<1>2. /\ WithinAsRead(w) /\ WithinRows(p) /\ CaseAsRead(w) /\ SafeRows(p)
      /\ SafeRefund(w)
      /\ k \in Kinds => ~Uncased(p) /\ VerdictRows(p)
      /\ k \notin Kinds => Cancelled(p) /\ ~Taken(p)
      /\ refunded[p] \in Nat /\ chargeBack[p] \in Nat
      /\ Paid[p] \in Nat /\ Verdict[p] \in Nat
      /\ Verdict[p] > 0 /\ Verdict[p] <= Paid[p]
      /\ req[w].prior \in Nat /\ a \in Nat
      BY <1>1, RefundKnows
<1>3. a > 0  BY <1>1, <1>2 DEF SafeRefund, Refunding, At
<1>4. UNCHANGED <<stage, escrow, payVars, case, verdictLocked>>
      BY DEF CallStripe, partVars
<1>5. Taken(p)' <=> Taken(p)  BY <1>4 DEF Taken, payVars
<1>6. IF Taken(p) THEN Moot(w) ELSE Charges(w)
      BY <1>1, <1>2 DEF WithinAsRead
<1>7. Goto(w, answer) => /\ req'[w].pc = answer /\ req'[w].p = p /\ req'[w].k = k
                         /\ req'[w].prior = req[w].prior /\ req'[w].amt = a
  <2> DEFINE r == [req[w] EXCEPT !.pc = answer]
  <2>1. /\ r.pc = answer /\ r.p = p /\ r.k = k
        /\ r.prior = req[w].prior /\ r.amt = a
        BY DEF Requests
  <2>2. Goto(w, answer) => req' = [req EXCEPT ![w] = r]  BY DEF Goto
  <2> HIDE DEF r, answer
  <2>3. Goto(w, answer) => req'[w] = r  BY <2>2 DEF TypeOK
  <2> QED  BY <2>1, <2>3
<1>8. k \in {"none", "order"} => owed[p] = "no"  BY <1>1, <1>2 DEF WithinAsRead
\* After Stripe's answer the total fits, or there is nothing left to write.
<1>9. ASSUME Goto(w, answer), owed' = owed,
             Taken(p) => Moot(w)', ~Taken(p) => Fits(w)'
      PROVE  WithinAsRead(w)'
  <2>1. CASE k \in Kinds
    <3>1. req'[w].pc = "checking" /\ req'[w].p = p /\ req'[w].k \in Kinds
          BY <1>7, <1>9, <2>1
    <3> QED  BY <1>9, <3>1 DEF WithinAsRead, At, Kinds
  <2>2. CASE k \notin Kinds
    <3>1. req'[w].pc = "applying" /\ req'[w].p = p /\ req'[w].k = k
          BY <1>7, <1>9, <2>2
    <3> QED  BY <1>2, <1>5, <1>8, <1>9, <2>2, <3>1 DEF WithinAsRead, At
  <2> QED  BY <2>1, <2>2
<1>10. CASE /\ a \in charge[p] /\ Goto(w, answer)
            /\ UNCHANGED stripeVars /\ owed' = owed
  <2>1. Full(p)' <=> Full(p)  BY <1>10 DEF Full, stripeVars
  <2>2. Taken(p) => Moot(w)'
        BY <1>4, <1>6, <1>7, <1>10 DEF Moot, Taken, payVars
  <2>3. ASSUME ~Taken(p)
        PROVE  Fits(w)'
    <3>1. req[w].prior + a <= Paid[p]  BY <1>6, <2>3 DEF Charges
    <3>2. k \in Kinds => a >= Verdict[p] \/ Full(p)
          BY <1>2, <1>10, <2>3 DEF VerdictRows
    <3>3. k \in Kinds => req[w].prior + a >= Verdict[p] \/ Full(p)'
          BY <1>2, <2>1, <3>2
    <3> QED  BY <1>7, <1>10, <3>1, <3>3 DEF Fits
  <2>4. WithinAsRead(w)'  BY <1>9, <1>10, <2>2, <2>3
  <2> QED  BY <1>1, <1>4, <1>10, <2>4, WithinQuiet
<1>11. CASE /\ a \notin charge[p] /\ chargeBack[p] + a <= Paid[p]
            /\ charge' = [charge EXCEPT ![p] = @ \cup {a}]
            /\ chargeBack' = [chargeBack EXCEPT ![p] = @ + a]
            /\ events' = [events EXCEPT ![p] = @ \cup {chargeBack[p] + a}]
            /\ Goto(w, answer) /\ owed' = owed
  <2>1. /\ chargeBack'[p] = chargeBack[p] + a /\ charge'[p] = charge[p] \cup {a}
        /\ events'[p] = events[p] \cup {chargeBack[p] + a}
        BY <1>11 DEF TypeOK
  <2>2. ~Full(p)  BY <1>2, <1>3, <1>11 DEF Full
  <2>3. Taken(p) => Moot(w)'
        BY <1>4, <1>6, <1>7, <1>11 DEF Moot, Taken, payVars
  <2>4. ASSUME ~Taken(p)
        PROVE  Fits(w)'
    <3>1. Charges(w)  BY <1>6, <2>4
    <3>2. req[w].prior + a <= Paid[p]  BY <3>1 DEF Charges
    <3>3. k \in Kinds => a = Verdict[p] \/ chargeBack[p] + a = Paid[p]
          BY <3>1 DEF Charges
    <3>4. k \in Kinds => req[w].prior + a >= Verdict[p] \/ Full(p)'
          BY <1>2, <2>1, <3>3 DEF Full
    <3> QED  BY <1>7, <1>11, <3>2, <3>4 DEF Fits
  <2>5. WithinAsRead(w)'  BY <1>9, <1>11, <2>3, <2>4
  <2>6. ASSUME k \in Kinds
        PROVE  VerdictRows(p)'
    <3>1. VerdictRows(p)  BY <1>2, <2>6
    <3>2. chargeBack[p] = 0 => a = Verdict[p]
      <4>1. chargeBack[p] = 0 => ~Taken(p)  BY <1>2 DEF WithinRows
      <4> QED  BY <1>6, <2>6, <4>1 DEF Charges
    <3>3. chargeBack'[p] >= Verdict[p]
          BY <1>2, <2>1, <3>1, <3>2 DEF VerdictRows
    <3>4. \A e \in events'[p] : e >= Verdict[p]
          BY <2>1, <3>1, <3>3 DEF VerdictRows
    <3>5. ASSUME ~Taken(p), NEW c \in charge'[p]
          PROVE  c >= Verdict[p] \/ Full(p)'
      <4>1. CASE c \in charge[p]  BY <2>2, <3>1, <3>5, <4>1 DEF VerdictRows
      <4>2. CASE c = a
        <5>1. a = Verdict[p] \/ chargeBack[p] + a = Paid[p]
              BY <1>6, <2>6, <3>5 DEF Charges
        <5> QED  BY <1>2, <2>1, <4>2, <5>1 DEF Full
      <4> QED  BY <2>1, <3>5, <4>1, <4>2
    <3>6. Taken(p) => refunded'[p] >= Verdict[p]
          BY <1>4, <2>2, <3>1 DEF VerdictRows, payVars
    <3> QED  BY <1>5, <3>3, <3>4, <3>5, <3>6 DEF VerdictRows
  <2>7. Cancelled(p)' <=> Cancelled(p)  BY <1>4 DEF Cancelled, Uncased
  <2>8. ~Cancelled(p)' => VerdictRows(p)'  BY <1>2, <2>6, <2>7
  <2>9. \A e \in events'[p] : e <= chargeBack'[p]
    <3>1. \A e \in events[p] : e \in Nat /\ e <= chargeBack[p]
          BY <1>2 DEF WithinRows, TypeOK
    <3> QED  BY <1>2, <2>1, <3>1
  <2>10. refunded[p] <= chargeBack[p] => refunded'[p] <= chargeBack'[p]
         BY <1>2, <1>4, <2>1 DEF payVars
  <2>11. chargeBack'[p] > 0  BY <1>2, <1>3, <2>1
  <2>12. WithinRows(p)'
         BY <1>2, <1>4, <1>5, <1>11, <2>8, <2>9, <2>10, <2>11 DEF WithinRows, payVars
  <2> QED  BY <1>2, <2>5, <2>12, WithinStep
<1>12. CASE RefundError(w) /\ UNCHANGED stripeVars
  <2>1. IsIdle(w)'  BY <1>12, FinishSays DEF RefundError
  <2>2. owed'[p] = owed[p] \/ k \notin Kinds  BY <1>12 DEF RefundError, Kinds
  <2> QED  BY <1>1, <1>4, <1>12, <2>1, <2>2, WithinQuiet
<1> QED  BY <1>10, <1>11, <1>12 DEF CallStripe

LEMMA WithinCheck ==
    ASSUME TypeOK, RefundsAreSafe, CaseInv, WithinInv, NEW w \in Workers,
           NEW p \in Payments, p = req[w].p, req[w] \in Requests, Apart(w, p),
           CheckApplied(w)
    PROVE  WithinInv'
<1>1. At(w, "checking") /\ req[w].pc \in Refund
      BY DEF CheckApplied, At, Refund, WithRows
<1>2. UNCHANGED <<stage, escrow, payVars, stripeVars, case, verdictLocked, owed>>
      BY DEF CheckApplied, partVars, caseVars
<1>3. /\ WithinAsRead(w) /\ refunded[p] \in Nat /\ Verdict[p] \in Nat
      /\ req[w].amt \in Nat
      BY <1>1, RefundKnows
<1>4. /\ req'[w].pc = "applying" /\ req'[w].p = p /\ req'[w].k = req[w].k
      /\ req'[w].prior = req[w].prior /\ req'[w].amt = req[w].amt
      /\ req'[w].skip <=> refunded[p] >= req[w].amt /\ payEscrow[p] = "REFUNDED"
      BY CheckSays
<1>5. req[w].k \in Kinds /\ (Fits(w) \/ Moot(w))
      BY <1>1, <1>3 DEF WithinAsRead
<1>6. Moot(w) => req'[w].skip
  <2>1. Moot(w) => refunded[p] >= req[w].amt /\ payEscrow[p] = "REFUNDED"
        BY <1>3 DEF Moot, Taken
  <2> QED  BY <1>4, <2>1, Zenon
<1>7. Fits(w) => Fits(w)'
      BY <1>2, <1>4 DEF Fits, Full, stripeVars
<1>8. req'[w].skip \/ Fits(w)'  BY <1>5, <1>6, <1>7
<1>9. WithinAsRead(w)'
      BY <1>4, <1>5, <1>8 DEF WithinAsRead, At, Kinds
<1> QED  BY <1>1, <1>2, <1>9, WithinQuiet

\* The ledger transaction writes a total that fits, or finds it written.
LEMMA WithinApply ==
    ASSUME TypeOK, RefundsAreSafe, CaseInv, WithinInv, NEW w \in Workers,
           NEW p \in Payments, p = req[w].p, req[w] \in Requests, Apart(w, p),
           ApplyRefund(w)
    PROVE  WithinInv'
<1> DEFINE k == req[w].k
           total == req[w].prior + req[w].amt
<1>1. At(w, "applying") /\ req[w].pc \in Refund
      BY DEF ApplyRefund, At, Refund, WithRows
<1>2. /\ WithinAsRead(w) /\ WithinRows(p) /\ CaseAsRead(w) /\ SafeRows(p)
      /\ SafeRefund(w)
      /\ k \in Kinds => ~Uncased(p) /\ owed[p] = "no" /\ VerdictRows(p)
      /\ k \notin Kinds => Cancelled(p) /\ ~Taken(p)
      BY <1>1, RefundKnows
<1>3. IsIdle(w)'  BY FinishSays DEF ApplyRefund
<1>4. UNCHANGED <<stripeVars, case, verdictLocked>>  BY DEF ApplyRefund
<1>5. stage'[p] = IF k \in Kinds THEN "CANCELLED" ELSE stage[p]
      BY DEF ApplyRefund, TypeOK
<1>6. owed'[p] = IF k = "part" THEN "no" ELSE owed[p]
      BY DEF ApplyRefund, TypeOK, Kinds
<1>7. owed'[p] # "due"
  <2>1. k \in Askers  BY DEF Requests
  <2>2. k \in {"none", "order"} => owed[p] = "no"  BY <1>1, <1>2 DEF WithinAsRead
  <2> QED  BY <1>2, <1>6, <2>1, <2>2 DEF Askers
<1>8. stage'[p] \notin Early
      BY <1>2, <1>5 DEF Cancelled, Early
<1>9. Cancelled(p)' \/ k \in Kinds
      BY <1>2, <1>4, <1>5 DEF Cancelled, Uncased
<1>10. Cancelled(p)' \/ ~Cancelled(p)
       BY <1>2, <1>9 DEF Cancelled
<1>11. CASE UNCHANGED <<escrow, payVars>>
  <2>1. Taken(p)' <=> Taken(p)  BY <1>11 DEF Taken, payVars
  <2>2. Calm(p)
        BY <1>2, <1>4, <1>7, <1>8, <1>10, <1>11, <2>1 DEF Calm, WithinRows, payVars,
           stripeVars
  <2> QED  BY <1>2, <1>3, <2>2, CalmRows, WithinStep
<1>12. CASE ~req[w].skip /\ ApplyLedger(w)
  <2>1. Fits(w)  BY <1>1, <1>2, <1>12 DEF WithinAsRead
  <2>2. /\ escrow'[p] = "REFUNDED" /\ payEscrow'[p] = "REFUNDED"
        /\ refunded'[p] = total
        BY <1>12 DEF ApplyLedger, TypeOK
  <2>3. /\ total <= Paid[p]
        /\ k \in Kinds => total >= Verdict[p] \/ Full(p)
        BY <2>1 DEF Fits
  <2>4. /\ chargeBack'[p] = chargeBack[p] /\ events'[p] = events[p]
        /\ Full(p)' <=> Full(p)
        BY <1>4 DEF stripeVars, Full
  <2>5. chargeBack[p] > 0  BY <1>1, <1>2 DEF SafeRefund, At
  <2>6. k \in Kinds => VerdictRows(p)'
        BY <1>2, <2>2, <2>3, <2>4 DEF VerdictRows, Taken
  <2>7. WithinRows(p)'
        BY <1>2, <1>4, <1>7, <1>8, <1>9, <2>2, <2>3, <2>4, <2>5, <2>6 DEF WithinRows,
           Taken
  <2> QED  BY <1>3, <2>7, WithinStep
<1> QED  BY <1>11, <1>12 DEF ApplyRefund

LEMMA WithinNext ==
    TypeOK /\ OnlyCaptured /\ RefundsAreSafe /\ EscrowInv /\ CaseInv /\ WithinInv
        /\ Serial /\ Serial' /\ [Next]_vars => WithinInv'
<1> SUFFICES ASSUME TypeOK, OnlyCaptured, RefundsAreSafe, EscrowInv, CaseInv,
                    WithinInv, Serial, Serial', [Next]_vars
             PROVE  WithinInv'
    OBVIOUS
<1>1. CASE UNCHANGED vars
      BY <1>1 DEF vars, payVars, stripeVars, caseVars, partVars, WithinInv, WithinRows,
         VerdictRows, WithinAsRead, Fits, Moot, Charges, Taken, Full, Cancelled,
         Uncased, At, IsIdle
<1>2. ASSUME NEW p \in Payments, Environment(p)
      PROVE  WithinInv'
      BY <1>2, WithinEnvironment
<1>3. ASSUME NEW w \in Workers, NEW p \in Payments, Start(w, p)
      PROVE  WithinInv'
      BY <1>3, WithinStart
<1>4. ASSUME NEW w \in Workers, Continue(w)
      PROVE  WithinInv'
      BY <1>4, StepApart, WithinCaseStep, WithinTarget, WithinReadRows, WithinAmount,
         WithinCall, WithinCheck, WithinApply DEF Continue
<1>5. ASSUME NEW w \in Workers, Crash(w) \/ RefundFails(w)
      PROVE  WithinInv'
      BY <1>5, WithinFault
<1> QED  BY <1>1, <1>2, <1>3, <1>4, <1>5 DEF Next

\* When the requests of a payment do not overlap, neither the payment row nor the
\* charge shows more refunded than was paid, whatever events come late, requests
\* are cut off and refunds are tried again (WithinPaid).
THEOREM SerialWithinPaid == Spec /\ []Serial => []WithinPaid
<1> DEFINE Inv == /\ TypeOK /\ OnlyCaptured /\ RefundsAreSafe
                  /\ EscrowInv /\ CaseInv /\ WithinInv
<1>1. Init => Inv
  <2> SUFFICES ASSUME Init PROVE Inv
      OBVIOUS
  <2>1. OnlyCaptured  BY DEF Init, OnlyCaptured, Blank, IsIdle, Idle
  <2>2. CaseInv
        BY DEF Init, CaseInv, CaseRows, Waiting, Open, OpenStatuses, Uncased, IsIdle,
           Idle, Kinds
  <2>3. WithinInv
        BY AmountsAssumption DEF Init, WithinInv, WithinRows, VerdictRows, Taken, Full,
           IsIdle, Idle
  <2> QED  BY <2>1, <2>2, <2>3, InitType, InitEscrow, RefundsInit
<1>2. Inv /\ Serial /\ Serial' /\ [Next]_vars => Inv'
      BY NextType, CapturedNext, RefundsNext, EscrowNext, CaseNext, WithinNext
<1>3. Inv => WithinPaid
      BY DEF WithinInv, WithinRows, RefundsAreSafe, SafeRows, WithinPaid
<1> HIDE DEF Inv
<1> QED  BY <1>1, <1>2, <1>3, PTL DEF Spec

-----------------------------------------------------------------------------
(* Without faults the rows and buckets implement EscrowAccount: its initial  *)
(* states, and each step of Escrow is a step of the account or a stutter.    *)

Purse(q, a, b, c) == pending[q] = a /\ frozen[q] = b /\ balance[q] = c

\* A request at one of these steps concerns the payment.
Busy(q, pcs) == \E w \in Workers : req[w].pc \in pcs /\ req[w].p = q

\* The bucket that holds the share is that of the escrow status.  A release and
\* a refund that began are still in flight.
PlaceRows(q) ==
    LET m == Merchant[q] IN
    /\ escrow[q] \in {"HELD", "RELEASING"} => Purse(q, m, 0, 0)
    /\ escrow[q] = "FROZEN" => Purse(q, 0, m, 0)
    /\ escrow[q] = "RELEASED" => Purse(q, 0, 0, m)
    /\ escrow[q] \in {"NONE", "REFUNDED"} => Purse(q, 0, 0, 0)
    /\ payEscrow[q] = "REFUNDED" => escrow[q] = "REFUNDED"
    /\ escrow[q] = "RELEASING" => Busy(q, {"releasing"})
    /\ chargeBack[q] > 0 => escrow[q] = "REFUNDED" \/ Busy(q, {"checking", "applying"})

\* A refund that was found applied was.
SkipAsRead(w) == req[w].skip => escrow[req[w].p] = "REFUNDED"

PlaceInv ==
    /\ \A q \in Payments : PlaceRows(q)
    /\ \A w \in Workers : ~IsIdle(w) => SkipAsRead(w)

\* The place of a share follows from the escrow status; a share of zero stays
\* where it is.
PlaceFor(status, m) ==
    IF status = "NONE" THEN "none"
    ELSE IF m = 0 \/ status \in {"HELD", "RELEASING"} THEN "pending"
    ELSE IF status = "FROZEN" THEN "frozen"
    ELSE IF status = "RELEASED" THEN "available"
    ELSE "returned"

PlacedByStatus == \A q \in Payments : PlaceOf(q) = PlaceFor(escrow[q], Merchant[q])

LEMMA PlaceSays == TypeOK /\ PlaceInv => PlacedByStatus
<1> SUFFICES ASSUME TypeOK, PlaceInv, NEW q \in Payments
             PROVE  PlaceOf(q) = PlaceFor(escrow[q], Merchant[q])
    BY DEF PlacedByStatus
<1>1. Merchant[q] \in Nat  BY AmountsAssumption
<1>2. escrow[q] \in EscrowStatuses /\ PlaceRows(q)  BY DEF TypeOK, PlaceInv
<1> QED
    BY <1>1, <1>2 DEF PlaceOf, PlaceFor, PlaceRows, Purse, EscrowStatuses

\* What a step does to the status and to Stripe's refunds of one payment.
Moved(p) ==
    LET from == escrow[p]
        to == escrow'[p]
        back == chargeBack[p] IN
    \/ /\ chargeBack'[p] = back
       /\ \/ to = from
          \/ from = "NONE" /\ to = "HELD"
          \/ from = "HELD" /\ to = "RELEASING"
          \/ from = "HELD" /\ to = "FROZEN" /\ back = 0
          \/ from = "FROZEN" /\ to = "HELD" /\ back = 0
          \/ from \in {"HELD", "RELEASING", "FROZEN"} /\ to = "RELEASED" /\ back = 0
          \/ from \in {"HELD", "FROZEN", "RELEASED"} /\ to = "REFUNDED" /\ back > 0
    \/ /\ to = from /\ from # "NONE"
       /\ chargeBack'[p] > back /\ chargeBack'[p] <= Paid[p]

\* Such a step is a step of the account.
LEMMA MovedImplements ==
    ASSUME TypeOK, TypeOK', PlaceInv, PlaceInv', NEW p \in Payments, Moved(p),
           \A q \in Payments : q # p =>
               escrow'[q] = escrow[q] /\ chargeBack'[q] = chargeBack[q]
    PROVE  [Account!AccountNext]_(Account!account)
<1> DEFINE place == [q \in Payments |-> PlaceOf(q)]
           m == Merchant[p]
           old == PlaceFor(escrow[p], m)
           new == PlaceFor(escrow'[p], m)
<1>1. PlacedByStatus  BY PlaceSays
<1>2. PlacedByStatus'  BY PlaceSays, PTL
<1>3. m \in Nat /\ chargeBack[p] \in Nat /\ escrow[p] \in EscrowStatuses
      BY AmountsAssumption DEF TypeOK
<1>4. place[p] = old  BY <1>1 DEF PlacedByStatus
<1>5. place' = [place EXCEPT ![p] = new]  BY <1>1, <1>2 DEF PlacedByStatus
<1>6. new = old => place' = place  BY <1>1, <1>2 DEF PlacedByStatus
<1>7. chargeBack'[p] = chargeBack[p] => chargeBack' = chargeBack
  <2>1. \A q \in Payments : chargeBack'[p] = chargeBack[p]
            => chargeBack'[q] = chargeBack[q]
        OBVIOUS
  <2> QED  BY <2>1 DEF TypeOK
<1>8. \/ new = old /\ chargeBack'[p] = chargeBack[p]
      \/ /\ chargeBack'[p] = chargeBack[p]
         /\ \/ old = "none" /\ new = "pending"
            \/ chargeBack[p] = 0 /\ old = "pending" /\ new = "frozen"
            \/ chargeBack[p] = 0 /\ old = "frozen" /\ new = "pending"
            \/ chargeBack[p] = 0 /\ old \in {"pending", "frozen"} /\ new = "available"
            \/ /\ chargeBack[p] > 0 /\ new = "returned"
               /\ old \in {"pending", "frozen", "available"}
      \/ /\ new = old /\ old # "none"
         /\ chargeBack'[p] > chargeBack[p] /\ chargeBack'[p] <= Paid[p]
      BY DEF Moved, PlaceFor
<1> HIDE DEF place, old, new
<1>9. CASE new = old /\ chargeBack'[p] = chargeBack[p]
      BY <1>6, <1>7, <1>9 DEF Account!account, place
<1>10. ASSUME chargeBack'[p] = chargeBack[p], NEW from, old \in from
       PROVE  Account!Move(p, from, new)
       BY <1>4, <1>5, <1>7, <1>10 DEF Account!Move, place
<1>11. CASE /\ chargeBack'[p] = chargeBack[p]
            /\ \/ old = "none" /\ new = "pending"
               \/ chargeBack[p] = 0 /\ old = "pending" /\ new = "frozen"
               \/ chargeBack[p] = 0 /\ old = "frozen" /\ new = "pending"
               \/ chargeBack[p] = 0 /\ old \in {"pending", "frozen"} /\ new = "available"
               \/ /\ chargeBack[p] > 0 /\ new = "returned"
                  /\ old \in {"pending", "frozen", "available"}
  <2>1. CASE old = "none" /\ new = "pending"
        BY <1>10, <1>11, <2>1 DEF Account!AccountNext, Account!Capture
  <2>2. CASE chargeBack[p] = 0 /\ old = "pending" /\ new = "frozen"
        BY <1>10, <1>11, <2>2 DEF Account!AccountNext, Account!Hold
  <2>3. CASE chargeBack[p] = 0 /\ old = "frozen" /\ new = "pending"
        BY <1>10, <1>11, <2>3 DEF Account!AccountNext, Account!Resume
  <2>4. CASE chargeBack[p] = 0 /\ old \in {"pending", "frozen"} /\ new = "available"
        BY <1>10, <1>11, <2>4 DEF Account!AccountNext, Account!PayOut
  <2>5. CASE /\ chargeBack[p] > 0 /\ new = "returned"
             /\ old \in {"pending", "frozen", "available"}
        BY <1>10, <1>11, <2>5 DEF Account!AccountNext, Account!TakeBack
  <2> QED  BY <1>11, <2>1, <2>2, <2>3, <2>4, <2>5
<1>12. CASE /\ new = old /\ old # "none"
            /\ chargeBack'[p] > chargeBack[p] /\ chargeBack'[p] <= Paid[p]
  <2>1. chargeBack' = [chargeBack EXCEPT ![p] = chargeBack'[p]]  BY DEF TypeOK
  <2>2. chargeBack'[p] \in Nat /\ Paid[p] \in Nat
        BY AmountsAssumption DEF TypeOK
  <2>3. chargeBack'[p] \in (chargeBack[p] + 1)..Paid[p]  BY <1>3, <1>12, <2>2
  <2>4. place' = place /\ place[p] # "none"  BY <1>4, <1>6, <1>12
  <2> QED
      BY <2>1, <2>3, <2>4 DEF Account!AccountNext, Account!Refund, place
<1> QED  BY <1>8, <1>9, <1>11, <1>12

\* Only the payment and the request of the step have to be looked at.
LEMMA PlaceStep ==
    ASSUME TypeOK, PlaceInv, NEW w \in Workers, NEW p \in Payments, Apart(w, p),
           IsIdle(w) \/ req[w].p = p,
           PlaceRows(p)', ~IsIdle(w)' => SkipAsRead(w)'
    PROVE  PlaceInv'
<1>1. ASSUME NEW q \in Payments, q # p
      PROVE  PlaceRows(q)'
  <2>1. SameRows(q) /\ PlaceRows(q)  BY <1>1 DEF PlaceInv, Apart
  <2>2. ASSUME NEW pcs, "idle" \notin pcs, Busy(q, pcs)
        PROVE  Busy(q, pcs)'
    <3>1. PICK v \in Workers : req[v].pc \in pcs /\ req[v].p = q
          BY <2>2 DEF Busy
    <3>2. v # w  BY <1>1, <2>2, <3>1 DEF IsIdle
    <3>3. req'[v] = req[v]  BY <3>2 DEF Apart
    <3> QED  BY <3>1, <3>3 DEF Busy
  <2>3. /\ Busy(q, {"releasing"}) => Busy(q, {"releasing"})'
        /\ Busy(q, {"checking", "applying"}) => Busy(q, {"checking", "applying"})'
        BY <2>2
  <2> QED  BY <2>1, <2>3 DEF PlaceRows, SameRows, Purse
<1>2. ASSUME NEW v \in Workers, v # w, ~IsIdle(v)'
      PROVE  SkipAsRead(v)'
  <2>1. req'[v] = req[v] /\ ~IsIdle(v) /\ req[v].p # p  BY <1>2 DEF Apart, IsIdle
  <2>2. SameRows(req[v].p)  BY <2>1, AtPayment DEF Apart
  <2> QED  BY <2>1, <2>2 DEF PlaceInv, SkipAsRead, SameRows
<1> QED  BY <1>1, <1>2 DEF PlaceInv

\* A release or a refund that is in flight at the payment is that of the step.
LEMMA Alone ==
    ASSUME PlaceInv, NEW w \in Workers, NEW p \in Payments, Apart(w, p)
    PROVE  /\ escrow[p] = "RELEASING" => At(w, "releasing")
           /\ chargeBack[p] > 0 =>
                  escrow[p] = "REFUNDED" \/ req[w].pc \in {"checking", "applying"}
<1>1. ASSUME NEW pcs, "idle" \notin pcs, Busy(p, pcs)
      PROVE  req[w].pc \in pcs
  <2>1. PICK v \in Workers : req[v].pc \in pcs /\ req[v].p = p  BY <1>1 DEF Busy
  <2>2. v = w  BY <1>1, <2>1 DEF Apart, IsIdle
  <2> QED  BY <2>1, <2>2
<1>2. /\ Busy(p, {"releasing"}) => req[w].pc \in {"releasing"}
      /\ Busy(p, {"checking", "applying"}) => req[w].pc \in {"checking", "applying"}
      BY <1>1
<1>3. PlaceRows(p)  BY DEF PlaceInv
<1> QED  BY <1>2, <1>3 DEF PlaceRows, At

\* A step that moves no money implements a stutter.
LEMMA PlaceKept ==
    ASSUME TypeOK, PlaceInv, NEW w \in Workers, NEW p \in Payments, Apart(w, p),
           escrow'[p] = escrow[p], pending'[p] = pending[p],
           frozen'[p] = frozen[p], balance'[p] = balance[p],
           payEscrow'[p] = payEscrow[p], chargeBack'[p] = chargeBack[p],
           req[w].pc # "releasing",
           req[w].pc \in {"checking", "applying"} =>
               \/ escrow[p] = "REFUNDED"
               \/ req'[w].pc \in {"checking", "applying"} /\ req'[w].p = p
    PROVE  PlaceRows(p)' /\ Moved(p)
<1>1. PlaceRows(p)  BY DEF PlaceInv
<1>2. escrow[p] # "RELEASING"  BY Alone DEF At
<1>3. chargeBack[p] > 0 =>
          escrow[p] = "REFUNDED" \/ Busy(p, {"checking", "applying"})'
      BY Alone DEF Busy
<1> QED  BY <1>1, <1>2, <1>3 DEF PlaceRows, Purse, Moved

LEMMA PlaceEnvironment ==
    ASSUME TypeOK, OnlyCaptured, PlaceInv, NEW p \in Payments, Environment(p)
    PROVE  /\ PlaceInv' /\ Moved(p)
           /\ \A q \in Payments : q # p =>
                  escrow'[q] = escrow[q] /\ chargeBack'[q] = chargeBack[q]
<1>1. CASE UNCHANGED <<escrow, pending, frozen, balance, payEscrow, chargeBack, req>>
      BY <1>1 DEF PlaceInv, PlaceRows, SkipAsRead, IsIdle, Purse, Busy, Moved
<1>2. CASE HoldFunds(p)
  <2>1. /\ escrow[p] = "NONE" /\ escrow' = [escrow EXCEPT ![p] = "HELD"]
        /\ pending' = [pending EXCEPT ![p] = @ + Merchant[p]]
        /\ UNCHANGED <<frozen, balance, payEscrow, chargeBack, req>>
        BY <1>2 DEF HoldFunds, AddTo, stripeVars
  <2>2. \A v \in Workers : ~IsIdle(v) => req[v].p # p
        BY <2>1 DEF OnlyCaptured, Blank
  <2>3. ~Busy(p, {"checking", "applying"})  BY <2>2 DEF Busy, IsIdle
  <2>4. PlaceRows(p) /\ Merchant[p] \in Nat /\ chargeBack[p] \in Nat
        BY AmountsAssumption DEF PlaceInv, TypeOK
  <2>5. escrow'[p] = "HELD" /\ pending'[p] = pending[p] + Merchant[p]
        BY <2>1 DEF TypeOK
  <2>6. PlaceRows(p)'
        BY <2>1, <2>3, <2>4, <2>5 DEF PlaceRows, Purse
  <2>7. ASSUME NEW q \in Payments, q # p
        PROVE  /\ PlaceRows(q)'
               /\ escrow'[q] = escrow[q] /\ chargeBack'[q] = chargeBack[q]
    <3>1. escrow'[q] = escrow[q] /\ pending'[q] = pending[q]  BY <2>1, <2>7 DEF TypeOK
    <3> QED  BY <2>1, <3>1 DEF PlaceInv, PlaceRows, Purse, Busy
  <2>8. ASSUME NEW v \in Workers, ~IsIdle(v)'
        PROVE  SkipAsRead(v)'
    <3>1. req'[v] = req[v] /\ ~IsIdle(v) /\ req[v].p \in Payments /\ req[v].p # p
          BY <2>1, <2>2, <2>8, AtPayment DEF IsIdle
    <3>2. escrow'[req[v].p] = escrow[req[v].p]  BY <2>7, <3>1
    <3> QED  BY <3>1, <3>2 DEF PlaceInv, SkipAsRead
  <2> QED  BY <2>1, <2>5, <2>6, <2>7, <2>8 DEF PlaceInv, Moved
<1> QED
    BY <1>1, <1>2 DEF Environment, Deliver, WindowEnds, CompleteOffer, WarrantyEnds,
       RetryLapses, ChargeRefunded, bucketVars, stripeVars, payVars

LEMMA PlaceStart ==
    ASSUME TypeOK, PlaceInv, Serial', NEW w \in Workers, NEW p \in Payments,
           Start(w, p)
    PROVE  PlaceInv' /\ Moved(p) /\ Apart(w, p)
<1>1. IsIdle(w) /\ Apart(w, p)  BY StartSays, StartApart
<1>2. UNCHANGED <<escrow, pending, frozen, balance, payEscrow, chargeBack>>
      BY StartSays DEF bucketVars, payVars, stripeVars
<1>3. PlaceRows(p)' /\ Moved(p)  BY <1>1, <1>2, PlaceKept DEF IsIdle
<1>4. PICK pc \in Pcs, k \in Askers : Begin(w, p, pc, k)  BY StartSays
<1>5. req'[w].skip = FALSE  BY <1>4 DEF Begin, TypeOK
<1> QED  BY <1>1, <1>3, <1>5, PlaceStep DEF SkipAsRead

\* The steps of releases, cases and verdicts.
LEMMA PlaceCaseStep ==
    ASSUME TypeOK, EscrowInv, PlaceInv, NEW w \in Workers, NEW p \in Payments,
           p = req[w].p, req[w] \in Requests, Apart(w, p),
           \/ MarkReleasing(w) \/ SettleRelease(w)
           \/ ReadHeld(w) \/ Freeze(w) \/ CreateCase(w)
           \/ CloseReturn(w) \/ ReadFrozen(w) \/ Unfreeze(w) \/ EscalateCase(w)
           \/ ReadAwarded(w) \/ Award(w) \/ DecideRefund(w) \/ MarkOwed(w)
    PROVE  PlaceInv' /\ Moved(p)
<1> DEFINE m == Merchant[p]
<1>1. EscrowAsRead(w) /\ SettledRows(p) /\ PlaceRows(p) /\ SkipAsRead(w)
  <2>1. ~IsIdle(w)  BY ContinueActive DEF Continue
  <2> QED  BY <2>1 DEF EscrowInv, PlaceInv
<1>2. \A pc \in Pcs : Goto(w, pc) =>
          req'[w].pc = pc /\ req'[w].p = p /\ req'[w].skip = req[w].skip
      BY GotoSays
<1>3. Finish(w) => IsIdle(w)'  BY FinishSays
<1>4. /\ m \in Nat /\ pending[p] \in Int /\ frozen[p] \in Int
      /\ balance[p] \in Int /\ chargeBack[p] \in Nat
      /\ releases[p] \in Nat /\ awards[p] \in Nat
      BY AmountsAssumption DEF TypeOK
<1>5. req[w].pc \notin {"checking", "applying"}
      BY DEF At, MarkReleasing, SettleRelease, ReadHeld, Freeze, CreateCase, CloseReturn,
         ReadFrozen, Unfreeze, EscalateCase, ReadAwarded, Award, DecideRefund, MarkOwed
<1>6. escrow[p] # "REFUNDED" => chargeBack[p] = 0  BY <1>4, <1>5, Alone
<1>7. chargeBack' = chargeBack
      BY DEF MarkReleasing, SettleRelease, ReadHeld, Freeze, CreateCase, CloseReturn,
         ReadFrozen, Unfreeze, EscalateCase, ReadAwarded, Award, DecideRefund, MarkOwed,
         stripeVars
<1>8. ASSUME PlaceRows(p)', Moved(p), ~IsIdle(w)' => SkipAsRead(w)'
      PROVE  PlaceInv' /\ Moved(p)
      BY <1>8, PlaceStep
<1>9. ASSUME UNCHANGED <<escrow, pending, frozen, balance, payEscrow>>,
             req[w].pc # "releasing",
             IsIdle(w)' \/ (req'[w].p = p /\ req'[w].skip = req[w].skip)
      PROVE  PlaceInv' /\ Moved(p)
  <2>1. PlaceRows(p)' /\ Moved(p)  BY <1>5, <1>7, <1>9, PlaceKept
  <2>2. ~IsIdle(w)' => SkipAsRead(w)'  BY <1>1, <1>9 DEF SkipAsRead
  <2> QED  BY <1>8, <2>1, <2>2
<1> USE DEF Pcs
<1>10. CASE MarkReleasing(w)
  <2>1. escrow[p] \in {"HELD", "RELEASING"}
        BY <1>1, <1>10 DEF MarkReleasing, EscrowAsRead
  <2>2. escrow'[p] = "RELEASING"  BY <1>10 DEF MarkReleasing, TypeOK
  <2>3. UNCHANGED <<pending, frozen, balance, payEscrow>>
        BY <1>10 DEF MarkReleasing, bucketVars, payVars
  <2>4. req'[w].pc = "releasing" /\ req'[w].p = p /\ req'[w].skip = req[w].skip
        BY <1>2, <1>10 DEF MarkReleasing
  <2>5. Busy(p, {"releasing"})'  BY <2>4 DEF Busy
  <2>6. PlaceRows(p)'
        BY <1>1, <1>4, <1>6, <1>7, <2>1, <2>2, <2>3, <2>5 DEF PlaceRows, Purse
  <2>7. Moved(p)  BY <1>7, <2>1, <2>2 DEF Moved
  <2>8. SkipAsRead(w)'  BY <1>1, <2>1, <2>4 DEF SkipAsRead
  <2> QED  BY <1>8, <2>6, <2>7, <2>8
<1>11. CASE SettleRelease(w)
  <2>1. escrow[p] = "RELEASING" /\ IsIdle(w)' /\ UNCHANGED frozen
        BY <1>1, <1>3, <1>11 DEF SettleRelease, EscrowAsRead
  <2>2. releases[p] = 0  BY <1>1, <1>4, <2>1 DEF SettledRows
  <2>3. ~AlreadyReleased(req[w].p)  BY <2>2 DEF AlreadyReleased
  <2>4. Claimable(req[w].p)  BY <2>1 DEF Claimable
  <2>5. PayMerchant(req[w].p)  BY <1>11, <2>3, <2>4, Zenon DEF SettleRelease
  <2>6. /\ escrow'[p] = "RELEASED" /\ payEscrow'[p] = "RELEASED"
        /\ pending'[p] = pending[p] + (-m) /\ balance'[p] = balance[p] + m
        BY <2>5 DEF PayMerchant, AddTo, TypeOK
  <2>7. PlaceRows(p)'
        BY <1>1, <1>4, <1>6, <1>7, <2>1, <2>6 DEF PlaceRows, Purse
  <2>8. Moved(p)  BY <1>6, <1>7, <2>1, <2>6 DEF Moved
  <2> QED  BY <1>8, <2>1, <2>7, <2>8
<1>12. CASE ReadHeld(w) \/ ReadFrozen(w)
  <2>1. UNCHANGED <<escrow, pending, frozen, balance, payEscrow>>
        BY <1>12 DEF ReadHeld, ReadFrozen, bucketVars, payVars
  <2>2. req[w].pc # "releasing"  BY <1>12 DEF ReadHeld, ReadFrozen, At
  <2>3. IsIdle(w)' \/ (req'[w].p = p /\ req'[w].skip = req[w].skip)
        BY <1>2, <1>3, <1>12 DEF ReadHeld, ReadFrozen
  <2> QED  BY <1>9, <2>1, <2>2, <2>3
<1>13. CASE Freeze(w)
  <2>1. escrow[p] = "HELD"  BY <1>1, <1>13 DEF Freeze, EscrowAsRead
  <2>2. /\ escrow'[p] = "FROZEN" /\ pending'[p] = pending[p] + (-m)
        /\ frozen'[p] = frozen[p] + m /\ UNCHANGED <<balance, payEscrow>>
        BY <1>13 DEF Freeze, AddTo, TypeOK, payVars
  <2>3. req'[w].p = p /\ req'[w].skip = req[w].skip  BY <1>2, <1>13 DEF Freeze
  <2>4. PlaceRows(p)'
        BY <1>1, <1>4, <1>6, <1>7, <2>1, <2>2 DEF PlaceRows, Purse
  <2>5. Moved(p)  BY <1>6, <1>7, <2>1, <2>2 DEF Moved
  <2>6. ~req'[w].skip  BY <1>1, <2>1, <2>3 DEF SkipAsRead
  <2> QED  BY <1>8, <2>4, <2>5, <2>6 DEF SkipAsRead
<1>14. CASE Unfreeze(w)
  <2>1. escrow[p] = "FROZEN"  BY <1>1, <1>14 DEF Unfreeze, EscrowAsRead
  <2>2. /\ escrow'[p] = "HELD" /\ pending'[p] = pending[p] + m
        /\ frozen'[p] = frozen[p] + (-m) /\ UNCHANGED <<balance, payEscrow>>
        /\ IsIdle(w)'
        BY <1>3, <1>14 DEF Unfreeze, AddTo, TypeOK, payVars
  <2>3. PlaceRows(p)'
        BY <1>1, <1>4, <1>6, <1>7, <2>1, <2>2 DEF PlaceRows, Purse
  <2>4. Moved(p)  BY <1>6, <1>7, <2>1, <2>2 DEF Moved
  <2> QED  BY <1>8, <2>2, <2>3, <2>4
<1>15. CASE CreateCase(w) \/ CloseReturn(w) \/ EscalateCase(w) \/ DecideRefund(w)
            \/ MarkOwed(w)
  <2>1. UNCHANGED <<escrow, pending, frozen, balance, payEscrow>>
        BY <1>15 DEF CreateCase, CloseReturn, EscalateCase, DecideRefund, MarkOwed,
           bucketVars, payVars
  <2>2. req[w].pc # "releasing"
        BY <1>15 DEF CreateCase, CloseReturn, EscalateCase, DecideRefund, MarkOwed, At
  <2>3. IsIdle(w)' \/ (req'[w].p = p /\ req'[w].skip = req[w].skip)
        BY <1>2, <1>3, <1>15 DEF CreateCase, CloseReturn, EscalateCase, DecideRefund,
           MarkOwed
  <2> QED  BY <1>9, <2>1, <2>2, <2>3
<1>16. CASE ReadAwarded(w)
  <2> DEFINE s == IF escrow[p] \in {"HELD", "FROZEN"} THEN escrow[p] ELSE "NONE"
             r == [req[w] EXCEPT !.pc = "awarding", !.seen = s]
  <2>1. r.p = p /\ r.skip = req[w].skip  BY DEF Requests
  <2>2. req' = [req EXCEPT ![w] = r]  BY <1>16 DEF ReadAwarded
  <2>3. UNCHANGED <<escrow, pending, frozen, balance, payEscrow>>
        BY <1>16 DEF ReadAwarded, bucketVars, payVars
  <2>4. req[w].pc # "releasing"  BY <1>16 DEF ReadAwarded, At
  <2> HIDE DEF r
  <2>5. req'[w] = r  BY <2>2 DEF TypeOK
  <2> QED  BY <1>9, <2>1, <2>3, <2>4, <2>5
<1>17. CASE Award(w)
  <2>1. IsIdle(w)' /\ UNCHANGED payEscrow /\ At(w, "awarding")
        BY <1>3, <1>17 DEF Award, payVars
  <2>2. CASE UNCHANGED <<escrow, bucketVars>>
        BY <1>9, <2>1, <2>2 DEF bucketVars, At
  <2>3. CASE /\ req[w].seen # "NONE"
             /\ escrow' = [escrow EXCEPT ![p] = "RELEASED"]
             /\ IF AwardsFrozen(w)
                THEN AddTo(frozen, p, -m) /\ UNCHANGED pending
                ELSE AddTo(pending, p, -m) /\ UNCHANGED frozen
             /\ AddTo(balance, p, m)
    <3>1. req[w].seen = escrow[p] /\ escrow[p] \in {"HELD", "FROZEN"}
          BY <1>1, <2>1, <2>3 DEF EscrowAsRead
    <3>2. escrow'[p] = "RELEASED" /\ balance'[p] = balance[p] + m
          BY <2>3 DEF AddTo, TypeOK
    <3>3. Moved(p)  BY <1>6, <1>7, <3>1, <3>2 DEF Moved
    <3>4. CASE escrow[p] = "FROZEN"
      <4>1. frozen'[p] = frozen[p] + (-m) /\ UNCHANGED pending
            BY <2>3, <3>1, <3>4 DEF AwardsFrozen, AddTo, TypeOK
      <4>2. PlaceRows(p)'
            BY <1>1, <1>4, <1>6, <1>7, <2>1, <3>2, <3>4, <4>1 DEF PlaceRows, Purse
      <4> QED  BY <1>8, <2>1, <3>3, <4>2
    <3>5. CASE escrow[p] = "HELD"
      <4>1. pending'[p] = pending[p] + (-m) /\ UNCHANGED frozen
            BY <2>3, <3>1, <3>5 DEF AwardsFrozen, AddTo, TypeOK
      <4>2. PlaceRows(p)'
            BY <1>1, <1>4, <1>6, <1>7, <2>1, <3>2, <3>5, <4>1 DEF PlaceRows, Purse
      <4> QED  BY <1>8, <2>1, <3>3, <4>2
    <3> QED  BY <3>1, <3>4, <3>5
  <2> QED  BY <1>17, <2>2, <2>3 DEF Award
<1> QED
    BY <1>10, <1>11, <1>12, <1>13, <1>14, <1>15, <1>16, <1>17

\* The steps of a refund.
LEMMA PlaceRefundStep ==
    ASSUME TypeOK, TypeOK', OnlyCaptured, RefundsAreSafe, EscrowInv, PlaceInv,
           NEW w \in Workers, NEW p \in Payments,
           p = req[w].p, req[w] \in Requests, Apart(w, p),
           \/ \E t \in Targets(p, req[w].k) : FixTarget(w, t)
           \/ ReadRows(w) \/ FixAmount(w)
           \/ CallStripe(w) \/ CheckApplied(w) \/ ApplyRefund(w)
    PROVE  PlaceInv' /\ Moved(p)
<1> DEFINE m == Merchant[p]
<1>1. req[w].pc \in {"refund", "reading", "limiting", "charging", "checking", "applying"}
      BY DEF At, FixTarget, ReadRows, FixAmount, CallStripe, CheckApplied, ApplyRefund
<1>2. ~IsIdle(w)  BY <1>1 DEF IsIdle
<1>3. EscrowAsRead(w) /\ PlaceRows(p) /\ SkipAsRead(w) /\ SafeRefund(w)
      BY <1>2 DEF EscrowInv, PlaceInv, RefundsAreSafe
<1>4. escrow[p] # "NONE" /\ escrow[p] # "RELEASING"
      BY <1>1, <1>2, Alone DEF OnlyCaptured, Blank, At
<1>5. /\ m \in Nat /\ pending[p] \in Int /\ frozen[p] \in Int
      /\ balance[p] \in Int /\ chargeBack[p] \in Nat /\ chargeBack'[p] \in Nat
      /\ escrow[p] \in EscrowStatuses /\ req[w].amt \in Nat
      BY AmountsAssumption DEF TypeOK, Requests
<1>6. ASSUME PlaceRows(p)', Moved(p), ~IsIdle(w)' => SkipAsRead(w)'
      PROVE  PlaceInv' /\ Moved(p)
      BY <1>6, PlaceStep
<1>7. ASSUME UNCHANGED <<escrow, pending, frozen, balance, payEscrow, chargeBack>>,
             req[w].pc \in {"checking", "applying"} =>
                 \/ escrow[p] = "REFUNDED"
                 \/ req'[w].pc \in {"checking", "applying"} /\ req'[w].p = p,
             ~IsIdle(w)' => SkipAsRead(w)'
      PROVE  PlaceInv' /\ Moved(p)
      BY <1>1, <1>6, <1>7, PlaceKept
<1>8. CASE \/ \E t \in Targets(p, req[w].k) : FixTarget(w, t)
           \/ ReadRows(w) \/ FixAmount(w)
  <2>1. UNCHANGED <<escrow, pending, frozen, balance, payEscrow, chargeBack>>
        BY <1>8 DEF FixTarget, ReadRows, FixAmount, bucketVars, payVars, stripeVars
  <2>2. req[w].pc \notin {"checking", "applying"}
        BY <1>8 DEF FixTarget, ReadRows, FixAmount, At
  <2>3. ~IsIdle(w)' => req'[w].p = p /\ req'[w].skip = req[w].skip
        BY <1>8, TargetSays, ReadSays, AmountSays
  <2> QED  BY <1>3, <1>7, <2>1, <2>2, <2>3 DEF SkipAsRead
<1>9. CASE CallStripe(w)
  <2> DEFINE a == req[w].amt
             Answered == /\ req'[w].pc \in {"checking", "applying"} /\ req'[w].p = p
                         /\ req'[w].skip = req[w].skip
  <2>1. UNCHANGED <<escrow, pending, frozen, balance, payEscrow>> /\ At(w, "charging")
        BY <1>9 DEF CallStripe, bucketVars, payVars
  <2>2. \/ UNCHANGED stripeVars
        \/ /\ chargeBack[p] + a <= Paid[p]
           /\ chargeBack' = [chargeBack EXCEPT ![p] = @ + a]
           /\ Goto(w, IF req[w].k \in Kinds THEN "checking" ELSE "applying")
        BY <1>9 DEF CallStripe
  <2>3. \A pc : Goto(w, pc) => /\ req'[w].pc = pc /\ req'[w].p = p
                               /\ req'[w].skip = req[w].skip
        BY GotoSays
  <2>4. IsIdle(w)' \/ Answered
    <3>1. Finish(w) \/ Goto(w, IF req[w].k \in Kinds THEN "checking" ELSE "applying")
          BY <1>9 DEF CallStripe, RefundError
    <3> QED  BY <2>3, <3>1, FinishSays
  <2>5. ~IsIdle(w)' => SkipAsRead(w)'  BY <1>3, <2>1, <2>4 DEF SkipAsRead
  <2>6. CASE UNCHANGED stripeVars
        BY <1>7, <2>1, <2>5, <2>6 DEF stripeVars, At
  <2>7. CASE /\ chargeBack[p] + a <= Paid[p]
             /\ chargeBack' = [chargeBack EXCEPT ![p] = @ + a]
             /\ Goto(w, IF req[w].k \in Kinds THEN "checking" ELSE "applying")
    <3>1. a > 0  BY <1>3, <2>1 DEF SafeRefund, Refunding, At
    <3>2. chargeBack'[p] = chargeBack[p] + a  BY <2>7 DEF TypeOK
    <3>3. Busy(p, {"checking", "applying"})'  BY <2>3, <2>7 DEF Busy
    <3>4. PlaceRows(p)'  BY <1>3, <1>4, <2>1, <3>3 DEF PlaceRows, Purse
    <3>5. Moved(p)
      <4>1. Paid[p] \in Nat  BY AmountsAssumption
      <4> QED  BY <1>4, <1>5, <2>1, <2>7, <3>1, <3>2, <4>1 DEF Moved
    <3> QED  BY <1>6, <2>5, <3>4, <3>5
  <2> QED  BY <2>2, <2>6, <2>7
<1>10. CASE CheckApplied(w)
  <2>1. UNCHANGED <<escrow, pending, frozen, balance, payEscrow, chargeBack>>
        BY <1>10 DEF CheckApplied, bucketVars, payVars, stripeVars
  <2>2. /\ req'[w].pc = "applying" /\ req'[w].p = p
        /\ req'[w].skip => payEscrow[p] = "REFUNDED"
        BY <1>10, CheckSays
  <2>3. SkipAsRead(w)'  BY <1>3, <2>1, <2>2 DEF SkipAsRead, PlaceRows
  <2> QED  BY <1>7, <2>1, <2>2, <2>3
<1>11. CASE ApplyRefund(w)
  <2>1. IsIdle(w)' /\ At(w, "applying") /\ chargeBack' = chargeBack
        BY <1>11, FinishSays DEF ApplyRefund, stripeVars
  <2>2. CASE req[w].skip /\ UNCHANGED <<escrow, payVars, bucketVars>>
    <3>1. escrow[p] = "REFUNDED"  BY <1>3, <2>2 DEF SkipAsRead
    <3> QED  BY <1>7, <2>1, <2>2, <3>1 DEF payVars, bucketVars
  <2>3. CASE ApplyLedger(w)
    <3>1. escrow'[p] = "REFUNDED" /\ payEscrow'[p] = "REFUNDED"
          BY <2>3 DEF ApplyLedger, TypeOK
    <3>2. req[w].seen = escrow[p]
          BY <1>3, <2>1 DEF EscrowAsRead, At, WithRows
    <3>3. chargeBack[p] > 0
          BY <1>3, <2>1 DEF SafeRefund, Refunding, At
    <3>4. Purse(p, 0, 0, 0)'
      <4>1. /\ pending'[p] = IF escrow[p] = "HELD" THEN pending[p] + (-m) ELSE pending[p]
            /\ frozen'[p] = IF escrow[p] = "FROZEN" THEN frozen[p] + (-m) ELSE frozen[p]
            /\ balance'[p] = IF escrow[p] = "RELEASED" THEN balance[p] + (-m)
                             ELSE balance[p]
            BY <2>3, <3>2 DEF ApplyLedger, AddTo, TypeOK
      <4>2. \/ escrow[p] = "HELD" /\ Purse(p, m, 0, 0)
            \/ escrow[p] = "FROZEN" /\ Purse(p, 0, m, 0)
            \/ escrow[p] = "RELEASED" /\ Purse(p, 0, 0, m)
            \/ escrow[p] = "REFUNDED" /\ Purse(p, 0, 0, 0)
            BY <1>3, <1>4, <1>5 DEF PlaceRows, EscrowStatuses
      <4> QED  BY <1>5, <4>1, <4>2 DEF Purse
    <3>5. PlaceRows(p)'  BY <3>1, <3>4 DEF PlaceRows
    <3>6. Moved(p)  BY <1>4, <1>5, <2>1, <3>1, <3>3 DEF Moved, EscrowStatuses
    <3> QED  BY <1>6, <2>1, <3>5, <3>6
  <2> QED  BY <1>11, <2>2, <2>3 DEF ApplyRefund
<1> QED  BY <1>8, <1>9, <1>10, <1>11

LEMMA PlaceNext ==
    MaxFaults = 0 /\ TypeOK /\ OnlyCaptured /\ RefundsAreSafe /\ EscrowInv /\ PlaceInv
        /\ Serial /\ Serial' /\ [Next]_vars
    => PlaceInv' /\ [Account!AccountNext]_(Account!account)
<1> SUFFICES ASSUME MaxFaults = 0, TypeOK, OnlyCaptured, RefundsAreSafe, EscrowInv,
                    PlaceInv, Serial, Serial', [Next]_vars
             PROVE  PlaceInv' /\ [Account!AccountNext]_(Account!account)
    OBVIOUS
<1>1. TypeOK'  BY NextType
<1>2. CASE UNCHANGED vars
  <2>1. UNCHANGED <<escrow, bucketVars, payEscrow, chargeBack, req>>
        BY <1>2 DEF vars, payVars, stripeVars
  <2>2. PlaceInv'
        BY <2>1 DEF bucketVars, PlaceInv, PlaceRows, SkipAsRead, IsIdle, Purse, Busy
  <2>3. UNCHANGED Account!account
        BY <2>1 DEF bucketVars, Account!account, PlaceOf
  <2> QED  BY <2>2, <2>3
<1>3. ASSUME NEW p \in Payments, Environment(p)
      PROVE  PlaceInv' /\ [Account!AccountNext]_(Account!account)
      BY <1>1, <1>3, PlaceEnvironment, MovedImplements
<1>4. ASSUME PlaceInv', NEW w, NEW p \in Payments, Apart(w, p), Moved(p)
      PROVE  PlaceInv' /\ [Account!AccountNext]_(Account!account)
      BY <1>1, <1>4, MovedImplements DEF Apart, SameRows
<1>5. ASSUME NEW w \in Workers, NEW p \in Payments, Start(w, p)
      PROVE  PlaceInv' /\ [Account!AccountNext]_(Account!account)
      BY <1>4, <1>5, PlaceStart
<1>6. ASSUME NEW w \in Workers, Continue(w)
      PROVE  PlaceInv' /\ [Account!AccountNext]_(Account!account)
  <2>1. PICK p \in Payments : p = req[w].p /\ req[w] \in Requests /\ Apart(w, p)
        BY <1>6, StepApart
  <2>2. PlaceInv' /\ Moved(p)
        BY <1>1, <1>6, <2>1, PlaceCaseStep, PlaceRefundStep DEF Continue
  <2> QED  BY <1>4, <2>1, <2>2
<1>7. \A w \in Workers : ~Crash(w) /\ ~RefundFails(w)
      BY DEF Crash, RefundFails, TypeOK
<1> QED  BY <1>2, <1>3, <1>5, <1>6, <1>7 DEF Next

\* When the requests of a payment do not overlap and none is cut off, the escrow
\* rows, the store buckets and Stripe's refunds behave as EscrowAccount allows:
\* the share is in one place at a time, it is paid out at most once and never
\* after a refund, and it is taken back only for a refund that was made.
THEOREM SerialImplementsAccount ==
    MaxFaults = 0 => (Spec /\ []Serial => Account!AccountSafety)
<1> SUFFICES ASSUME MaxFaults = 0
             PROVE  Spec /\ []Serial => Account!AccountSafety
    OBVIOUS
<1> DEFINE Inv == TypeOK /\ OnlyCaptured /\ RefundsAreSafe /\ EscrowInv /\ PlaceInv
<1>1. Init => Inv /\ Account!AccountInit
  <2> SUFFICES ASSUME Init
               PROVE  Inv /\ Account!AccountInit
      OBVIOUS
  <2>1. OnlyCaptured  BY DEF Init, OnlyCaptured, Blank, IsIdle, Idle
  <2>2. RefundsAreSafe  BY RefundsInit
  <2>3. PlaceInv
        BY DEF Init, PlaceInv, PlaceRows, Purse, SkipAsRead, IsIdle, Idle
  <2>4. Account!AccountInit  BY DEF Init, Account!AccountInit, PlaceOf
  <2> QED  BY <2>1, <2>2, <2>3, <2>4, InitType, InitEscrow
<1>2. Inv /\ Serial /\ Serial' /\ [Next]_vars
          => Inv' /\ [Account!AccountNext]_(Account!account)
      BY NextType, CapturedNext, RefundsNext, EscrowNext, PlaceNext
<1> HIDE DEF Inv
<1> QED  BY <1>1, <1>2, PTL DEF Spec, Account!AccountSafety
-----------------------------------------------------------------------------
(* One worker satisfies the hypothesis: the theorems then speak of every    *)
(* behaviour of the specification.                                          *)

OneWorker == \A v, w \in Workers : v = w

LEMMA OneIsSerial == OneWorker => []Serial
<1> SUFFICES ASSUME OneWorker PROVE []Serial
    OBVIOUS
<1>1. Serial  BY DEF OneWorker, Serial
<1> QED  BY <1>1, PTL

\* One worker pays the merchant once (SettledOnce), keeps a share in dispute
\* frozen (FrozenWhileCaseOpen) and refunds at most what was paid (WithinPaid), in
\* every behaviour, whatever fails.
THEOREM OneWorkerIsSafe ==
    OneWorker => (Spec => [](SettledOnce /\ FrozenWhileCaseOpen /\ WithinPaid))
<1> SUFFICES ASSUME OneWorker
             PROVE  Spec => [](SettledOnce /\ FrozenWhileCaseOpen /\ WithinPaid)
    OBVIOUS
<1>1. []Serial  BY OneIsSerial
<1> QED  BY <1>1, SerialSettledOnce, SerialFrozenWhileCaseOpen,
       SerialWithinPaid, PTL

\* One worker that is not cut off implements EscrowAccount.
THEOREM OneWorkerImplementsAccount ==
    OneWorker /\ MaxFaults = 0 => (Spec => Account!AccountSafety)
<1> SUFFICES ASSUME OneWorker, MaxFaults = 0
             PROVE  Spec => Account!AccountSafety
    OBVIOUS
<1>1. []Serial  BY OneIsSerial
<1>2. Spec /\ []Serial => Account!AccountSafety  BY SerialImplementsAccount
<1> QED  BY <1>1, <1>2, PTL
=============================================================================
