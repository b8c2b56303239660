--------------------------- MODULE CronLockProofs ---------------------------
(***************************************************************************)
(* Proofs about CronLock, for any number of processes and calls: a process *)
(* never runs a job twice at once, and two runs overlap only when one of   *)
(* them has outlived its lease.                                            *)
(*                                                                         *)
(* Neither is inductive.  A process runs a job once because a call that    *)
(* was started beside the one that got the lock finds the lease taken when *)
(* its statement arrives (Beside); and a call that has the answer of its   *)
(* upsert still owns the lease it took (Holding).                          *)
(***************************************************************************)
EXTENDS CronLock, TLAPS

\* The key is noted wherever the job runs.
Noted == \A c \in Calls : At(c, "running") => On[c] \in local

\* A call that is about to run the job has the lease, and keeps it while the run
\* is not late.
Holding == \A c \in Calls :
    (At(c, "acquired") \/ (At(c, "running") /\ c \notin late)) => owner = c /\ leased

\* Beside a run of its process a call is at most asking, and in vain.
Beside == \A c, d \in Calls :
    c # d /\ On[c] = On[d] /\ At(c, "running") =>
        /\ ~At(d, "running")
        /\ ~At(d, "acquired")
        /\ At(d, "acquiring") => owner = c /\ leased

IInv == TypeOK /\ Noted /\ Holding /\ Beside

LEMMA InitInv == Init => IInv
<1> SUFFICES ASSUME Init PROVE IInv
    OBVIOUS
<1>1. TypeOK  BY CronLockAssumption DEF Init, TypeOK, Steps
<1>2. \A c \in Calls : pc[c] = "idle"  BY DEF Init
<1>3. Noted /\ Holding /\ Beside  BY <1>2 DEF Noted, Holding, Beside, At
<1> QED  BY <1>1, <1>3 DEF IInv

\* The step of one call changes and no other's.
LEMMA GotoChanges ==
    ASSUME TypeOK, NEW c \in Calls, NEW s \in Steps, Goto(c, s)
    PROVE  /\ pc' \in [Calls -> Steps]
           /\ pc'[c] = s
           /\ \A d \in Calls : d # c => pc'[d] = pc[d]
BY DEF TypeOK, Goto

LEMMA NextInv == IInv /\ [Next]_vars => IInv'
<1> SUFFICES ASSUME IInv, [Next]_vars PROVE IInv'
    OBVIOUS
<1> USE DEF IInv
<1>1. ASSUME NEW c \in Calls, Call(c) PROVE IInv'
  <2>3. pc' \in [Calls -> Steps] /\ pc'[c] = "acquiring" /\ \A d \in Calls : d # c => pc'[d] = pc[d]
        BY <1>1, GotoChanges DEF Call, Steps
  <2>4. TypeOK'  BY <1>1, <2>3, CronLockAssumption DEF Call, RunsHere, TypeOK
  <2>5. Noted'  BY <1>1, <2>3, CronLockAssumption DEF Call, RunsHere, Noted, Beside, TypeOK, At
  <2>6. Holding'  BY <1>1, <2>3 DEF Call, RunsHere, Holding, At
  <2>7. Beside'  BY <1>1, <2>3 DEF Call, RunsHere, Holding, Noted, Beside, At
  <2> QED  BY <2>4, <2>5, <2>6, <2>7
<1>2. ASSUME NEW c \in Calls, Acquire(c) PROVE IInv'
  <2>1. At(c, "acquiring") /\ local' = local /\ late' = late /\ faults' \in Nat
        BY <1>2 DEF Acquire, TypeOK
  <2>2. ASSUME ~leased /\ owner' = c /\ leased' = TRUE, Goto(c, "acquired")
        PROVE  IInv'
    <3>1. pc' \in [Calls -> Steps] /\ pc'[c] = "acquired" /\ \A d \in Calls : d # c => pc'[d] = pc[d]
          BY <2>2, GotoChanges DEF Steps
    <3>2. TypeOK'  BY <2>1, <2>2, <3>1 DEF TypeOK
    <3>3. Noted'  BY <2>1, <3>1 DEF Noted, At
    <3>4. Holding'  BY <2>1, <2>2, <3>1 DEF Holding, At
    <3>5. Beside'  BY <2>1, <2>2, <3>1 DEF Beside, At
    <3> QED  BY <3>2, <3>3, <3>4, <3>5
  <2>3. ASSUME owner' = owner /\ leased' = leased, Goto(c, "idle")
        PROVE  IInv'
    <3>1. pc' \in [Calls -> Steps] /\ pc'[c] = "idle" /\ \A d \in Calls : d # c => pc'[d] = pc[d]
          BY <2>3, GotoChanges DEF Steps
    <3>2. TypeOK'  BY <2>1, <2>3, <3>1 DEF TypeOK
    <3>3. Noted'  BY <2>1, <3>1 DEF Noted, At
    <3>4. Holding'  BY <2>1, <2>3, <3>1 DEF Holding, At
    <3>5. Beside'  BY <2>1, <2>3, <3>1 DEF Beside, At
    <3> QED  BY <3>2, <3>3, <3>4, <3>5
  <2> QED  BY <1>2, <2>2, <2>3 DEF Acquire, Free
<1>3. ASSUME NEW c \in Calls, AcquireFails(c) PROVE IInv'
  <2>1. At(c, "acquiring") /\ local' = local /\ late' = late /\ faults' \in Nat
        BY <1>3 DEF AcquireFails, TypeOK, Fault
  <2>2. ASSUME ~leased /\ owner' = c /\ leased' = TRUE, Goto(c, "idle")
        PROVE  IInv'
    <3>1. pc' \in [Calls -> Steps] /\ pc'[c] = "idle" /\ \A d \in Calls : d # c => pc'[d] = pc[d]
          BY <2>2, GotoChanges DEF Steps
    <3>2. TypeOK'  BY <2>1, <2>2, <3>1 DEF TypeOK
    <3>3. Noted'  BY <2>1, <3>1 DEF Noted, At
    <3>4. Holding'  BY <2>1, <2>2, <3>1 DEF Holding, At
    <3>5. Beside'  BY <2>1, <2>2, <3>1 DEF Beside, At
    <3> QED  BY <3>2, <3>3, <3>4, <3>5
  <2>3. ASSUME owner' = owner /\ leased' = leased, Goto(c, "idle")
        PROVE  IInv'
    <3>1. pc' \in [Calls -> Steps] /\ pc'[c] = "idle" /\ \A d \in Calls : d # c => pc'[d] = pc[d]
          BY <2>3, GotoChanges DEF Steps
    <3>2. TypeOK'  BY <2>1, <2>3, <3>1 DEF TypeOK
    <3>3. Noted'  BY <2>1, <3>1 DEF Noted, At
    <3>4. Holding'  BY <2>1, <2>3, <3>1 DEF Holding, At
    <3>5. Beside'  BY <2>1, <2>3, <3>1 DEF Beside, At
    <3> QED  BY <3>2, <3>3, <3>4, <3>5
  <2> QED  BY <1>3, <2>2, <2>3 DEF AcquireFails, Free
<1>4. ASSUME NEW c \in Calls, Begin(c) PROVE IInv'
  <2>3. pc' \in [Calls -> Steps] /\ pc'[c] = "running" /\ \A d \in Calls : d # c => pc'[d] = pc[d]
        BY <1>4, GotoChanges DEF Begin, Steps
  <2>4. TypeOK'  BY <1>4, <2>3, CronLockAssumption DEF Begin, Note, TypeOK
  <2>5. Noted'  BY <1>4, <2>3, CronLockAssumption DEF Begin, Note, Noted, Beside, TypeOK, At
  <2>6. Holding'  BY <1>4, <2>3 DEF Begin, Note, Holding, At
  <2>7. Beside'  BY <1>4, <2>3 DEF Begin, Note, Holding, Noted, Beside, At
  <2> QED  BY <2>4, <2>5, <2>6, <2>7
<1>5. ASSUME NEW c \in Calls, End(c) PROVE IInv'
  <2>3. pc' \in [Calls -> Steps] /\ pc'[c] = "releasing" /\ \A d \in Calls : d # c => pc'[d] = pc[d]
        BY <1>5, GotoChanges DEF End, Steps
  <2>4. TypeOK'  BY <1>5, <2>3, CronLockAssumption DEF End, Forget, TypeOK
  <2>5. Noted'  BY <1>5, <2>3, CronLockAssumption DEF End, Forget, Noted, Beside, TypeOK, At
  <2>6. Holding'  BY <1>5, <2>3 DEF End, Forget, Holding, At
  <2>7. Beside'  BY <1>5, <2>3 DEF End, Forget, Holding, Noted, Beside, At
  <2> QED  BY <2>4, <2>5, <2>6, <2>7
<1>6. ASSUME NEW c \in Calls, Release(c) PROVE IInv'
  <2>3. pc' \in [Calls -> Steps] /\ pc'[c] = "idle" /\ \A d \in Calls : d # c => pc'[d] = pc[d]
        BY <1>6, GotoChanges DEF Release, Steps
  <2>4. TypeOK'  BY <1>6, <2>3, CronLockAssumption DEF Release, Owns, TypeOK
  <2>5. Noted'  BY <1>6, <2>3, CronLockAssumption DEF Release, Owns, Noted, Beside, TypeOK, At
  <2>6. Holding'  BY <1>6, <2>3 DEF Release, Owns, Holding, At
  <2>7. Beside'  BY <1>6, <2>3 DEF Release, Owns, Holding, Noted, Beside, At
  <2> QED  BY <2>4, <2>5, <2>6, <2>7
<1>7. ASSUME NEW c \in Calls, ReleaseFails(c) PROVE IInv'
  <2>3. pc' \in [Calls -> Steps] /\ pc'[c] = "idle" /\ \A d \in Calls : d # c => pc'[d] = pc[d]
        BY <1>7, GotoChanges DEF ReleaseFails, Steps
  <2>4. TypeOK'  BY <1>7, <2>3, CronLockAssumption DEF ReleaseFails, Fault, TypeOK
  <2>5. Noted'  BY <1>7, <2>3, CronLockAssumption DEF ReleaseFails, Fault, Noted, Beside, TypeOK, At
  <2>6. Holding'  BY <1>7, <2>3 DEF ReleaseFails, Fault, Holding, At
  <2>7. Beside'  BY <1>7, <2>3 DEF ReleaseFails, Fault, Holding, Noted, Beside, At
  <2> QED  BY <2>4, <2>5, <2>6, <2>7
<1>8. ASSUME NEW p \in Processes, Crash(p) PROVE IInv'
  <2>3. pc' \in [Calls -> Steps] /\ \A d \in Calls : pc'[d] = IF On[d] = p THEN "idle" ELSE pc[d]
        BY <1>8 DEF Crash, TypeOK, Steps
  <2>4. TypeOK'  BY <1>8, <2>3 DEF Crash, Fault, TypeOK
  <2>5. Noted'  BY <1>8, <2>3 DEF Crash, Noted, TypeOK, At
  <2>6. Holding'  BY <1>8, <2>3 DEF Crash, Holding, At
  <2>7. Beside'  BY <1>8, <2>3 DEF Crash, Beside, At
  <2> QED  BY <2>4, <2>5, <2>6, <2>7
<1>9. CASE LeaseEnds
  <2>4. TypeOK'  BY <1>9 DEF LeaseEnds, TypeOK, At
  <2>5. Noted'  BY <1>9 DEF LeaseEnds, Noted, At
  <2>6. Holding'  BY <1>9 DEF LeaseEnds, Holding, At
  <2>7. Beside'  BY <1>9 DEF LeaseEnds, Beside, At
  <2> QED  BY <2>4, <2>5, <2>6, <2>7
<1>10. CASE UNCHANGED vars
      BY <1>10 DEF vars, TypeOK, Noted, Holding, Beside, At
<1> QED
    BY <1>1, <1>2, <1>3, <1>4, <1>5, <1>6, <1>7, <1>8, <1>9, <1>10 DEF Next, Continue

LEMMA AlwaysInv == Spec => []IInv
BY InitInv, NextInv, PTL DEF Spec

\* The row, the sets and the calls keep their types (TypeOK).
THEOREM CronLockTypeCorrect == Spec => []TypeOK
<1>1. IInv => TypeOK  BY DEF IInv
<1> QED  BY <1>1, AlwaysInv, PTL

\* A process never runs the job twice at once, whatever the leases do
\* (ProcessRunsOnce).
THEOREM OncePerProcess == Spec => []ProcessRunsOnce
<1>1. IInv => ProcessRunsOnce  BY DEF IInv, Beside, ProcessRunsOnce
<1> QED  BY <1>1, AlwaysInv, PTL

\* Runs overlap only past a lease, across any number of instances that crash and
\* lose statements (OverlapOnlyPastLease).
THEOREM RunsExclude == Spec => []OverlapOnlyPastLease
<1>1. IInv => OverlapOnlyPastLease  BY DEF IInv, Holding, OverlapOnlyPastLease
<1> QED  BY <1>1, AlwaysInv, PTL

\* A lease ends with time or by its owner (LeaseIsTheOwners).
THEOREM ReleasedByOwner == Spec => LeaseIsTheOwners
<1>1. IInv /\ [Next]_vars =>
        [leased /\ ~leased' /\ pc' # pc =>
            At(owner, "releasing") /\ pc'[owner] = "idle"]_vars
  <2> SUFFICES ASSUME IInv, Next, leased, ~leased', pc' # pc
               PROVE At(owner, "releasing") /\ pc'[owner] = "idle"
      BY DEF vars
  <2>1. PICK c \in Calls : Release(c) /\ Owns(c)
        BY DEF Next, Continue, Call, Acquire, AcquireFails, Begin, End, Release,
               ReleaseFails, Crash, LeaseEnds
  <2> QED  BY <2>1 DEF Release, Owns, At, Goto, IInv, TypeOK
<1> QED  BY <1>1, AlwaysInv, PTL DEF Spec, LeaseIsTheOwners
=============================================================================
