------------------------------ MODULE CronLock ------------------------------
(***************************************************************************)
(* The lock a cron job takes before it runs, as in                         *)
(* src/backend/src/common/cron-lock.service.ts: a row with an owner and a  *)
(* lease (locked_until), taken and given back by one statement each, and a *)
(* set of the jobs that run in the process (runningLocally).  There is one *)
(* job here: the locks of different keys do not touch.                     *)
(*                                                                         *)
(* A call is one execution of runWithLock.  Its owner is a random UUID, so *)
(* a call may stand for later ones of its process: an identity left in the *)
(* row by one that is over is never compared again before it is replaced.  *)
(***************************************************************************)
EXTENDS Naturals

CONSTANTS
    Processes, \* the instances of the backend
    Calls,     \* the calls of runWithLock that may be in flight
    On,        \* the process that executes each call
    NoCall,    \* the owner of a row nobody has inserted yet
    MaxFaults  \* bound: crashes and failed statements of a behaviour

ASSUME CronLockAssumption ==
    /\ On \in [Calls -> Processes]
    /\ NoCall \notin Calls
    /\ MaxFaults \in Nat

VARIABLES
    owner,   \* cron_locks.owner
    leased,  \* cron_locks.locked_until >= now()
    local,   \* the processes whose runningLocally holds the key
    pc,      \* the next step of each call
    late,    \* the runs that have outlived their lease
    faults   \* crashes and failed statements so far

vars == <<owner, leased, local, pc, late, faults>>

Steps == {"idle", "acquiring", "acquired", "running", "releasing"}
At(c, step) == c \in Calls /\ pc[c] = step
Goto(c, step) == pc' = [pc EXCEPT ![c] = step]

Init ==
    /\ owner = NoCall
    /\ leased = FALSE
    /\ local = {}
    /\ pc = [c \in Calls |-> "idle"]
    /\ late = {}
    /\ faults = 0

Fault == faults < MaxFaults /\ faults' = faults + 1

-----------------------------------------------------------------------------
\* A tick of the cron: skipped while the process runs the job.
RunsHere_never(p) == FALSE
RunsHere(p) == p \in local

Call(c) ==
    /\ At(c, "idle")
    /\ ~RunsHere(On[c])
    /\ Goto(c, "acquiring")
    /\ UNCHANGED <<owner, leased, local, late, faults>>

\* The conditional upsert: the row is inserted, or taken when its lease is over.
Free_always == TRUE
Free_inserts == owner = NoCall
Free == ~leased

Acquire(c) ==
    /\ At(c, "acquiring")
    /\ \/ /\ Free
          /\ owner' = c
          /\ leased' = TRUE
          /\ Goto(c, "acquired")
       \/ ~Free /\ Goto(c, "idle") /\ UNCHANGED <<owner, leased>>
    /\ UNCHANGED <<local, late, faults>>

\* The statement fails and the call throws; it may have taken the lock before
\* its answer was lost.
AcquireFails(c) ==
    /\ At(c, "acquiring")
    /\ Fault
    /\ Goto(c, "idle")
    /\ \/ Free /\ owner' = c /\ leased' = TRUE
       \/ UNCHANGED <<owner, leased>>
    /\ UNCHANGED <<local, late>>

\* The answer arrives: the key is noted and the job starts.
Note_owner(c) == local \cup {c}
Note(c) == local \cup {On[c]}

Begin(c) ==
    /\ At(c, "acquired")
    /\ local' = Note(c)
    /\ Goto(c, "running")
    /\ UNCHANGED <<owner, leased, late, faults>>

\* The job returns or throws: the key is removed in both cases.
Forget(c) == local \ {On[c]}

End(c) ==
    /\ At(c, "running")
    /\ local' = Forget(c)
    /\ Goto(c, "releasing")
    /\ late' = late \ {c}
    /\ UNCHANGED <<owner, leased, faults>>

\* The lease ends now, if the row still has this owner.
Owns(c) == owner = c

Release(c) ==
    /\ At(c, "releasing")
    /\ leased' = IF Owns(c) THEN FALSE ELSE leased
    /\ Goto(c, "idle")
    /\ UNCHANGED <<owner, local, late, faults>>

\* A failed release is logged: the lease has to run out.
ReleaseFails(c) ==
    /\ At(c, "releasing")
    /\ Fault
    /\ Goto(c, "idle")
    /\ UNCHANGED <<owner, leased, local, late>>

\* The lease runs out.  A statement is answered in less than a lease: neither
\* the owner's acquire nor one its process issued before the owner began is
\* still unanswered.  The job itself may take longer, and nothing renews it.
LeaseEnds ==
    /\ leased
    /\ ~At(owner, "acquired")
    /\ At(owner, "running") =>
        \A c \in Calls : On[c] = On[owner] => ~At(c, "acquiring")
    /\ leased' = FALSE
    /\ late' = IF At(owner, "running") THEN late \cup {owner} ELSE late
    /\ UNCHANGED <<owner, local, pc, faults>>

\* A process dies with its calls and its set; it starts again empty.
Crash(p) ==
    /\ \E c \in Calls : On[c] = p /\ ~At(c, "idle")
    /\ Fault
    /\ pc' = [c \in Calls |-> IF On[c] = p THEN "idle" ELSE pc[c]]
    /\ local' = local \ {p}
    /\ late' = {c \in late : On[c] # p}
    /\ UNCHANGED <<owner, leased>>

Continue(c) == Acquire(c) \/ Begin(c) \/ End(c) \/ Release(c)

Next ==
    \/ \E c \in Calls : Call(c) \/ Continue(c) \/ AcquireFails(c) \/ ReleaseFails(c)
    \/ \E p \in Processes : Crash(p)
    \/ LeaseEnds

Spec == Init /\ [][Next]_vars

\* Ticks keep coming, jobs end and time passes.
FairSpec ==
    /\ Spec
    /\ \A c \in Calls : WF_vars(Call(c)) /\ WF_vars(Continue(c))
    /\ WF_vars(LeaseEnds)

-----------------------------------------------------------------------------
\* The types of the row, of the processes' sets and of the calls.
TypeOK ==
    /\ owner \in Calls \cup {NoCall}
    /\ leased \in BOOLEAN
    /\ local \subseteq Processes
    /\ pc \in [Calls -> Steps]
    /\ late \subseteq Calls
    /\ faults \in Nat

\* "... and slow ticks overlapping themselves": a process never runs the job
\* twice at once, not even when a run outlives its lease.
ProcessRunsOnce ==
    \A c, d \in Calls :
        At(c, "running") /\ At(d, "running") /\ On[c] = On[d] => c = d

\* A lease ends with time or by its owner: a run that was slow, or whose process
\* was restarted, never gives back the lock of its successor.
LeaseIsTheOwners ==
    [][leased /\ ~leased' /\ pc' # pc => At(owner, "releasing") /\ pc'[owner] = "idle"]_vars

\* "Prevent overlapping runs across instances": two runs overlap only if the
\* first has outlived its lease, however many crashes and failed statements
\* there were before.
OverlapOnlyPastLease ==
    \A c, d \in Calls :
        At(c, "running") /\ At(d, "running") /\ c # d => c \in late \/ d \in late

\* Neither a crash with the lock, nor a lost answer, nor a failed release stops
\* the job for ever (FairSpec).
JobKeepsRunning == []<>(\E c \in Calls : At(c, "running"))

=============================================================================
