------------------------------ MODULE LocalScans ------------------------------
(***************************************************************************)
(* The scans an API replica runs itself: local_job_runner.py, with the     *)
(* slot and the order of scan_queue.py, the waiting mark and the renewed   *)
(* lease of job_leases.py, and the local halves of the reaper              *)
(* (job_reaper.py) and of the start-up reconciliation (job_repository.py). *)
(*                                                                         *)
(* The jobs are local scans of one tenant, which has a ceiling; sensors    *)
(* claim from the same ceiling under the same lock.  A job is started by   *)
(* the thread of the replica that accepted it and by nobody else.  A       *)
(* replica may die with its threads, and may or may not return under its   *)
(* own name; a thread may die alone.  A deadline is kept as the time left  *)
(* until it.  A thread keeps to its poll and to its renewal interval until *)
(* it falls behind; from then on it may be slow and its database calls may *)
(* fail.                                                                   *)
(***************************************************************************)
EXTENDS Integers, FiniteSets

CONSTANTS
    Jobs,         \* the local scans; numbers, in the order they are submitted
    Replicas,     \* instance ids of API replicas
    OwnerOf,      \* jobs.owner_id: the replica that accepted each job
    Free,         \* nobody holds the tenant's claim lock
    Sensor,       \* a sensor's claim, as a holder of that lock
    NoRun,        \* no run, or one that is no local job's
    MaxScans,     \* tenants.max_concurrent_scans
    Lease,        \* job_lease_seconds
    Poll,         \* scan_queue_local_poll_seconds
    MaxClaims,    \* bound: sensor claims attempted
    MaxTurns,     \* bound: cancels, moves in the queue and windows shutting
    MaxFaults     \* bound: replicas and threads lost, threads falling behind

ASSUME LocalAssumption ==
    /\ Jobs \subseteq Nat
    /\ IsFiniteSet(Jobs)
    /\ OwnerOf \in [Jobs -> Replicas]
    /\ {Free, Sensor} \cap Jobs = {} /\ Free # Sensor
    /\ NoRun \notin Jobs
    /\ {MaxScans, Lease, Poll} \subseteq Nat \ {0}
    /\ {MaxClaims, MaxTurns, MaxFaults} \subseteq Nat

VARIABLES
    row,          \* the job rows
    thread,       \* the executor thread of each job
    up,           \* replicas that are running
    shut,         \* jobs whose maintenance window is closed to scans now
    lock,         \* holder of the tenant's claim lock
    free,         \* what the lock holder counted: is a slot free?
    remote,       \* slots occupied by sensors
    pointer,      \* state_dir/latest_run.json of each replica
    dir,          \* the run directory of each job's scanner
    pubs,         \* publications written: the job and the run it named
    claims, turns, faults

localVars == <<row, thread, up, shut, lock, free, remote, pointer, dir, pubs,
               claims, turns, faults>>

files == <<pointer, dir, pubs>>

queue == <<lock, free, remote, claims>>

world == <<up, shut, turns, faults>>

-----------------------------------------------------------------------------
(* Deadlines.  NoMark is a NULL claimed_until; Lapsed is one in the past.  *)

NoMark == -2

Lapsed == -1

\* _waiting_mark_lifetime: a lease, and never less than three polls.
MarkLife == IF Lease > 3 * Poll THEN Lease ELSE 3 * Poll

\* renewing_lease: a third of the lease, and at least one second.
BeatEvery == IF Lease > 3 THEN Lease \div 3 ELSE 1

Statuses == {"new", "queued", "running", "succeeded", "failed", "cancelled"}

Terminal == {"succeeded", "failed", "cancelled"}

Marks == NoMark..MarkLife

Rows == [status : Statuses, mark : Marks, age : 0..(Lease + 1), priority : {0, 1}]

\* asking: in _wait_for_slot; held: in _start's transaction, with the claim
\* lock; scan: in run_scanner; done: the scanner has exited; ended: no thread.
Stages == {"asking", "held", "scan", "done", "ended"}

Threads == [stage : Stages, nap : 0..Poll, beat : 0..BeatEvery, late : BOOLEAN,
            run : Jobs \cup {NoRun}]

NoThread == [stage |-> "ended", nap |-> 0, beat |-> 0, late |-> FALSE, run |-> NoRun]

Alive(j) == thread[j].stage # "ended"

Running == {j \in Jobs : row[j].status = "running"}

\* OCCUPYING, counted by hold_slot: what the tenant has out with an executor.
Out == Cardinality(Running) + remote

-----------------------------------------------------------------------------
(* job_submission.start_scan, job_control.cancel_job, scan_queue.set_priority
   and the tenant's calendar. *)

\* The row is inserted and its thread started by the replica that was asked.
Submit(j) ==
    /\ row[j].status = "new"
    /\ \A k \in Jobs : k < j => row[k].status # "new"
    /\ OwnerOf[j] \in up
    /\ row' = [row EXCEPT ![j].status = "queued"]
    /\ thread' = [thread EXCEPT ![j].stage = "asking"]
    /\ UNCHANGED <<files, queue, world>>

\* Only a queued local scan can be stopped: a running one is refused.
Cancel(j) ==
    /\ turns < MaxTurns
    /\ row[j].status = "queued"
    /\ row' = [row EXCEPT ![j].status = "cancelled", ![j].mark = NoMark]
    /\ turns' = turns + 1
    /\ UNCHANGED <<files, queue, thread, up, shut, faults>>

SetPriority(j) ==
    /\ turns < MaxTurns
    /\ row[j].status = "queued"
    /\ row' = [row EXCEPT ![j].priority = 1 - @]
    /\ turns' = turns + 1
    /\ UNCHANGED <<files, queue, thread, up, shut, faults>>

WindowShuts(j) ==
    /\ turns < MaxTurns
    /\ j \notin shut
    /\ shut' = shut \cup {j}
    /\ turns' = turns + 1
    /\ UNCHANGED <<files, queue, row, thread, up, faults>>

WindowOpens(j) ==
    /\ j \in shut
    /\ shut' = shut \ {j}
    /\ UNCHANGED <<files, queue, row, thread, up, turns, faults>>

-----------------------------------------------------------------------------
(* _start and _wait_for_slot. *)

Renewed_Late(mark) == IF mark <= Lapsed THEN MarkLife ELSE mark

\* renew_waiting_mark: rewritten only once half of it is spent.
Renewed(mark) == IF mark = NoMark \/ 2 * mark < MarkLife THEN MarkLife ELSE mark

\* local_job_ahead: a better queued job of this replica that could start now.
JobAhead(j) ==
    \E k \in Jobs \ {j} :
        /\ OwnerOf[k] = OwnerOf[j] /\ row[k].status = "queued" /\ k \notin shut
        /\ \/ row[k].priority > row[j].priority
           \/ row[k].priority = row[j].priority /\ k < j

\* hold_slot: the lock is only tried, and held until the transaction ends.
MayHold_Unlocked == TRUE

MayHold == lock = Free

HoldSlot(j) ==
    /\ thread[j].stage = "asking" /\ thread[j].nap = 0
    /\ MayHold
    /\ lock' = j
    /\ free' = (Out < MaxScans)
    /\ thread' = [thread EXCEPT ![j].stage = "held"]
    /\ UNCHANGED <<files, world, row, remote, claims>>

\* The transaction of j ends: its lock, if it has it, is given back.
Unlock(j) ==
    /\ lock' = IF lock = j THEN Free ELSE lock
    /\ free' = IF lock = j THEN FALSE ELSE free

\* Another claim holds the lock: not now, and the mark is kept fresh.
LockIsBusy(j) ==
    /\ thread[j].stage = "asking" /\ thread[j].nap = 0
    /\ ~MayHold
    /\ row[j].status = "queued"
    /\ row' = [row EXCEPT ![j].mark = Renewed(@)]
    /\ thread' = [thread EXCEPT ![j].nap = Poll]
    /\ UNCHANGED <<files, world, queue>>

\* Blocked by the calendar, by the ceiling or by a better job: keep waiting.
KeepWaiting(j) ==
    /\ thread[j].stage = "held"
    /\ row[j].status = "queued"
    /\ j \in shut \/ ~free \/ JobAhead(j)
    /\ row' = [row EXCEPT ![j].mark = Renewed(@)]
    /\ thread' = [thread EXCEPT ![j].stage = "asking", ![j].nap = Poll]
    /\ Unlock(j)
    /\ UNCHANGED <<files, world, remote, claims>>

StartScan(j) ==
    /\ thread[j].stage = "held"
    /\ row[j].status = "queued"
    /\ j \notin shut /\ free /\ ~JobAhead(j)
    /\ row' = [row EXCEPT ![j].status = "running", ![j].mark = Lease]
    /\ thread' = [thread EXCEPT ![j].stage = "scan", ![j].beat = BeatEvery]
    /\ Unlock(j)
    /\ UNCHANGED <<files, world, remote, claims>>

\* InvalidJobTransition: cancelled or written off while it waited.
NotStarted(j) ==
    /\ thread[j].stage \in {"asking", "held"} /\ thread[j].nap = 0
    /\ row[j].status # "queued"
    /\ thread' = [thread EXCEPT ![j] = NoThread]
    /\ Unlock(j)
    /\ UNCHANGED <<files, world, row, remote, claims>>

\* SQLAlchemyError: the transaction is rolled back and asked again.
AskFails(j) ==
    /\ thread[j].late
    /\ thread[j].stage = "held"
    /\ thread' = [thread EXCEPT ![j].stage = "asking", ![j].nap = Poll]
    /\ Unlock(j)
    /\ UNCHANGED <<files, world, row, remote, claims>>

-----------------------------------------------------------------------------
(* run_job beside the scanner: renewing_lease, and scanner/main.py writing
   latest_run.json as it starts. *)

Renew(j) ==
    /\ thread[j].stage = "scan" /\ thread[j].beat = 0
    /\ row' = IF row[j].status = "running" /\ row[j].mark < Lease
              THEN [row EXCEPT ![j].mark = Lease] ELSE row
    /\ thread' = [thread EXCEPT ![j].beat = BeatEvery]
    /\ UNCHANGED <<files, world, queue>>

RenewFails(j) ==
    /\ thread[j].late
    /\ thread[j].stage = "scan" /\ thread[j].beat = 0
    /\ thread' = [thread EXCEPT ![j].beat = BeatEvery]
    /\ UNCHANGED <<files, world, queue, row>>

\* resolve_run_paths: the scanner mints its run, points to it and makes its
\* directory.
ScannerOpensRun(j) ==
    /\ thread[j].stage = "scan" /\ dir[j] = "none"
    /\ dir' = [dir EXCEPT ![j] = "flat"]
    /\ pointer' = [pointer EXCEPT ![OwnerOf[j]] = j]
    /\ UNCHANGED <<world, queue, row, thread, pubs>>

\* _publication: the run the pointer names, if its directory is there and names
\* no owner yet.
RunToPublish(j) ==
    LET r == pointer[OwnerOf[j]]
    IN  IF r \in Jobs /\ dir[r] = "flat" THEN r ELSE NoRun

\* The scanner exits, and the pointer is read.
ScanEnds(j) ==
    /\ thread[j].stage = "scan"
    /\ thread' = [thread EXCEPT ![j].stage = "done", ![j].beat = 0,
                                ![j].run = RunToPublish(j)]
    /\ UNCHANGED <<files, world, queue, row>>

\* By its exit code; only a scanner that made a run exits 0.
Outcomes(j) == IF dir[j] = "none" THEN {"failed"} ELSE {"succeeded", "failed"}

\* The terminal write, and with it the publication it owes.
MayEnd_Any(j) == TRUE

MayEnd(j) == row[j].status = "running"

WriteOutcome(j) ==
    /\ thread[j].stage = "done"
    /\ MayEnd(j)
    /\ \E s \in Outcomes(j) :
          row' = [row EXCEPT ![j].status = s, ![j].mark = NoMark]
    /\ pubs' = pubs \cup {<<j, r>> : r \in {thread[j].run} \ {NoRun}}
    /\ thread' = [thread EXCEPT ![j] = NoThread]
    /\ UNCHANGED <<world, queue, pointer, dir>>

\* _keep_refused_run: the job was written off meanwhile, so its run is only
\* tagged with its tenant, if the disk lets it be, and left in place.
OutcomeRefused(j) ==
    /\ thread[j].stage = "done"
    /\ ~MayEnd(j)
    /\ \/ dir' = [r \in Jobs |->
                    IF r = thread[j].run /\ dir[r] = "flat" THEN "tagged" ELSE dir[r]]
       \/ dir' = dir
    /\ thread' = [thread EXCEPT ![j] = NoThread]
    /\ UNCHANGED <<world, queue, row, pointer, pubs>>

\* run_job's last handler: the scan raised (no process, no disk).
ScanRaises(j) ==
    /\ thread[j].stage \in {"scan", "done"}
    /\ row' = IF row[j].status = "running"
              THEN [row EXCEPT ![j].status = "failed", ![j].mark = NoMark] ELSE row
    /\ thread' = [thread EXCEPT ![j] = NoThread]
    /\ UNCHANGED <<files, world, queue>>

\* The publication's attempt moves the directory under its tenant.
MoveRun(p) ==
    /\ dir[p[2]] = "flat"
    /\ dir' = [dir EXCEPT ![p[2]] = "moved"]
    /\ UNCHANGED <<world, queue, row, thread, pointer, pubs>>

-----------------------------------------------------------------------------
(* Sensors, which share the ceiling, the lock and the pointer. *)

\* A claim takes the lock, waiting for it, and holds it over its inputs.
SensorAsks ==
    /\ claims < MaxClaims
    /\ MayHold
    /\ lock' = Sensor
    /\ free' = (Out < MaxScans)
    /\ claims' = claims + 1
    /\ UNCHANGED <<files, world, row, thread, remote>>

SensorAnswered ==
    /\ lock = Sensor
    /\ lock' = Free /\ free' = FALSE
    /\ remote' = IF free THEN remote + 1 ELSE remote
    /\ UNCHANGED <<files, world, row, thread, claims>>

\* A sensor's scan ends; publishing what it uploaded moves the pointer of the
\* replica that ingested it.
SensorEnds ==
    /\ remote > 0
    /\ remote' = remote - 1
    /\ \/ pointer' = pointer
       \/ \E r \in up : pointer' = [pointer EXCEPT ![r] = NoRun]
    /\ UNCHANGED <<world, lock, free, claims, row, thread, dir, pubs>>

-----------------------------------------------------------------------------
(* Losing an executor, and finding out. *)

Killed(js) == [j \in Jobs |-> IF j \in js THEN NoThread ELSE thread[j]]

\* A replica dies: its threads with it, and its transaction is rolled back.
ReplicaDies(r) ==
    /\ faults < MaxFaults
    /\ r \in up
    /\ up' = up \ {r}
    /\ thread' = Killed({j \in Jobs : OwnerOf[j] = r})
    /\ lock' = IF lock \in {j \in Jobs : OwnerOf[j] = r} THEN Free ELSE lock
    /\ free' = IF lock \in {j \in Jobs : OwnerOf[j] = r} THEN FALSE ELSE free
    /\ faults' = faults + 1
    /\ UNCHANGED <<files, row, remote, claims, shut, turns>>

\* load_jobs: a replica back under its own name fails what it left behind.
ReplicaReturns(r) ==
    /\ r \notin up
    /\ up' = up \cup {r}
    /\ row' = [j \in Jobs |->
                 IF OwnerOf[j] = r /\ row[j].status \in {"queued", "running"}
                 THEN [row[j] EXCEPT !.status = "failed", !.mark = NoMark]
                 ELSE row[j]]
    /\ UNCHANGED <<files, queue, thread, shut, turns, faults>>

\* A thread ends on what run_job does not catch: an input file that cannot be
\* read while it asks, a terminal write the database refuses twice.
ThreadDies(j) ==
    /\ faults < MaxFaults
    /\ thread[j].stage \in {"held", "done"}
    /\ thread' = Killed({j})
    /\ Unlock(j)
    /\ faults' = faults + 1
    /\ UNCHANGED <<files, row, remote, claims, up, shut, turns>>

\* A thread falls behind: its replica stalls, or cannot reach the database.
FallsBehind(j) ==
    /\ faults < MaxFaults
    /\ Alive(j) /\ ~thread[j].late
    /\ thread' = [thread EXCEPT ![j].late = TRUE]
    /\ faults' = faults + 1
    /\ UNCHANGED <<files, queue, row, up, shut, turns>>

\* A NULL mark: the age since queued_at is what counts, and only then.
NeverAsked(j) == row[j].status = "queued" /\ row[j].mark = NoMark

\* reap_expired_leases, its local rows: a running scan whose lease lapsed, and
\* a waiting one whose mark lapsed or that never asked.
Overdue_Running(j) == row[j].status = "running" /\ row[j].mark = Lapsed

Overdue(j) ==
    \/ row[j].status = "running" /\ row[j].mark = Lapsed
    \/ /\ row[j].status = "queued"
       /\ \/ row[j].mark = Lapsed
          \/ NeverAsked(j) /\ row[j].age > Lease

Reap(j) ==
    /\ Overdue(j)
    /\ row' = [row EXCEPT ![j].status = "failed", ![j].mark = NoMark]
    /\ UNCHANGED <<files, world, queue, thread>>

\* A thread in time: it is asleep until its next ask or its next renewal.
OnTime(j) ==
    \/ thread[j].stage = "ended"
    \/ thread[j].stage = "asking" /\ thread[j].nap > 0
    \/ thread[j].stage = "scan" /\ thread[j].beat > 0

Down(n) == IF n > 0 THEN n - 1 ELSE 0

Tick(mark) == IF mark > Lapsed THEN mark - 1 ELSE mark

Aged(age) == IF age > Lease THEN age ELSE age + 1

Clock ==
    /\ \A j \in Jobs : thread[j].late \/ OnTime(j)
    /\ row' = [j \in Jobs |->
                 [row[j] EXCEPT !.mark = Tick(@),
                                !.age = IF NeverAsked(j) THEN Aged(@) ELSE @]]
    /\ thread' = [j \in Jobs |->
                    [thread[j] EXCEPT !.nap = Down(@), !.beat = Down(@)]]
    /\ UNCHANGED <<files, world, queue>>

-----------------------------------------------------------------------------

LocalInit ==
    /\ row = [j \in Jobs |-> [status |-> "new", mark |-> NoMark, age |-> 0, priority |-> 0]]
    /\ thread = [j \in Jobs |-> NoThread]
    /\ up = Replicas
    /\ shut = {}
    /\ lock = Free /\ free = FALSE /\ remote = 0
    /\ pointer = [r \in Replicas |-> NoRun]
    /\ dir = [j \in Jobs |-> "none"]
    /\ pubs = {}
    /\ claims = 0 /\ turns = 0 /\ faults = 0

\* What the thread of job j does next.
ThreadStep(j) ==
    \/ HoldSlot(j) \/ LockIsBusy(j) \/ KeepWaiting(j) \/ StartScan(j)
    \/ NotStarted(j) \/ AskFails(j) \/ Renew(j) \/ RenewFails(j)
    \/ WriteOutcome(j) \/ OutcomeRefused(j)

\* How its scanner ends.
ScannerStep(j) == ScanEnds(j) \/ ScanRaises(j)

SensorStep == SensorAnswered \/ SensorEnds

LocalNext ==
    \/ \E j \in Jobs :
          \/ Submit(j) \/ Cancel(j) \/ SetPriority(j)
          \/ WindowShuts(j) \/ WindowOpens(j)
          \/ ThreadStep(j) \/ ScannerOpensRun(j) \/ ScannerStep(j)
          \/ ThreadDies(j) \/ FallsBehind(j) \/ Reap(j)
    \/ \E p \in pubs : MoveRun(p)
    \/ \E r \in Replicas : ReplicaDies(r) \/ ReplicaReturns(r)
    \/ SensorAsks \/ SensorStep \/ Clock

LocalSpec == LocalInit /\ [][LocalNext]_localVars

-----------------------------------------------------------------------------
(* What is checked. *)

LocalTypeOK ==
    /\ row \in [Jobs -> Rows]
    /\ thread \in [Jobs -> Threads]
    /\ up \subseteq Replicas
    /\ shut \subseteq Jobs
    /\ lock \in Jobs \cup {Free, Sensor}
    /\ free \in BOOLEAN
    /\ remote \in Nat
    /\ pointer \in [Replicas -> Jobs \cup {NoRun}]
    /\ dir \in [Jobs -> {"none", "flat", "tagged", "moved"}]
    /\ pubs \subseteq Jobs \X Jobs
    /\ claims \in 0..MaxClaims
    /\ turns \in 0..MaxTurns
    /\ faults \in 0..MaxFaults

\* The tenant never has more scans out than its ceiling, whoever runs them:
\* two replicas' threads and a sensor's claim that ask at the same time are
\* decided one after the other (scan_queue.hold_slot, #365).
LocalCeiling == Out <= MaxScans

\* A scan whose thread keeps asking, or keeps renewing, is not the reaper's to
\* write off: "a thread that keeps asking always renews before it lapses"
\* (job_leases.renew_waiting_mark), though it renews only every other ask.
AttendedNeverLapses ==
    \A j \in Jobs : Alive(j) /\ ~thread[j].late => ~Overdue(j)

\* A scan that is over stays as it ended, though the thread, the reaper, an
\* operator and a restarted replica all write its status.
LocalOutcomeIsFinal ==
    [][\A j \in Jobs : row[j].status \in Terminal => row'[j].status = row[j].status]_localVars

\* Threads that run, a clock that advances, a reaper that sweeps, windows that
\* open again, scans that end, and a lock that is not busy at every single ask
\* of a thread: it is only tried, so nothing queues for it.
LocalFairness ==
    /\ \A j \in Jobs : /\ WF_localVars(ThreadStep(j))
                       /\ SF_localVars(HoldSlot(j))
                       /\ SF_localVars(StartScan(j))
                       /\ WF_localVars(ScannerStep(j))
                       /\ WF_localVars(WindowOpens(j))
                       /\ WF_localVars(Reap(j))
    /\ WF_localVars(SensorStep)
    /\ WF_localVars(Clock)

LocalFairSpec == LocalSpec /\ LocalFairness

\* No scan waits for ever, though a better one ahead of it may have lost its
\* thread: that one is written off once its mark lapses (_wait_for_slot).
WaitingScanIsAnswered ==
    \A j \in Jobs : row[j].status = "queued" ~> row[j].status # "queued"

\* False of the code.  "hands the run it produced to run_publisher": the run is
\* found through latest_run.json, which the last scanner to start has written.
HandsOverTheRunItProduced == \A p \in pubs : p[1] = p[2]
=============================================================================
