------------------------------ MODULE JobQueue ------------------------------
(***************************************************************************)
(* The durable queue of agent scans of one tenant: the rows of the jobs    *)
(* table and everything that writes them while several API replicas serve  *)
(* a fleet of remote agents.                                               *)
(*                                                                         *)
(*   job_control.py  claim_job, mark_running, cancel_job                   *)
(*   job_results.py  complete_job: one locked transaction that opens an    *)
(*                   ingest, long work outside any transaction, one fenced *)
(*                   transaction that records the outcome                  *)
(*   job_leases.py   leases and the ingest fence                           *)
(*   job_store.py    update_job                                            *)
(*   job_reaper.py   the two sweeps that run beside the requests           *)
(*   agent/worker.py the loop that claims, scans, beats and uploads        *)
(*                                                                         *)
(* Time.  The code stores instants and compares them with the clock.  Here *)
(* every instant is the number of ticks that are left of the period the    *)
(* code measures from it, counted down by Tick and 0 once the period is    *)
(* over; NULL is -1.  Nothing ties the pace of Tick to the other steps.    *)
(*                                                                         *)
(* A transaction that locks its row is one action.  mark_running does not  *)
(* lock: with Overlap it is split at its read and its write.               *)
(*                                                                         *)
(* Name_Word is a mutated form of Name, the bug Word names; nothing in the *)
(* specification uses it.                                                  *)
(***************************************************************************)
EXTENDS Integers, FiniteSets, JobStates

CONSTANTS
    Jobs,         \* the jobs start_scan has inserted
    Agents,       \* agent ids; a restarted worker keeps its id
    Legacy,       \* the agents that send neither an attempt nor a key
    NoAgent,      \* assigned_agent_id IS NULL
    NoJob,        \* an agent that works on nothing
    MaxAttempts,  \* job_max_attempts
    Lease,        \* job_lease_seconds
    IngestLease,  \* job_ingest_lease_seconds
    CancelGrace,  \* job_cancel_grace_seconds
    MaxScans,     \* the tenant's max_concurrent_scans
    Overlap,      \* may a heartbeat's transaction overlap another one?
    MaxSends,     \* bound: how often an agent sends one result
    MaxIngests    \* bound: how many ingests are opened in all

ASSUME QueueAssumption ==
    /\ IsFiniteSet(Jobs)
    /\ Legacy \subseteq Agents
    /\ NoAgent \notin Agents
    /\ NoJob \notin Jobs
    /\ MaxAttempts \in Nat \ {0}
    /\ Lease \in Nat \ {0}
    /\ IngestLease \in Nat \ {0}
    /\ CancelGrace \in Nat \ {0}
    /\ MaxScans \in Nat \ {0}
    /\ Overlap \in BOOLEAN
    /\ MaxSends \in Nat \ {0}
    /\ MaxIngests \in Nat

VARIABLES
    job,       \* the jobs table
    scan,      \* what each agent's worker is doing
    beat,      \* the heartbeat each agent has in flight
    net,       \* result uploads on their way to the API
    ingest,    \* complete_job calls between their two transactions
    pubs,      \* the run_publications rows accepted so far
    tokens     \* ingest tokens minted so far

vars == <<job, scan, beat, net, ingest, pubs, tokens>>

-----------------------------------------------------------------------------
(* Data. *)

NULL == -1

Timer == Nat \cup {NULL}

\* Exit codes: 0, and 1 for every other one.
ExitCodes == {0, 1}

\* The worker derives its results key from agent, job, run and exit code (not
\* from the attempt); job and run are fixed by the row the key is stored on.
Keys == [agent : Agents \cup {NoAgent}, exit : ExitCodes \cup {NULL}]

NoKey == [agent |-> NoAgent, exit |-> NULL]

\* The marker a late ingest reserves when its agent sent no key.
LATE_ARCHIVE_RESERVATION == [agent |-> NoAgent, exit |-> 0]

KeyOf(a, e) == IF a \in Legacy THEN NoKey ELSE [agent |-> a, exit |-> e]

Rows ==
    [status : Statuses,
     assigned_agent_id : Agents \cup {NoAgent},
     attempts : Nat,
     claimed_until : Timer,
     cancel_requested_at : Timer,
     finished_at : Timer,
     ingest_token : Nat,              \* 0 is NULL
     ingest_started_at : Timer,
     exit_code : ExitCodes \cup {NULL},
     results_key : Keys]

\* What start_scan inserts.
NewRow ==
    [status |-> QUEUED, assigned_agent_id |-> NoAgent, attempts |-> 0,
     claimed_until |-> NULL, cancel_requested_at |-> NULL, finished_at |-> NULL,
     ingest_token |-> 0, ingest_started_at |-> NULL,
     exit_code |-> NULL, results_key |-> NoKey]

\* A worker: waiting for work, scanning, or sending its result.
Idle ==
    [phase |-> "idle", job |-> NoJob, attempt |-> 0, stop |-> FALSE,
     exit |-> 0, cancelled |-> FALSE, archive |-> FALSE, sends |-> 0]

BusyWorkers ==
    [phase : {"scanning", "uploading"},
     job : Jobs, attempt : Nat \ {0}, stop : BOOLEAN,
     exit : ExitCodes, cancelled : BOOLEAN, archive : BOOLEAN, sends : Nat]

\* A heartbeat: none, on its way, or read by mark_running and not yet written.
NoBeat == [stage |-> "none", job |-> NoJob, promote |-> FALSE, lease |-> NULL]

Beats ==
    [stage : IF Overlap THEN {"sent", "read"} ELSE {"sent"}, job : Jobs,
     promote : BOOLEAN, lease : Timer]

\* One copy of a result upload.  attempt is 0 when the agent omits it.
Uploads ==
    [job : Jobs, agent : Agents, attempt : Nat, scanned : Nat, exit : ExitCodes,
     cancelled : BOOLEAN, archive : BOOLEAN, key : Keys, send : Nat]

\* A complete_job call past its first transaction, with its IngestLease.
\* scanned is the attempt whose scan produced the bytes; the code has no such
\* value for a legacy agent, and only the properties read it.
Handlers ==
    [token : Nat, job : Jobs, agent : Agents, attempt : Nat, scanned : Nat,
     status : TERMINAL, exit : ExitCodes, archive : BOOLEAN, key : Keys,
     late : BOOLEAN, phase : {"ingesting", "releaseKey", "releaseLease"}]

Publications ==
    [token : Nat, job : Jobs, agent : Agents, scanned : Nat, late : BOOLEAN]

TypeOK ==
    /\ job \in [Jobs -> Rows]
    /\ scan \in [Agents -> BusyWorkers \cup {Idle}]
    /\ beat \in [Agents -> Beats \cup {NoBeat}]
    /\ net \subseteq Uploads
    /\ ingest \subseteq Handlers
    /\ pubs \subseteq Publications
    /\ tokens \in Nat

Terminal(j) == job[j].status \in TERMINAL

InFlight(j) == job[j].status \in IN_FLIGHT

\* scan_queue.OCCUPYING: the states that count against max_concurrent_scans.
OCCUPYING == IN_FLIGHT \cup {CANCELLING}

Occupying == {j \in Jobs : job[j].status \in OCCUPYING}

\* hold_slot's count against the tenant's ceiling.
SlotFree_CountsInFlight == Cardinality({j \in Jobs : InFlight(j)}) < MaxScans

SlotFree == Cardinality(Occupying) < MaxScans

extend_lease_Assigns(row, deadline) == [row EXCEPT !.claimed_until = deadline]

\* extend_lease: push a deadline out, never pull it in.
extend_lease(row, deadline) ==
    IF row.claimed_until < deadline
    THEN [row EXCEPT !.claimed_until = deadline]
    ELSE row

clear_ingest(row) ==
    [row EXCEPT !.ingest_token = 0, !.ingest_started_at = NULL]

-----------------------------------------------------------------------------
(* The agent's worker loop. *)

\* claim_job, called from the worker's loop.  The tenant's claim lock makes the
\* count and the claim one step; which of the eligible rows is offered is left
\* open (priority, SKIP LOCKED, maintenance and inputs decide in the code).
\* The answer may be lost on the way to the agent.
ClaimJob(a, j) ==
    /\ scan[a].phase = "idle"
    /\ SlotFree
    /\ job[j].status = QUEUED
    /\ job[j].assigned_agent_id = NoAgent
    /\ CanTransition(job[j].status, CLAIMED)
    /\ job' = [job EXCEPT ![j].status = CLAIMED,
                          ![j].assigned_agent_id = a,
                          ![j].claimed_until = Lease,
                          ![j].attempts = @ + 1]
    /\ \/ scan' = [scan EXCEPT ![a] = [Idle EXCEPT !.phase = "scanning",
                                                   !.job = j,
                                                   !.attempt = job[j].attempts + 1]]
       \/ UNCHANGED scan
    /\ UNCHANGED <<beat, net, ingest, pubs, tokens>>

Results_Unpacked(stop) ==
    {[exit |-> e, cancelled |-> stop /\ e = 1, archive |-> FALSE] : e \in ExitCodes}

\* What _run_scan may return: a clean run with its archive, a failure without
\* one, and a scan that was put down, whose partial run may be packed.
Results(stop) ==
    {[exit |-> 0, cancelled |-> FALSE, archive |-> TRUE],
     [exit |-> 1, cancelled |-> stop, archive |-> FALSE]}
    \cup (IF stop THEN {[exit |-> 1, cancelled |-> TRUE, archive |-> TRUE]} ELSE {})

\* One copy of the result the worker holds.
Upload(a, n) ==
    [job |-> scan[a].job, agent |-> a,
     attempt |-> IF a \in Legacy THEN 0 ELSE scan[a].attempt,
     scanned |-> scan[a].attempt,
     exit |-> scan[a].exit, cancelled |-> scan[a].cancelled,
     archive |-> scan[a].archive, key |-> KeyOf(a, scan[a].exit), send |-> n]

FinishScan(a) ==
    /\ scan[a].phase = "scanning"
    /\ \E r \in Results(scan[a].stop) :
          scan' = [scan EXCEPT ![a].phase = "uploading", ![a].exit = r.exit,
                               ![a].cancelled = r.cancelled, ![a].archive = r.archive]
    /\ UNCHANGED <<job, beat, net, ingest, pubs, tokens>>

\* _request: the first send, and the resend after a timeout, a 502..504 or a
\* broken connection.  An earlier copy may still be on its way or being ingested.
SendResult(a) ==
    /\ scan[a].phase = "uploading"
    /\ scan[a].sends < MaxSends
    /\ net' = net \cup {Upload(a, scan[a].sends + 1)}
    /\ scan' = [scan EXCEPT ![a].sends = @ + 1]
    /\ UNCHANGED <<job, beat, ingest, pubs, tokens>>

\* The retries are used up, or the answer was an error: back to the loop.
GiveUp(a) ==
    /\ scan[a].phase = "uploading"
    /\ scan[a].sends > 0
    /\ scan' = [scan EXCEPT ![a] = Idle]
    /\ UNCHANGED <<job, beat, net, ingest, pubs, tokens>>

\* The worker process dies and is restarted: what it was doing is gone.
CrashAgent(a) ==
    /\ scan[a].phase # "idle"
    /\ scan' = [scan EXCEPT ![a] = Idle]
    /\ UNCHANGED <<job, beat, net, ingest, pubs, tokens>>

LoseUpload(m) ==
    /\ net' = net \ {m}
    /\ UNCHANGED <<job, scan, beat, ingest, pubs, tokens>>

\* _busy_heartbeats: one request at a time, from the claim to the answer of the
\* upload.  The thread may outlive its scan, so the request may too.
SendBeat(a) ==
    /\ scan[a].phase # "idle"
    /\ beat[a].stage = "none"
    /\ beat' = [beat EXCEPT ![a] = [NoBeat EXCEPT !.stage = "sent", !.job = scan[a].job]]
    /\ UNCHANGED <<job, scan, net, ingest, pubs, tokens>>

\* The answer to an upload ends the worker's effort if it still waits for one;
\* an answer that is lost or late leaves it to resend or give up.
Answered(a, j) ==
    \/ /\ scan[a].phase = "uploading" /\ scan[a].job = j
       /\ scan' = [scan EXCEPT ![a] = Idle]
    \/ UNCHANGED scan

-----------------------------------------------------------------------------
(* mark_running: the heartbeat. *)

\* What one heartbeat writes on the row it has read: the lease is extended,
\* and a claimed job is promoted.
Beaten(row) ==
    [extend_lease(row, Lease) EXCEPT
        !.status = IF row.status = CLAIMED THEN RUNNING ELSE @]

\* The reply carries the stop only to the agent that holds a cancelling job.
StopAnswer(a, j) ==
    IF /\ job[j].assigned_agent_id = a /\ job[j].status = CANCELLING
       /\ scan[a].job = j /\ scan[a].phase = "scanning"
    THEN \E heard \in BOOLEAN : scan' = [scan EXCEPT ![a].stop = @ \/ heard]
    ELSE UNCHANGED scan

\* A heartbeat counts only from the agent that holds the job, while it is in flight.
Beatable(a, j) == job[j].assigned_agent_id = a /\ InFlight(j)

MarkRunning(a) ==
    LET j == beat[a].job IN
    /\ beat[a].stage = "sent"
    /\ job' = IF Beatable(a, j)
              THEN [job EXCEPT ![j] = Beaten(job[j])]
              ELSE job
    /\ StopAnswer(a, j)
    /\ beat' = [beat EXCEPT ![a] = NoBeat]
    /\ UNCHANGED <<net, ingest, pubs, tokens>>

\* The same in two steps, as the code runs it: session.get without FOR UPDATE ...
\* (A deadline of the same tick is later by a fraction of it, so it is written.)
MarkRunningRead(a) ==
    LET j == beat[a].job
        row == job[j] IN
    /\ Overlap
    /\ beat[a].stage = "sent"
    /\ Beatable(a, j)
    /\ beat' = [beat EXCEPT ![a] =
                  [stage |-> "read", job |-> j, promote |-> row.status = CLAIMED,
                   lease |-> IF row.claimed_until <= Lease THEN Lease ELSE NULL]]
    /\ UNCHANGED <<job, scan, net, ingest, pubs, tokens>>

\* ... and the UPDATE of the columns that differ from what was read.
MarkRunningWrite(a) ==
    LET j == beat[a].job IN
    /\ beat[a].stage = "read"
    /\ job' = [job EXCEPT
                 ![j].status = IF beat[a].promote THEN RUNNING ELSE @,
                 ![j].claimed_until = IF beat[a].lease # NULL THEN beat[a].lease ELSE @]
    /\ beat' = [beat EXCEPT ![a] = NoBeat]
    /\ UNCHANGED <<scan, net, ingest, pubs, tokens>>

\* The request never arrives.
LoseBeat(a) ==
    /\ beat[a].stage = "sent"
    /\ beat' = [beat EXCEPT ![a] = NoBeat]
    /\ UNCHANGED <<job, scan, net, ingest, pubs, tokens>>

-----------------------------------------------------------------------------
(* cancel_job: an operator presses stop. *)

CancelJob(j) ==
    /\ \/ \* nothing has taken it: refusing to hand it out is the stop
          /\ CanTransition(job[j].status, CANCELLED)
          /\ job[j].status \notin IN_FLIGHT \cup {CANCELLING}
          /\ job' = [job EXCEPT ![j].status = CANCELLED,
                                ![j].finished_at = CancelGrace,
                                ![j].claimed_until = NULL]
       \/ \* an agent has it: the stop rides its next heartbeat
          /\ InFlight(j)
          /\ CanTransition(job[j].status, CANCELLING)
          /\ job' = [job EXCEPT ![j].status = CANCELLING,
                                ![j].cancel_requested_at = CancelGrace,
                                ![j].claimed_until = NULL]
       \/ \* asked again: only an abandoned ingest hold is dropped
          /\ job[j].status = CANCELLING
          /\ job[j].ingest_started_at = 0
          /\ job' = [job EXCEPT ![j] = clear_ingest(@)]
    /\ UNCHANGED <<scan, beat, net, ingest, pubs, tokens>>

-----------------------------------------------------------------------------
(* complete_job, first transaction: decide under the row lock what an upload *)
(* is, and open an ingest for the one that is going to be recorded.          *)

Owned(m) == job[m.job].assigned_agent_id = m.agent

\* Optional fencing: an upload that names no attempt passes.
Current(m) == m.attempt = 0 \/ m.attempt = job[m.job].attempts

\* The outcome the upload asks for.
Outcome(m) ==
    IF m.cancelled /\ job[m.job].status \in {CANCELLING, CANCELLED} THEN CANCELLED
    ELSE IF m.exit = 0 THEN SUCCEEDED ELSE FAILED

\* _classify_replay: an upload for a finished job that is its own retry.
IsReplay(m) ==
    LET row == job[m.job] IN
    /\ row.status \in TERMINAL
    /\ IF m.key # NoKey
       THEN row.results_key = m.key
       ELSE row.status # CANCELLED /\ row.exit_code = m.exit

AcceptsLateArchive_Again(m) ==
    LET row == job[m.job] IN
    /\ m.cancelled /\ m.archive
    /\ row.status = CANCELLED
    /\ row.cancel_requested_at # NULL
    /\ row.finished_at > 0

\* _accepts_late_archive: the bytes, not the verdict, of an agent that stopped
\* as it was told and was too slow for the grace period.
AcceptsLateArchive(m) ==
    LET row == job[m.job] IN
    /\ ~IsReplay(m)
    /\ m.cancelled /\ m.archive
    /\ row.status = CANCELLED
    /\ row.cancel_requested_at # NULL
    /\ row.exit_code = NULL
    /\ row.results_key = NoKey
    /\ row.finished_at > 0

\* The key is reserved on an unfinished job: ResultsInFlight.
SameKeyInFlight(m) ==
    /\ ~Terminal(m.job)
    /\ m.key # NoKey
    /\ job[m.job].results_key = m.key

Admissible(m) ==
    /\ Owned(m)
    /\ Current(m)
    /\ ~SameKeyInFlight(m)
    /\ CanTransition(job[m.job].status, Outcome(m)) \/ AcceptsLateArchive(m)

\* What the reservation holds: the key, or the marker of a late ingest.
Held(key, late) ==
    IF key = NoKey /\ late THEN LATE_ARCHIVE_RESERVATION ELSE key

\* open_ingest_lease on the locked row: a new token, the marker's clock, and
\* the longer lease that keeps the reaper out while the ingest runs.
open_ingest_lease(row, token) ==
    LET marked == [row EXCEPT !.ingest_token = token,
                              !.ingest_started_at = IngestLease]
    IN  IF row.status \in IN_FLIGHT THEN extend_lease(marked, IngestLease) ELSE marked

OpenIngest(m) ==
    LET late == AcceptsLateArchive(m)
        held == Held(m.key, late)
        row == job[m.job]
        reserved == IF held = NoKey THEN row ELSE [row EXCEPT !.results_key = held]
    IN
    /\ Admissible(m)
    /\ tokens < MaxIngests
    /\ tokens' = tokens + 1
    /\ job' = [job EXCEPT ![m.job] = open_ingest_lease(reserved, tokens + 1)]
    /\ ingest' = ingest \cup
         {[token |-> tokens + 1, job |-> m.job, agent |-> m.agent,
           attempt |-> row.attempts, scanned |-> m.scanned, status |-> Outcome(m),
           exit |-> m.exit, archive |-> m.archive, key |-> m.key, late |-> late,
           phase |-> "ingesting"]}
    /\ net' = net \ {m}
    /\ UNCHANGED <<scan, beat, pubs>>

\* A replay is answered with the row as it stands; everything else that is not
\* admissible is refused (403, 409 stale, in-flight or conflict, 422).  Neither
\* writes the row.
AnswerUpload(m) ==
    /\ ~Admissible(m)
    /\ net' = net \ {m}
    /\ Answered(m.agent, m.job)
    /\ UNCHANGED <<job, beat, ingest, pubs, tokens>>

-----------------------------------------------------------------------------
(* complete_job, from the extraction to the fenced write. *)

FenceHolds_OwnerOnly(h) == job[h.job].assigned_agent_id = h.agent

\* check_ingest_fence.
FenceHolds(h) ==
    LET row == job[h.job] IN
    /\ row.ingest_token = h.token
    /\ row.attempts = h.attempt
    /\ row.assigned_agent_id = h.agent

\* update_job with a terminal status: the fence is spent, the lease is gone and
\* the outcome, its exit code and its key are written together.
Closed(row, status, exit, key) ==
    [clear_ingest(row) EXCEPT
        !.status = status, !.finished_at = CancelGrace, !.claimed_until = NULL,
        !.exit_code = exit, !.results_key = key]

\* The run_publications row that is inserted with the write.
PublicationOf(h) ==
    [token |-> h.token, job |-> h.job, agent |-> h.agent, scanned |-> h.scanned,
     late |-> h.late]

Recorded(h) == IF h.archive THEN pubs \cup {PublicationOf(h)} ELSE pubs

\* The fenced terminal write.  An archive's publication is inserted with it.
RecordOutcome(h) ==
    /\ h.phase = "ingesting"
    /\ ~h.late
    /\ FenceHolds(h)
    /\ CanTransition(job[h.job].status, h.status)
    /\ job' = [job EXCEPT ![h.job] = Closed(@, h.status, h.exit, h.key)]
    /\ pubs' = Recorded(h)
    /\ ingest' = ingest \ {h}
    /\ Answered(h.agent, h.job)
    /\ UNCHANGED <<beat, net, tokens>>

\* _record_late_cancellation_archive: the publication, and no verdict.
RecordLateArchive(h) ==
    /\ h.phase = "ingesting"
    /\ h.late
    /\ FenceHolds(h)
    /\ job' = [job EXCEPT ![h.job] = clear_ingest(@)]
    /\ pubs' = pubs \cup {PublicationOf(h)}
    /\ ingest' = ingest \ {h}
    /\ Answered(h.agent, h.job)
    /\ UNCHANGED <<beat, net, tokens>>

ToPhase(h, phase) == (ingest \ {h}) \cup {[h EXCEPT !.phase = phase]}

\* A run whose archive is refused did not succeed.
RejectedStatus(h) == IF h.status = SUCCEEDED THEN FAILED ELSE h.status

\* _fail_rejected_upload: the archive fails its integrity check, the job is
\* closed as failed (or as the failure or stop it was), nothing is published,
\* and the exception goes on to the release path.
RejectArchive(h) ==
    /\ h.phase = "ingesting"
    /\ h.archive
    /\ ~h.late
    /\ FenceHolds(h)
    /\ CanTransition(job[h.job].status, RejectedStatus(h))
    /\ job' = [job EXCEPT ![h.job] = Closed(@, RejectedStatus(h), 1, h.key)]
    /\ ingest' = ToPhase(h, "releaseKey")
    /\ UNCHANGED <<scan, beat, net, pubs, tokens>>

\* Any exception before the write commits: an unreadable archive, a full disk,
\* a lost database, and the fence or the lifecycle refusing the write.
FailIngest(h) ==
    /\ h.phase = "ingesting"
    /\ ingest' = ToPhase(h, "releaseKey")
    /\ UNCHANGED <<job, scan, beat, net, pubs, tokens>>

\* _release_results_reservation: our own key, unless it now records an outcome.
ReleaseKey(h) ==
    LET held == Held(h.key, h.late)
        row == job[h.job]
        ours == /\ held # NoKey
                /\ h.late \/ row.status \notin TERMINAL
                /\ row.results_key = held
    IN
    /\ h.phase = "releaseKey"
    /\ job' = IF ours THEN [job EXCEPT ![h.job].results_key = NoKey] ELSE job
    /\ ingest' = ToPhase(h, "releaseLease")
    /\ UNCHANGED <<scan, beat, net, pubs, tokens>>

Released_NoLease(row) == [clear_ingest(row) EXCEPT !.claimed_until = NULL]

\* release_ingest_lease: only our own; an in-flight job gets the ordinary lease
\* back by assignment.
Released(row) ==
    [clear_ingest(row) EXCEPT
        !.claimed_until = IF row.status \in IN_FLIGHT THEN Lease ELSE @]

ReleaseLease(h) ==
    /\ h.phase = "releaseLease"
    /\ job' = IF job[h.job].ingest_token = h.token
              THEN [job EXCEPT ![h.job] = Released(@)]
              ELSE job
    /\ ingest' = ingest \ {h}
    /\ Answered(h.agent, h.job)
    /\ UNCHANGED <<beat, net, pubs, tokens>>

\* The replica dies in the middle of the call: no further step of it runs, and
\* the row keeps what the first transaction wrote.
CrashIngest(h) ==
    /\ ingest' = ingest \ {h}
    /\ UNCHANGED <<job, scan, beat, net, pubs, tokens>>

-----------------------------------------------------------------------------
(* The reaper's two sweeps, per row. *)

HandoutsLeft(row) == row.attempts < MaxAttempts

\* reap_expired_leases: back to the queue, or written off once the hand-outs
\* are used up.  What was being ingested under the lease is void.
ReapExpiredLease(j) ==
    LET row == clear_ingest(job[j]) IN
    /\ InFlight(j)
    /\ job[j].claimed_until = 0
    /\ \/ /\ HandoutsLeft(row)
          /\ CanTransition(row.status, QUEUED)
          /\ job' = [job EXCEPT ![j] = [row EXCEPT !.status = QUEUED,
                                                   !.assigned_agent_id = NoAgent,
                                                   !.claimed_until = NULL]]
       \/ /\ ~HandoutsLeft(row)
          /\ CanTransition(row.status, FAILED)
          /\ job' = [job EXCEPT ![j] = [row EXCEPT !.status = FAILED,
                                                   !.finished_at = CancelGrace,
                                                   !.claimed_until = NULL]]
    /\ UNCHANGED <<scan, beat, net, ingest, pubs, tokens>>

\* No ingest is open, or the one that is has outlived job_ingest_lease_seconds.
IngestAbandoned(row) == row.ingest_started_at \in {NULL, 0}

\* reap_stale_cancellations: the grace is over and no live ingest holds the row.
ReapStaleCancellation(j) ==
    /\ job[j].status = CANCELLING
    /\ job[j].cancel_requested_at = 0
    /\ IngestAbandoned(job[j])
    /\ CanTransition(job[j].status, CANCELLED)
    /\ job' = [job EXCEPT ![j].status = CANCELLED,
                          ![j].finished_at = CancelGrace,
                          ![j].claimed_until = NULL]
    /\ UNCHANGED <<scan, beat, net, ingest, pubs, tokens>>

-----------------------------------------------------------------------------
(* The clock. *)

Down(t) == IF t > 0 THEN t - 1 ELSE t

Aged(row) ==
    [row EXCEPT !.claimed_until = Down(@), !.cancel_requested_at = Down(@),
                !.finished_at = Down(@), !.ingest_started_at = Down(@)]

Tick ==
    /\ job' = [j \in Jobs |-> Aged(job[j])]
    /\ beat' = [a \in Agents |-> IF beat[a].lease > 0
                                 THEN [beat[a] EXCEPT !.lease = @ - 1]
                                 ELSE beat[a]]
    /\ <<job', beat'>> # <<job, beat>>
    /\ UNCHANGED <<scan, net, ingest, pubs, tokens>>

-----------------------------------------------------------------------------

Init ==
    /\ job = [j \in Jobs |-> NewRow]
    /\ scan = [a \in Agents |-> Idle]
    /\ beat = [a \in Agents |-> NoBeat]
    /\ net = {}
    /\ ingest = {}
    /\ pubs = {}
    /\ tokens = 0

AgentStep(a) ==
    \/ \E j \in Jobs : ClaimJob(a, j)
    \/ FinishScan(a)
    \/ SendResult(a)
    \/ GiveUp(a)
    \/ CrashAgent(a)
    \/ SendBeat(a)
    \/ MarkRunning(a)
    \/ MarkRunningRead(a)
    \/ MarkRunningWrite(a)
    \/ LoseBeat(a)

UploadStep(m) ==
    \/ LoseUpload(m)
    \/ OpenIngest(m)
    \/ AnswerUpload(m)

IngestStep(h) ==
    \/ RecordOutcome(h)
    \/ RecordLateArchive(h)
    \/ RejectArchive(h)
    \/ FailIngest(h)
    \/ ReleaseKey(h)
    \/ ReleaseLease(h)
    \/ CrashIngest(h)

RowStep(j) ==
    \/ CancelJob(j)
    \/ ReapExpiredLease(j)
    \/ ReapStaleCancellation(j)

Next ==
    \/ \E a \in Agents : AgentStep(a)
    \/ \E m \in net : UploadStep(m)
    \/ \E h \in ingest : IngestStep(h)
    \/ \E j \in Jobs : RowStep(j)
    \/ Tick

Spec == Init /\ [][Next]_vars

-----------------------------------------------------------------------------
(* Fairness. *)

\* Every replica runs the reaper's loop for ever, and time passes.
ReaperFairness ==
    /\ WF_vars(Tick)
    /\ \A j \in Jobs : /\ WF_vars(ReapExpiredLease(j))
                       /\ WF_vars(ReapStaleCancellation(j))

\* Some worker goes on polling for jobs, scan_timeout ends every scan, and
\* _request stops after its last retry.  No answer is ever assumed.
WorkerFairness ==
    /\ WF_vars(\E a \in Agents, j \in Jobs : ClaimJob(a, j))
    /\ \A a \in Agents : /\ WF_vars(FinishScan(a))
                         /\ WF_vars(SendResult(a))
                         /\ WF_vars(GiveUp(a))

ReaperSpec == Spec /\ ReaperFairness

-----------------------------------------------------------------------------
(* Safety. *)

\* A target that kills whatever picks it up does not cycle through the fleet
\* for ever: no job is handed out more than job_max_attempts times, and a job
\* on the queue always has a hand-out left (claim_job, reap_expired_leases).
AttemptsBounded ==
    \A j \in Jobs :
        /\ job[j].attempts <= MaxAttempts
        /\ job[j].status = QUEUED => job[j].attempts < MaxAttempts

\* A straggler publishes nothing: whatever complete_job publishes comes from the
\* agent that holds the job and, unless that agent is too old to say, from the
\* scan of the attempt the job is on when the fenced write commits.
OnlyTheCurrentAttemptPublishes ==
    [][\A p \in pubs' \ pubs :
          /\ p.agent = job[p.job].assigned_agent_id
          /\ p.agent \notin Legacy => p.scanned = job[p.job].attempts]_vars

\* However many copies of however many attempts' results arrive, and whenever
\* their replicas die, one job has at most one published run (complete_job).
OnePublicationPerJob ==
    \A p, q \in pubs : p.job = q.job => p = q

\* Deciding and owing become true together: a job that succeeded has the
\* publication of the archive it succeeded with, wherever a replica died
\* (complete_job, update_job).
SuccessOwesItsRun ==
    \A j \in Jobs : job[j].status = SUCCEEDED => \E p \in pubs : p.job = j /\ ~p.late

\* A heartbeat that read the job while it was claimed and writes its promotion now.
LateBeat(j) ==
    \E a \in Agents : beat[a].job = j /\ beat[a].promote /\ MarkRunningWrite(a)

\* What was decided of a job stands: no retry, sweep, stop, late archive, release or
\* fresh heartbeat changes how a finished job ended or puts a stopping one back to
\* work.  Nothing but a promotion that was read before the decision does, and it
\* leaves the exit code (mark_running, update_job, complete_job, cancel_job).
DecisionStands ==
    [][\A j \in Jobs :
          /\ Terminal(j) =>
                /\ job'[j].exit_code = job[j].exit_code
                /\ job'[j].status = job[j].status \/ LateBeat(j)
          /\ job[j].status = CANCELLING =>
                job'[j].status \in TERMINAL \cup {CANCELLING} \/ LateBeat(j)]_vars

\* A job has a deadline exactly while an executor holds it.  Without one the
\* reaper's query would never see the job; with one left over it would sweep a
\* job that is stopping or finished.
LeaseIffInFlight ==
    \A j \in Jobs : job[j].claimed_until # NULL <=> InFlight(j)

\* The window an ingest reserved is never shortened under it: while its marker
\* is young the lease reaper stays out, whatever beats arrive (extend_lease).
IngestWindowKept ==
    \A j \in Jobs :
        InFlight(j) /\ job[j].ingest_token # 0 =>
            job[j].claimed_until >= job[j].ingest_started_at

\* The tenant's ceiling holds across claims, requeues, stops and sweeps (hold_slot).
ConcurrencyCeiling == Cardinality(Occupying) <= MaxScans

-----------------------------------------------------------------------------
(* What comments and documents say and the code does not keep. *)

\* "once it is terminal the key is the record of what produced that outcome,
\* not a reservation" (_release_results_reservation): a key on a finished job
\* names an upload that was recorded, or a late one that was or is being kept.
KeyRecordsTheOutcome ==
    \A j \in Jobs :
        Terminal(j) /\ job[j].results_key # NoKey =>
            \/ job[j].exit_code # NULL
            \/ \E p \in pubs : p.job = j
            \/ \E h \in ingest : h.job = j /\ h.late

\* "Any other state is left alone ... a heartbeat arriving after the results upload must
\* not resurrect a finished job" (mark_running): the state is the one it has read, and
\* with Overlap the job has finished since.
OutcomeIsFinal ==
    [][\A j \in Jobs : Terminal(j) =>
          /\ job'[j].status = job[j].status
          /\ job'[j].exit_code = job[j].exit_code]_vars

-----------------------------------------------------------------------------
(* Liveness. *)

\* No job is lost: every one is finished and stays finished, though workers and
\* replicas die, uploads and beats are lost and leases lapse under live scans
\* (reap_expired_leases; reap_stale_cancellations for the stops nobody confirms).
JobsSettle == WorkerFairness => \A j \in Jobs : <>[]Terminal(j)

-----------------------------------------------------------------------------
(* Refinement. *)

\* The lifecycle seen from outside: three working states are one.
AbstractOutcome ==
    [j \in Jobs |-> CASE job[j].status = CANCELLING -> "stopping"
                      [] Terminal(j) -> job[j].status
                      [] OTHER -> "open"]

AbstractRuns ==
    {[job |-> p.job, agent |-> p.agent,
      handout |-> IF p.agent \in Legacy THEN job[p.job].attempts ELSE p.scanned] :
        p \in pubs}

Promise == INSTANCE JobOutcome WITH
    outcome <- AbstractOutcome,
    holder <- [j \in Jobs |-> job[j].assigned_agent_id],
    handouts <- [j \in Jobs |-> job[j].attempts],
    runs <- AbstractRuns

\* The queue keeps the promise of JobOutcome: every step of the leases, ingests,
\* heartbeats and sweeps is one of its steps or changes nothing it can see.
KeepsItsPromise == Promise!Spec
=============================================================================
