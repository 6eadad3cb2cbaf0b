--------------------------- MODULE JobQueueProofs ---------------------------
(* Theorems about JobQueue for every set of jobs and agents and every       *)
(* setting of the leases, the attempts, the ceiling and the bounds.         *)
EXTENDS JobQueue, FiniteSetTheorems, TLAPS

-----------------------------------------------------------------------------
(* Type correctness. *)

\* What the helpers on rows return (extend_lease, open_ingest_lease, update_job,
\* release_ingest_lease and the heartbeat's write).
LEMMA RowHelpersType ==
    ASSUME NEW row \in Rows
    PROVE  /\ clear_ingest(row) \in Rows
           /\ \A d \in Timer : extend_lease(row, d) \in Rows
           /\ \A t \in Nat : open_ingest_lease(row, t) \in Rows
           /\ \A s \in Statuses, e \in ExitCodes, k \in Keys : Closed(row, s, e, k) \in Rows
           /\ Released(row) \in Rows
           /\ Beaten(row) \in Rows
           /\ Aged(row) \in Rows
  <1> USE QueueAssumption DEF Rows, Timer, NULL
  <1>1. clear_ingest(row) \in Rows
    BY DEF clear_ingest
  <1>2. ASSUME NEW r \in Rows, NEW d \in Timer
        PROVE  extend_lease(r, d) \in Rows
    BY DEF extend_lease
  <1>3. ASSUME NEW t \in Nat
        PROVE  open_ingest_lease(row, t) \in Rows
    <2> DEFINE marked == [row EXCEPT !.ingest_token = t, !.ingest_started_at = IngestLease]
    <2>1. marked \in Rows
      OBVIOUS
    <2>2. extend_lease(marked, IngestLease) \in Rows
      BY <2>1, <1>2
    <2> QED
      BY <2>1, <2>2 DEF open_ingest_lease
  <1>4. ASSUME NEW s \in Statuses, NEW e \in ExitCodes, NEW k \in Keys
        PROVE  Closed(row, s, e, k) \in Rows
    BY <1>1 DEF Closed
  <1>5. Released(row) \in Rows
    BY <1>1 DEF Released
  <1>6. Beaten(row) \in Rows
    <2>1. extend_lease(row, Lease) \in Rows
      BY <1>2
    <2> QED
      BY <2>1 DEF Beaten, Statuses, RUNNING
  <1>7. Aged(row) \in Rows
    <2>1. ASSUME NEW t \in Timer
          PROVE  Down(t) \in Timer
      BY DEF Down
    <2> QED
      BY <2>1 DEF Aged
  <1> QED
    BY <1>1, <1>2, <1>3, <1>4, <1>5, <1>6, <1>7

\* Every step of the workers keeps the types (ClaimJob to LoseBeat).
LEMMA TypeAgentStep ==
    ASSUME TypeOK, NEW a \in Agents, AgentStep(a)
    PROVE  TypeOK'
  <1> USE QueueAssumption DEF TypeOK
  <1>a. /\ scan[a] \in BusyWorkers \cup {Idle}
        /\ scan[a].phase # "idle" => scan[a] \in BusyWorkers
    BY DEF Idle
  <1>b. /\ beat[a] \in Beats \cup {NoBeat}
        /\ beat[a].stage # "none" => beat[a] \in Beats
    BY DEF NoBeat
  <1>1. ASSUME NEW j \in Jobs, ClaimJob(a, j)
        PROVE  TypeOK'
    <2>1. job' \in [Jobs -> Rows]
      BY <1>1 DEF ClaimJob, Rows, Timer, Statuses
    <2>2. scan' \in [Agents -> BusyWorkers \cup {Idle}]
      <3> DEFINE w == [Idle EXCEPT !.phase = "scanning", !.job = j,
                                   !.attempt = job[j].attempts + 1]
      <3>1. job[j].attempts + 1 \in Nat \ {0}
        BY DEF Rows
      <3>2. w \in BusyWorkers
        BY <3>1 DEF BusyWorkers, Idle, ExitCodes
      <3> QED
        BY <1>1, <3>2 DEF ClaimJob
    <2> QED
      BY <1>1, <2>1, <2>2 DEF ClaimJob
  <1>2. CASE FinishScan(a)
    <2>1. scan[a] \in BusyWorkers
      BY <1>2, <1>a DEF FinishScan
    <2>2. PICK r \in Results(scan[a].stop) :
             scan' = [scan EXCEPT ![a].phase = "uploading", ![a].exit = r.exit,
                                  ![a].cancelled = r.cancelled, ![a].archive = r.archive]
      BY <1>2 DEF FinishScan
    <2>3. r.exit \in ExitCodes /\ r.cancelled \in BOOLEAN /\ r.archive \in BOOLEAN
      <3>1. scan[a].stop \in BOOLEAN
        BY <2>1 DEF BusyWorkers
      <3>2. \/ r = [exit |-> 0, cancelled |-> FALSE, archive |-> TRUE]
            \/ r = [exit |-> 1, cancelled |-> scan[a].stop, archive |-> FALSE]
            \/ r = [exit |-> 1, cancelled |-> TRUE, archive |-> TRUE]
        BY Zenon DEF Results
      <3>3. r.exit \in ExitCodes
        BY <3>2 DEF ExitCodes
      <3>4. r.cancelled \in BOOLEAN /\ r.archive \in BOOLEAN
        <4>1. CASE r = [exit |-> 0, cancelled |-> FALSE, archive |-> TRUE]
          BY <4>1
        <4>2. CASE r = [exit |-> 1, cancelled |-> scan[a].stop, archive |-> FALSE]
          BY <4>2, <3>1
        <4>3. CASE r = [exit |-> 1, cancelled |-> TRUE, archive |-> TRUE]
          BY <4>3
        <4> QED
          BY <3>2, <4>1, <4>2, <4>3
      <3> QED
        BY <3>3, <3>4
    <2>4. [scan[a] EXCEPT !.phase = "uploading", !.exit = r.exit,
                          !.cancelled = r.cancelled, !.archive = r.archive] \in BusyWorkers
      BY <2>1, <2>3 DEF BusyWorkers
    <2> QED
      BY <1>2, <2>2, <2>4 DEF FinishScan
  <1>3. CASE SendResult(a)
    <2>1. scan[a] \in BusyWorkers
      BY <1>3, <1>a DEF SendResult
    <2>2. KeyOf(a, scan[a].exit) \in Keys
      BY <2>1 DEF KeyOf, Keys, NoKey, BusyWorkers
    <2>3. Upload(a, scan[a].sends + 1) \in Uploads
      BY <2>1, <2>2 DEF Upload, Uploads, BusyWorkers
    <2>4. [scan[a] EXCEPT !.sends = @ + 1] \in BusyWorkers
      BY <2>1 DEF BusyWorkers
    <2> QED
      BY <1>3, <2>3, <2>4 DEF SendResult
  <1>4. CASE GiveUp(a)
    BY <1>4 DEF GiveUp
  <1>5. CASE CrashAgent(a)
    BY <1>5 DEF CrashAgent
  <1>6. CASE SendBeat(a)
    <2>1. scan[a] \in BusyWorkers
      BY <1>6, <1>a DEF SendBeat
    <2>2. [NoBeat EXCEPT !.stage = "sent", !.job = scan[a].job] \in Beats
      BY <2>1 DEF Beats, NoBeat, BusyWorkers, Timer
    <2> QED
      BY <1>6, <2>2 DEF SendBeat
  <1>7. CASE MarkRunning(a)
    <2> DEFINE j == beat[a].job
    <2>1. j \in Jobs
      BY <1>7, <1>b DEF MarkRunning, Beats
    <2>2. Beaten(job[j]) \in Rows
      BY <2>1, RowHelpersType
    <2>3. job' \in [Jobs -> Rows]
      BY <1>7, <2>1, <2>2 DEF MarkRunning
    <2>4. scan' \in [Agents -> BusyWorkers \cup {Idle}]
      <3>1. CASE scan' = scan
        BY <3>1
      <3>2. CASE scan[a].phase = "scanning"
        <4>1. scan[a] \in BusyWorkers
          BY <3>2, <1>a
        <4>2. ASSUME NEW heard \in BOOLEAN
              PROVE  [scan[a] EXCEPT !.stop = @ \/ heard] \in BusyWorkers
          BY <4>1 DEF BusyWorkers
        <4> QED
          BY <1>7, <4>2 DEF MarkRunning, StopAnswer
      <3> QED
        BY <1>7, <3>1, <3>2 DEF MarkRunning, StopAnswer
    <2> QED
      BY <1>7, <2>3, <2>4 DEF MarkRunning
  <1>8. CASE MarkRunningRead(a)
    <2>1. beat[a] \in Beats
      BY <1>8, <1>b DEF MarkRunningRead
    <2>2. ASSUME NEW p \in BOOLEAN, NEW t \in Timer
          PROVE  [stage |-> "read", job |-> beat[a].job, promote |-> p, lease |-> t] \in Beats
      BY <1>8, <2>1 DEF Beats, MarkRunningRead
    <2>3. Lease \in Timer /\ NULL \in Timer
      BY DEF Timer
    <2> QED
      BY <1>8, <2>2, <2>3 DEF MarkRunningRead
  <1>9. CASE MarkRunningWrite(a)
    <2>1. beat[a] \in Beats
      BY <1>9, <1>b DEF MarkRunningWrite
    <2>2. job' \in [Jobs -> Rows]
      BY <1>9, <2>1 DEF MarkRunningWrite, Beats, Rows, Statuses
    <2> QED
      BY <1>9, <2>2 DEF MarkRunningWrite
  <1>10. CASE LoseBeat(a)
    BY <1>10 DEF LoseBeat
  <1> QED
    BY <1>1, <1>2, <1>3, <1>4, <1>5, <1>6, <1>7, <1>8, <1>9, <1>10 DEF AgentStep

\* Every step of an upload on its way keeps the types.
LEMMA TypeUploadStep ==
    ASSUME TypeOK, NEW m \in net, UploadStep(m)
    PROVE  TypeOK'
  <1> USE QueueAssumption DEF TypeOK
  <1>a. m \in Uploads /\ m.job \in Jobs /\ m.agent \in Agents /\ job[m.job] \in Rows
    BY DEF Uploads
  <1>1. CASE LoseUpload(m)
    BY <1>1 DEF LoseUpload
  <1>2. CASE OpenIngest(m)
    <2> DEFINE late == AcceptsLateArchive(m)
               held == Held(m.key, late)
               row == job[m.job]
               reserved == IF held = NoKey THEN row ELSE [row EXCEPT !.results_key = held]
               h == [token |-> tokens + 1, job |-> m.job, agent |-> m.agent,
                     attempt |-> row.attempts, scanned |-> m.scanned, status |-> Outcome(m),
                     exit |-> m.exit, archive |-> m.archive, key |-> m.key, late |-> late,
                     phase |-> "ingesting"]
    <2>1. held \in Keys
      BY <1>a DEF Held, Keys, Uploads, LATE_ARCHIVE_RESERVATION, ExitCodes
    <2>2. reserved \in Rows
      BY <1>a, <2>1 DEF Rows
    <2>3. open_ingest_lease(reserved, tokens + 1) \in Rows
      <3> HIDE DEF reserved
      <3>1. tokens + 1 \in Nat
        OBVIOUS
      <3> QED
        BY <2>2, <3>1, RowHelpersType
    <2>4. Outcome(m) \in TERMINAL
      BY DEF Outcome, TERMINAL
    <2>5. late \in BOOLEAN
      BY DEF AcceptsLateArchive
    <2>6. h \in Handlers
      BY <1>a, <2>4, <2>5 DEF Handlers, Uploads, Rows
    <2>7. /\ job' = [job EXCEPT ![m.job] = open_ingest_lease(reserved, tokens + 1)]
          /\ ingest' = ingest \cup {h}
          /\ tokens' = tokens + 1
          /\ net' = net \ {m}
          /\ UNCHANGED <<scan, beat, pubs>>
      BY <1>2 DEF OpenIngest
    <2> HIDE DEF h, reserved, late
    <2> QED
      BY <1>a, <2>3, <2>6, <2>7
  <1>3. CASE AnswerUpload(m)
    BY <1>3, <1>a DEF AnswerUpload, Answered
  <1> QED
    BY <1>1, <1>2, <1>3 DEF UploadStep

\* Every step of an ingest keeps the types.
LEMMA TypeIngestStep ==
    ASSUME TypeOK, NEW h \in ingest, IngestStep(h)
    PROVE  TypeOK'
  <1> USE QueueAssumption DEF TypeOK
  <1>a. h \in Handlers /\ h.job \in Jobs /\ h.agent \in Agents /\ job[h.job] \in Rows
    BY DEF Handlers
  <1>b. ASSUME NEW ph \in {"releaseKey", "releaseLease"}
        PROVE  ToPhase(h, ph) \subseteq Handlers
    BY <1>a DEF ToPhase, Handlers
  <1>c. PublicationOf(h) \in Publications
    BY <1>a DEF PublicationOf, Handlers, Publications
  <1>d. Answered(h.agent, h.job) => scan' \in [Agents -> BusyWorkers \cup {Idle}]
    BY DEF Answered
  <1>1. CASE RecordOutcome(h)
    <2>1. Closed(job[h.job], h.status, h.exit, h.key) \in Rows
      BY <1>a, RowHelpersType DEF Handlers, TERMINAL, Statuses
    <2> QED
      BY <1>1, <1>a, <1>c, <1>d, <2>1 DEF RecordOutcome, Recorded
  <1>2. CASE RecordLateArchive(h)
    <2>1. clear_ingest(job[h.job]) \in Rows
      BY <1>a, RowHelpersType
    <2> QED
      BY <1>2, <1>a, <1>c, <1>d, <2>1 DEF RecordLateArchive
  <1>3. CASE RejectArchive(h)
    <2>1. RejectedStatus(h) \in Statuses /\ 1 \in ExitCodes /\ h.key \in Keys
      BY <1>a DEF RejectedStatus, Handlers, TERMINAL, Statuses, ExitCodes
    <2>2. Closed(job[h.job], RejectedStatus(h), 1, h.key) \in Rows
      BY <1>a, <2>1, RowHelpersType
    <2> QED
      BY <1>3, <1>a, <1>b, <2>2 DEF RejectArchive
  <1>4. CASE FailIngest(h)
    BY <1>4, <1>b DEF FailIngest
  <1>5. CASE ReleaseKey(h)
    <2>1. [job[h.job] EXCEPT !.results_key = NoKey] \in Rows
      BY <1>a DEF Rows, Keys, NoKey
    <2> QED
      BY <1>5, <1>a, <1>b, <2>1 DEF ReleaseKey
  <1>6. CASE ReleaseLease(h)
    <2>1. Released(job[h.job]) \in Rows
      BY <1>a, RowHelpersType
    <2> QED
      BY <1>6, <1>a, <1>d, <2>1 DEF ReleaseLease
  <1>7. CASE CrashIngest(h)
    BY <1>7 DEF CrashIngest
  <1> QED
    BY <1>1, <1>2, <1>3, <1>4, <1>5, <1>6, <1>7 DEF IngestStep

\* Every step on a row by an operator or a sweep keeps the types.
LEMMA TypeRowStep ==
    ASSUME TypeOK, NEW j \in Jobs, RowStep(j)
    PROVE  TypeOK'
  <1> USE QueueAssumption DEF TypeOK
  <1>a. clear_ingest(job[j]) \in Rows
    BY RowHelpersType
  <1>1. CASE CancelJob(j)
    <2>1. job' \in [Jobs -> Rows]
      BY <1>1, <1>a DEF CancelJob, Rows, Timer, Statuses
    <2> QED
      BY <1>1, <2>1 DEF CancelJob
  <1>2. CASE ReapExpiredLease(j)
    <2>1. ASSUME NEW r \in Rows
          PROVE  /\ [r EXCEPT !.status = QUEUED, !.assigned_agent_id = NoAgent,
                              !.claimed_until = NULL] \in Rows
                 /\ [r EXCEPT !.status = FAILED, !.finished_at = CancelGrace,
                              !.claimed_until = NULL] \in Rows
      BY DEF Rows, Timer, Statuses
    <2> QED
      BY <1>2, <1>a, <2>1 DEF ReapExpiredLease
  <1>3. CASE ReapStaleCancellation(j)
    <2>1. ASSUME NEW r \in Rows
          PROVE  [r EXCEPT !.status = CANCELLED, !.finished_at = CancelGrace,
                           !.claimed_until = NULL] \in Rows
      BY DEF Rows, Timer, Statuses
    <2> QED
      BY <1>3, <2>1 DEF ReapStaleCancellation
  <1> QED
    BY <1>1, <1>2, <1>3 DEF RowStep

\* The clock keeps the types.
LEMMA TypeTick ==
    ASSUME TypeOK, Tick
    PROVE  TypeOK'
  <1> USE DEF TypeOK
  <1>1. \A j \in Jobs : Aged(job[j]) \in Rows
    BY RowHelpersType
  <1>2. ASSUME NEW a \in Agents, beat[a].lease > 0
        PROVE  [beat[a] EXCEPT !.lease = @ - 1] \in Beats
    <2>1. beat[a] \in Beats
      BY <1>2 DEF NoBeat, NULL
    <2>2. beat[a].lease - 1 \in Timer
      BY <1>2, <2>1 DEF Beats, Timer, NULL
    <2> QED
      BY <2>1, <2>2 DEF Beats
  <1> QED
    BY <1>1, <1>2 DEF Tick

\* Type correctness of the whole specification.
THEOREM TypeCorrect == Spec => []TypeOK
  <1>1. Init => TypeOK
    BY QueueAssumption DEF Init, TypeOK, Rows, NewRow, Timer, Statuses, Keys, NoKey
  <1>2. TypeOK /\ [Next]_vars => TypeOK'
    <2> SUFFICES ASSUME TypeOK, [Next]_vars
                 PROVE  TypeOK'
      OBVIOUS
    <2>1. CASE UNCHANGED vars
      BY <2>1 DEF vars, TypeOK
    <2>2. CASE Next
      BY <2>2, TypeAgentStep, TypeUploadStep, TypeIngestStep, TypeRowStep, TypeTick DEF Next
    <2> QED
      BY <2>1, <2>2
  <1> QED
    BY <1>1, <1>2, PTL DEF Spec

-----------------------------------------------------------------------------
(* What a step may do to one row.  Every fact below about rows alone is a   *)
(* fact about these relations, so the actions are taken apart only once.    *)

ClaimMove(r, s) ==
    /\ r.status = QUEUED
    /\ r.assigned_agent_id = NoAgent
    /\ \E a \in Agents :
          s = [r EXCEPT !.status = CLAIMED, !.assigned_agent_id = a,
                        !.claimed_until = Lease, !.attempts = @ + 1]

BeatMove(r, s) == r.status \in IN_FLIGHT /\ s = Beaten(r)

OverlapMove(r, s) ==
    /\ Overlap
    /\ \E p \in BOOLEAN, t \in Timer :
          s = [r EXCEPT !.status = IF p THEN RUNNING ELSE @,
                        !.claimed_until = IF t # NULL THEN t ELSE @]

CancelMove(r, s) ==
    /\ CanTransition(r.status, CANCELLED)
    /\ s = [r EXCEPT !.status = CANCELLED, !.finished_at = CancelGrace,
                     !.claimed_until = NULL]

StopMove(r, s) ==
    /\ r.status \in IN_FLIGHT
    /\ s = [r EXCEPT !.status = CANCELLING, !.cancel_requested_at = CancelGrace,
                     !.claimed_until = NULL]

RequeueMove(r, s) ==
    /\ r.status \in IN_FLIGHT
    /\ r.attempts < MaxAttempts
    /\ s = [clear_ingest(r) EXCEPT !.status = QUEUED, !.assigned_agent_id = NoAgent,
                                   !.claimed_until = NULL]

WriteOffMove(r, s) ==
    /\ r.status \in IN_FLIGHT
    /\ s = [clear_ingest(r) EXCEPT !.status = FAILED, !.finished_at = CancelGrace,
                                   !.claimed_until = NULL]

\* The workers, the operator, the sweeps and the clock, deciding on the row they
\* write.  They leave the results key and the exit code alone.
LockedMove(r, s) ==
    \/ s = r
    \/ ClaimMove(r, s)
    \/ BeatMove(r, s)
    \/ CancelMove(r, s)
    \/ StopMove(r, s)
    \/ s = clear_ingest(r)
    \/ RequeueMove(r, s)
    \/ WriteOffMove(r, s)
    \/ s = Aged(r)

\* The same, and the heartbeat that decided on the row it had read.
SweepMove(r, s) == LockedMove(r, s) \/ OverlapMove(r, s)

OpenMove(r, s) ==
    /\ r.assigned_agent_id \in Agents
    /\ \E q \in Rows, k \in Keys, t \in Nat \ {0} :
          /\ q = [r EXCEPT !.results_key = k]
          /\ s = open_ingest_lease(q, t)

CloseMove(r, s) ==
    \E st \in TERMINAL, e \in ExitCodes, k \in Keys :
        CanTransition(r.status, st) /\ s = Closed(r, st, e, k)

\* complete_job.
ResultMove(r, s) ==
    \/ OpenMove(r, s)
    \/ CloseMove(r, s)
    \/ s = clear_ingest(r)
    \/ s = [r EXCEPT !.results_key = NoKey]
    \/ s = Released(r)

\* The workers' steps move every row by SweepMove (claim_job, mark_running).
LEMMA AgentMoves ==
    ASSUME TypeOK, NEW a \in Agents, AgentStep(a), NEW k \in Jobs
    PROVE  /\ SweepMove(job[k], job'[k]) /\ UNCHANGED <<ingest, pubs, tokens>>
           /\ ~MarkRunningWrite(a) => LockedMove(job[k], job'[k])
  <1> USE DEF TypeOK
  <1>b. beat[a].stage # "none" => beat[a] \in Beats
    BY DEF NoBeat
  <1>1. ASSUME NEW j \in Jobs, ClaimJob(a, j)
        PROVE  LockedMove(job[k], job'[k]) /\ UNCHANGED <<ingest, pubs, tokens>>
    BY <1>1 DEF ClaimJob, LockedMove, ClaimMove
  <1>2. CASE MarkRunning(a)
    BY <1>2, <1>b DEF MarkRunning, Beatable, SweepMove, LockedMove, BeatMove, InFlight, Beats
  <1>3. CASE MarkRunningWrite(a)
    <2>1. /\ beat[a].promote \in BOOLEAN /\ beat[a].lease \in Timer
          /\ Overlap /\ beat[a].job \in Jobs
      BY <1>3, <1>b DEF MarkRunningWrite, Beats
    <2>2. CASE k = beat[a].job
      <3>1. job'[k] = [job[k] EXCEPT
                         !.status = IF beat[a].promote THEN RUNNING ELSE @,
                         !.claimed_until = IF beat[a].lease # NULL THEN beat[a].lease ELSE @]
        BY <1>3, <2>2 DEF MarkRunningWrite
      <3> QED
        BY <1>3, <2>1, <3>1 DEF SweepMove, OverlapMove, MarkRunningWrite
    <2>3. CASE k # beat[a].job
      BY <1>3, <2>3 DEF MarkRunningWrite, SweepMove, LockedMove
    <2> QED
      BY <2>2, <2>3
  <1>4. CASE \/ FinishScan(a) \/ SendResult(a) \/ GiveUp(a) \/ CrashAgent(a)
             \/ SendBeat(a) \/ MarkRunningRead(a) \/ LoseBeat(a)
    BY <1>4 DEF FinishScan, SendResult, GiveUp, CrashAgent, SendBeat,
                MarkRunningRead, LoseBeat, SweepMove, LockedMove
  <1> QED
    BY <1>1, <1>2, <1>3, <1>4 DEF AgentStep, SweepMove

\* The operator's and the sweeps' steps move every row by LockedMove (cancel_job,
\* reap_expired_leases, reap_stale_cancellations).
LEMMA RowMoves ==
    ASSUME TypeOK, NEW j \in Jobs, RowStep(j), NEW k \in Jobs
    PROVE  LockedMove(job[k], job'[k]) /\ UNCHANGED <<ingest, pubs, tokens>>
  <1> USE DEF TypeOK
  <1>1. CASE CancelJob(j)
    BY <1>1 DEF CancelJob, LockedMove, CancelMove, StopMove, InFlight
  <1>2. CASE ReapExpiredLease(j)
    <2>1. clear_ingest(job[j]).attempts = job[j].attempts
      BY DEF clear_ingest, Rows
    <2> QED
      BY <1>2, <2>1 DEF ReapExpiredLease, HandoutsLeft, LockedMove, RequeueMove, WriteOffMove,
                          InFlight
  <1>3. CASE ReapStaleCancellation(j)
    BY <1>3 DEF ReapStaleCancellation, LockedMove, CancelMove
  <1> QED
    BY <1>1, <1>2, <1>3 DEF RowStep

\* An upload's steps move every row by OpenMove or not at all (complete_job,
\* first transaction).
LEMMA UploadMoves ==
    ASSUME TypeOK, NEW m \in net, UploadStep(m), NEW k \in Jobs
    PROVE  job'[k] = job[k] \/ OpenMove(job[k], job'[k])
  <1> USE QueueAssumption DEF TypeOK
  <1>1. CASE OpenIngest(m) /\ k = m.job
    <2> DEFINE late == AcceptsLateArchive(m)
               held == Held(m.key, late)
               row == job[m.job]
               reserved == IF held = NoKey THEN row ELSE [row EXCEPT !.results_key = held]
    <2>1. m \in Uploads /\ row \in Rows
      BY <1>1
    <2>2. held \in Keys
      BY <2>1 DEF Held, Keys, Uploads, LATE_ARCHIVE_RESERVATION, ExitCodes
    <2>3. \E kk \in Keys : reserved = [row EXCEPT !.results_key = kk]
      <3>1. CASE held = NoKey
        <4>1. row.results_key \in Keys /\ row = [row EXCEPT !.results_key = row.results_key]
          BY <2>1 DEF Rows
        <4> QED
          BY <3>1, <4>1
      <3>2. CASE held # NoKey
        BY <3>2, <2>2
      <3> QED
        BY <3>1, <3>2
    <2>4. reserved \in Rows
      BY <2>1, <2>3 DEF Rows
    <2>5. row.assigned_agent_id \in Agents
      BY <1>1, <2>1 DEF OpenIngest, Admissible, Owned, Uploads
    <2>6. job'[k] = open_ingest_lease(reserved, tokens + 1) /\ tokens + 1 \in Nat \ {0}
      BY <1>1, <2>1 DEF OpenIngest
    <2> HIDE DEF reserved
    <2> QED
      BY <1>1, <2>3, <2>4, <2>5, <2>6 DEF OpenMove
  <1>2. CASE OpenIngest(m) /\ k # m.job
    BY <1>2 DEF OpenIngest
  <1>3. CASE LoseUpload(m) \/ AnswerUpload(m)
    BY <1>3 DEF LoseUpload, AnswerUpload
  <1> QED
    BY <1>1, <1>2, <1>3 DEF UploadStep

\* An ingest's steps move every row by ResultMove or not at all (complete_job
\* after its first transaction).
LEMMA IngestMoves ==
    ASSUME TypeOK, NEW h \in ingest, IngestStep(h), NEW k \in Jobs
    PROVE  job'[k] = job[k] \/ ResultMove(job[k], job'[k])
  <1> USE DEF TypeOK
  <1>a. h.job \in Jobs /\ h.status \in TERMINAL /\ h.exit \in ExitCodes /\ h.key \in Keys
    BY DEF Handlers
  <1>1. CASE RecordOutcome(h)
    BY <1>1, <1>a DEF RecordOutcome, ResultMove, CloseMove
  <1>2. CASE RecordLateArchive(h)
    BY <1>2, <1>a DEF RecordLateArchive, ResultMove
  <1>3. CASE RejectArchive(h)
    <2>1. RejectedStatus(h) \in TERMINAL /\ 1 \in ExitCodes
      BY <1>a DEF RejectedStatus, TERMINAL, ExitCodes
    <2> QED
      BY <1>3, <1>a, <2>1 DEF RejectArchive, ResultMove, CloseMove
  <1>4. CASE ReleaseKey(h)
    BY <1>4, <1>a DEF ReleaseKey, ResultMove
  <1>5. CASE ReleaseLease(h)
    BY <1>5, <1>a DEF ReleaseLease, ResultMove
  <1>6. CASE FailIngest(h) \/ CrashIngest(h)
    BY <1>6 DEF FailIngest, CrashIngest
  <1> QED
    BY <1>1, <1>2, <1>3, <1>4, <1>5, <1>6 DEF IngestStep

\* The clock ages every row.
LEMMA TickMoves ==
    ASSUME TypeOK, Tick, NEW k \in Jobs
    PROVE  LockedMove(job[k], job'[k]) /\ UNCHANGED <<ingest, pubs, tokens>>
  BY DEF Tick, LockedMove, TypeOK

\* So does every step of the specification.
LEMMA EveryMove ==
    ASSUME TypeOK, [Next]_vars, NEW k \in Jobs
    PROVE  /\ SweepMove(job[k], job'[k]) \/ ResultMove(job[k], job'[k])
           /\ \/ LockedMove(job[k], job'[k]) \/ ResultMove(job[k], job'[k])
              \/ \E a \in Agents : MarkRunningWrite(a)
  <1>1. CASE UNCHANGED vars
    BY <1>1 DEF vars, SweepMove, LockedMove
  <1>2. CASE Next
    <2>1. /\ job'[k] = job[k] => LockedMove(job[k], job'[k])
          /\ LockedMove(job[k], job'[k]) => SweepMove(job[k], job'[k])
          /\ OpenMove(job[k], job'[k]) => ResultMove(job[k], job'[k])
      BY DEF SweepMove, LockedMove, ResultMove
    <2> QED
      BY <1>2, <2>1, AgentMoves, RowMoves, UploadMoves, IngestMoves, TickMoves DEF Next
  <1> QED
    BY <1>1, <1>2

-----------------------------------------------------------------------------
(* Facts about single rows. *)

\* The hand-outs of one row, of AttemptsBounded.
AttemptsOK(r) == r.attempts <= MaxAttempts /\ (r.status = QUEUED => r.attempts < MaxAttempts)

\* No move breaks them: only the reaper puts a row on the queue, and only with a
\* hand-out left.
LEMMA AttemptsMove ==
    ASSUME NEW r \in Rows, NEW s, AttemptsOK(r), SweepMove(r, s) \/ ResultMove(r, s)
    PROVE  AttemptsOK(s)
  <1> USE QueueAssumption
      DEF AttemptsOK, Rows, QUEUED, CLAIMED, RUNNING, SUCCEEDED, FAILED, CANCELLED,
          CANCELLING, IN_FLIGHT, TERMINAL
  <1>1. CASE s = r
    BY <1>1
  <1>2. CASE ClaimMove(r, s)
    BY <1>2 DEF ClaimMove
  <1>3. CASE BeatMove(r, s)
    BY <1>3 DEF BeatMove, Beaten, extend_lease
  <1>4. CASE OverlapMove(r, s)
    BY <1>4 DEF OverlapMove
  <1>5. CASE CancelMove(r, s) \/ StopMove(r, s)
    BY <1>5 DEF CancelMove, StopMove
  <1>6. CASE s = clear_ingest(r)
    BY <1>6 DEF clear_ingest
  <1>7. CASE RequeueMove(r, s)
    BY <1>7 DEF RequeueMove, clear_ingest
  <1>8. CASE WriteOffMove(r, s)
    BY <1>8 DEF WriteOffMove, clear_ingest
  <1>9. CASE s = Aged(r)
    BY <1>9 DEF Aged
  <1>10. CASE OpenMove(r, s)
    BY <1>10 DEF OpenMove, open_ingest_lease, extend_lease
  <1>11. CASE CloseMove(r, s)
    BY <1>11 DEF CloseMove, Closed, clear_ingest
  <1>12. CASE s = [r EXCEPT !.results_key = NoKey]
    BY <1>12
  <1>13. CASE s = Released(r)
    BY <1>13 DEF Released, clear_ingest
  <1> QED
    BY <1>1, <1>2, <1>3, <1>4, <1>5, <1>6, <1>7, <1>8, <1>9, <1>10, <1>11, <1>12, <1>13
    DEF SweepMove, LockedMove, ResultMove

\* No job is handed out more often than job_max_attempts allows, whatever
\* overlaps what.
THEOREM AttemptsAreBounded == Spec => []AttemptsBounded
  <1>1. Init => AttemptsBounded
    BY QueueAssumption DEF Init, AttemptsBounded, NewRow
  <1>2. TypeOK /\ AttemptsBounded /\ [Next]_vars => AttemptsBounded'
    <2> SUFFICES ASSUME TypeOK, AttemptsBounded, [Next]_vars, NEW j \in Jobs
                 PROVE  AttemptsOK(job'[j])
      BY DEF AttemptsBounded, AttemptsOK
    <2>1. job[j] \in Rows /\ AttemptsOK(job[j])
      BY DEF TypeOK, AttemptsBounded, AttemptsOK
    <2> QED
      BY <2>1, EveryMove, AttemptsMove
  <1> QED
    BY <1>1, <1>2, TypeCorrect, PTL DEF Spec

\* The inductive invariant of one row while heartbeats do not overlap other
\* transactions.  A queued row has no owner and no open ingest: without that a
\* claim could inherit a marker, and with it a window it does not cover.
RowInv(r) ==
    /\ r.status = QUEUED => r.assigned_agent_id = NoAgent /\ r.ingest_token = 0
    /\ r.claimed_until # NULL <=> r.status \in IN_FLIGHT
    /\ r.cancel_requested_at # NULL => r.status \in TERMINAL \cup {CANCELLING}
    /\ r.status \in IN_FLIGHT /\ r.ingest_token # 0 =>
          r.claimed_until >= r.ingest_started_at
    /\ r.exit_code # NULL => r.status \in TERMINAL

\* The sweeps' side of its preservation.
LEMMA RowInvSweep ==
    ASSUME ~Overlap, NEW r \in Rows, NEW s, RowInv(r), SweepMove(r, s)
    PROVE  RowInv(s)
  <1> USE QueueAssumption
      DEF RowInv, Rows, Timer, NULL, QUEUED, CLAIMED, RUNNING, SUCCEEDED, FAILED,
          CANCELLED, CANCELLING, IN_FLIGHT, TERMINAL
  <1>1. CASE s = r
    BY <1>1
  <1>2. CASE ClaimMove(r, s)
    BY <1>2 DEF ClaimMove
  <1>3. CASE BeatMove(r, s)
    BY <1>3 DEF BeatMove, Beaten, extend_lease
  <1>4. CASE OverlapMove(r, s)
    BY <1>4 DEF OverlapMove
  <1>5. CASE CancelMove(r, s)
    BY <1>5 DEF CancelMove
  <1>6. CASE StopMove(r, s)
    BY <1>6 DEF StopMove
  <1>7. CASE s = clear_ingest(r)
    BY <1>7 DEF clear_ingest
  <1>8. CASE RequeueMove(r, s)
    BY <1>8 DEF RequeueMove, clear_ingest
  <1>9. CASE WriteOffMove(r, s)
    BY <1>9 DEF WriteOffMove, clear_ingest
  <1>10. CASE s = Aged(r)
    BY <1>10 DEF Aged, Down
  <1> QED
    BY <1>1, <1>2, <1>3, <1>4, <1>5, <1>6, <1>7, <1>8, <1>9, <1>10 DEF SweepMove, LockedMove

\* complete_job's side of its preservation.
LEMMA RowInvResult ==
    ASSUME NEW r \in Rows, NEW s, RowInv(r), ResultMove(r, s)
    PROVE  RowInv(s)
  <1> USE QueueAssumption
      DEF RowInv, Rows, Timer, NULL, QUEUED, CLAIMED, RUNNING, SUCCEEDED, FAILED,
          CANCELLED, CANCELLING, IN_FLIGHT, TERMINAL
  <1>1. CASE OpenMove(r, s)
    BY <1>1 DEF OpenMove, open_ingest_lease, extend_lease
  <1>2. CASE CloseMove(r, s)
    BY <1>2 DEF CloseMove, Closed, clear_ingest
  <1>3. CASE s = clear_ingest(r)
    BY <1>3 DEF clear_ingest
  <1>4. CASE s = [r EXCEPT !.results_key = NoKey]
    BY <1>4
  <1>5. CASE s = Released(r)
    BY <1>5 DEF Released, clear_ingest
  <1> QED
    BY <1>1, <1>2, <1>3, <1>4, <1>5 DEF ResultMove

Inv == TypeOK /\ \A j \in Jobs : RowInv(job[j])

\* While no heartbeat overlaps another transaction, every row keeps its
\* invariant: an in-flight job has a deadline and no other has, a stopped scan
\* stays stopped, and the window of an ingest is never shortened.
LEMMA InvInductive == ~Overlap => (Spec => []Inv)
  <1> SUFFICES ASSUME ~Overlap
               PROVE  Spec => []Inv
    OBVIOUS
  <1>1. Init => \A j \in Jobs : RowInv(job[j])
    BY DEF Init, RowInv, NewRow, QUEUED, CLAIMED, RUNNING, IN_FLIGHT, NULL
  <1>2. Inv /\ [Next]_vars => \A j \in Jobs : RowInv(job'[j])
    <2> SUFFICES ASSUME Inv, [Next]_vars, NEW j \in Jobs
                 PROVE  RowInv(job'[j])
      OBVIOUS
    <2>1. TypeOK /\ job[j] \in Rows /\ RowInv(job[j])
      BY DEF Inv, TypeOK
    <2> QED
      BY <2>1, EveryMove, RowInvSweep, RowInvResult
  <1>3. TypeOK /\ TypeOK' /\ (\A j \in Jobs : RowInv(job[j])) /\ [Next]_vars
          => (\A j \in Jobs : RowInv(job[j]))'
    BY <1>2 DEF Inv
  <1> QED
    BY <1>1, <1>3, TypeCorrect, PTL DEF Spec, Inv

\* An in-flight job is always in the reaper's sight, and no other job is.
THEOREM LeaseExactlyInFlight == ~Overlap => (Spec => []LeaseIffInFlight)
  <1>1. Inv => LeaseIffInFlight
    BY DEF Inv, RowInv, LeaseIffInFlight, InFlight
  <1> QED
    BY <1>1, InvInductive, PTL

\* The lease reaper stays out of an ingest for the whole window it reserved.
THEOREM IngestIsShielded == ~Overlap => (Spec => []IngestWindowKept)
  <1>1. Inv => IngestWindowKept
    BY DEF Inv, RowInv, IngestWindowKept, InFlight
  <1> QED
    BY <1>1, InvInductive, PTL

-----------------------------------------------------------------------------
(* What was decided stands. *)

\* Whoever decides on the row he writes leaves a finished row's verdict and its key
\* alone, and ends a stopping one or lets it be.
LEMMA DecidedUnderLock ==
    ASSUME NEW r \in Rows, NEW s, LockedMove(r, s)
    PROVE  /\ r.status \in TERMINAL =>
                 /\ s.status = r.status
                 /\ s.exit_code = r.exit_code
                 /\ s.results_key = r.results_key
           /\ r.status = CANCELLING => s.status \in TERMINAL \cup {CANCELLING}
  <1> USE DEF Rows, QUEUED, CLAIMED, RUNNING, SUCCEEDED, FAILED, CANCELLED, CANCELLING,
              IN_FLIGHT, TERMINAL
  <1>1. r.status \in TERMINAL => ~CanTransition(r.status, CANCELLED)
    BY DEF CanTransition, TRANSITIONS, Statuses
  <1>2. CASE s = clear_ingest(r)
    BY <1>2 DEF clear_ingest
  <1>3. CASE s = Aged(r)
    BY <1>3 DEF Aged
  <1> QED
    BY <1>1, <1>2, <1>3
    DEF LockedMove, ClaimMove, BeatMove, CancelMove, StopMove, RequeueMove, WriteOffMove

\* Without overlapping heartbeats every sweep does.
LEMMA FinalUnderSweep ==
    ASSUME ~Overlap, NEW r \in Rows, NEW s, r.status \in TERMINAL, SweepMove(r, s)
    PROVE  /\ s.status = r.status
           /\ s.exit_code = r.exit_code
           /\ s.results_key = r.results_key
  BY DecidedUnderLock DEF SweepMove, OverlapMove

\* complete_job leaves a finished row's verdict alone, and ends a stopping one or lets
\* it be.
LEMMA FinalUnderResult ==
    ASSUME NEW r \in Rows, NEW s, ResultMove(r, s)
    PROVE  /\ r.status \in TERMINAL => s.status = r.status /\ s.exit_code = r.exit_code
           /\ r.status = CANCELLING => s.status \in TERMINAL \cup {CANCELLING}
  <1> USE DEF Rows, QUEUED, CLAIMED, RUNNING, SUCCEEDED, FAILED, CANCELLED, CANCELLING,
              IN_FLIGHT, TERMINAL
  <1>1. CASE CloseMove(r, s)
    <2>1. r.status \notin TERMINAL
      BY <1>1 DEF CloseMove, CanTransition, TRANSITIONS, Statuses
    <2>2. s.status \in TERMINAL
      BY <1>1 DEF CloseMove, Closed, clear_ingest
    <2> QED
      BY <2>1, <2>2
  <1>2. CASE OpenMove(r, s)
    BY <1>2 DEF OpenMove, open_ingest_lease, extend_lease
  <1>3. CASE s = clear_ingest(r) \/ s = Released(r)
    BY <1>3 DEF clear_ingest, Released
  <1> QED
    BY <1>1, <1>2, <1>3 DEF ResultMove

\* What was decided of a job stands against every step, heartbeats that overlap other
\* transactions included: only a promotion that was read before can undo it.
THEOREM OnlyALateBeatUndoes == Spec => DecisionStands
  <1>1. ASSUME TypeOK, [Next]_vars, NEW j \in Jobs
        PROVE  /\ Terminal(j) =>
                     /\ job'[j].exit_code = job[j].exit_code
                     /\ job'[j].status = job[j].status \/ LateBeat(j)
               /\ job[j].status = CANCELLING =>
                     job'[j].status \in TERMINAL \cup {CANCELLING} \/ LateBeat(j)
    <2>1. job[j] \in Rows /\ (Terminal(j) <=> job[j].status \in TERMINAL)
      BY <1>1 DEF TypeOK, Terminal
    <2>2. CASE LockedMove(job[j], job'[j]) \/ ResultMove(job[j], job'[j])
      BY <2>1, <2>2, DecidedUnderLock, FinalUnderResult
    <2>3. ASSUME NEW a \in Agents, MarkRunningWrite(a)
          PROVE  job'[j].exit_code = job[j].exit_code
                 /\ (job'[j].status = job[j].status \/ LateBeat(j))
      <3>1. CASE beat[a].job = j
        <4>1. job'[j] = [job[j] EXCEPT
                           !.status = IF beat[a].promote THEN RUNNING ELSE @,
                           !.claimed_until = IF beat[a].lease # NULL THEN beat[a].lease ELSE @]
          BY <1>1, <2>3, <3>1 DEF MarkRunningWrite, TypeOK
        <4>2. job'[j].exit_code = job[j].exit_code
              /\ (~beat[a].promote => job'[j].status = job[j].status)
          BY <2>1, <4>1 DEF Rows
        <4> QED
          BY <2>3, <3>1, <4>2 DEF LateBeat
      <3>2. CASE beat[a].job # j
        BY <1>1, <2>3, <3>2 DEF MarkRunningWrite, TypeOK
      <3> QED
        BY <3>1, <3>2
    <2> QED
      BY <1>1, <2>2, <2>3, EveryMove
  <1>2. TypeOK /\ [Next]_vars =>
          [\A j \in Jobs :
              /\ Terminal(j) =>
                    /\ job'[j].exit_code = job[j].exit_code
                    /\ job'[j].status = job[j].status \/ LateBeat(j)
              /\ job[j].status = CANCELLING =>
                    job'[j].status \in TERMINAL \cup {CANCELLING} \/ LateBeat(j)]_vars
    BY <1>1
  <1> QED
    BY <1>2, TypeCorrect, PTL DEF Spec, DecisionStands

-----------------------------------------------------------------------------
(* Where a published run comes from. *)

\* A modern agent's upload names the attempt whose scan it carries, an ingest is
\* fenced with that attempt, and a clean exit comes with its archive.
Provenance ==
    /\ \A a \in Agents : scan[a].phase = "uploading" /\ scan[a].exit = 0 => scan[a].archive
    /\ \A m \in net :
          /\ m.exit = 0 => m.archive
          /\ m.agent \notin Legacy => m.attempt = m.scanned /\ m.attempt # 0
    /\ \A h \in ingest :
          /\ h.status = SUCCEEDED => h.archive
          /\ h.agent \notin Legacy => h.scanned = h.attempt

\* The worker's steps keep it.
LEMMA ProvenanceAgent ==
    ASSUME TypeOK, Provenance, NEW a \in Agents, AgentStep(a)
    PROVE  Provenance'
  <1> USE DEF Provenance
  <1>a. scan \in [Agents -> BusyWorkers \cup {Idle}]
    BY DEF TypeOK
  <1>1. ASSUME NEW j \in Jobs, ClaimJob(a, j)
        PROVE  Provenance'
    BY <1>1, <1>a, ZenonT(40) DEF ClaimJob, Idle
  <1>2. CASE FinishScan(a)
    <2>1. PICK r \in Results(scan[a].stop) :
             scan' = [scan EXCEPT ![a].phase = "uploading", ![a].exit = r.exit,
                                  ![a].cancelled = r.cancelled, ![a].archive = r.archive]
      BY <1>2 DEF FinishScan
    <2>2. r.exit = 0 => r.archive
      BY DEF Results
    <2>3. scan[a] \in BusyWorkers
      BY <1>2, <1>a DEF FinishScan, Idle
    <2>4. scan'[a].exit = r.exit /\ scan'[a].archive = r.archive
      BY <2>1, <2>3, <1>a DEF BusyWorkers
    <2>5. \A b \in Agents : b # a => scan'[b] = scan[b]
      BY <2>1, <1>a
    <2>6. UNCHANGED <<net, ingest>>
      BY <1>2 DEF FinishScan
    <2> QED
      BY <2>2, <2>4, <2>5, <2>6
  <1>3. CASE SendResult(a)
    <2>1. scan[a] \in BusyWorkers
      BY <1>3, <1>a DEF SendResult, Idle
    <2>2. /\ scan'[a].phase = scan[a].phase /\ scan'[a].exit = scan[a].exit
          /\ scan'[a].archive = scan[a].archive
          /\ \A b \in Agents : b # a => scan'[b] = scan[b]
      BY <1>3, <1>a, <2>1 DEF SendResult, BusyWorkers
    <2>3. net' = net \cup {Upload(a, scan[a].sends + 1)} /\ ingest' = ingest
      BY <1>3 DEF SendResult
    <2>4. LET u == Upload(a, scan[a].sends + 1) IN
             /\ u.exit = 0 => u.archive
             /\ u.agent \notin Legacy => u.attempt = u.scanned /\ u.attempt # 0
      BY <1>3, <2>1 DEF Upload, BusyWorkers, SendResult
    <2> QED
      BY <2>2, <2>3, <2>4
  <1>4. CASE GiveUp(a) \/ CrashAgent(a)
    BY <1>4, <1>a DEF GiveUp, CrashAgent, Idle
  <1>5. CASE MarkRunning(a)
    <2>1. /\ \A b \in Agents : b # a => scan'[b] = scan[b]
          /\ scan'[a] = scan[a] \/ scan[a].phase = "scanning"
      BY <1>5, <1>a DEF MarkRunning, StopAnswer
    <2>2. scan[a].phase = "scanning" => scan'[a].phase = "scanning"
      <3>1. SUFFICES ASSUME scan[a].phase = "scanning"
                     PROVE  scan'[a].phase = "scanning"
        OBVIOUS
      <3>2. scan[a] \in BusyWorkers
        BY <3>1, <1>a DEF Idle
      <3> QED
        BY <1>5, <3>1, <3>2, <1>a DEF MarkRunning, StopAnswer, BusyWorkers
    <2>3. UNCHANGED <<net, ingest>>
      BY <1>5 DEF MarkRunning
    <2> QED
      BY <2>1, <2>2, <2>3
  <1>6. CASE SendBeat(a) \/ MarkRunningRead(a) \/ MarkRunningWrite(a) \/ LoseBeat(a)
    BY <1>6 DEF SendBeat, MarkRunningRead, MarkRunningWrite, LoseBeat
  <1> QED
    BY <1>1, <1>2, <1>3, <1>4, <1>5, <1>6 DEF AgentStep

\* The other steps keep it: an ingest is opened with the attempt its upload named,
\* which the first transaction compares with the row.
LEMMA ProvenanceRest ==
    ASSUME TypeOK, Provenance,
           \/ \E m \in net : UploadStep(m)
           \/ \E h \in ingest : IngestStep(h)
           \/ \E j \in Jobs : RowStep(j)
           \/ Tick
    PROVE  Provenance'
  <1> USE DEF Provenance
  <1>a. scan \in [Agents -> BusyWorkers \cup {Idle}] /\ net \subseteq Uploads /\ ingest \subseteq Handlers
    BY DEF TypeOK
  <1>b. ASSUME NEW b \in Agents, NEW j, Answered(b, j), NEW c \in Agents
        PROVE  scan'[c].phase = "uploading" /\ scan'[c].exit = 0 => scan'[c].archive
    BY <1>a, <1>b DEF Answered, Idle
  <1>1. ASSUME NEW m \in net, UploadStep(m)
        PROVE  Provenance'
    <2>a. m.agent \in Agents
      BY <1>a DEF Uploads
    <2>1. CASE OpenIngest(m)
      <3> DEFINE g == [token |-> tokens + 1, job |-> m.job, agent |-> m.agent,
                       attempt |-> job[m.job].attempts, scanned |-> m.scanned,
                       status |-> Outcome(m), exit |-> m.exit, archive |-> m.archive,
                       key |-> m.key, late |-> AcceptsLateArchive(m),
                       phase |-> "ingesting"]
      <3>1. ingest' = ingest \cup {g}
        BY <2>1 DEF OpenIngest
      <3>2. Current(m) /\ net' = net \ {m} /\ scan' = scan
        BY <2>1 DEF OpenIngest, Admissible
      <3>3. Outcome(m) = SUCCEEDED => m.exit = 0
        BY DEF Outcome, SUCCEEDED, FAILED, CANCELLED
      <3>4. m.agent \notin Legacy => m.scanned = job[m.job].attempts
        BY <3>2 DEF Current
      <3> QED
        BY <3>1, <3>2, <3>3, <3>4
    <2>2. CASE LoseUpload(m)
      BY <2>2 DEF LoseUpload
    <2>3. CASE AnswerUpload(m)
      BY <2>3, <2>a, <1>b DEF AnswerUpload
    <2> QED
      BY <1>1, <2>1, <2>2, <2>3 DEF UploadStep
  <1>2. ASSUME NEW h \in ingest, IngestStep(h)
        PROVE  Provenance'
    <2>a. h \in Handlers /\ h.agent \in Agents
      BY <1>a DEF Handlers
    <2>b. ASSUME NEW ph, ingest' = ToPhase(h, ph), UNCHANGED <<scan, net>>
          PROVE  Provenance'
      <3> DEFINE g == [h EXCEPT !.phase = ph]
      <3>1. /\ g.status = h.status /\ g.archive = h.archive /\ g.agent = h.agent
            /\ g.scanned = h.scanned /\ g.attempt = h.attempt
        BY <2>a DEF Handlers
      <3>2. ingest' = (ingest \ {h}) \cup {g}
        BY <2>b DEF ToPhase
      <3>3. ASSUME NEW f \in ingest'
            PROVE  /\ f.status = SUCCEEDED => f.archive
                   /\ f.agent \notin Legacy => f.scanned = f.attempt
        <4> HIDE DEF g
        <4>1. CASE f \in ingest
          BY <4>1
        <4>2. CASE f = g
          BY <4>2, <3>1
        <4> QED
          BY <3>2, <4>1, <4>2
      <3> QED
        BY <2>b, <3>3
    <2>c. ASSUME ingest' = ingest \ {h}, net' = net, Answered(h.agent, h.job) \/ scan' = scan
          PROVE  Provenance'
      BY <2>a, <2>c, <1>b, SMTT(30)
    <2> QED
      BY <1>2, <2>b, <2>c
      DEF IngestStep, RecordOutcome, RecordLateArchive, RejectArchive, FailIngest,
          ReleaseKey, ReleaseLease, CrashIngest
  <1>3. ASSUME NEW j \in Jobs, RowStep(j)
        PROVE  Provenance'
    BY <1>3 DEF RowStep, CancelJob, ReapExpiredLease, ReapStaleCancellation
  <1>4. CASE Tick
    BY <1>4 DEF Tick
  <1> QED
    BY <1>1, <1>2, <1>3, <1>4

\* So the provenance of every archive is known all along.
LEMMA ProvenanceHolds == Spec => []Provenance
  <1>1. Init => Provenance
    BY DEF Init, Provenance, Idle
  <1>2. TypeOK /\ Provenance /\ [Next]_vars => Provenance'
    <2> SUFFICES ASSUME TypeOK, Provenance, [Next]_vars
                 PROVE  Provenance'
      OBVIOUS
    <2>1. CASE UNCHANGED vars
      BY <2>1 DEF vars, Provenance
    <2>2. CASE Next
      BY <2>2, ProvenanceAgent, ProvenanceRest DEF Next
    <2> QED
      BY <2>1, <2>2
  <1> QED
    BY <1>1, <1>2, TypeCorrect, PTL DEF Spec

\* Only complete_job's two recording writes publish, each the run of its ingest.
LEMMA WhoPublishes ==
    ASSUME TypeOK, [Next]_vars, NEW p \in pubs' \ pubs
    PROVE  \E h \in ingest :
              /\ RecordOutcome(h) \/ RecordLateArchive(h)
              /\ pubs' = pubs \cup {p}
              /\ p = PublicationOf(h)
  <1>1. pubs' # pubs
    OBVIOUS
  <1>2. PICK h \in ingest : IngestStep(h)
    <2>1. \A a \in Agents : ~AgentStep(a)
      BY <1>1, ZenonT(40)
      DEF AgentStep, ClaimJob, FinishScan, SendResult, GiveUp, CrashAgent, SendBeat,
                  MarkRunning, MarkRunningRead, MarkRunningWrite, LoseBeat
    <2>2. \A m \in net : ~UploadStep(m)
      BY <1>1 DEF UploadStep, LoseUpload, OpenIngest, AnswerUpload
    <2>3. \A j \in Jobs : ~RowStep(j)
      BY <1>1 DEF RowStep, CancelJob, ReapExpiredLease, ReapStaleCancellation
    <2>4. ~Tick /\ ~UNCHANGED vars
      BY <1>1 DEF Tick, vars
    <2> QED
      BY <2>1, <2>2, <2>3, <2>4 DEF Next
  <1>3. RecordOutcome(h) \/ RecordLateArchive(h)
    BY <1>1, <1>2 DEF IngestStep, RejectArchive, FailIngest, ReleaseKey, ReleaseLease,
                      CrashIngest
  <1>4. pubs' = pubs \cup {PublicationOf(h)}
    BY <1>1, <1>3 DEF RecordOutcome, Recorded, RecordLateArchive
  <1> QED
    BY <1>3, <1>4

\* No straggler publishes: a published run is the current holder's and, for an
\* agent that names its attempt, of the attempt the job is on.  This needs no
\* assumption on heartbeats.
THEOREM NoStragglerPublishes == Spec => OnlyTheCurrentAttemptPublishes
  <1>1. TypeOK /\ Provenance /\ [Next]_vars =>
          [\A p \in pubs' \ pubs :
              /\ p.agent = job[p.job].assigned_agent_id
              /\ p.agent \notin Legacy => p.scanned = job[p.job].attempts]_vars
    <2> SUFFICES ASSUME TypeOK, Provenance, [Next]_vars, NEW p \in pubs' \ pubs
                 PROVE  /\ p.agent = job[p.job].assigned_agent_id
                        /\ p.agent \notin Legacy => p.scanned = job[p.job].attempts
      OBVIOUS
    <2>1. PICK h \in ingest :
             /\ RecordOutcome(h) \/ RecordLateArchive(h)
             /\ p = PublicationOf(h)
      BY WhoPublishes
    <2>2. FenceHolds(h) /\ (h.agent \notin Legacy => h.scanned = h.attempt)
      BY <2>1 DEF RecordOutcome, RecordLateArchive, Provenance
    <2> QED
      BY <2>1, <2>2 DEF FenceHolds, PublicationOf
  <1> QED
    BY <1>1, TypeCorrect, ProvenanceHolds, PTL DEF Spec, OnlyTheCurrentAttemptPublishes

\* Deciding and owing become true together: no step makes a job succeed without
\* publishing its run, and no publication is taken away.
THEOREM SuccessHasItsRun == Spec => []SuccessOwesItsRun
  <1>1. Init => SuccessOwesItsRun
    BY DEF Init, SuccessOwesItsRun, NewRow, QUEUED, SUCCEEDED
  <1>2. TypeOK /\ Provenance /\ SuccessOwesItsRun /\ [Next]_vars => SuccessOwesItsRun'
    <2> SUFFICES ASSUME TypeOK, Provenance, SuccessOwesItsRun, [Next]_vars,
                        NEW j \in Jobs, job'[j].status = SUCCEEDED
                 PROVE  \E p \in pubs' : p.job = j /\ ~p.late
      BY DEF SuccessOwesItsRun
    <2> USE DEF TypeOK
    <2>1. pubs \subseteq pubs'
      BY ZenonT(40) DEF Next, vars, AgentStep, ClaimJob, FinishScan, SendResult, GiveUp, CrashAgent,
             SendBeat, MarkRunning, MarkRunningRead, MarkRunningWrite, LoseBeat, UploadStep,
             LoseUpload, OpenIngest, AnswerUpload, RowStep, CancelJob, ReapExpiredLease,
             ReapStaleCancellation, Tick, IngestStep, RecordOutcome, Recorded,
             RecordLateArchive, RejectArchive, FailIngest, ReleaseKey, ReleaseLease, CrashIngest
    <2>2. CASE job[j].status = SUCCEEDED
      BY <2>1, <2>2 DEF SuccessOwesItsRun
    <2>3. CASE job[j].status # SUCCEEDED
      <3>1. job[j] \in Rows
        OBVIOUS
      <3>2. ~SweepMove(job[j], job'[j])
        BY <2>3, <3>1
        DEF SweepMove, LockedMove, ClaimMove, BeatMove, Beaten, extend_lease, OverlapMove, CancelMove,
            StopMove, RequeueMove, WriteOffMove, clear_ingest, Aged, Rows,
            QUEUED, CLAIMED, RUNNING, SUCCEEDED, FAILED, CANCELLED, CANCELLING
      <3>3. PICK h \in ingest : IngestStep(h)
        <4>1. job'[j] # job[j]
          BY <2>3
        <4>2. ~OpenMove(job[j], job'[j])
          BY <2>3, ZenonT(40) DEF OpenMove, open_ingest_lease, extend_lease, Rows
        <4>3. \A m \in net : ~UploadStep(m)
          BY <4>1, <4>2, UploadMoves
        <4> QED
          BY <3>2, <4>1, <4>3, AgentMoves, RowMoves, TickMoves DEF Next, vars, SweepMove
      <3>4. h \in Handlers
        OBVIOUS
      <3>5. ~RejectArchive(h)
        <4> SUFFICES ASSUME RejectArchive(h)
                     PROVE  FALSE
          OBVIOUS
        <4>1. RejectedStatus(h) # SUCCEEDED
          BY DEF RejectedStatus, SUCCEEDED, FAILED
        <4>2. job'[j] \in {job[j], Closed(job[j], RejectedStatus(h), 1, h.key)}
          BY <3>4 DEF RejectArchive, Handlers
        <4>3. Closed(job[j], RejectedStatus(h), 1, h.key).status = RejectedStatus(h)
          BY <3>1 DEF Closed, clear_ingest, Rows
        <4> QED
          BY <2>3, <4>1, <4>2, <4>3
      <3>6. ~RecordLateArchive(h) /\ ~FailIngest(h) /\ ~ReleaseKey(h) /\ ~ReleaseLease(h)
            /\ ~CrashIngest(h)
        <4>1. /\ clear_ingest(job[j]).status = job[j].status
              /\ Released(job[j]).status = job[j].status
              /\ [job[j] EXCEPT !.results_key = NoKey].status = job[j].status
          BY <3>1 DEF Released, clear_ingest, Rows
        <4>2. RecordLateArchive(h) => job'[j] \in {job[j], clear_ingest(job[j])}
          BY DEF RecordLateArchive
        <4>3. ReleaseKey(h) => job'[j] \in {job[j], [job[j] EXCEPT !.results_key = NoKey]}
          BY DEF ReleaseKey
        <4>4. ReleaseLease(h) => job'[j] \in {job[j], Released(job[j])}
          BY DEF ReleaseLease
        <4>5. FailIngest(h) \/ CrashIngest(h) => job'[j] = job[j]
          BY DEF FailIngest, CrashIngest
        <4> QED
          BY <2>3, <4>1, <4>2, <4>3, <4>4, <4>5
      <3>7. RecordOutcome(h)
        BY <3>3, <3>5, <3>6 DEF IngestStep
      <3>8. h.job = j
        BY <2>3, <3>7 DEF RecordOutcome
      <3>9. h.status = SUCCEEDED
        <4>1. job'[j] = Closed(job[j], h.status, h.exit, h.key)
          BY <3>7, <3>8 DEF RecordOutcome
        <4> QED
          BY <3>1, <4>1 DEF Closed, clear_ingest, Rows
      <3>10. h.archive
        BY <3>9 DEF Provenance
      <3>11. PublicationOf(h) \in pubs' /\ ~h.late
        BY <3>7, <3>10 DEF RecordOutcome, Recorded
      <3> QED
        BY <3>8, <3>11 DEF PublicationOf
    <2> QED
      BY <2>2, <2>3
  <1> QED
    BY <1>1, <1>2, TypeCorrect, ProvenanceHolds, PTL DEF Spec

-----------------------------------------------------------------------------
(* At most one run of a job is published. *)

\* A late ingest that may still publish or still holds its reservation.
ActiveLate(h) == h.late /\ h.phase # "releaseLease"

\* Why a second run cannot be published: a recorded outcome leaves an exit code
\* and a kept late archive leaves its key, and each shuts _accepts_late_archive.
PublishedShut ==
    \A p \in pubs :
        /\ Terminal(p.job)
        /\ ~p.late => job[p.job].exit_code # NULL
        /\ p.late => /\ job[p.job].results_key # NoKey
                     /\ \A h \in ingest : h.job = p.job => ~ActiveLate(h)

\* The row under an active late ingest, and that there is one such ingest.
LateHeld ==
    \A h \in ingest : ActiveLate(h) =>
        /\ job[h.job].status = CANCELLED
        /\ job[h.job].exit_code = NULL
        /\ job[h.job].results_key = Held(h.key, TRUE)

LateAlone ==
    \A g, h \in ingest : ActiveLate(g) /\ ActiveLate(h) /\ g.job = h.job => g = h

PubInv == PublishedShut /\ LateHeld /\ LateAlone /\ OnePublicationPerJob

\* A finished row that a step leaves as it was for every reader of PubInv.
Kept(j) ==
    /\ job'[j].status = job[j].status
    /\ job'[j].exit_code = job[j].exit_code
    /\ job'[j].results_key = job[j].results_key

\* A step that publishes nothing, keeps the finished rows and starts no late
\* ingest keeps the invariant.
LEMMA PubInvKeep ==
    ASSUME TypeOK, PubInv, pubs' = pubs, LateAlone',
           \A j \in Jobs : Terminal(j) => Kept(j),
           \A g \in ingest' : ActiveLate(g) =>
               \E h \in ingest : ActiveLate(h) /\ h.job = g.job /\ h.key = g.key
    PROVE  PubInv'
  <1>1. \A p \in pubs : p.job \in Jobs /\ Kept(p.job)
    BY DEF TypeOK, Publications, PubInv, PublishedShut
  <1>2. \A h \in ingest : ActiveLate(h) => h.job \in Jobs /\ Kept(h.job)
    BY DEF TypeOK, Handlers, PubInv, LateHeld, Terminal, TERMINAL
  <1>3. PublishedShut'
    BY <1>1 DEF PubInv, PublishedShut, Kept, Terminal
  <1>4. LateHeld'
    <2> SUFFICES ASSUME NEW g \in ingest', ActiveLate(g)
                 PROVE  /\ job'[g.job].status = CANCELLED
                        /\ job'[g.job].exit_code = NULL
                        /\ job'[g.job].results_key = Held(g.key, TRUE)
      BY DEF LateHeld
    <2>1. PICK h \in ingest : ActiveLate(h) /\ h.job = g.job /\ h.key = g.key
      OBVIOUS
    <2>2. /\ job[h.job].status = CANCELLED
          /\ job[h.job].exit_code = NULL
          /\ job[h.job].results_key = Held(h.key, TRUE)
      BY <2>1 DEF PubInv, LateHeld
    <2>3. Kept(h.job)
      BY <2>1, <1>2
    <2> QED
      BY <2>1, <2>2, <2>3 DEF Kept
  <1> QED
    BY <1>3, <1>4 DEF PubInv, OnePublicationPerJob

\* The workers, the operator, the sweeps and the clock.
LEMMA PubInvSweep ==
    ASSUME ~Overlap, TypeOK, PubInv, UNCHANGED <<ingest, pubs>>,
           \A j \in Jobs : SweepMove(job[j], job'[j])
    PROVE  PubInv'
  <1>1. \A j \in Jobs : Terminal(j) => Kept(j)
    BY FinalUnderSweep DEF TypeOK, Terminal, Kept
  <1>2. LateAlone'
    BY DEF PubInv, LateAlone
  <1> QED
    BY <1>1, <1>2, PubInvKeep

\* The lifecycle leaves no way out of a finished row.
LEMMA TerminalIsEnd ==
    ASSUME NEW s \in TERMINAL, NEW t, CanTransition(s, t)
    PROVE  FALSE
  BY DEF CanTransition, TRANSITIONS, Statuses, TERMINAL, QUEUED, CLAIMED, RUNNING,
         SUCCEEDED, FAILED, CANCELLED, CANCELLING

\* complete_job's first transaction.
LEMMA PubInvUpload ==
    ASSUME TypeOK, PubInv, NEW m \in net, UploadStep(m)
    PROVE  PubInv'
  <1> USE DEF TypeOK
  <1>1. CASE LoseUpload(m) \/ AnswerUpload(m)
    <2>1. UNCHANGED <<job, ingest, pubs>>
      BY <1>1 DEF LoseUpload, AnswerUpload
    <2>2. LateAlone'
      BY <2>1 DEF PubInv, LateAlone
    <2> QED
      BY <2>1, <2>2, PubInvKeep DEF Kept
  <1>2. CASE OpenIngest(m)
    <2> DEFINE late == AcceptsLateArchive(m)
               held == Held(m.key, late)
               row == job[m.job]
               reserved == IF held = NoKey THEN row ELSE [row EXCEPT !.results_key = held]
               g == [token |-> tokens + 1, job |-> m.job, agent |-> m.agent,
                     attempt |-> row.attempts, scanned |-> m.scanned, status |-> Outcome(m),
                     exit |-> m.exit, archive |-> m.archive, key |-> m.key, late |-> late,
                     phase |-> "ingesting"]
    <2>1. m \in Uploads /\ m.job \in Jobs /\ row \in Rows
      BY <1>2 DEF Uploads
    <2>2. /\ ingest' = ingest \cup {g} /\ pubs' = pubs
          /\ job' = [job EXCEPT ![m.job] = open_ingest_lease(reserved, tokens + 1)]
      BY <1>2 DEF OpenIngest
    <2>3. g.job = m.job /\ g.key = m.key /\ (ActiveLate(g) <=> late)
      BY DEF ActiveLate
    <2> HIDE DEF g
    <2>4. CASE ~late
      <3>1. ~Terminal(m.job)
        BY <1>2, <2>4, TerminalIsEnd DEF OpenIngest, Admissible, Terminal
      <3>2. \A j \in Jobs : Terminal(j) => Kept(j)
        BY <2>2, <3>1 DEF Kept
      <3>3. LateAlone'
        BY <2>2, <2>3, <2>4 DEF PubInv, LateAlone
      <3> QED
        BY <2>2, <2>3, <2>4, <3>2, <3>3, PubInvKeep
    <2>5. CASE late
      <3>1. /\ row.status = CANCELLED /\ row.exit_code = NULL /\ row.results_key = NoKey
        BY <2>5 DEF AcceptsLateArchive
      <3>2. held # NoKey /\ held = Held(m.key, TRUE)
        BY <2>5 DEF Held, LATE_ARCHIVE_RESERVATION, NoKey, NULL
      <3>3. \A p \in pubs : p.job # m.job
        BY <3>1 DEF PubInv, PublishedShut
      <3>4. \A h \in ingest : ActiveLate(h) => h.job # m.job
        BY <3>1 DEF PubInv, LateHeld, Held, LATE_ARCHIVE_RESERVATION, NoKey, NULL
      <3>5. /\ job'[m.job].status = CANCELLED /\ job'[m.job].exit_code = NULL
            /\ job'[m.job].results_key = Held(m.key, TRUE)
        BY <2>1, <2>2, <3>1, <3>2 DEF open_ingest_lease, extend_lease, Rows
      <3>6. \A j \in Jobs : j # m.job => job'[j] = job[j]
        BY <2>2
      <3>7. PublishedShut'
        BY <2>2, <2>3, <3>3, <3>6 DEF PubInv, PublishedShut, Terminal, Publications
      <3>8. LateHeld'
        BY <2>2, <2>3, <3>4, <3>5, <3>6 DEF PubInv, LateHeld, Handlers
      <3>9. LateAlone'
        BY <2>2, <2>3, <3>4 DEF PubInv, LateAlone
      <3> QED
        BY <2>2, <3>7, <3>8, <3>9 DEF PubInv, OnePublicationPerJob
    <2> QED
      BY <2>4, <2>5
  <1> QED
    BY <1>1, <1>2 DEF UploadStep

\* complete_job after its first transaction.
LEMMA PubInvIngest ==
    ASSUME TypeOK, PubInv, NEW h \in ingest, IngestStep(h)
    PROVE  PubInv'
  <1> USE DEF TypeOK
  <1>a. h \in Handlers /\ h.job \in Jobs /\ job[h.job] \in Rows
    BY DEF Handlers
  <1>b. ASSUME NEW ph, ingest' = ToPhase(h, ph)
        PROVE  \A g \in ingest' : g \in ingest \ {h} \/ (g = [h EXCEPT !.phase = ph])
    BY <1>b DEF ToPhase
  <1>1. CASE RecordOutcome(h)
    <2>1. ~Terminal(h.job)
      BY <1>1, TerminalIsEnd DEF RecordOutcome, Terminal
    <2>2. \A p \in pubs : p.job # h.job
      BY <2>1 DEF PubInv, PublishedShut
    <2>3. \A g \in ingest : ActiveLate(g) => g.job # h.job
      BY <2>1 DEF PubInv, LateHeld, Terminal, TERMINAL
    <2>4. /\ ingest' = ingest \ {h}
          /\ \A j \in Jobs : j # h.job => job'[j] = job[j]
          /\ job'[h.job] = Closed(job[h.job], h.status, h.exit, h.key)
      BY <1>1, <1>a DEF RecordOutcome
    <2>5. job'[h.job].status \in TERMINAL /\ job'[h.job].exit_code # NULL
      BY <2>4, <1>a DEF Closed, clear_ingest, Rows, Handlers, ExitCodes, NULL
    <2>6. LateAlone'
      BY <2>4 DEF PubInv, LateAlone
    <2>7. CASE ~h.archive
      <3>1. pubs' = pubs
        BY <1>1, <2>7 DEF RecordOutcome, Recorded
      <3>2. \A j \in Jobs : Terminal(j) => Kept(j)
        BY <2>1, <2>4 DEF Kept
      <3> QED
        BY <3>1, <3>2, <2>4, <2>6, PubInvKeep
    <2>8. CASE h.archive
      <3> DEFINE q == PublicationOf(h)
      <3>1. pubs' = pubs \cup {q} /\ q.job = h.job /\ ~q.late
        BY <1>1, <2>8 DEF RecordOutcome, Recorded, PublicationOf
      <3> HIDE DEF q
      <3>2. PublishedShut'
        BY <3>1, <2>2, <2>4, <2>5 DEF PubInv, PublishedShut, Terminal, Publications
      <3>3. LateHeld'
        BY <2>3, <2>4 DEF PubInv, LateHeld, Handlers
      <3>4. OnePublicationPerJob'
        BY <3>1, <2>2 DEF PubInv, OnePublicationPerJob
      <3> QED
        BY <2>6, <3>2, <3>3, <3>4 DEF PubInv
    <2> QED
      BY <2>7, <2>8
  <1>2. CASE RecordLateArchive(h)
    <2> DEFINE q == PublicationOf(h)
    <2>1. ActiveLate(h)
      BY <1>2 DEF RecordLateArchive, ActiveLate
    <2>2. /\ job[h.job].status = CANCELLED /\ job[h.job].exit_code = NULL
          /\ job[h.job].results_key = Held(h.key, TRUE)
      BY <2>1 DEF PubInv, LateHeld
    <2>3. \A p \in pubs : p.job # h.job
      BY <2>1, <2>2 DEF PubInv, PublishedShut
    <2>4. \A g \in ingest \ {h} : ActiveLate(g) => g.job # h.job
      BY <2>1 DEF PubInv, LateAlone
    <2>5. /\ ingest' = ingest \ {h}
          /\ \A j \in Jobs : j # h.job => job'[j] = job[j]
          /\ job'[h.job] = clear_ingest(job[h.job])
          /\ pubs' = pubs \cup {q} /\ q.job = h.job /\ q.late
      BY <1>2, <1>a DEF RecordLateArchive, PublicationOf
    <2> HIDE DEF q
    <2>6. /\ job'[h.job].status = CANCELLED /\ job'[h.job].results_key # NoKey
      BY <2>2, <2>5, <1>a
      DEF clear_ingest, Rows, Held, LATE_ARCHIVE_RESERVATION, NoKey, NULL
    <2>7. PublishedShut'
      <3> SUFFICES ASSUME NEW p \in pubs'
                   PROVE  /\ Terminal(p.job)'
                          /\ ~p.late => job'[p.job].exit_code # NULL
                          /\ p.late => /\ job'[p.job].results_key # NoKey
                                       /\ \A g \in ingest' : g.job = p.job => ~ActiveLate(g)
        BY DEF PublishedShut
      <3>1. CASE p = q
        BY <3>1, <2>4, <2>5, <2>6 DEF Terminal, TERMINAL
      <3>2. CASE p \in pubs
        BY <3>2, <2>3, <2>5 DEF PubInv, PublishedShut, Terminal, Publications
      <3> QED
        BY <3>1, <3>2, <2>5
    <2>8. LateHeld'
      BY <2>4, <2>5 DEF PubInv, LateHeld, Handlers
    <2>9. LateAlone' /\ OnePublicationPerJob'
      BY <2>3, <2>5 DEF PubInv, LateAlone, OnePublicationPerJob
    <2> QED
      BY <2>7, <2>8, <2>9 DEF PubInv
  <1>3. CASE RejectArchive(h)
    <2>1. ~Terminal(h.job)
      BY <1>3, TerminalIsEnd DEF RejectArchive, Terminal
    <2>2. \A j \in Jobs : Terminal(j) => Kept(j)
      BY <1>3, <2>1 DEF RejectArchive, Kept
    <2>3. ~[h EXCEPT !.phase = "releaseKey"].late
      BY <1>3, <1>a DEF RejectArchive, Handlers
    <2>4. \A g \in ingest' : ActiveLate(g) => g \in ingest
      BY <1>3, <1>b, <2>3 DEF RejectArchive, ActiveLate
    <2>5. LateAlone'
      BY <2>4 DEF PubInv, LateAlone
    <2> QED
      BY <1>3, <2>2, <2>4, <2>5, PubInvKeep DEF RejectArchive
  <1>4. CASE FailIngest(h)
    <2> DEFINE f == [h EXCEPT !.phase = "releaseKey"]
    <2>1. /\ f.job = h.job /\ f.key = h.key /\ (ActiveLate(f) => ActiveLate(h))
          /\ \A g \in ingest' : g \in ingest \ {h} \/ g = f
      BY <1>4, <1>a, <1>b DEF FailIngest, Handlers, ActiveLate
    <2> HIDE DEF f
    <2>2. LateAlone'
      BY <2>1 DEF PubInv, LateAlone
    <2>3. \A g \in ingest' : ActiveLate(g) =>
             \E e \in ingest : ActiveLate(e) /\ e.job = g.job /\ e.key = g.key
      BY <2>1
    <2> QED
      BY <1>4, <2>2, <2>3, PubInvKeep DEF FailIngest, Kept
  <1>5. CASE ReleaseKey(h)
    <2>1. ~ActiveLate([h EXCEPT !.phase = "releaseLease"])
      BY <1>a DEF ActiveLate, Handlers
    <2>2. \A g \in ingest' : ActiveLate(g) => g \in ingest \ {h}
      BY <1>5, <1>b, <2>1 DEF ReleaseKey
    <2>3. LateAlone'
      BY <2>2 DEF PubInv, LateAlone
    <2>4. pubs' = pubs /\ \A j \in Jobs : j # h.job => job'[j] = job[j]
      BY <1>5 DEF ReleaseKey
    <2>5. CASE ~h.late
      <3>1. \A j \in Jobs : Terminal(j) => Kept(j)
        BY <1>5, <2>5 DEF ReleaseKey, Kept, Terminal
      <3> QED
        BY <2>2, <2>3, <2>4, <3>1, PubInvKeep
    <2>6. CASE h.late
      <3>1. ActiveLate(h)
        BY <1>5, <2>6 DEF ReleaseKey, ActiveLate
      <3>2. \A p \in pubs : p.job # h.job
        BY <3>1 DEF PubInv, PublishedShut, LateHeld
      <3>3. \A g \in ingest' : ActiveLate(g) => g \in ingest /\ g.job # h.job
        BY <2>2, <3>1 DEF PubInv, LateAlone
      <3>4. PublishedShut'
        BY <2>4, <3>2, <3>3 DEF PubInv, PublishedShut, Terminal, Publications
      <3>5. LateHeld'
        BY <2>4, <3>3 DEF PubInv, LateHeld, Handlers
      <3> QED
        BY <2>3, <2>4, <3>4, <3>5 DEF PubInv, OnePublicationPerJob
    <2> QED
      BY <2>5, <2>6
  <1>6. CASE ReleaseLease(h) \/ CrashIngest(h)
    <2>1. ingest' = ingest \ {h} /\ pubs' = pubs
      BY <1>6 DEF ReleaseLease, CrashIngest
    <2>2. /\ Released(job[h.job]).results_key = job[h.job].results_key
          /\ Released(job[h.job]).status = job[h.job].status
          /\ Released(job[h.job]).exit_code = job[h.job].exit_code
      BY <1>a DEF Released, clear_ingest, Rows
    <2>3. \A j \in Jobs : Kept(j)
      BY <1>6, <2>2 DEF ReleaseLease, CrashIngest, Kept
    <2>4. LateAlone'
      BY <2>1 DEF PubInv, LateAlone
    <2> QED
      BY <2>1, <2>3, <2>4, PubInvKeep
  <1> QED
    BY <1>1, <1>2, <1>3, <1>4, <1>5, <1>6 DEF IngestStep

\* What shuts a job that has its run stays in place.
LEMMA PubInvHolds == ~Overlap => (Spec => []PubInv)
  <1> SUFFICES ASSUME ~Overlap
               PROVE  Spec => []PubInv
    OBVIOUS
  <1>1. Init => PubInv
    BY DEF Init, PubInv, PublishedShut, LateHeld, LateAlone, OnePublicationPerJob
  <1>2. TypeOK /\ PubInv /\ [Next]_vars => PubInv'
    <2> SUFFICES ASSUME TypeOK, PubInv, [Next]_vars
                 PROVE  PubInv'
      OBVIOUS
    <2>1. CASE UNCHANGED vars
      BY <2>1, ZenonT(40) DEF vars, PubInv, PublishedShut, LateHeld, LateAlone, OnePublicationPerJob,
                  Terminal
    <2>2. ASSUME NEW a \in Agents, AgentStep(a)
          PROVE  PubInv'
      <3>1. UNCHANGED <<ingest, pubs>>
        BY <2>2 DEF AgentStep, ClaimJob, FinishScan, SendResult, GiveUp, CrashAgent, SendBeat,
                    MarkRunning, MarkRunningRead, MarkRunningWrite, LoseBeat
      <3> QED
        BY <2>2, <3>1, AgentMoves, PubInvSweep
    <2>3. ASSUME NEW j \in Jobs, RowStep(j)
          PROVE  PubInv'
      BY <2>3, RowMoves, PubInvSweep
      DEF SweepMove, RowStep, CancelJob, ReapExpiredLease, ReapStaleCancellation
    <2>4. CASE Tick
      BY <2>4, TickMoves, PubInvSweep DEF Tick, SweepMove
    <2> QED
      BY <2>1, <2>2, <2>3, <2>4, PubInvUpload, PubInvIngest DEF Next
  <1> QED
    BY <1>1, <1>2, TypeCorrect, PTL DEF Spec

\* While no heartbeat overlaps another transaction, at most one run of a job is
\* ever published, however many copies of its results arrive.
THEOREM OneRunPerJob == ~Overlap => (Spec => []OnePublicationPerJob)
  <1>1. PubInv => OnePublicationPerJob
    BY DEF PubInv
  <1> QED
    BY <1>1, PubInvHolds, PTL

-----------------------------------------------------------------------------
(* The tenant's ceiling. *)

\* While no heartbeat overlaps another transaction, no step but a claim brings a
\* row into OCCUPYING: beats, stops, sweeps and results find it there already.
LEMMA OnlyClaimsOccupy ==
    ASSUME TypeOK, ~Overlap, [Next]_vars, NEW k \in Jobs, job'[k].status \in OCCUPYING,
           job[k].status \notin OCCUPYING
    PROVE  \E a \in Agents : ClaimJob(a, k)
  <1> USE DEF QUEUED, CLAIMED, RUNNING, SUCCEEDED, FAILED, CANCELLED, CANCELLING, IN_FLIGHT,
              TERMINAL, OCCUPYING
  <1>0. job[k] \in Rows
    BY DEF TypeOK
  <1>1. CASE UNCHANGED job
    BY <1>1
  <1>2. ASSUME NEW a \in Agents, AgentStep(a), job' # job
        PROVE  \E b \in Agents : ClaimJob(b, k)
    <2>1. ASSUME NEW j \in Jobs, ClaimJob(a, j)
          PROVE  ClaimJob(a, k)
      <3>1. CASE j # k
        BY <2>1, <3>1 DEF ClaimJob, TypeOK
      <3> QED
        BY <2>1, <3>1
    <2>2. CASE MarkRunning(a)
      BY <2>2, <1>0 DEF MarkRunning, Beatable, InFlight, Beaten, extend_lease, TypeOK, Rows
    <2>3. ~MarkRunningWrite(a)
      <3>1. CASE beat[a].stage = "read"
        <4>1. beat[a] \in Beats
          BY <3>1 DEF TypeOK, NoBeat
        <4> QED
          BY <3>1, <4>1 DEF Beats
      <3> QED
        BY <3>1 DEF MarkRunningWrite
    <2>4. CASE \/ FinishScan(a) \/ SendResult(a) \/ GiveUp(a) \/ CrashAgent(a)
               \/ SendBeat(a) \/ MarkRunningRead(a) \/ LoseBeat(a)
      BY <1>2, <2>4 DEF FinishScan, SendResult, GiveUp, CrashAgent, SendBeat,
                        MarkRunningRead, LoseBeat
    <2> QED
      BY <1>2, <2>1, <2>2, <2>3, <2>4 DEF AgentStep
  <1>3. ASSUME NEW m \in net, UploadStep(m)
        PROVE  FALSE
    <2>1. OpenMove(job[k], job'[k])
      BY <1>3, UploadMoves
    <2> QED
      BY <1>0, <2>1 DEF OpenMove, open_ingest_lease, extend_lease, Rows
  <1>4. ASSUME NEW h \in ingest, IngestStep(h)
        PROVE  FALSE
    <2>1. ResultMove(job[k], job'[k])
      BY <1>4, IngestMoves
    <2>2. CASE OpenMove(job[k], job'[k])
      BY <1>0, <2>2 DEF OpenMove, open_ingest_lease, extend_lease, Rows
    <2>3. CASE CloseMove(job[k], job'[k])
      BY <1>0, <2>3 DEF CloseMove, Closed, clear_ingest, Rows
    <2>4. CASE \/ job'[k] = clear_ingest(job[k])
               \/ job'[k] = [job[k] EXCEPT !.results_key = NoKey]
               \/ job'[k] = Released(job[k])
      BY <1>0, <2>4 DEF clear_ingest, Released, Rows
    <2> QED
      BY <2>1, <2>2, <2>3, <2>4 DEF ResultMove
  <1>5. ASSUME NEW j \in Jobs, RowStep(j)
        PROVE  FALSE
    <2>0. job[j] \in Rows /\ (k # j => job'[k] = job[k])
      BY <1>5 DEF RowStep, CancelJob, ReapExpiredLease, ReapStaleCancellation, TypeOK
    <2>1. CASE CancelJob(j)
      BY <2>0, <2>1 DEF CancelJob, InFlight, TypeOK, Rows
    <2>2. CASE ReapExpiredLease(j)
      BY <2>0, <2>2 DEF ReapExpiredLease, InFlight
    <2>3. CASE ReapStaleCancellation(j)
      BY <2>0, <2>3 DEF ReapStaleCancellation, TypeOK, Rows
    <2> QED
      BY <1>5, <2>1, <2>2, <2>3 DEF RowStep
  <1>6. CASE Tick
    BY <1>0, <1>6 DEF Tick, Aged, TypeOK, Rows
  <1> QED
    BY <1>1, <1>2, <1>3, <1>4, <1>5, <1>6 DEF Next, vars

\* However claims, requeues, stops, write-offs and results interleave, the jobs
\* that count against max_concurrent_scans never exceed it: the count and the
\* claim are one transaction under hold_slot.
THEOREM CeilingIsKept == ~Overlap => (Spec => []ConcurrencyCeiling)
  <1> SUFFICES ASSUME ~Overlap
               PROVE  Spec => []ConcurrencyCeiling
    OBVIOUS
  <1>0. IsFiniteSet(Jobs) /\ MaxScans \in Nat \ {0}
    BY QueueAssumption
  <1>1. Init => ConcurrencyCeiling
    <2> SUFFICES ASSUME Init PROVE ConcurrencyCeiling
      OBVIOUS
    <2>1. Occupying = {}
      BY DEF Init, NewRow, Occupying, OCCUPYING, IN_FLIGHT, QUEUED, CLAIMED, RUNNING,
             CANCELLING
    <2> QED
      BY <1>0, <2>1, FS_EmptySet DEF ConcurrencyCeiling
  <1>2. TypeOK /\ ConcurrencyCeiling /\ [Next]_vars => ConcurrencyCeiling'
    <2> SUFFICES ASSUME TypeOK, ConcurrencyCeiling, [Next]_vars
                 PROVE  ConcurrencyCeiling'
      OBVIOUS
    <2>1. IsFiniteSet(Occupying) /\ Cardinality(Occupying) \in Nat
      <3>1. Occupying \subseteq Jobs
        BY DEF Occupying
      <3> QED
        BY <1>0, <3>1, FS_Subset, FS_CardinalityType
    <2>2. CASE Occupying' \subseteq Occupying
      <3>1. IsFiniteSet(Occupying') /\ Cardinality(Occupying') <= Cardinality(Occupying)
        BY <2>1, <2>2, FS_Subset
      <3>2. Cardinality(Occupying') \in Nat
        BY <3>1, FS_CardinalityType
      <3> QED
        BY <1>0, <2>1, <3>1, <3>2 DEF ConcurrencyCeiling
    <2>3. CASE ~(Occupying' \subseteq Occupying)
      <3>1. PICK k \in Jobs : job'[k].status \in OCCUPYING /\ job[k].status \notin OCCUPYING
        BY <2>3 DEF Occupying
      <3>2. PICK a \in Agents : ClaimJob(a, k)
        BY <3>1, OnlyClaimsOccupy
      <3>3. Occupying' = Occupying \cup {k} /\ k \notin Occupying
        BY <3>1, <3>2 DEF ClaimJob, Occupying, TypeOK
      <3>4. Cardinality(Occupying \cup {k}) = Cardinality(Occupying) + 1
        BY <2>1, <3>3, FS_AddElement
      <3>5. Cardinality(Occupying) < MaxScans
        BY <3>2 DEF ClaimJob, SlotFree
      <3> QED
        BY <1>0, <2>1, <3>3, <3>4, <3>5 DEF ConcurrencyCeiling
    <2> QED
      BY <2>2, <2>3
  <1> QED
    BY <1>1, <1>2, TypeCorrect, PTL DEF Spec

-----------------------------------------------------------------------------
(* The queue keeps its promise: JobQueue implements JobOutcome. *)

\* What the outside sees of a row.
Abs(r) ==
    CASE r.status = CANCELLING -> "stopping"
      [] r.status \in TERMINAL -> r.status
      [] OTHER -> "open"

Same(r, s) ==
    /\ Abs(s) = Abs(r)
    /\ s.assigned_agent_id = r.assigned_agent_id
    /\ s.attempts = r.attempts

\* A row that occupies a slot has an agent.
HolderOK(r) == r.status \in OCCUPYING => r.assigned_agent_id # NoAgent

\* The four things a row's move can look like.
HandOutRow(r, s) ==
    /\ Abs(r) = "open" /\ Abs(s) = "open"
    /\ r.assigned_agent_id = NoAgent /\ s.assigned_agent_id \in Agents
    /\ r.attempts < MaxAttempts /\ s.attempts = r.attempts + 1

TakeBackRow(r, s) ==
    /\ Abs(r) = "open" /\ Abs(s) = "open"
    /\ r.assigned_agent_id # NoAgent /\ s.assigned_agent_id = NoAgent
    /\ r.attempts < MaxAttempts /\ s.attempts = r.attempts

StopRow(r, s) ==
    /\ Abs(r) = "open" /\ Abs(s) = "stopping"
    /\ r.assigned_agent_id # NoAgent /\ s.assigned_agent_id = r.assigned_agent_id
    /\ s.attempts = r.attempts

EndRow(r, s) ==
    /\ Abs(r) \in {"open", "stopping"} /\ Abs(s) \in TERMINAL
    /\ r.assigned_agent_id = NoAgent => Abs(s) = CANCELLED
    /\ Abs(s) = CANCELLED => Abs(r) = "stopping" \/ r.assigned_agent_id = NoAgent
    /\ s.assigned_agent_id = r.assigned_agent_id /\ s.attempts = r.attempts

\* What a move by a worker, an operator or a sweep can be seen as.
SeenMove(r, s) ==
    \/ Same(r, s) \/ HandOutRow(r, s) \/ TakeBackRow(r, s) \/ StopRow(r, s)
    \/ EndRow(r, s) /\ Abs(s) # SUCCEEDED

\* The workers', the operator's and the sweeps' moves: none of them succeeds.
LEMMA SweepLooks ==
    ASSUME ~Overlap, NEW r \in Rows, NEW s, RowInv(r), HolderOK(r), AttemptsOK(r),
           SweepMove(r, s)
    PROVE  SeenMove(r, s) /\ HolderOK(s)
  <1> USE QueueAssumption
      DEF SeenMove, RowInv, HolderOK, AttemptsOK, Rows, Abs, QUEUED, CLAIMED, RUNNING, SUCCEEDED, FAILED,
          CANCELLED, CANCELLING, IN_FLIGHT, TERMINAL, OCCUPYING, Statuses
  <1>1. CASE s = r
    BY <1>1 DEF Same
  <1>2. CASE ClaimMove(r, s)
    BY <1>2 DEF ClaimMove, HandOutRow
  <1>3. CASE BeatMove(r, s)
    BY <1>3 DEF BeatMove, Beaten, extend_lease, Same
  <1>4. CASE OverlapMove(r, s)
    BY <1>4 DEF OverlapMove
  <1>5. CASE CancelMove(r, s)
    <2>1. r.status \in {QUEUED, CANCELLING}
      BY <1>5 DEF CancelMove, CanTransition, TRANSITIONS
    <2> QED
      BY <1>5, <2>1 DEF CancelMove, EndRow
  <1>6. CASE StopMove(r, s)
    BY <1>6 DEF StopMove, StopRow
  <1>7. CASE s = clear_ingest(r)
    BY <1>7 DEF clear_ingest, Same
  <1>8. CASE RequeueMove(r, s)
    BY <1>8 DEF RequeueMove, clear_ingest, TakeBackRow
  <1>9. CASE WriteOffMove(r, s)
    BY <1>9 DEF WriteOffMove, clear_ingest, EndRow
  <1>10. CASE s = Aged(r)
    BY <1>10 DEF Aged, Same
  <1> QED
    BY <1>1, <1>2, <1>3, <1>4, <1>5, <1>6, <1>7, <1>8, <1>9, <1>10 DEF SweepMove, LockedMove

\* complete_job's moves: nothing to be seen, or an end of a row that has an agent.
LEMMA ResultLooks ==
    ASSUME NEW r \in Rows, NEW s, HolderOK(r), ResultMove(r, s)
    PROVE  /\ Same(r, s) \/ CloseMove(r, s)
           /\ HolderOK(s)
  <1> USE QueueAssumption
      DEF HolderOK, Rows, Abs, QUEUED, CLAIMED, RUNNING, SUCCEEDED, FAILED,
          CANCELLED, CANCELLING, IN_FLIGHT, TERMINAL, OCCUPYING, Statuses
  <1>1. CASE OpenMove(r, s)
    BY <1>1 DEF OpenMove, open_ingest_lease, extend_lease, Same
  <1>2. CASE CloseMove(r, s)
    <2>1. PICK st \in TERMINAL, e \in ExitCodes, k \in Keys : s = Closed(r, st, e, k)
      BY <1>2 DEF CloseMove
    <2>2. s.status = st
      BY <2>1 DEF Closed, clear_ingest
    <2> QED
      BY <1>2, <2>2
  <1>3. CASE s = clear_ingest(r)
    BY <1>3 DEF clear_ingest, Same
  <1>4. CASE s = [r EXCEPT !.results_key = NoKey]
    BY <1>4 DEF Same
  <1>5. CASE s = Released(r)
    BY <1>5 DEF Released, clear_ingest, Same
  <1> QED
    BY <1>1, <1>2, <1>3, <1>4, <1>5 DEF ResultMove

\* A result that is recorded under its fence looks like an end of the row.
LEMMA ClosedLooks ==
    ASSUME NEW r \in Rows, NEW st \in TERMINAL, NEW e \in ExitCodes, NEW k \in Keys,
           CanTransition(r.status, st), r.assigned_agent_id # NoAgent, RowInv(r)
    PROVE  LET s == Closed(r, st, e, k) IN EndRow(r, s) /\ Abs(s) = st
  <1> DEFINE s == Closed(r, st, e, k)
  <1> USE DEF QUEUED, CLAIMED, RUNNING, SUCCEEDED, FAILED, CANCELLED, CANCELLING, IN_FLIGHT,
              TERMINAL, Statuses
  <1>1. /\ s.status = st /\ s.assigned_agent_id = r.assigned_agent_id
        /\ s.attempts = r.attempts
    BY DEF Closed, clear_ingest, Rows
  <1>2. r.status # QUEUED /\ r.status \in Statuses
    BY DEF RowInv, Rows
  <1>3. r.status \in {CLAIMED, RUNNING, CANCELLING} /\ (st = CANCELLED => r.status = CANCELLING)
    BY <1>2 DEF CanTransition, TRANSITIONS
  <1> HIDE DEF s
  <1>4. Abs(s) = st /\ Abs(r) = IF r.status = CANCELLING THEN "stopping" ELSE "open"
    BY <1>1, <1>3 DEF Abs
  <1>5. EndRow(r, s)
    BY <1>1, <1>3, <1>4 DEF EndRow
  <1> QED
    BY <1>4, <1>5 DEF s

Holders == \A j \in Jobs : HolderOK(job[j])

\* So every row that occupies a slot has its agent.
LEMMA HoldersHold == ~Overlap => (Spec => []Holders)
  <1> SUFFICES ASSUME ~Overlap
               PROVE  Spec => []Holders
    OBVIOUS
  <1>1. Init => Holders
    BY DEF Init, Holders, HolderOK, NewRow, OCCUPYING, IN_FLIGHT, QUEUED, CLAIMED, RUNNING,
           CANCELLING
  <1>2. Inv /\ AttemptsBounded /\ Holders /\ [Next]_vars => Holders'
    <2> SUFFICES ASSUME Inv, AttemptsBounded, Holders, [Next]_vars, NEW j \in Jobs
                 PROVE  HolderOK(job'[j])
      BY DEF Holders
    <2>1. TypeOK /\ job[j] \in Rows /\ RowInv(job[j]) /\ HolderOK(job[j]) /\ AttemptsOK(job[j])
      BY DEF Inv, TypeOK, Holders, AttemptsBounded, AttemptsOK
    <2> QED
      BY <2>1, EveryMove, SweepLooks, ResultLooks
  <1> QED
    BY <1>1, <1>2, InvInductive, AttemptsAreBounded, PTL DEF Spec

\* What the outside sees of the whole table, as functions of the jobs.
AbstractHolders == [j \in Jobs |-> job[j].assigned_agent_id]

AbstractHandouts == [j \in Jobs |-> job[j].attempts]

RunFor(p) ==
    [job |-> p.job, agent |-> p.agent,
     handout |-> IF p.agent \in Legacy THEN job[p.job].attempts ELSE p.scanned]

\* A step that only one row is seen to take part in.
Alone(j) == \A k \in Jobs : k # j => Same(job[k], job'[k])

\* It is seen as a change at that row.
LEMMA AloneLooks ==
    ASSUME NEW j \in Jobs, Alone(j)
    PROVE  /\ AbstractOutcome' = [AbstractOutcome EXCEPT ![j] = Abs(job'[j])]
           /\ AbstractHolders' = [AbstractHolders EXCEPT ![j] = job'[j].assigned_agent_id]
           /\ AbstractHandouts' = [AbstractHandouts EXCEPT ![j] = job'[j].attempts]
           /\ AbstractOutcome[j] = Abs(job[j])
           /\ AbstractHolders[j] = job[j].assigned_agent_id
           /\ AbstractHandouts[j] = job[j].attempts
  <1>1. AbstractOutcome = [k \in Jobs |-> Abs(job[k])]
    BY DEF AbstractOutcome, Abs, Terminal
  <1>2. AbstractOutcome' = [k \in Jobs |-> Abs(job'[k])]
    BY DEF AbstractOutcome, Abs, Terminal
  <1>3. \A k \in Jobs : k # j => /\ Abs(job'[k]) = Abs(job[k])
                                 /\ job'[k].assigned_agent_id = job[k].assigned_agent_id
                                 /\ job'[k].attempts = job[k].attempts
    BY DEF Alone, Same
  <1>4. AbstractOutcome' = [AbstractOutcome EXCEPT ![j] = Abs(job'[j])]
    BY <1>1, <1>2, <1>3
  <1>5. AbstractHolders' = [AbstractHolders EXCEPT ![j] = job'[j].assigned_agent_id]
    BY <1>3 DEF AbstractHolders
  <1>6. AbstractHandouts' = [AbstractHandouts EXCEPT ![j] = job'[j].attempts]
    BY <1>3 DEF AbstractHandouts
  <1> QED
    BY <1>1, <1>4, <1>5, <1>6 DEF AbstractHolders, AbstractHandouts

\* A step that no row is seen to take part in.
LEMMA NoneLooks ==
    ASSUME \A k \in Jobs : Same(job[k], job'[k])
    PROVE  UNCHANGED <<AbstractOutcome, AbstractHolders, AbstractHandouts>>
  <1>1. \A k \in Jobs : /\ Abs(job'[k]) = Abs(job[k])
                        /\ job'[k].assigned_agent_id = job[k].assigned_agent_id
                        /\ job'[k].attempts = job[k].attempts
    BY DEF Same
  <1>2. /\ AbstractOutcome = [k \in Jobs |-> Abs(job[k])]
        /\ AbstractOutcome' = [k \in Jobs |-> Abs(job'[k])]
    BY DEF AbstractOutcome, Abs, Terminal
  <1>3. AbstractOutcome' = AbstractOutcome
    BY <1>1, <1>2
  <1> QED
    BY <1>1, <1>3 DEF AbstractHolders, AbstractHandouts

\* The runs that are kept, when the jobs that have one keep their hand-outs.
LEMMA RunsLook ==
    ASSUME \A p \in pubs : job'[p.job].attempts = job[p.job].attempts
    PROVE  /\ pubs' = pubs => AbstractRuns' = AbstractRuns
           /\ \A q : pubs' = pubs \cup {q} => AbstractRuns' = AbstractRuns \cup {RunFor(q)'}
  <1>1. AbstractRuns = {RunFor(p) : p \in pubs} /\ AbstractRuns' = {RunFor(p)' : p \in pubs'}
    BY DEF AbstractRuns, RunFor
  <1>2. \A p \in pubs : RunFor(p)' = RunFor(p)
    BY DEF RunFor
  <1>3. pubs' = pubs => AbstractRuns' = AbstractRuns
    BY <1>1, <1>2
  <1>4. ASSUME NEW q, pubs' = pubs \cup {q}
        PROVE  AbstractRuns' = AbstractRuns \cup {RunFor(q)'}
    BY <1>1, <1>2, <1>4
  <1> QED
    BY <1>3, <1>4

\* A move the outside does not see.
LEMMA QuietMoves ==
    ASSUME NEW r \in Rows, NEW s,
           \/ s = r \/ s = Aged(r) \/ OpenMove(r, s) \/ s = clear_ingest(r)
           \/ s = [r EXCEPT !.results_key = NoKey] \/ s = Released(r)
    PROVE  Same(r, s)
  <1> USE DEF Same, Rows, Abs
  <1>1. CASE s = r
    BY <1>1
  <1>2. CASE s = Aged(r)
    BY <1>2 DEF Aged
  <1>3. CASE OpenMove(r, s)
    <2>1. PICK q \in Rows, k \in Keys, t \in Nat \ {0} :
             q = [r EXCEPT !.results_key = k] /\ s = open_ingest_lease(q, t)
      BY <1>3 DEF OpenMove
    <2>2. /\ q.status = r.status /\ q.assigned_agent_id = r.assigned_agent_id
          /\ q.attempts = r.attempts
      BY <2>1
    <2>3. /\ s.status = q.status /\ s.assigned_agent_id = q.assigned_agent_id
          /\ s.attempts = q.attempts
      BY <2>1 DEF open_ingest_lease, extend_lease
    <2> QED
      BY <2>2, <2>3
  <1>4. CASE s = clear_ingest(r)
    BY <1>4 DEF clear_ingest
  <1>5. CASE s = [r EXCEPT !.results_key = NoKey]
    BY <1>5
  <1>6. CASE s = Released(r)
    BY <1>6 DEF Released, clear_ingest
  <1> QED
    BY <1>1, <1>2, <1>3, <1>4, <1>5, <1>6

\* A step of one row that publishes nothing is a step of the promise.
LEMMA RowStepLooks ==
    ASSUME NEW j \in Jobs, Alone(j), SeenMove(job[j], job'[j]), AbstractRuns' = AbstractRuns
    PROVE  [Promise!Next]_(Promise!outcomeVars)
  <1> DEFINE r == job[j]
             s == job'[j]
  <1>0. /\ AbstractOutcome' = [AbstractOutcome EXCEPT ![j] = Abs(s)]
        /\ AbstractHolders' = [AbstractHolders EXCEPT ![j] = s.assigned_agent_id]
        /\ AbstractHandouts' = [AbstractHandouts EXCEPT ![j] = s.attempts]
        /\ AbstractOutcome[j] = Abs(r)
        /\ AbstractHolders[j] = r.assigned_agent_id
        /\ AbstractHandouts[j] = r.attempts
    BY AloneLooks
  <1>f. /\ AbstractOutcome = [AbstractOutcome EXCEPT ![j] = AbstractOutcome[j]]
        /\ AbstractHolders = [AbstractHolders EXCEPT ![j] = AbstractHolders[j]]
        /\ AbstractHandouts = [AbstractHandouts EXCEPT ![j] = AbstractHandouts[j]]
    <2>1. AbstractOutcome = [k \in Jobs |-> Abs(job[k])]
      BY DEF AbstractOutcome, Abs, Terminal
    <2>2. AbstractOutcome = [AbstractOutcome EXCEPT ![j] = AbstractOutcome[j]]
      BY <2>1
    <2>3. AbstractHolders = [AbstractHolders EXCEPT ![j] = AbstractHolders[j]]
      BY DEF AbstractHolders
    <2>4. AbstractHandouts = [AbstractHandouts EXCEPT ![j] = AbstractHandouts[j]]
      BY DEF AbstractHandouts
    <2> QED
      BY <2>2, <2>3, <2>4
  <1>1. CASE Same(r, s)
    <2>1. UNCHANGED <<AbstractOutcome, AbstractHolders, AbstractHandouts>>
      BY <1>1, NoneLooks DEF Alone
    <2> QED
      BY <2>1 DEF Promise!outcomeVars, AbstractHolders, AbstractHandouts
  <1>2. CASE HandOutRow(r, s)
    <2>1. PICK a \in Agents : a = s.assigned_agent_id
      BY <1>2 DEF HandOutRow
    <2>2. /\ AbstractOutcome[j] = "open" /\ AbstractHolders[j] = NoAgent
          /\ AbstractHandouts[j] < MaxAttempts
          /\ AbstractHolders' = [AbstractHolders EXCEPT ![j] = a]
          /\ AbstractHandouts' = [AbstractHandouts EXCEPT ![j] = AbstractHandouts[j] + 1]
          /\ AbstractOutcome' = AbstractOutcome
      BY <1>0, <1>f, <1>2, <2>1 DEF HandOutRow
    <2>3. Promise!HandOut(j, a)
      BY <2>2 DEF Promise!HandOut, AbstractHolders, AbstractHandouts
    <2> QED
      BY <2>3 DEF Promise!Next
  <1>3. CASE TakeBackRow(r, s)
    <2>2. /\ AbstractOutcome[j] = "open" /\ AbstractHolders[j] # NoAgent
          /\ AbstractHandouts[j] < MaxAttempts
          /\ AbstractHolders' = [AbstractHolders EXCEPT ![j] = NoAgent]
          /\ AbstractHandouts' = AbstractHandouts
          /\ AbstractOutcome' = AbstractOutcome
      BY <1>0, <1>f, <1>3 DEF TakeBackRow
    <2>3. Promise!TakeBack(j)
      BY <2>2 DEF Promise!TakeBack, AbstractHolders, AbstractHandouts
    <2> QED
      BY <2>3 DEF Promise!Next
  <1>4. CASE StopRow(r, s)
    <2>2. /\ AbstractOutcome[j] = "open" /\ AbstractHolders[j] # NoAgent
          /\ AbstractOutcome' = [AbstractOutcome EXCEPT ![j] = "stopping"]
          /\ AbstractHolders' = AbstractHolders
          /\ AbstractHandouts' = AbstractHandouts
      BY <1>0, <1>f, <1>4 DEF StopRow
    <2>3. Promise!Stop(j)
      BY <2>2 DEF Promise!Stop, AbstractHolders, AbstractHandouts
    <2> QED
      BY <2>3 DEF Promise!Next
  <1>5. CASE EndRow(r, s) /\ Abs(s) # SUCCEEDED
    <2>1. PICK end \in TERMINAL : end = Abs(s)
      BY <1>5 DEF EndRow
    <2>2. /\ AbstractOutcome[j] \in {"open", "stopping"}
          /\ AbstractHolders[j] = NoAgent => end = CANCELLED
          /\ end = CANCELLED => AbstractOutcome[j] = "stopping" \/ AbstractHolders[j] = NoAgent
          /\ AbstractOutcome' = [AbstractOutcome EXCEPT ![j] = end]
          /\ AbstractHolders' = AbstractHolders
          /\ AbstractHandouts' = AbstractHandouts
          /\ end # SUCCEEDED
      BY <1>0, <1>f, <1>5, <2>1 DEF EndRow
    <2>3. Promise!Decide(j, end)
      BY <2>2 DEF Promise!Decide, AbstractHolders, AbstractHandouts, Promise!CANCELLED,
                  Promise!SUCCEEDED, CANCELLED, SUCCEEDED
    <2>4. end \in Promise!TERMINAL
      BY DEF TERMINAL, Promise!TERMINAL, Promise!CANCELLED, Promise!SUCCEEDED, Promise!FAILED,
             CANCELLED, SUCCEEDED, FAILED
    <2> QED
      BY <2>3, <2>4 DEF Promise!Next
  <1> QED
    BY <1>1, <1>2, <1>3, <1>4, <1>5 DEF SeenMove

\* A step that no row is seen to take part in and that publishes nothing is none.
LEMMA QuietStepLooks ==
    ASSUME TypeOK, \A k \in Jobs : Same(job[k], job'[k]), pubs' = pubs
    PROVE  [Promise!Next]_(Promise!outcomeVars)
  <1>1. UNCHANGED <<AbstractOutcome, AbstractHolders, AbstractHandouts>>
    BY NoneLooks
  <1>2. \A p \in pubs : p.job \in Jobs
    BY DEF TypeOK, Publications
  <1>3. AbstractRuns' = AbstractRuns
    BY <1>2, RunsLook DEF Same
  <1> QED
    BY <1>1, <1>3 DEF Promise!outcomeVars, AbstractHolders, AbstractHandouts

\* A job that has its run is not handed out again, so its run keeps its name.
LEMMA RunsStay ==
    ASSUME TypeOK, PublishedShut, NEW j \in Jobs, Alone(j), SeenMove(job[j], job'[j])
    PROVE  \A p \in pubs : job'[p.job].attempts = job[p.job].attempts
  <1> SUFFICES ASSUME NEW p \in pubs
               PROVE  job'[p.job].attempts = job[p.job].attempts
    OBVIOUS
  <1>1. p.job \in Jobs /\ job[p.job].status \in TERMINAL
    BY DEF TypeOK, Publications, PublishedShut, Terminal
  <1>2. Abs(job[p.job]) # "open"
    BY <1>1 DEF Abs, TERMINAL, CANCELLING, SUCCEEDED, FAILED, CANCELLED
  <1>3. CASE p.job = j
    BY <1>2, <1>3 DEF SeenMove, Same, HandOutRow, TakeBackRow, StopRow, EndRow
  <1>4. CASE p.job # j
    BY <1>1, <1>4 DEF Alone, Same
  <1> QED
    BY <1>3, <1>4

\* What the steps of the promise are proved from.
Promising == Inv /\ AttemptsBounded /\ Holders /\ Provenance /\ PubInv

\* A step of a worker, an operator or a sweep on one row.
LEMMA SweepStepLooks ==
    ASSUME ~Overlap, Promising, NEW j \in Jobs, Alone(j), SweepMove(job[j], job'[j]),
           pubs' = pubs
    PROVE  [Promise!Next]_(Promise!outcomeVars)
  <1>1. /\ TypeOK /\ PublishedShut /\ job[j] \in Rows /\ RowInv(job[j]) /\ HolderOK(job[j])
        /\ AttemptsOK(job[j])
    BY DEF Promising, Inv, TypeOK, Holders, AttemptsBounded, AttemptsOK, PubInv
  <1>2. SeenMove(job[j], job'[j])
    BY <1>1, SweepLooks
  <1>3. \A p \in pubs : job'[p.job].attempts = job[p.job].attempts
    BY <1>1, <1>2, RunsStay
  <1>4. AbstractRuns' = AbstractRuns
    BY <1>3, RunsLook
  <1> QED
    BY <1>2, <1>4, RowStepLooks

\* A step that changes one row at most.
LEMMA OthersStay ==
    ASSUME NEW j \in Jobs, \A k \in Jobs : k # j => job'[k] = job[k]
    PROVE  Alone(j)
  BY DEF Alone, Same

\* The workers: a claim is a hand-out, a heartbeat is not seen.
LEMMA AgentStepLooks ==
    ASSUME ~Overlap, Promising, NEW a \in Agents, AgentStep(a)
    PROVE  [Promise!Next]_(Promise!outcomeVars)
  <1>0. TypeOK /\ job \in [Jobs -> Rows] /\ beat \in [Agents -> Beats \cup {NoBeat}]
    BY DEF Promising, Inv, TypeOK
  <1>m. (\A k \in Jobs : SweepMove(job[k], job'[k])) /\ pubs' = pubs
    <2>1. \A k \in Jobs : SweepMove(job[k], job'[k])
      BY <1>0, AgentMoves
    <2>2. /\ \A j \in Jobs : ClaimJob(a, j) => pubs' = pubs
          /\ FinishScan(a) => pubs' = pubs
          /\ SendResult(a) => pubs' = pubs
          /\ GiveUp(a) => pubs' = pubs
          /\ CrashAgent(a) => pubs' = pubs
          /\ SendBeat(a) => pubs' = pubs
          /\ MarkRunning(a) => pubs' = pubs
          /\ MarkRunningRead(a) => pubs' = pubs
          /\ MarkRunningWrite(a) => pubs' = pubs
          /\ LoseBeat(a) => pubs' = pubs
      BY Zenon DEF ClaimJob, FinishScan, SendResult, GiveUp, CrashAgent, SendBeat,
             MarkRunning, MarkRunningRead, MarkRunningWrite, LoseBeat
    <2> QED
      BY <2>1, <2>2 DEF AgentStep
  <1>1. ASSUME NEW j \in Jobs, ClaimJob(a, j)
        PROVE  [Promise!Next]_(Promise!outcomeVars)
    <2>1. \A k \in Jobs : k # j => job'[k] = job[k]
      BY <1>0, <1>1 DEF ClaimJob
    <2> QED
      BY <1>m, <2>1, OthersStay, SweepStepLooks
  <1>2. CASE MarkRunning(a)
    <2>1. beat[a].job \in Jobs
      BY <1>0, <1>2 DEF MarkRunning, Beats, NoBeat
    <2>2. \A k \in Jobs : k # beat[a].job => job'[k] = job[k]
      BY <1>0, <1>2 DEF MarkRunning
    <2> QED
      BY <1>m, <2>1, <2>2, OthersStay, SweepStepLooks
  <1>3. CASE MarkRunningWrite(a)
    BY <1>0, <1>3 DEF MarkRunningWrite, Beats, NoBeat
  <1>4. CASE job' = job
    BY <1>0, <1>m, <1>4, QuietMoves, QuietStepLooks
  <1>5. /\ FinishScan(a) => job' = job
        /\ SendResult(a) => job' = job
        /\ GiveUp(a) => job' = job
        /\ CrashAgent(a) => job' = job
        /\ SendBeat(a) => job' = job
        /\ MarkRunningRead(a) => job' = job
        /\ LoseBeat(a) => job' = job
    BY Zenon DEF FinishScan, SendResult, GiveUp, CrashAgent, SendBeat, MarkRunningRead, LoseBeat
  <1> QED
    BY <1>1, <1>2, <1>3, <1>4, <1>5 DEF AgentStep

\* The operator and the reaper: a stop, a take-back or an end without success.
LEMMA RowActionLooks ==
    ASSUME ~Overlap, Promising, NEW j \in Jobs, RowStep(j)
    PROVE  [Promise!Next]_(Promise!outcomeVars)
  <1>0. TypeOK /\ job \in [Jobs -> Rows]
    BY DEF Promising, Inv, TypeOK
  <1>1. SweepMove(job[j], job'[j]) /\ pubs' = pubs
    BY <1>0, RowMoves DEF SweepMove
  <1>2. \A k \in Jobs : k # j => job'[k] = job[k]
    BY <1>0 DEF RowStep, CancelJob, ReapExpiredLease, ReapStaleCancellation
  <1> QED
    BY <1>1, <1>2, OthersStay, SweepStepLooks

\* The first transaction of complete_job is not seen, nor is the clock.
LEMMA UploadStepLooks ==
    ASSUME Promising, NEW m \in net, UploadStep(m)
    PROVE  [Promise!Next]_(Promise!outcomeVars)
  <1>0. TypeOK /\ job \in [Jobs -> Rows]
    BY DEF Promising, Inv, TypeOK
  <1>1. \A k \in Jobs : Same(job[k], job'[k])
    BY <1>0, UploadMoves, QuietMoves
  <1>2. pubs' = pubs
    BY DEF UploadStep, LoseUpload, OpenIngest, AnswerUpload
  <1> QED
    BY <1>0, <1>1, <1>2, QuietStepLooks

\* The clock.
LEMMA TickLooks ==
    ASSUME Promising, Tick
    PROVE  [Promise!Next]_(Promise!outcomeVars)
  <1>0. TypeOK /\ job \in [Jobs -> Rows]
    BY DEF Promising, Inv, TypeOK
  <1>1. \A k \in Jobs : job'[k] = Aged(job[k])
    BY DEF Tick
  <1>2. \A k \in Jobs : Same(job[k], job'[k])
    BY <1>0, <1>1, QuietMoves
  <1>3. pubs' = pubs
    BY DEF Tick
  <1> QED
    BY <1>0, <1>2, <1>3, QuietStepLooks

\* The run an ingest that still has its fence leaves is the one of the agent and
\* the hand-out that are on the row.
LEMMA RunKept ==
    ASSUME TypeOK, Provenance, NEW h \in ingest, FenceHolds(h),
           pubs' = pubs \cup {PublicationOf(h)},
           \A k \in Jobs : job'[k].attempts = job[k].attempts
    PROVE  AbstractRuns' = AbstractRuns \cup
             {[job |-> h.job, agent |-> job[h.job].assigned_agent_id,
               handout |-> job[h.job].attempts]}
  <1> DEFINE q == PublicationOf(h)
  <1>1. /\ h.job \in Jobs
        /\ job[h.job].attempts = h.attempt /\ job[h.job].assigned_agent_id = h.agent
        /\ h.agent \notin Legacy => h.scanned = h.attempt
    BY DEF TypeOK, Handlers, FenceHolds, Provenance
  <1>2. \A p \in pubs : job'[p.job].attempts = job[p.job].attempts
    BY DEF TypeOK, Publications
  <1>3. q.job = h.job /\ q.agent = h.agent /\ q.scanned = h.scanned
    BY DEF PublicationOf
  <1>4. AbstractRuns' = AbstractRuns \cup {RunFor(q)'}
    BY <1>2, RunsLook
  <1>5. RunFor(q)' = [job |-> q.job, agent |-> q.agent,
                      handout |-> IF q.agent \in Legacy THEN job'[q.job].attempts ELSE q.scanned]
    BY DEF RunFor
  <1>6. RunFor(q)' = [job |-> h.job, agent |-> job[h.job].assigned_agent_id,
                      handout |-> job[h.job].attempts]
    BY <1>1, <1>3, <1>5
  <1> QED
    BY <1>4, <1>6

\* An end that leaves the holder's run.
LEMMA EndWithRunLooks ==
    ASSUME NEW j \in Jobs, Alone(j), EndRow(job[j], job'[j]), job[j].assigned_agent_id # NoAgent,
           AbstractRuns' = AbstractRuns \cup
             {[job |-> j, agent |-> job[j].assigned_agent_id, handout |-> job[j].attempts]}
    PROVE  Promise!Next
  <1> DEFINE r == job[j]
             s == job'[j]
  <1>0. /\ AbstractOutcome' = [AbstractOutcome EXCEPT ![j] = Abs(s)]
        /\ AbstractHolders' = [AbstractHolders EXCEPT ![j] = s.assigned_agent_id]
        /\ AbstractHandouts' = [AbstractHandouts EXCEPT ![j] = s.attempts]
        /\ AbstractOutcome[j] = Abs(r)
        /\ AbstractHolders[j] = r.assigned_agent_id
        /\ AbstractHandouts[j] = r.attempts
    BY AloneLooks
  <1>1. AbstractHolders = [AbstractHolders EXCEPT ![j] = AbstractHolders[j]]
    BY DEF AbstractHolders
  <1>2. AbstractHandouts = [AbstractHandouts EXCEPT ![j] = AbstractHandouts[j]]
    BY DEF AbstractHandouts
  <1>3. PICK end \in TERMINAL : end = Abs(s)
    BY DEF EndRow
  <1>4. /\ AbstractOutcome[j] \in {"open", "stopping"}
        /\ end = CANCELLED => AbstractOutcome[j] = "stopping"
        /\ AbstractOutcome' = [AbstractOutcome EXCEPT ![j] = end]
        /\ AbstractHolders' = AbstractHolders
        /\ AbstractHandouts' = AbstractHandouts
        /\ AbstractHolders[j] # NoAgent
    BY <1>0, <1>1, <1>2, <1>3 DEF EndRow
  <1>5. AbstractRuns' = AbstractRuns \cup {Promise!RunOf(j)}
    BY <1>0 DEF Promise!RunOf, AbstractHolders, AbstractHandouts
  <1>6. Promise!Decide(j, end)
    BY <1>4, <1>5 DEF Promise!Decide, AbstractHolders, AbstractHandouts, Promise!CANCELLED,
                      CANCELLED
  <1>7. end \in Promise!TERMINAL
    BY DEF TERMINAL, Promise!TERMINAL, Promise!CANCELLED, Promise!SUCCEEDED, Promise!FAILED,
           CANCELLED, SUCCEEDED, FAILED
  <1> QED
    BY <1>6, <1>7 DEF Promise!Next

\* The run of a stopped scan that is kept after the verdict.
LEMMA LateRunLooks ==
    ASSUME NEW j \in Jobs, \A k \in Jobs : Same(job[k], job'[k]), job[j].status = CANCELLED,
           job[j].assigned_agent_id # NoAgent, \A p \in pubs : p.job # j,
           AbstractRuns' = AbstractRuns \cup
             {[job |-> j, agent |-> job[j].assigned_agent_id, handout |-> job[j].attempts]}
    PROVE  Promise!Next
  <1>1. UNCHANGED <<AbstractOutcome, AbstractHolders, AbstractHandouts>>
    BY NoneLooks
  <1>2. AbstractOutcome[j] = CANCELLED
    BY DEF AbstractOutcome, Terminal, TERMINAL, CANCELLED, CANCELLING
  <1>3. AbstractHolders[j] # NoAgent
    BY DEF AbstractHolders
  <1>4. \A r \in AbstractRuns : r.job # j
    BY DEF AbstractRuns
  <1>5. AbstractRuns' = AbstractRuns \cup {Promise!RunOf(j)}
    BY DEF Promise!RunOf
  <1>6. Promise!KeepLateArchive(j)
    BY <1>1, <1>2, <1>3, <1>4, <1>5
    DEF Promise!KeepLateArchive, AbstractHolders, AbstractHandouts, Promise!CANCELLED, CANCELLED
  <1> QED
    BY <1>6 DEF Promise!Next

\* The second transaction of complete_job: an end, a late archive, or nothing that
\* is seen.
LEMMA IngestStepLooks ==
    ASSUME Promising, NEW h \in ingest, IngestStep(h)
    PROVE  [Promise!Next]_(Promise!outcomeVars)
  <1>0. /\ TypeOK /\ Provenance /\ job \in [Jobs -> Rows] /\ PublishedShut /\ LateHeld
        /\ \A k \in Jobs : RowInv(job[k])
    BY DEF Promising, Inv, TypeOK, PubInv
  <1>h. /\ h.job \in Jobs /\ h.status \in TERMINAL /\ h.exit \in ExitCodes /\ h.key \in Keys
        /\ h.agent \in Agents /\ h.archive \in BOOLEAN
        /\ h.status = SUCCEEDED => h.archive
    BY <1>0 DEF TypeOK, Handlers, Provenance
  <1>f. FenceHolds(h) => job[h.job].assigned_agent_id # NoAgent
    BY <1>h, QueueAssumption DEF FenceHolds
  <1>1. CASE RecordOutcome(h)
    <2>1. /\ FenceHolds(h) /\ CanTransition(job[h.job].status, h.status)
          /\ job'[h.job] = Closed(job[h.job], h.status, h.exit, h.key)
          /\ \A k \in Jobs : k # h.job => job'[k] = job[k]
          /\ pubs' = IF h.archive THEN pubs \cup {PublicationOf(h)} ELSE pubs
      BY <1>0, <1>1, <1>h DEF RecordOutcome, Recorded
    <2>2. EndRow(job[h.job], job'[h.job]) /\ Abs(job'[h.job]) = h.status
      BY <1>0, <1>f, <1>h, <2>1, ClosedLooks
    <2>3. Alone(h.job)
      BY <1>h, <2>1, OthersStay
    <2>4. \A k \in Jobs : job'[k].attempts = job[k].attempts
      BY <2>1, <2>2 DEF EndRow
    <2>5. CASE h.archive
      <3>1. AbstractRuns' = AbstractRuns \cup
              {[job |-> h.job, agent |-> job[h.job].assigned_agent_id,
                handout |-> job[h.job].attempts]}
        BY <1>0, <2>1, <2>4, <2>5, RunKept
      <3> QED
        BY <1>f, <1>h, <2>1, <2>2, <2>3, <3>1, EndWithRunLooks
    <2>6. CASE ~h.archive
      <3>1. \A p \in pubs : job'[p.job].attempts = job[p.job].attempts
        BY <1>0, <2>4 DEF TypeOK, Publications
      <3>2. AbstractRuns' = AbstractRuns
        BY <2>1, <2>6, <3>1, RunsLook
      <3>3. SeenMove(job[h.job], job'[h.job])
        BY <1>h, <2>2, <2>6 DEF SeenMove
      <3> QED
        BY <1>h, <2>3, <3>2, <3>3, RowStepLooks
    <2> QED
      BY <1>h, <2>5, <2>6
  <1>2. CASE RejectArchive(h)
    <2>1. PICK st \in TERMINAL : st = RejectedStatus(h) /\ st # SUCCEEDED
      BY <1>h DEF RejectedStatus, TERMINAL, SUCCEEDED, FAILED, CANCELLED
    <2>2. /\ FenceHolds(h) /\ CanTransition(job[h.job].status, st)
          /\ job'[h.job] = Closed(job[h.job], st, 1, h.key)
          /\ \A k \in Jobs : k # h.job => job'[k] = job[k]
          /\ pubs' = pubs
      BY <1>0, <1>2, <1>h, <2>1 DEF RejectArchive
    <2>3. 1 \in ExitCodes
      BY DEF ExitCodes
    <2>4. EndRow(job[h.job], job'[h.job]) /\ Abs(job'[h.job]) = st
      BY <1>0, <1>f, <1>h, <2>2, <2>3, ClosedLooks
    <2>5. Alone(h.job)
      BY <1>h, <2>2, OthersStay
    <2>6. SeenMove(job[h.job], job'[h.job])
      BY <2>1, <2>4 DEF SeenMove
    <2>7. \A p \in pubs : job'[p.job].attempts = job[p.job].attempts
      BY <1>0, <1>h, <2>5, <2>6, RunsStay
    <2>8. AbstractRuns' = AbstractRuns
      BY <2>2, <2>7, RunsLook
    <2> QED
      BY <1>h, <2>5, <2>6, <2>8, RowStepLooks
  <1>3. CASE RecordLateArchive(h)
    <2>1. /\ FenceHolds(h) /\ ActiveLate(h)
          /\ job'[h.job] = clear_ingest(job[h.job])
          /\ \A k \in Jobs : k # h.job => job'[k] = job[k]
          /\ pubs' = pubs \cup {PublicationOf(h)}
      BY <1>0, <1>3, <1>h DEF RecordLateArchive, ActiveLate
    <2>2. \A k \in Jobs : Same(job[k], job'[k])
      BY <1>0, <2>1, QuietMoves
    <2>3. job[h.job].status = CANCELLED /\ job[h.job].exit_code = NULL
      BY <1>0, <2>1 DEF LateHeld
    <2>4. \A p \in pubs : p.job # h.job
      BY <1>0, <2>1, <2>3 DEF PublishedShut
    <2>5. \A k \in Jobs : job'[k].attempts = job[k].attempts
      BY <2>2 DEF Same
    <2>6. AbstractRuns' = AbstractRuns \cup
            {[job |-> h.job, agent |-> job[h.job].assigned_agent_id,
              handout |-> job[h.job].attempts]}
      BY <1>0, <2>1, <2>5, RunKept
    <2> QED
      BY <1>f, <1>h, <2>1, <2>2, <2>3, <2>4, <2>6, LateRunLooks
  <1>4. CASE FailIngest(h) \/ CrashIngest(h)
    <2>1. job' = job /\ pubs' = pubs
      BY <1>4 DEF FailIngest, CrashIngest
    <2> QED
      BY <1>0, <2>1, QuietMoves, QuietStepLooks
  <1>5. CASE ReleaseKey(h)
    <2>1. \A k \in Jobs : job'[k] = job[k] \/ job'[k] = [job[k] EXCEPT !.results_key = NoKey]
      BY <1>0, <1>5, <1>h DEF ReleaseKey
    <2>2. pubs' = pubs
      BY <1>5 DEF ReleaseKey
    <2>3. \A k \in Jobs : Same(job[k], job'[k])
      BY <1>0, <2>1, QuietMoves
    <2> QED
      BY <1>0, <2>2, <2>3, QuietStepLooks
  <1>6. CASE ReleaseLease(h)
    <2>1. \A k \in Jobs : job'[k] = job[k] \/ job'[k] = Released(job[k])
      BY <1>0, <1>6, <1>h DEF ReleaseLease
    <2>2. pubs' = pubs
      BY <1>6 DEF ReleaseLease
    <2>3. \A k \in Jobs : Same(job[k], job'[k])
      BY <1>0, <2>1, QuietMoves
    <2> QED
      BY <1>0, <2>2, <2>3, QuietStepLooks
  <1> QED
    BY <1>1, <1>2, <1>3, <1>4, <1>5, <1>6 DEF IngestStep

\* JobQueue implements JobOutcome: seen from outside, whatever the leases, the
\* sweeps, the retries and the races of complete_job do, a scan is handed out a
\* bounded number of times and to one agent at a time, is decided once, and keeps
\* the run of the agent and the hand-out that decided it.
THEOREM QueueKeepsItsPromise == ~Overlap => (Spec => KeepsItsPromise)
  <1> SUFFICES ASSUME ~Overlap
               PROVE  Spec => KeepsItsPromise
    OBVIOUS
  <1>1. Init => Promise!Init
    <2> SUFFICES ASSUME Init PROVE Promise!Init
      OBVIOUS
    <2>1. \A j \in Jobs : /\ job[j].status = QUEUED /\ job[j].assigned_agent_id = NoAgent
                          /\ job[j].attempts = 0
      BY DEF Init, NewRow
    <2>2. AbstractOutcome = [j \in Jobs |-> "open"]
      BY <2>1 DEF AbstractOutcome, Terminal, TERMINAL, QUEUED, CANCELLING, SUCCEEDED, FAILED,
                  CANCELLED
    <2>3. AbstractRuns = {}
      BY DEF Init, AbstractRuns
    <2> QED
      BY <2>1, <2>2, <2>3 DEF Promise!Init
  <1>2. Promising /\ [Next]_vars => [Promise!Next]_(Promise!outcomeVars)
    <2> SUFFICES ASSUME Promising, [Next]_vars
                 PROVE  [Promise!Next]_(Promise!outcomeVars)
      OBVIOUS
    <2>1. CASE UNCHANGED vars
      <3>1. job' = job /\ pubs' = pubs /\ TypeOK /\ job \in [Jobs -> Rows]
        BY <2>1 DEF vars, Promising, Inv, TypeOK
      <3> QED
        BY <3>1, QuietMoves, QuietStepLooks
    <2> QED
      BY <2>1, AgentStepLooks, UploadStepLooks, IngestStepLooks, RowActionLooks, TickLooks DEF Next
  <1> QED
    BY <1>1, <1>2, InvInductive, AttemptsAreBounded, HoldersHold, ProvenanceHolds, PubInvHolds, PTL
    DEF Spec, Promising, KeepsItsPromise, Promise!Spec

=============================================================================
