# Shapoclyack in TLA+

Shapoclyack is a vulnerability-scanning platform. API replicas share one
Postgres database and serve a console, a fleet of remote agents (sensors) and
their own local scans. A scan is a row of the `jobs` table: an agent claims it,
scans, keeps it alive with heartbeats and uploads an archive of the run; the API
decides the outcome and then publishes the run to the artifact store, the
inventory and the NATS bus. Everything that makes this hard is in the control:
several replicas, agents that die and are restarted under the same id, uploads
of many megabytes that are resent while the first copy is still being read,
sweeps that run beside the requests, an operator who presses stop in the middle.

This directory holds the specification of that control, the TLC instances that
check it and the TLAPS proofs of its most important properties.

## 1. Inventory

| Component | Source (`src/api/services/` unless said) | State | Operations | Modelled in |
|---|---|---|---|---|
| job lifecycle table | `job_states.py` | – | `can_transition` | `JobStates` |
| job queue | `job_control.py` | `jobs` rows | `claim_job`, `mark_running`, `cancel_job` | `JobQueue`, local jobs in `LocalScans` |
| result ingestion | `job_results.py` | `jobs`: results key, ingest columns; a call between its two transactions | `complete_job` and its replay, late, reject and release paths | `JobQueue` |
| leases and fence | `job_leases.py` | `claimed_until`, `ingest_*`, waiting marks | `extend_lease`, `open_ingest_lease`, `check_ingest_fence`, `release_ingest_lease`; `renew_waiting_mark`, `renewing_lease` | `JobQueue`; `LocalScans` |
| row writer | `job_store.py` | – | `update_job` | `JobQueue`, `LocalScans` |
| reaper | `job_reaper.py` | – | `reap_expired_leases`, `reap_stale_cancellations` | `JobQueue`, `LocalScans` |
| agent worker | `src/agent/worker.py` | the job in hand, its result, the heartbeat thread | poll, scan, beat, upload and resend, crash | `JobQueue` |
| scan queue ceilings | `scan_queue.py` | counts over `jobs` | `hold_slot`, `local_job_ahead`, `set_priority`, queue depth | `JobQueue`, `LocalScans`; depth only as a refusal in `ScheduleDispatcher` |
| scan submission | `job_submission.py` | `jobs`, idempotency key of a request | `start_scan` | the row in `JobQueue`, the key in `ScheduleDispatcher` |
| local scans | `local_job_runner.py`, `local_scan_executor.py`, `job_repository.py` | threads, `jobs` with execution local, `latest_run.json` | slot poll, start, renewal, end, restart reconciliation | `LocalScans` |
| run publication | `run_publisher.py`, `publication_marks.py`, `run_completion.py` | `run_publications`, staging trees, the store | publish, renew, roll back, reconcile, requeue, discard | `RunPublication` |
| artifact store | `artifact_store/` | keys under a run's prefix, the staging tree | upload a tree, remove keys, promote | `RunPublication` (remote backend) |
| NATS outbox | `nats_outbox.py`, `asset_events.py` | `nats_outbox` rows | record, forget, reconcile, requeue, discard | `NatsOutbox` |
| webhook delivery | `integrations/webhooks.py`, `secure_webhooks.py`, `webhook_worker.py` | deliveries, subscriptions, the consumer's position | fan-out, claim, check, post, record, requeue, prune | `WebhookQueue`; with the outbox in `EventFanOut` |
| schedule dispatcher, leader lock | `schedule_dispatcher.py`, `scan_schedules.py`, `leader_lock.py` | schedules, an advisory lock, per-replica memory of refusals | tick, dispatch, defer, skip | `ScheduleDispatcher` |
| vulnerability lifecycle | `vuln_states.py`, `vulnerabilities.py`, `verification_coverage.py`, `run_completion.py`, `software_findings.py` | vulnerability rows | observe, verify, patch, reopen, suppress, accept, extend, revoke, lapse | `FindingLifecycle` |
| SLA escalation | `sla_escalation.py` | once-only markers | the tick that lapses acceptances | `FindingLifecycle` (that tick) |
| ingest gate | `ingest_gate.py` | a semaphore and a count of waiters, per process | enter, wait, leave | not modelled |
| tenant lifecycle, purge | `tenant_lifecycle.py`, `tenant_purge/` | tenant status | suspend, resume, delete | suspension as seen by webhooks and schedules |
| request idempotency, rate limit | `idempotency.py`, `rate_limit.py` | reservations, counters | – | not modelled |
| authentication, routes, schemas, tables, settings | `src/api/` | – | declarations and glue | not modelled |
| SDK, scanner pipeline, console | `src/sdk/`, `src/scanner/`, `src/web-next/` | – | generated client; external tools and parsing; user interface | not modelled |

How they interact. A person or a schedule calls `start_scan`, which inserts a job.
A sensor's poll (`claim_job`) or a thread of the accepting replica (`_start`) takes
the tenant's claim lock, counts the occupied slots and starts it. Heartbeats
(`mark_running`, `renewing_lease`) push the row's deadline out and carry a requested
stop back. `complete_job` reserves the upload's idempotency key and opens an *ingest
lease* in one transaction, extracts the archive with no transaction at all, and
writes the outcome in a second transaction, behind a fence (token, attempt, agent),
together with a `run_publications` row; a local scan writes its outcome and its row
in one transaction. The run publisher takes it from there: store, inventory,
findings, bus. What the bus does not take goes to the outbox; asset events on the
stream become webhook deliveries. The reaper requeues or writes off jobs whose
deadline has passed and ends stops that nobody confirms. A finding that was fixed is
verified by a scan of its own, whose run brings the verdict.

What is hard, and what makes each part correct:

* **queue** – one agent at a time, a bounded number of hand-outs, a stop that is
  never undone, an outcome that is written once, every job finished in the end;
* **ingestion** – at most one run per job, and only from the attempt that holds
  it; no success without its run, wherever a replica dies; a failed upload gives
  back exactly what it reserved;
* **reaper** – never takes a job from under a live ingest or a live thread, never
  leaves one behind;
* **local scans** – the ceiling holds though the lock is only tried; a scan that is
  asked for is answered; the run that is handed over is the one that was produced;
* **run publication** – a slow attempt must not roll back what a later one stored;
  one run fed to the inventory once; bounded attempts;
* **outbox, webhooks** – nothing refused disappears unseen, replicas do not repeat
  each other's work, receivers are not paged twice, switches take effect, an event
  arrives when the broker is back;
* **dispatcher** – one scan per occurrence, although leadership is not fenced; no
  overlap, no run skipped that could still start, no schedule that stops;
* **findings** – a closure, a deadline, a signature and the risk register stay true
  through every order of runs, people and lapses; a verification comes to an end.

`PROJECT.json` lists the hazards at their lines, with the properties about them.

## 2. Modules

| Module | What it is | Instance | Proofs |
|---|---|---|---|
| `JobStates` | the statuses, the sets over them, `TRANSITIONS` | – | – |
| `JobQueue` | rows, agents, network, ingests, reaper, clock | `MCJobQueue` | `JobQueueProofs` |
| `JobOutcome` | what the queue promises, with no leases, clocks or messages in it | as a property of `MCJobQueue` | its refinement, in `JobQueueProofs` |
| `RunPublication` | one `run_publications` row and the attempts at it | `MCRunPublication` | `RunPublicationProofs` |
| `NatsOutbox` | the messages the broker refused and the reconcilers | through `EventFanOut` | `NatsOutboxProofs` |
| `WebhookQueue` | from an event on the stream to its receivers | `MCWebhookQueue` | `WebhookQueueProofs` |
| `EventFanOut` | the composition of the two on one stream | `MCEventFanOut` | `EventFanOutProofs` |
| `ScheduleDispatcher` | one schedule and the dispatchers of the replicas | `MCScheduleDispatcher` | `ScheduleDispatcherProofs` |
| `LocalScans` | the scans the replicas run themselves | `MCLocalScans` | `LocalScansProofs` |
| `FindingLifecycle` | one finding, of the scans or of the inventory, and who writes it | `MCFindingLifecycle` | `FindingLifecycleProofs` |

A definition `Name_Word` is a mutated form of `Name`, the bug that `Word` names.
Nothing in the specification uses it; replacing `Name` by it must break the
property that `PROJECT.json` lists with it, which shows that the property is
about the code and the run reaches the case.

### `JobQueue`: state

| Variable | In the code |
|---|---|
| `job` | the row: `status`, `assigned_agent_id`, `attempts`, `claimed_until`, `cancel_requested_at`, `finished_at`, `ingest_token` (with `ingest_attempt` and `ingest_agent_id`, which are written with it and equal to `attempts` and `assigned_agent_id` at that moment), `ingest_started_at`, `exit_code`, `results_idempotency_key` |
| `scan` | the local variables of an agent's `run_loop`/`_execute_job` |
| `beat` | the request of its heartbeat thread, at most one |
| `net` | result uploads under way; copies are told apart by `send` |
| `ingest` | `complete_job` calls between their two transactions, with their fence |
| `pubs` | `run_publications` rows |
| `tokens` | ingest tokens (a fresh random value in the code) |

**Time.** The code stores instants and compares them with the clock. The model
stores what is left of the period the code measures from the instant: a number
that `Tick` counts down to 0, and -1 for NULL. Only the comparisons the code
makes are left (over or not over), and `Tick` may happen anywhere, so that every
relative speed of scans, uploads, ingests and sweeps is covered.

**Atomicity.** A transaction that begins by locking its row (`FOR UPDATE`) is one
action. `complete_job` is two of them with an open handler between, plus the two
transactions of its failure path (`ReleaseKey`, `ReleaseLease`); a replica may die
before each (`CrashIngest`). `mark_running` does not lock. With `Overlap = TRUE`
it is split into its read and the UPDATE of the columns it found to differ;
with `Overlap = FALSE` it is one step, which is what its docstring assumes. The
write may be late in two ways: it promotes a job that was decided since, and it
stores a lease that `extend_lease` compared with the one it had read.

**Network and agents.** An upload may be duplicated (`SendResult` up to
`MaxSends` times), lost, delayed past anything, or answered without the answer
arriving (`Answered`). A claim's answer may be lost. An agent crashes in any
phase and comes back idle with its id; its uploads and heartbeats stay in the
network. `Legacy` agents send neither an attempt nor a key.

**Left open** rather than modelled: which eligible row `claim_job` offers
(priority, groups, capabilities, maintenance windows, inputs) – any may be
taken; why an ingest fails – any may, at any time (`FailIngest`); which exit
code other than 0 – one stands for all. `attempt = 0` is an upload that names none.

**Actions and code.** `ClaimJob` = `claim_job`; `FinishScan`, `SendResult`,
`GiveUp`, `SendBeat`, `CrashAgent` = the worker; `MarkRunning` (`…Read`,
`…Write`) = `mark_running` with the reply of the heartbeat route; `CancelJob` =
`cancel_job`; `OpenIngest` and `AnswerUpload` = the first transaction of
`complete_job`; `RecordOutcome`, `RecordLateArchive`, `RejectArchive`,
`FailIngest`, `ReleaseKey`, `ReleaseLease` = the rest of it;
`ReapExpiredLease`, `ReapStaleCancellation` = the reaper, one row at a time (it
locks with SKIP LOCKED and commits the rows it took). `PROJECT.json` maps every
definition to its lines.

### `JobOutcome`: the promise

Four variables: how a scan ended, who holds it, how often it was handed out, which
runs were kept. Hand out (bounded), take back (only while a hand-out is left and
never of a scan that is stopping), stop, decide (once; success only with the
holder's run), keep the late archive of a stopped scan (once).
`JobQueue` implements it under the mapping `Promise`: `queued`, `claimed` and
`running` are all "open", a publication is the run of its agent and hand-out. TLC checks
it on the instance of `queue_promise`; `QueueKeepsItsPromise` proves it for all.

### `RunPublication`: state and actions

| Variable | In the code |
|---|---|
| `row` | the row: `status` (a deleted row keeps the reason it was deleted for), `attempts`, `claims`, `claims_base`, `fence`, `stored_at`, `next_attempt_at` (`due`), `leased_until` (`leased`), `updated_at` (`touched`, what is left of the orphan deadline), `created_at` (`adoptable`, what is left of the adoption window), the findings mark of `projected`, `last_error` |
| `note` | does `jobs.error` say that the run was not published? |
| `live` | the calls of `_attempt` (and of the tick around it) that are running, each with the snapshot its claim took |
| `inline` | `complete_job` has committed and not called `publish_now` yet |
| `staging`, `archive` | the extracted upload and its archive on the owner's disk |
| `store` | the keys under the run's prefix |
| `bus` | the message is on the stream, in the outbox, or both |
| `feeds` | how often the findings were folded from this row |
| `podGone` | the owner's pod was taken away |

`PublishNow` = `publish_now`; `ClaimDue` = `_claim_due` in a tick; `GiveBack`,
`Condemn`, `Start` = the three ways `reconcile_once` goes on; `Begin`, `Renew` =
`_Lease`; `Publish` = the three cases of `_publish`; `PutFile`, `UploadFails`,
`RollBack`, `TakeBack`, `MarkStored`, `Promote` = the upload and its undoing;
`PublishToBus`, `ArchiveGone`, `Project` = the rest of the attempt;
`RecordSuccess`, `RecordFailure` = its outcome; `FailAttempt` = any exception in
between; `LoseOutcome` = an exception outside `_attempt`'s `try`; `Requeue`,
`Discard` = the operator.

Every transaction, every file and every other visible effect is a step, and a
replica may die between any two (`Crash`), for good with its disk (`LosePod`).
Timers are as in `JobQueue`. Constants that choose the world: `Shared` – do the
replicas share the cache volume (or have an `emptyDir` each, the default HA
overlay)? `Overlap` – may a second attempt start while one is running, as it can
after a lost renewal or through `publish_now`? `CrashAnywhere` – may any step
fail, or does a replica die only inside the leased work (a tree that is too large
for its memory)? The last is for liveness: a replica that dies in every
transaction that would record an outcome decides nothing, whatever the code does.

Abstractions: the upload is an agent's and its job succeeded (so that the row has
a risk contract and `ensure_publication_receipt` asks for the receipt); the
backend is remote and NATS is configured; the two marks of `publication_marks` are
represented by the findings mark, the one whose receipt the code insists on;
promotion and the bus step are one step each; a renewal, `_give_back` and
`_mark_stored`, which read and write without a lock, are one step each; the
savepoint that clears the note does not fail by itself (`_clear_notes` counts and
logs that case).

### `NatsOutbox`: state and actions

| Variable | In the code |
|---|---|
| `rows` | the `nats_outbox` row of each message: `status`, `attempts`, `next_attempt_at` (`due`) |
| `sender` | where each attempt at the publication of a message is: not there yet, accepted, refused, failed, delivered, recorded, or recorded after another attempt's delivery (`late`) |
| `broker`, `stream`, `recent` | is there a broker; copies the stream took; ids inside its duplicate window |
| `tick` | the batch each reconciler holds, the row it is at, what it read of it, and what is left of its window |
| `lost`, `discarded`, `requeued`, `bodyless` | events the database refused too; the operator's decisions; ingests kept without their archive |

`Publish`, `Deliver`, `Record`, `RecordFails` = an attempt at its last hop
(`publish_ingest_or_record`, `publish_events`, `record_failed_publish`). Attempts
overlap as they do in `RunPublication`, and one that failed or died is followed by
another; what an attempt does is a publish and a transaction, with anything between.
`ClaimDue`, `Republish`, `ReadRow`, `WriteOutcome` = a reconciler's tick, the last two
apart because `_record_attempt` reads without a lock; `TickDies` = an exception or a
crash in it; `RequeueDead`, `DiscardDead` = the operator. A publish may be taken by the
stream and answered as refused. `ClaimDue` models the oldest-first order and the share of a batch that ingests
get (`IngestShare`), and its window counts from the moment the tick began, of which
some has `passed` when the bus is connected. `Lapses` lets a batch outlive its window.

### `WebhookQueue` and `EventFanOut`

`hook` is the `webhook_deliveries` row of each subscription and event, `subs` and
`active` the switches, `handled`/`tries`/`dropped` the durable consumer, `pass` a
dispatcher's batch. `EnqueueEvent`, `EnqueueFails`, `StopsRedelivering` = `_handle_msg`
and `max_deliver`; `ClaimDeliveries`, `Check`, `Send`, `ReadDelivery`, `WriteDelivery` =
`dispatch_once`, a POST being one step outside any transaction; `AbortBatch`,
`DispatcherDies` = its error path and a dead replica; the operator requeues, prunes,
switches and deletes. `posts`, `pages`, `sinceOff`, `sinceHeld` are history. Bodies,
signatures, test deliveries and ticket links are left out, and so is the dead letter a
database error inside the release or snapshot of a delivery ends in; every subscription
wants every event.

`EventFanOut` puts both on one stream: what the outbox publishes, at once or after an
outage, is what the consumer reads. The two properties stated there speak of a path
that no service sees as a whole. The composition implements each of its parts
(`OutboxIsAPart`, `QueueIsAPart`), so what is proved of a part is proved of the whole,
for the constants that satisfy the assumption of the part.

### `ScheduleDispatcher`

`sched` is the row (`next_run_at`, `last_job_id`, cadence, a version for its targets),
`scans` the jobs by the due time in their key, `lock` the connection that holds the
advisory lock and `leads` what each replica believes, `since` its memory of refusals,
`tick` the row as it was read and what is to be written. A tick is read, start and
write, three steps with anything between: `ReadDue`; `StartIsFull`, `StartIsBlocked`,
`StartIsRefused`, `Start`, `StartRaises`; `Write`. `LoseConnection` takes the lock away
and the tick goes on. `EditSchedule`, `SwitchTenant` = the operator. `trouble` is a
reason for every start to raise and for every write to fail (targets outside the
approved scope, a group that is gone, scan starts switched off, a database that does not
answer): it comes and goes at any time (`TroubleTurns`), and while it lasts
`StartRaises` and `TickFails` happen as often as the loop ticks. `past` is history: a
refusal moved the schedule, a scan went unrecorded, a tick outlived its lock. The cadence
is a grid of `Period`; an interval counts from the run.

### `LocalScans`

`row` has the status, the mark (`claimed_until` as the time left), the age of a row
that was never asked for, and the priority; `thread` the stage of the executor's
thread, its poll and its renewal; `lock`/`free` the tenant's claim lock and what its
holder counted; `pointer`, `dir`, `pubs` the files: `latest_run.json` of a replica, a
run's directory, the publications. `HoldSlot`, `LockIsBusy`, `KeepWaiting`,
`StartScan`, `NotStarted`, `AskFails` = `_wait_for_slot` and `_start`; `Renew` =
`renewing_lease`; `ScannerOpensRun`, `ScanEnds`, `ScanRaises` = the scanner as the
runner sees it; `WriteOutcome`, `OutcomeRefused` = the end; `Reap`, `ReplicaReturns` =
the two ways a row is written off. Sensors claim from the same ceiling. A thread keeps
its poll until it falls behind (`late`); from then on it may be arbitrarily slow.

### `FindingLifecycle`

`row` is the finding: state, closure, clock (`sla_started_at`, `sla_days`, `due_at`),
acceptance (`exception_*`), verdict, verification, last sighting; `scan` what became of
each run; `dispatching` a verification between its two transactions. A scan looks at
one moment and is folded at a later one (`RegisterFindings`), in any order, or never: its
publication may be given up (`PublicationGivenUp`; `RunIsDecided` promises no more). A
row belongs to the scans or to the inventory (`source`); `InventoryMatches` and
`InventoryClears` fold a snapshot of the latter, which may come late or again, and
`Patched` is its closure. `orphaned` is history: that closure left an acceptance on the
row.
`TriggerVerification`, `WriteReceipt`, `NoReceipt` = the dispatch; `Verdict`,
`ReleaseVerification` = its end. `Move` is shared by the operator's transition and the
tracker's word. Every call of a person is one transaction and one step; the code loads
the row without a lock (`_load`), and what two overlapping calls do is not modelled. The
key of a verification is the last state change; the code's also has the previous job,
which changes with it, and a digest of the plan. A job that is being cancelled is in
flight here and `NoReceipt` is the refusal it gets.

## 3. Runs

| Run | Instance | Shows |
|---|---|---|
| `queue_safety` | 1 job, 2 agents, 2 sends, 2 ingests, symmetric | one run per job, the ingest window |
| `queue_overlap` | 1 job, 1 agent, 1 send, 2 ingests, heartbeats split | what survives an unlocked heartbeat: success owes its run, no straggler publishes, a decision is undone by nothing but a promotion that was read before it |
| `queue_ceiling` | 2 jobs, 1 agent, 1 slot | the tenant's ceiling through claims, requeues, stops and sweeps |
| `queue_promise` | 1 job, 1 agent, 2 sends, 2 ingests, fairness | `JobQueue` implements `JobOutcome` (hand-outs bounded, stops kept, one outcome); every job is finished for good, also when a replica died in a confirming upload |
| `pub_overlap` | 1 file, separate disks, overlapping attempts, 3 claims, 1 requeue | fed once; the note is true, with hand-backs and orphaned rows too |
| `pub_decided` | 2 files, separate disks, 30 claims (never reached: the budget ends the row first), fairness | a stored run is whole and stays whole; the row is published or given up; claims without an outcome stay in their budget |
| `hooks` | 2 events, 1 subscription, 2 dispatchers, batches of 2, 2 attempts, 2 deliveries, symmetric | one page per event, delivered is final, bounded posts, kill switch and suspension |
| `events` | 1 ingest, 1 event, 2 overlapping attempts at each, 2 reconcilers, 2 tries, 1 subscription, 2 moves | nothing goes silently, peers divide the backlog, given up only when spent, a delivery leaves no earlier row; an event is accounted for and reaches the queue |
| `schedule` | 2 replicas, 2 periods, 1 loss or operator turn, any number of failing starts and writes | one scan per run, one at a time, skips only at the end, no schedule left behind once its trouble is over |
| `local` | 2 local jobs of one replica, a sensor, 1 slot, 1 fault, 1 operator turn | the ceiling, attended scans are not reaped, outcomes are final, waiting scans are answered |
| `local_run` | 2 local jobs of one replica, 2 slots, no faults | **violated**: a job hands over the other's run |
| `finding` | 2 runs or an inventory, 2 people, 2 days, 3 moves | closures, deadlines, signatures, register, verification and lapses |

**Bounds.** Periods are one or two ticks, so that each can end before, during and
after every other step. Two attempts (hand-outs, tries) are the least for a retry and a
giving up. One job, row or schedule is enough where no transaction touches two; where
one does (the slot count, a batch) there are two. Two agents are needed for a straggler
of one against a holder that is the other; a straggler of the *same* id after a restart
needs one. Two files are the least for a run that is stored in part. In `schedule` the
second period is there so that an old tick can meet a new occurrence. In `finding` one
run can verify what the other sees, and a second sighting can follow a closure; that two
runs and `Reach = 0` never reach a verification folded out of order, nor a clock that
continues, is what the proofs are for. With
`Words = {"OPEN", "CLOSED"}`, where the tracker reopens too, the run passes as well, in
twice the time. The two largest instances, `schedule` and `finding`, have some 400 000
states and take two and three minutes. The counters the code leaves open have named bounds (`MaxSends`,
`MaxIngests`, `MaxClaims`, `MaxMoves`, `MaxTurns`, `MaxFaults`, `MaxTroubles`,
`MaxCopies`, ...). Deadlock is not checked in any run because each of these systems
really stops: once every job, row or message is done and the bounded faults are spent,
no step is left. Legacy agents are left to the proofs, which hold for every set of them.

**Fairness**, and why the code justifies it:

* `ReaperFairness`: time passes and both sweeps run for ever (every replica has the
  loop); weak fairness is enough because a row that is due stays due. `WorkerFairness`,
  the hypothesis of `JobsSettle`: some agent goes on polling, `scan_timeout` ends every
  scan, `_request` sends and stops after its last retry. Nothing is assumed to be
  delivered, no ingest to finish, no agent to hear its stop.
* `RunPublication!FairSpec`: every replica that exists goes on ticking
  (`PublicationReconciler._run` swallows every exception), an attempt goes on to its next
  step, because every store, broker and database call has a timeout – one condition per
  claim, so that no attempt is starved by another. Replicas may die in the leased work
  again and again (`CrashAnywhere = FALSE` says only that they do not die in every
  transaction that would record it); nothing is assumed to succeed.
* `ReconcilerFairness`, and the fan-out step: the loops go on
  (`OutboxReconciler._run`, `_consume_loop`). `EventReachesTheQueue` also has `<>[]broker`
  as its hypothesis: a broker that stays away delivers nothing.
* `DispatcherFairness`: every dispatcher's loop goes on and scans end
  (`queue_promise`, `local`). `DueRunIsDecided` also has `TroubleEnds` as its hypothesis:
  a start that raises leaves the schedule where it is, and one that always raises leaves
  it there for ever (section 4).
* `LocalFairness`: threads, clock, reaper and scans go on, windows open again. The claim
  lock is only tried (`scan_queue._lock_claims`), so nothing queues for it: that a
  thread's asks do not find it busy every single time is strong fairness of `HoldSlot`
  and `StartScan`, and is an assumption the code makes too.
* `FindingFairness`: jobs end, and what they leave is published or given up
  (`queue_promise`, `pub_decided`); that it is fed is not assumed. The escalation worker
  ticks.

## 4. Where the code and its words differ

**A local scan may hand over another scan's run** (`local_run`; a finding). `run_job`
asks `latest_run.json` for the run it produced (`local_job_runner.py:256-266`). The
scanner writes the pointer as it *starts* (`scanner/pipeline/run_context.py:70-71`), and
a sensor's upload moves it too (`results_ingest.update_latest_run_pointer`). Two local
scans of one replica, the usual case with a ceiling above one: both end with the later
one's run, and the earlier run is published by nobody. The module's docstring
(lines 3-5) and the comment at `run_publisher.py:653` say otherwise.

The statements below are kept in the modules, under their own headings or with the
constants shown, because they say what comments and documents promise. TLC refutes each
under the constants given; none has a run here.

| Definition | Refuted with | The words, and what happens |
|---|---|---|
| `JobQueue!OutcomeIsFinal` | `Overlap = TRUE` | `job_control.py:419-420`, "a heartbeat arriving after the results upload must not resurrect a finished job"; `mark_running` (line 426) reads without `FOR UPDATE`, and its UPDATE lands over whatever committed in between (`DecisionStands` is what is left) |
| `JobQueue!IngestWindowKept` | `Overlap = TRUE` | `job_leases.py:98-102`, "never pull it in"; the comparison (line 104) is made in Python with the lease the heartbeat has read, and its UPDATE writes the shorter one over an ingest's that was opened in between |
| `JobQueue!KeyRecordsTheOutcome` | `MCJobQueue_promise` | `job_results.py:63-64`, "once it is terminal the key is the record of what produced that outcome"; the sweeps (`job_reaper.py:110`, `:218`) leave the key of an upload that did not land, and its retry is answered as a replay |
| `RunPublication!StoredStaysWhole` | `Overlap = TRUE`, 2 files | `docs/architecture.md:190-192`, "harmless rather than destructive"; the permission to take keys back (`_may_take_back`, line 745) and the deletion are two steps, and a later attempt uploads the same names in between |
| `RunPublication!GoneMeansGone` | `Overlap = TRUE` | `run_publisher.py:1411-1412`, "not in staging, and not whole in the store"; `stored_at` is read from the claim's snapshot (line 683), a peer has stamped and promoted since |
| `WebhookQueue!LateResultUndeliversNothing` | `Overrun = TRUE` | `webhooks.py:908-909` (#152); the check and the write of `_record_result` are two steps on a row that is not locked |
| `NatsOutbox!DeliveredIsForgotten` | `MCEventFanOut` | `nats_outbox.py:195`, "the same run is published once", for which lines 209-215 leave open only a tick past its claim; an attempt that was refused may record its row after an overlapping one delivered and forgot (`DeliveredLeavesNoRow` is what is left) |
| `ScheduleDispatcher!OverlapIsSkipped` | `MCScheduleDispatcher` | `schedule_dispatcher.py:39-41`, "a schedule whose previous job has not reached a terminal state yet is skipped"; the previous job is the recorded one: when the record fails and the next asking is refused, the schedule has a new key while the unrecorded scan runs |
| `ScheduleDispatcher!OverlapIsANoOp` | `MCScheduleDispatcher` | `schedule_dispatcher.py:15-17`, "a brief overlap during a handover must be a no-op"; the key names the `next_run_at` that was read, and a refusal moves it |
| `FindingLifecycle!VerifiedMeansUnseen` | three runs | the comment above the closure, "The run that was sent to look for it did not find it"; a sighting older than what was known is left out of `last_seen_run_id`, which is what the closure asks |
| `FindingLifecycle!DeadlineIsAlwaysOwed` | three runs, `Reach = 1`, `MaxTime = 2`, `MaxMoves = 4` | the comment in `transition` on closing under an acceptance; a finding closed as unreachable and seen again soon keeps the deadline of the acceptance it lost |
| `FindingLifecycle!ClosureDropsTheAcceptance` | `MCFindingLifecycle` | `vulnerabilities.py:3285`, "Called from every closing path"; the inventory's closure (`software_findings.py:726-737`) clears the window only, so that a request stays in the approver's queue and can be signed on the closed row |

Smaller things that are in the models as they are in the code. `publish_now` asks for
the row's lock only and also takes a row that a peer holds (`run_publisher.py:392-393`
says it is left to the peer); one of the ways into `Overlap`. `_give_back` adds one to
`claims_base` also after another attempt's outcome moved it; the base then passes the
claims. An edit of a schedule's targets between the insert of its scan and the record
makes the occurrence an `IdempotencyMismatch` at every further tick
(`job_submission.py:154`); `DueRunIsDecided` excepts it. So does a start that raises for
as long as its cause lasts (`scan_admission.py:191-210`); `scan_schedules.py:130-135`
describes such a schedule, and that "nothing reports it". The comment of the webhook
claim, "a suspended customer's findings do not leave the platform"
(`secure_webhooks.py:115-118`), is true of what is claimed from then on: the batch that
was claimed before still leaves, which is the bound of `SuspensionHolds`. A verdict of false positive is
weighed against the last assessment, so that a slow worsening does not add up.
`docs/operations.md:2931` names the findings that stay `VERIFYING`: of jobs cancelled
while queued or written off before they uploaded. A job that succeeded and whose
publication is given up, and one whose single release fails, leave theirs there too;
`VerificationEnds` excepts all four.

## 5. Proofs

All theorems hold for every value of the constants that satisfies the module's named
assumption (`QueueAssumption`, `PublicationAssumption`, `OutboxAssumption`,
`ScheduleAssumption`, `LocalAssumption`, `HookAssumption`, `FindingAssumption`). What else a theorem assumes is in its
statement and in the last column.

| Module | Theorem | States | Needs |
|---|---|---|---|
| `JobQueueProofs` | `TypeCorrect` | `TypeOK` | – |
| | `AttemptsAreBounded` | `AttemptsBounded` | – |
| | `SuccessHasItsRun` | `SuccessOwesItsRun` | – |
| | `NoStragglerPublishes` | `OnlyTheCurrentAttemptPublishes` | – |
| | `OnlyALateBeatUndoes` | `DecisionStands` | – |
| | `LeaseExactlyInFlight`, `IngestIsShielded` | `LeaseIffInFlight`, `IngestWindowKept` | `~Overlap` |
| | `OneRunPerJob`, `CeilingIsKept` | `OnePublicationPerJob`, `ConcurrencyCeiling` | `~Overlap` |
| | `QueueKeepsItsPromise` | `KeepsItsPromise`: `JobQueue` implements `JobOutcome` | `~Overlap` |
| `RunPublicationProofs` | `PublicationTypeCorrect` | `TypeOK` | – |
| | `RunIsFedExactlyOnce`, `NoteIsAlwaysTrue`, `PublishedIsOnTheBus` | `FedExactlyOnce`, `NoteIsTrue`, `PublishedReachedTheBus` | – |
| | `StoredRunIsWhole` | `PublishedRunIsWhole` | no overlap |
| | `ClaimsAreBounded` | `ClaimsBounded` | no overlap, no `CrashAnywhere` |
| `NatsOutboxProofs` | `OutboxTypeCorrect` | `OutboxTypeOK` | – |
| | `NothingIsLostSilently`, `DeliveredStaysForgotten`, `HollowIsNeverHeld` | `NothingGoesSilently`, `DeliveredLeavesNoRow`, `NothingHollowIsReplayed` | – |
| | `BacklogIsDivided`, `NothingIsGivenUpEarly` | `PeersDivideTheBacklog`, `GivenUpWhenSpent` | as the properties say |
| `ScheduleDispatcherProofs` | `ScheduleTypeCorrect` | `ScheduleTypeOK` | – |
| | `RunIsScannedOnce`, `ScansDoNotOverlap`, `SkipIsTheLastResort` | `OneScanPerRun`, `OneScanAtATime`, `SkipReachesTheNextRun` | as the properties say |
| `LocalScansProofs` | `LocalTypeCorrect` | `LocalTypeOK` | – |
| | `AttendedIsNotReaped`, `LocalOutcomeIsWrittenOnce`, `CeilingHolds` | `AttendedNeverLapses`, `LocalOutcomeIsFinal`, `LocalCeiling` | – |
| `WebhookQueueProofs` | `QueueInvariant`, `QueueTypeCorrect` | `QueueInv`, `HookTypeOK` | – |
| | `SwitchIsHeeded`, `SuspensionIsBounded` | `KillSwitchHolds`, `SuspensionHolds` | – |
| | `PagesOnce`, `LadderIsFinite`, `TakenIsFinal` | `OnePagePerEvent`, `PostsBounded`, `DeliveredIsFinal` | as the properties say: no batch overruns |
| `EventFanOutProofs` | `OutboxIsAPart`, `QueueIsAPart` | `OutboxSpec`, `Hooks!HookSpec`: the composition implements both parts | – |
| | `EventsAreAccountedFor` | `EventIsAccountedFor` | – |
| `FindingLifecycleProofs` | `FindingInvariant`, `TypeCorrect` | `FindingInv`, `FindingTypeOK` | – |
| | `ClosuresAreWhole`, `DeadlinesAreOwed`, `WindowsAreSignedByAnother` | `ClosureIsWhole`, `DeadlineIsOwed`, `SignedByAnother` | – |
| | `TheRegisterIsTrue`, `SomebodyLooks`, `SeenIsNeverFixed` | `RegisterIsTrue`, `SomebodyIsLooking`, `SeenIsNotFixed` | – |

`~Overlap` in the queue says that a heartbeat's read and write are one transaction; it is
what locking the row in `mark_running` would buy. In the publication it says that the
lease keeps attempts apart.

The arguments.

* **The queue.** Three layers, each inductive over the one before. *Rows* (`Inv`,
  `RowInv`): hand-outs bounded and never used up on the queue; deadlines exactly on
  in-flight rows; a requested stop only on stopping or finished rows; ingest marker and
  token together, and the lease at least as long as the marker is young – the last needs
  the first three, because `release_ingest_lease` assigns. *Provenance*: a handler that
  names its attempt carries the bytes of that attempt; tokens are fresh. *Publications*
  (`PubInv`): a job with a publication is finished and shut; a late handler whose fence
  holds has its reservation on the row (`LateHeld`) and is the only one (`LateAlone`);
  without `LateHeld` two copies of a late archive could both be past their first
  transaction. The ceiling is a cardinality argument: only a claim adds a row to the
  occupying set, it adds one, and it counted first. What a decision withstands needs no
  layer: a move that decides on the row it writes keeps a finished row's outcome
  (`DecidedUnderLock`, `FinalUnderResult`), and every move is one of those or the late
  write of a heartbeat.
* **The publication.** *Outcome* (`OutcomeInv`): the mark counts the feeds; a job that is
  noted as unpublished has a row with an error on it, which is what lets an attempt that
  lands after all see a note to clear. No lease is needed: the row's lock orders the
  writes. *The store* (`WholeInv`): at most one attempt; until it takes them back, the keys
  it wrote are in the store; it takes keys back only while the row is not stamped; the
  stamp comes before the promotion. *Claims* (`ClaimsInv`): the one attempt that asks about
  the budget or hands its claim back has the numbers of the row itself, and its own claim
  is among the ones it counts.
* **The outbox.** `OutboxInv`: what the attempts and the row say of a message agree – a
  delivered ingest has a pending row only if an attempt recorded late or an operator put
  it back –, and a tick
  holds only rows that exist, were taken out of its batch and had at least the attempts it
  saw, unless an operator put them back. `WindowInv`, while no batch overruns: a row a tick
  holds is hidden for at least as long as the batch may still take, so that no other claim
  finds it due; every other step lets a tick hold no more than before (`Shrinks`).
* **The dispatcher.** `GridInv`: ticks carry a due time that had come by their clock, and
  without a refusal or an edit every due time that is read, written or scanned is on the
  cadence's grid; two keys of one run are then equal. `LeaderInv`, while no tick outlives
  its lock and nobody edits the schedule: nobody else is in a tick; what was scanned is behind the schedule or owed to it
  – about to be recorded, or its record was lost and the schedule still has its key, so
  that the next start is a replay; a scan under way is the recorded one or an owed one. A
  refusal takes that key away, which is why the property excepts a refusal beside a lost
  record.
* **Local scans.** `ThreadsAgree`: the stage of a thread and the status of its row agree,
  and a mark never is shorter than the time to the next poll or renewal; half a mark
  outlasts a poll because a mark is at least three polls. `SlotInv`: a slot that the lock
  holder counted as free and has not taken is reserved, because nobody else can count.
* **The promise.** A row is seen as its outcome, its holder and its hand-outs. Each of the
  row moves that the layers above are proved from looks like nothing (`Same`), a hand-out,
  a take-back, a stop or an end (`SweepLooks`, `ResultLooks`, `ClosedLooks`), and every
  step but the clock's moves one row (`Alone`). Three more facts are needed. A row that
  occupies a slot has an agent (`Holders`), so that a take-back and a stop have somebody to
  take from. A job with a publication is finished (`PublishedShut`), so that its hand-outs
  no longer change and the run keeps its name. And the fence with *Provenance* makes the
  run that is added the one of the holder and the hand-out on the row (`RunKept`). A late
  archive finds no other run because an ordinary one would have left its exit code
  (`LateHeld`).
* **The webhook queue.** `QueueInv`. Without a hypothesis: a tick is at one delivery and
  has it no more in the rest of its batch (`ShapeInv`); since the switch it has sent at
  most the POST it was about to make (`SwitchInv`); what it sent since the suspension and
  what it still may send come from one batch (`HeldInv`, a cardinality argument). While no
  batch overruns: a claimed row is hidden for as long as its batch may take and no second
  tick has it (`WindowInv`); a page is owed to a record that is made, about to be made, or
  gone with its subscription (`PageInv`); what is claimed was counted and what is free has
  a rung left (`LadderInv`). Two lemmas carry every step: one for a tick that lets go of
  rows (`LetsGoKeeps`), one for steps no tick takes part in (`RowsKeep`).
* **The composition.** The outbox is a part because the queue's steps leave its variables
  alone. The queue is a part because a publication is, seen from there, an arrival; that
  the stream has room for it is `RoomInv`: a message outside its duplicate window has been
  taken less than `MaxCopies` times (which is why `OutboxAssumption` asks that `MaxCopies`
  is not 0: a stream that takes nothing has no room to begin with). `ServedInv` adds that
  whatever the worker acknowledged has its rows until an operator or retention takes a
  turn; with `OutboxInv` that gives `EventIsAccountedFor`.
* **The finding.** `FindingInv`. *The row* (`RowOK`): which columns of closure, acceptance
  and verdict go together; every writer of the row is shown to keep it by itself, the
  operations on an acceptance also on a row that the inventory closed under one
  (`Bears`). *The
  deadline* (`DeadlineInv`): explained by the policy or a window on the row, also on a row
  closed as unreachable, because that is the closure whose clock continues. *Dispatch*
  (`KeyInv`): a job is dispatched on the last change of the row or an earlier one, and
  while it is the last one the row is where the dispatch found it; without it a receipt
  could park a finding that moved on. *Waiting* (`WatchInv`): a watched finding waits for a
  job that has not been fed, or never will be.

Every invariant and every action property that a run checks is proved, the refinement of
`JobOutcome` included. Only model-checked: the liveness properties (`JobsSettle`,
`RunIsDecided`, `EventReachesTheQueue`, `DueRunIsDecided`, `WaitingScanIsAnswered`,
`VerificationEnds`, `LapseIsRecorded`), because fairness is out of the prover's reach, and
what section 4 says TLC refutes. The refinement is proved, and checked, for
`Overlap = FALSE` only: a heartbeat that overlaps the results upload resurrects a finished
job (section 4), which is exactly what the promise forbids.

## 6. What is not modelled

The repository has some 185 000 lines of implementation, and most of them have no control
to check: request and response schemas, table definitions, settings, the generated SDK,
authentication and role checks, reports, exports, parsers of tool output, vendor
integrations' payloads. They declare, format or fetch. What is modelled is the part that
decides: where several actors write one row, where something dies in between, where
something has to happen in the end.

Within the modelled components: contents of archives, signatures, audit records, metrics
and log lines; how a claim chooses among eligible rows; `apply_policy_to_queued`;
`force_status`, a repair tool; of run publication the local backend, rows of local scans,
the day-old sweep of staging trees, replicas of older releases and the read-only views;
agent registration, updates and offline log buffering; the set-up of streams and
connections; webhook transports, test deliveries and ticket links; queue depths as numbers;
the dead letter of a delivery whose release or snapshot the database fails;
cron expressions; of findings the replay dispositions other than historical, the retro
observers (which open and refresh and never close), comments, assignment and SLA policies, and transactions
that overlap on one row.

Not modelled at all: the ingest gate (a semaphore and a counter in one event loop), the
purge of a tenant (deletions over every table), request idempotency records, rate limiting
(one statement per charge), escalation marks.

## 7. Plan

1. An abstract specification of the publication (a run is accepted, then visible once, or
   given up with a note), its refinement by `RunPublication`, and the proof of it over
   `OutcomeInv` and `WholeInv`; the same for the outbox (kept until it is delivered or
   decided on).
2. The rows of local scans, joined to `LocalScans` and to `JobOutcome`.
3. Overlapping transactions on one finding; request idempotency; the ingest gate.
