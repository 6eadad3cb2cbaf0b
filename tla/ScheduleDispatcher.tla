------------------------- MODULE ScheduleDispatcher -------------------------
(***************************************************************************)
(* Recurring scans: api/services/schedule_dispatcher.py,                   *)
(* scan_schedules.py, leader_lock.py and the idempotent insert of          *)
(* job_submission.start_scan.                                              *)
(*                                                                         *)
(* Every replica runs a dispatcher; the one that holds an advisory lock    *)
(* reads the due schedules, starts their scans and moves next_run_at.  The *)
(* lock lives in a database connection and fences nothing: a dispatcher    *)
(* that has lost it goes on with the tick it is in, for as long as that    *)
(* takes, while its successor works on the same schedule.  What is left is *)
(* the key of the start, built from the next_run_at the dispatcher read.   *)
(*                                                                         *)
(* One schedule is modelled; a scan is known by its key.  Cron ticks are   *)
(* the multiples of Period.                                                *)
(*                                                                         *)
(* Name_Word is a mutated form of Name, the bug Word names; nothing in the *)
(* specification uses it.                                                  *)
(***************************************************************************)
EXTENDS Integers

CONSTANTS
    Replicas,    \* the API replicas
    Nobody,      \* no replica
    Period,      \* the cadence of the schedule
    RetryAfter,  \* scan_queue_retry_after_seconds
    MaxTime,     \* bound: the last instant
    MaxTroubles  \* bound: lost connections, crashes and operator turns, in all

ASSUME ScheduleAssumption ==
    /\ Nobody \notin Replicas
    /\ Period \in Nat \ {0}
    /\ RetryAfter \in Nat \ {0}
    /\ MaxTime \in Nat
    /\ MaxTroubles \in Nat

VARIABLES
    now,       \* the clock
    sched,     \* the scan_schedules row
    scans,     \* the jobs the schedule started, by the due time in their key
    active,    \* is the tenant active?
    trouble,   \* do starts raise and writes fail, for as long as this lasts?
    lock,      \* the replica whose connection holds the advisory lock
    leads,     \* _is_leader of each replica
    since,     \* _queue_full_since of each replica
    tick,      \* the tick each dispatcher is in
    past,      \* what has happened so far, of the things the properties ask about
    losses,    \* connections lost and crashes so far
    turns      \* operator turns so far

scheduleVars ==
    <<now, sched, scans, active, trouble, lock, leads, since, tick, past, losses, turns>>

-----------------------------------------------------------------------------
(* Data. *)

None == -1

Times == Nat \cup {None}

\* scan_schedules: what is scanned is a version number; cron or interval.
Schedules ==
    [exists : BOOLEAN, enabled : BOOLEAN, cron : BOOLEAN, version : Nat, next : Nat, last : Times]

NoScan == [status |-> "none", version |-> 0]

Scans == [status : {"none", "active", "done"}, version : Nat]

\* What a tick writes to the schedule when its start is decided.
Writes == {"record", "skip", "defer"}

\* A tick: its clock, the row as due_schedules read it, and what is to be written.
Ticks ==
    [phase : {"idle", "leading", "start", "write"}, clock : Nat, due : Nat, cron : BOOLEAN,
     version : Nat, write : Writes, until : Times]

Asleep ==
    [phase |-> "idle", clock |-> 0, due |-> 0, cron |-> TRUE, version |-> 0,
     write |-> "skip", until |-> None]

\* History: a refusal moved the schedule; a tick that had started its scan ended
\* without recording it; a tick outlived the lock it was begun under.
Pasts == [refused : BOOLEAN, unrecorded : BOOLEAN, outlived : BOOLEAN]

\* The due times a key may have.
Keys == 0 .. MaxTime

ScheduleTypeOK ==
    /\ now \in Keys
    /\ sched \in Schedules
    /\ scans \in [Keys -> Scans]
    /\ active \in BOOLEAN
    /\ trouble \in BOOLEAN
    /\ lock \in Replicas \cup {Nobody}
    /\ leads \in [Replicas -> BOOLEAN]
    /\ since \in [Replicas -> Times]
    /\ tick \in [Replicas -> Ticks]
    /\ past \in Pasts
    /\ losses \in Nat
    /\ turns \in Nat

\* _compute_next_run: the first tick of the cadence after an instant.
NextOccurrence(cron, after) ==
    IF cron THEN (after \div Period + 1) * Period ELSE after + Period

ScheduleInit ==
    /\ now = 0
    /\ sched = [exists |-> TRUE, enabled |-> TRUE, cron |-> TRUE, version |-> 0,
                next |-> NextOccurrence(TRUE, 0), last |-> None]
    /\ scans = [k \in Keys |-> NoScan]
    /\ active = TRUE
    /\ trouble = FALSE
    /\ lock = Nobody
    /\ leads = [r \in Replicas |-> FALSE]
    /\ since = [r \in Replicas |-> None]
    /\ tick = [r \in Replicas |-> Asleep]
    /\ past = [refused |-> FALSE, unrecorded |-> FALSE, outlived |-> FALSE]
    /\ losses = 0
    /\ turns = 0

-----------------------------------------------------------------------------
(* A tick: LeaderLock.acquire, ScheduleDispatcher._tick. *)

\* acquire: a leader whose connection lives stays one; everyone else tries the
\* lock, on a new connection.
Acquire(r) ==
    /\ tick[r].phase = "idle"
    /\ \/ /\ lock \in {r, Nobody}
          /\ lock' = r
          /\ leads' = [leads EXCEPT ![r] = TRUE]
          /\ tick' = [tick EXCEPT ![r].phase = "leading"]
       \/ /\ lock \notin {r, Nobody}
          /\ leads' = [leads EXCEPT ![r] = FALSE]
          /\ UNCHANGED <<lock, tick>>
    /\ UNCHANGED <<now, sched, scans, active, trouble, since, past, losses, turns>>

\* due_schedules.
Due == sched.exists /\ sched.enabled /\ active /\ sched.next <= now

StillRunning_Unasked == FALSE

\* _job_still_running.
StillRunning == sched.last # None /\ scans[sched.last].status = "active"

ReadDue(r) ==
    /\ tick[r].phase = "leading"
    /\ tick' = [tick EXCEPT ![r] =
                   IF Due /\ ~StillRunning
                   THEN [Asleep EXCEPT !.phase = "start", !.clock = now, !.due = sched.next,
                                       !.cron = sched.cron, !.version = sched.version]
                   ELSE Asleep]
    /\ UNCHANGED <<now, sched, scans, active, trouble, lock, leads, since, past, losses, turns>>

-----------------------------------------------------------------------------
(* The start: ScheduleDispatcher._dispatch. *)

\* What the tick goes on to write; the memory of a full queue is popped by every
\* start, and put back by a deferral only.
Decide(r, write, until) ==
    tick' = [tick EXCEPT ![r].phase = "write", ![r].write = write, ![r].until = until]

Forget(r) == since' = [since EXCEPT ![r] = None]

StaleMemory_Trusted(r) == since[r] = None

\* No earlier refusal, or one of a run the schedule has moved past.
StaleMemory(r) ==
    since[r] = None \/ tick[r].due >= NextOccurrence(tick[r].cron, since[r])

\* QueueFull: deferred by the refusal's Retry-After, or skipped when that reaches
\* the next run.
StartIsFull(r) ==
    LET first == IF StaleMemory(r) THEN tick[r].clock ELSE since[r]
        retry == tick[r].clock + RetryAfter
        following == NextOccurrence(tick[r].cron, first)
    IN  /\ tick[r].phase = "start"
        /\ \/ retry >= following /\ Decide(r, "defer", following) /\ Forget(r)
           \/ /\ retry < following
              /\ Decide(r, "defer", retry)
              /\ since' = [since EXCEPT ![r] = first]
        /\ UNCHANGED <<now, sched, scans, active, trouble, lock, leads, past, losses, turns>>

\* When the tenant's calendar may let the scan start: no end in sight, an end that
\* has just passed, one beyond the next run.
BlockEnds(r) == {None, tick[r].clock, tick[r].clock + Period + 1}

\* MaintenanceBlocked until some instant, or with no end in sight.
StartIsBlocked(r, until) ==
    /\ tick[r].phase = "start"
    /\ Decide(r, "defer", until)
    /\ Forget(r)
    /\ UNCHANGED <<now, sched, scans, active, trouble, lock, leads, past, losses, turns>>

\* QuotaExceeded, ScanPolicyViolation.
StartIsRefused(r) ==
    /\ tick[r].phase = "start"
    /\ Decide(r, "skip", None)
    /\ Forget(r)
    /\ UNCHANGED <<now, sched, scans, active, trouble, lock, leads, past, losses, turns>>

KeyOf_Clock(t) == t.clock

\* The idempotency key: the schedule and the due time that was read.
KeyOf(t) == t.due

\* The unique (tenant_id, idempotency_key): is there a job with this key?
KeyTaken(r) == scans[KeyOf(tick[r])].status # "none"

\* The insert, in a transaction that reads the tenant's status again; or
\* IdempotentReplay of a job that asked for the same.
Start(r) ==
    /\ tick[r].phase = "start"
    /\ active /\ ~trouble
    /\ \/ /\ ~KeyTaken(r)
          /\ scans' = [scans EXCEPT ![KeyOf(tick[r])] =
                          [status |-> "active", version |-> tick[r].version]]
       \/ /\ KeyTaken(r)
          /\ scans[KeyOf(tick[r])].version = tick[r].version
          /\ UNCHANGED scans
    /\ Decide(r, "record", None)
    /\ Forget(r)
    /\ UNCHANGED <<now, sched, active, trouble, lock, leads, past, losses, turns>>

\* IdempotencyMismatch (the schedule was edited since), a tenant that is not active
\* any more, or trouble: the tick logs it and leaves the schedule where it is, this
\* time and every time.
StartRaises(r) ==
    /\ tick[r].phase = "start"
    /\ \/ KeyTaken(r) /\ scans[KeyOf(tick[r])].version # tick[r].version
       \/ ~active
       \/ trouble
    /\ tick' = [tick EXCEPT ![r] = Asleep]
    /\ Forget(r)
    /\ UNCHANGED <<now, sched, scans, active, trouble, lock, leads, past, losses, turns>>

\* Is this tick between the insert of its scan and the record of it?
Unrecorded(r) == tick[r].phase = "write" /\ tick[r].write = "record"

\* The read of the schedules or the write after the start fails, as often as it likes.
TickFails(r) ==
    /\ tick[r].phase \in {"leading", "write"}
    /\ trouble
    /\ tick' = [tick EXCEPT ![r] = Asleep]
    /\ past' = [past EXCEPT !.unrecorded = @ \/ Unrecorded(r)]
    /\ UNCHANGED <<now, sched, scans, active, trouble, lock, leads, since, losses, turns>>

-----------------------------------------------------------------------------
(* What is written: record_dispatch, record_skipped_dispatch, defer_dispatch. *)

MovedTo_Until(t, cadence) == IF t.until # None THEN t.until ELSE cadence

\* defer_dispatch: an end that has passed already is not waited for.
MovedTo(t, cadence) == IF t.until > t.clock THEN t.until ELSE cadence

Write(r) ==
    LET t == tick[r]
        cadence == NextOccurrence(sched.cron, t.clock)
    IN  /\ t.phase = "write"
        /\ sched' =
              CASE ~sched.exists -> sched
                [] t.write = "record" -> [sched EXCEPT !.last = KeyOf(t), !.next = cadence]
                [] t.write = "skip" -> [sched EXCEPT !.next = cadence]
                [] t.write = "defer" -> [sched EXCEPT !.next = MovedTo(t, cadence)]
        /\ past' = [past EXCEPT !.refused = @ \/ t.write # "record"]
        /\ tick' = [tick EXCEPT ![r] = Asleep]
        /\ UNCHANGED <<now, scans, active, trouble, lock, leads, since, losses, turns>>

-----------------------------------------------------------------------------
(* Handover. *)

\* The connection with the lock is gone and its replica has not noticed; a
\* shutdown that releases the lock while its tick goes on looks the same.
LoseConnection(r) ==
    /\ lock = r
    /\ losses + turns < MaxTroubles
    /\ losses' = losses + 1
    /\ lock' = Nobody
    /\ past' = [past EXCEPT !.outlived = @ \/ tick[r].phase # "idle"]
    /\ UNCHANGED <<now, sched, scans, active, trouble, leads, since, tick, turns>>

\* The replica dies and starts again.
Crash(r) ==
    /\ leads[r]
    /\ losses + turns < MaxTroubles
    /\ losses' = losses + 1
    /\ lock' = IF lock = r THEN Nobody ELSE lock
    /\ leads' = [leads EXCEPT ![r] = FALSE]
    /\ since' = [since EXCEPT ![r] = None]
    /\ tick' = [tick EXCEPT ![r] = Asleep]
    /\ past' = [past EXCEPT !.unrecorded = @ \/ Unrecorded(r)]
    /\ UNCHANGED <<now, sched, scans, active, trouble, turns>>

-----------------------------------------------------------------------------
(* The scans, the operators and the clock. *)

ScanEnds(k) ==
    /\ scans[k].status = "active"
    /\ scans' = [scans EXCEPT ![k].status = "done"]
    /\ UNCHANGED <<now, sched, active, trouble, lock, leads, since, tick, past, losses, turns>>

\* update_schedule: enabled, targets or cadence; delete_schedule.
EditSchedule ==
    /\ sched.exists
    /\ losses + turns < MaxTroubles
    /\ turns' = turns + 1
    /\ sched' \in {[sched EXCEPT !.enabled = ~@],
                   [sched EXCEPT !.version = @ + 1],
                   [sched EXCEPT !.cron = ~@, !.next = NextOccurrence(~sched.cron, now)],
                   [sched EXCEPT !.exists = FALSE]}
    /\ UNCHANGED <<now, scans, active, trouble, lock, leads, since, tick, past, losses>>

\* A suspension pauses the schedule; resuming moves what is overdue to its next
\* tick (reanchor_overdue).
SwitchTenant ==
    /\ losses + turns < MaxTroubles
    /\ turns' = turns + 1
    /\ active' = ~active
    /\ sched' = IF active' /\ sched.exists /\ sched.enabled /\ sched.next <= now
                THEN [sched EXCEPT !.next = NextOccurrence(sched.cron, now)] ELSE sched
    /\ UNCHANGED <<now, scans, trouble, lock, leads, since, tick, past, losses>>

\* A reason to raise comes or goes: targets outside the approved scope, a group or a
\* wordlist that is not there, scan starts switched off; a database that fails.
TroubleTurns ==
    /\ trouble' = ~trouble
    /\ UNCHANGED <<now, sched, scans, active, lock, leads, since, tick, past, losses, turns>>

Clock ==
    /\ now < MaxTime
    /\ now' = now + 1
    /\ UNCHANGED <<sched, scans, active, trouble, lock, leads, since, tick, past, losses, turns>>

-----------------------------------------------------------------------------

\* What the loop of a dispatcher does, whatever its start comes to.
DispatcherStep(r) ==
    \/ Acquire(r)
    \/ ReadDue(r)
    \/ StartIsFull(r)
    \/ \E until \in BlockEnds(r) : StartIsBlocked(r, until)
    \/ StartIsRefused(r)
    \/ Start(r)
    \/ StartRaises(r)
    \/ Write(r)

ScheduleNext ==
    \/ \E r \in Replicas : DispatcherStep(r) \/ TickFails(r) \/ LoseConnection(r) \/ Crash(r)
    \/ \E k \in Keys : ScanEnds(k)
    \/ EditSchedule
    \/ SwitchTenant
    \/ TroubleTurns
    \/ Clock

ScheduleSpec == ScheduleInit /\ [][ScheduleNext]_scheduleVars

-----------------------------------------------------------------------------
(* Safety. *)

\* The schedule is the cron schedule it was; and no run was refused, or every scan
\* was recorded by the tick that started it, under its lock.
Tolerated ==
    turns = 0 /\ (past.refused => ~past.unrecorded /\ ~past.outlived)

\* Two scans of one run of the schedule.
Twice(k, l) ==
    /\ k # l
    /\ k \div Period = l \div Period
    /\ scans[k].status # "none" /\ scans[l].status # "none"

\* One scan per run: leaders that overlap for any length of time start one scan,
\* so does one whose record is lost and who asks again, and so does one who is
\* refused again and again (_dispatch, the key).
OneScanPerRun == Tolerated => \A k, l \in Keys : ~Twice(k, l)

\* Overlap protection: a schedule never has two scans under way, though last_job_id
\* is written after the start and that write may fail, or its replica die, any
\* number of times (_job_still_running, and the key until the record is made).  Not
\* with a refusal on top, which moves the key, and not under a tick that outlasts
\* its reign, which can move last_job_id back.
OneScanAtATime ==
    (Tolerated /\ ~past.outlived) =>
        \A k, l \in Keys : scans[k].status = "active" /\ scans[l].status = "active" => k = l

\* A run is skipped for a full queue only when asking again would reach the next
\* one, however long ago and in whichever reign this replica was refused before
\* (_queue_full_since).
SkipReachesTheNextRun ==
    [][\A r \in Replicas :
          (StartIsFull(r) /\ since'[r] = None /\ tick[r].cron) =>
              tick[r].clock + RetryAfter >= NextOccurrence(TRUE, tick[r].due)]_scheduleVars

-----------------------------------------------------------------------------
(* Liveness. *)

\* The loop of every dispatcher goes on, and every scan ends.
DispatcherFairness ==
    /\ \A r \in Replicas : WF_scheduleVars(DispatcherStep(r))
    /\ WF_scheduleVars(\E k \in Keys : ScanEnds(k))

\* What makes the starts raise and the writes fail goes away in the end.
TroubleEnds == <>[]~trouble

\* A schedule is not behind for ever, whoever leads and whoever died on the way:
\* once nothing makes its starts raise, what is due is started, refused or deferred
\* and next_run_at moves on, unless the targets were edited (_run, acquire,
\* _dispatch).
DueRunIsDecided ==
    (DispatcherFairness /\ TroubleEnds) => (Due ~> (~Due \/ sched.version > 0))

-----------------------------------------------------------------------------
(* What comments say and the code does not keep. *)

\* "leadership is not fenced, so a brief overlap during a handover must be a no-op
\* rather than a second scan" (schedule_dispatcher): the key names the next_run_at
\* that was read, and a refusal moves it; the refusals come before the key.
OverlapIsANoOp == turns = 0 => \A k, l \in Keys : ~Twice(k, l)

\* "Overlap protection: a schedule whose previous job has not reached a terminal
\* state yet is skipped" (schedule_dispatcher): the previous job is the recorded
\* one.  A record that fails, and a refusal at the next asking, and the schedule has
\* a new key while the unrecorded scan runs.
OverlapIsSkipped ==
    (turns = 0 /\ ~past.outlived) =>
        \A k, l \in Keys : scans[k].status = "active" /\ scans[l].status = "active" => k = l
=============================================================================
