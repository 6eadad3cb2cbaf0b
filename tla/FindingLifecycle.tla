-------------------------- MODULE FindingLifecycle --------------------------
(***************************************************************************)
(* One tracked finding (a row of the vulnerabilities table), of the scans  *)
(* or of the endpoint inventory, and who writes it:                        *)
(*                                                                         *)
(*   vuln_states.py        the two state machines, as data                 *)
(*   vulnerabilities.py    the fold of a published run, verification       *)
(*                         scans, the operator's moves, accepted risk, the *)
(*                         false positive verdict, the tracker's word      *)
(*   software_findings.py  the fold of an inventory snapshot               *)
(*   run_completion.py     which outcome of a run feeds the fold           *)
(*   sla_escalation.py     the tick that records lapsed acceptances        *)
(*                                                                         *)
(* A scan looks at one moment and is folded at a later one, in any order,  *)
(* and a verification is dispatched in two transactions with the creation  *)
(* of its job between them.  Every other operation is one transaction and  *)
(* one action.  (The code loads the row without locking it: what two       *)
(* transactions do that overlap on one row is not modelled.  Nor are the   *)
(* rows of retro_findings.py, which opens and refreshes and never closes.) *)
(*                                                                         *)
(* Instants are days on a clock; NULL is -1.  Name_Word is a mutated form  *)
(* of Name, the bug Word names; nothing in the specification uses it.      *)
(***************************************************************************)
EXTENDS Integers

CONSTANTS
    Runs,       \* run ids, each of one job, numbered as they are made
    NoRun,      \* verification_job_id IS NULL, last_seen_run_id IS NULL
    People,     \* operators
    NoOne,      \* a column for a person that IS NULL
    Sla,        \* remediation_days by severity: a function on Levels
    Suppress,   \* suppress_days of a false-positive verdict
    Reach,      \* how long an unreachable closure keeps the old deadline
    Longest,    \* the longest acceptance that is asked for
    Words,      \* statuses of the tracker, named after the state they suggest
    MaxTime,    \* bound: the last day
    MaxMoves    \* bound: how often the state changes before operators stop

\* Severity, as the escalations of a verdict tell it apart.
Levels == {1, 2}

ASSUME FindingAssumption ==
    /\ Runs \subseteq Nat /\ NoRun \notin Runs
    /\ NoOne \notin People
    /\ Sla \in [Levels -> Nat \ {0}]
    /\ Suppress \in Nat \ {0}
    /\ Reach \in Nat
    /\ Longest \in Nat \ {0}
    /\ "VERIFYING" \notin Words
    /\ MaxTime \in Nat
    /\ MaxMoves \in Nat

VARIABLES
    now,          \* the day
    row,          \* the finding
    scan,         \* what became of each run
    dispatching,  \* the job a verification waits to write its receipt for
    watched,      \* history: was VERIFYING entered through a receipt?
    inherited     \* history: is the deadline the end of a dropped acceptance?

vars == <<now, row, scan, dispatching, watched, inherited>>

-----------------------------------------------------------------------------
(* The state machines. *)

NULL == -1

Day == Nat \cup {NULL}

\* ABSENT: no run has observed it yet.
States == {"ABSENT", "OPEN", "ACKNOWLEDGED", "PLANNED", "FIXING", "VERIFYING", "CLOSED"}

TRANSITIONS ==
    [s \in States |->
        CASE s = "OPEN"         -> {"ACKNOWLEDGED", "PLANNED", "FIXING", "CLOSED"}
          [] s = "ACKNOWLEDGED" -> {"PLANNED", "FIXING", "CLOSED"}
          [] s = "PLANNED"      -> {"ACKNOWLEDGED", "FIXING", "CLOSED"}
          [] s = "FIXING"       -> {"PLANNED", "VERIFYING", "CLOSED"}
          [] s = "VERIFYING"    -> {"FIXING", "CLOSED"}
          [] s = "CLOSED"       -> {"OPEN"}
          [] s = "ABSENT"       -> {}]

CanMove(s, t) == t \in TRANSITIONS[s]

\* exception_state.
Acceptances == {"none", "requested", "approved", "rejected", "expired"}

EXCEPTION_TRANSITIONS ==
    [x \in Acceptances |->
        CASE x = "requested" -> {"approved", "rejected", "none", "requested"}
          [] x = "approved"  -> {"expired", "none", "requested"}
          [] x = "rejected"  -> {"requested", "none"}
          [] x = "expired"   -> {"requested", "none"}
          [] x = "none"      -> {"requested"}]

CanAccept(x, y) == y \in EXCEPTION_TRANSITIONS[x]

-----------------------------------------------------------------------------
(* Data. *)

Closures == {"none", "manual", "ticket_resolved", "false_positive",
             "endpoint_unreachable", "verified_remediated", "patched"}

\* What a ticket link last read.
Readings == {"none", "unread"} \cup Words

\* source never changes: the scans and the inventory have rows of their own.
Rows ==
    [source : {"scan", "inventory"},
     state : States,
     changed : Nat,                     \* state_changed_at, as a number of changes
     closure : Closures,                \* closure_reason
     closed_at : Day,
     machine_verified : BOOLEAN,
     severity : Levels,                 \* of the last assessment
     sla_started_at : Nat, sla_days : Nat, due_at : Nat,
     last_seen_run_id : Runs \cup {NoRun},
     newest : Day,                      \* latest_observed_at of the evidence
     verification_job_id : Runs \cup {NoRun},
     fp_suppress_until : Day,
     exception_state : Acceptances,
     exception_until : Day,             \* the granted window ...
     exception_by : People \cup {NoOne},
     approved_requested_by : People \cup {NoOne},
     exception_expired : BOOLEAN,       \* ... and whether its lapse is recorded
     requested_by : People \cup {NoOne},
     requested_until : Day,
     orphaned : BOOLEAN,                \* history: the inventory closed it under an
                                        \* acceptance, and none was granted since
     ticket : Readings]

Absent ==
    [source |-> "scan", state |-> "ABSENT", changed |-> 0, closure |-> "none", closed_at |-> NULL,
     machine_verified |-> FALSE, severity |-> 1, sla_started_at |-> 0, sla_days |-> 0,
     due_at |-> 0, last_seen_run_id |-> NoRun, newest |-> NULL,
     verification_job_id |-> NoRun, fp_suppress_until |-> NULL, exception_state |-> "none",
     exception_until |-> NULL, exception_by |-> NoOne, approved_requested_by |-> NoOne,
     exception_expired |-> FALSE, requested_by |-> NoOne, requested_until |-> NULL,
     orphaned |-> FALSE, ticket |-> "none"]

\* queued: the job is alive; seen and clear: it succeeded and waits to be folded;
\* failed: it left a run that waits for the release; folded: its publication has
\* been fed; lost: it ended and will feed nothing.
Phases == {"free", "queued", "seen", "clear", "failed", "folded", "lost"}

\* key is the change of the row the job was dispatched on (its idempotency key),
\* 0 for a scan that verifies nothing.  cover is what the run shows of where it
\* looked: everything, not everything, or a port refused from the one vantage.
Scans ==
    [phase : Phases, key : Nat, at : Day, severity : Levels,
     cover : {"full", "gaps", "refused"}]

NoScan == [phase |-> "free", key |-> 0, at |-> NULL, severity |-> 1, cover |-> "gaps"]

FindingTypeOK ==
    /\ now \in Nat
    /\ row \in Rows
    /\ scan \in [Runs -> Scans]
    /\ dispatching \in Runs \cup {NoRun}
    /\ watched \in BOOLEAN
    /\ inherited \in BOOLEAN

Tracked == row.state # "ABSENT"

\* A transaction writes the row; the two histories follow it.
Save(f) ==
    /\ row' = f
    /\ watched' = (watched /\ f.state = "VERIFYING")
    /\ inherited' = ((inherited /\ f.due_at = row.due_at)
                       \/ (f.closure = "endpoint_unreachable" /\ row.exception_until # NULL))

-----------------------------------------------------------------------------
(* What every closure and every reopening do to the row. *)

DropException_KeepsWindow(f) ==
    [f EXCEPT !.exception_state = "none", !.requested_by = NoOne, !.requested_until = NULL]

\* _drop_exception.
DropException(f) ==
    [f EXCEPT !.exception_state = "none", !.exception_until = NULL,
              !.exception_by = NoOne, !.approved_requested_by = NoOne,
              !.exception_expired = FALSE,
              !.requested_by = NoOne, !.requested_until = NULL, !.orphaned = FALSE]

\* Closed by hand, by a verdict, by a ticket, by a verification run: only the
\* last one may claim a machine saw it fixed.
Close(f, why) ==
    [DropException(f) EXCEPT !.state = "CLOSED", !.changed = @ + 1, !.closed_at = now,
                             !.closure = why,
                             !.machine_verified = (why = "verified_remediated")]

ClockFrom(f, at, days) ==
    [f EXCEPT !.sla_started_at = at, !.sla_days = days, !.due_at = at + days]

RestartClock(f, days) == ClockFrom(f, now, days)

\* drop_fp_verdict_on_reopen, and the columns every reopening resets.
Reopen(f) ==
    [f EXCEPT !.state = "OPEN", !.changed = @ + 1, !.closed_at = NULL,
              !.machine_verified = FALSE, !.closure = "none",
              !.fp_suppress_until = IF f.closure = "false_positive" THEN NULL ELSE @]

\* transition's and apply_ticket_status' legal move.
Move(f, s, why) ==
    IF s = "CLOSED" THEN Close(f, why)
    ELSE IF f.state = "CLOSED" THEN RestartClock(Reopen(f), f.sla_days)
    ELSE [f EXCEPT !.state = s, !.changed = @ + 1]

-----------------------------------------------------------------------------
(* The operator's moves and the tracker's word. *)

MayMove == row.changed < MaxMoves

Transition(s) ==
    /\ MayMove
    /\ CanMove(row.state, s)
    /\ Save(Move(row, s, "manual"))
    /\ UNCHANGED <<now, scan, dispatching>>

MarkFalsePositive ==
    /\ MayMove
    /\ CanMove(row.state, "CLOSED")
    /\ Save([Close(row, "false_positive") EXCEPT !.fp_suppress_until = now + Suppress])
    /\ UNCHANGED <<now, scan, dispatching>>

ClearFalsePositive ==
    /\ MayMove
    /\ row.state = "CLOSED" /\ row.closure = "false_positive"
    /\ Save(RestartClock(Reopen(row), Sla[row.severity]))
    /\ UNCHANGED <<now, scan, dispatching>>

\* set_ticket and clear_ticket forget what the last link said.
SetTicket(link) ==
    /\ Tracked
    /\ Save([row EXCEPT !.ticket = link])
    /\ UNCHANGED <<now, scan, dispatching>>

\* A verification whose job is alive is the arbiter of its own outcome.
HeldForVerification ==
    /\ row.state = "VERIFYING"
    /\ row.verification_job_id # NoRun
    /\ scan[row.verification_job_id].phase = "queued"

\* apply_ticket_status: the button asks for the tracker's word whatever it is,
\* the worker acts only on a word it has not read before.  (A read that fails
\* writes only its error.)
ApplyTicketStatus(s, button) ==
    LET read == [row EXCEPT !.ticket = s]
        applies == /\ CanMove(row.state, s)
                   /\ ~HeldForVerification
                   /\ button \/ row.ticket # s
    IN
    /\ MayMove
    /\ Tracked /\ row.ticket # "none"
    /\ Save(IF applies THEN Move(read, s, "ticket_resolved") ELSE read)
    /\ UNCHANGED <<now, scan, dispatching>>

-----------------------------------------------------------------------------
(* Accepted risk. *)

\* request_exception: nothing is suspended, and the window that is granted stays.
RequestException(p, until) ==
    /\ Tracked /\ row.state # "CLOSED"
    /\ until > now
    /\ CanAccept(row.exception_state, "requested")
    /\ row.exception_state = "requested" => row.requested_by = p
    /\ Save([row EXCEPT !.exception_state = "requested", !.requested_by = p,
                        !.requested_until = until])
    /\ UNCHANGED <<now, scan, dispatching>>

MaySign_Anyone(p) == TRUE

\* Whoever asked cannot be whoever signed (_same_person).
MaySign(p) == row.requested_by # p

ApproveException(p) ==
    /\ CanAccept(row.exception_state, "approved")
    /\ MaySign(p)
    /\ row.requested_until > now
    /\ Save([row EXCEPT !.exception_state = "approved",
                        !.exception_until = row.requested_until, !.exception_by = p,
                        !.approved_requested_by = row.requested_by,
                        !.exception_expired = FALSE, !.orphaned = FALSE,
                        !.due_at = row.requested_until])
    /\ UNCHANGED <<now, scan, dispatching>>

RejectException(p) ==
    /\ CanAccept(row.exception_state, "rejected")
    /\ MaySign(p)
    /\ Save([row EXCEPT !.exception_state = "rejected"])
    /\ UNCHANGED <<now, scan, dispatching>>

StateBehindRequest_Granted(f) ==
    IF f.exception_until = NULL THEN "none" ELSE "approved"

\* _state_behind_a_request.
StateBehindRequest(f) ==
    IF f.exception_until = NULL THEN "none"
    ELSE IF f.exception_until > now THEN "approved" ELSE "expired"

WithdrawRequest(p) ==
    /\ row.exception_state = "requested"
    /\ row.requested_by = p
    /\ Save([row EXCEPT !.exception_state = StateBehindRequest(row),
                        !.requested_by = NoOne, !.requested_until = NULL])
    /\ UNCHANGED <<now, scan, dispatching>>

Revoked_KeepsDeadline(f, days) ==
    [f EXCEPT !.exception_until = NULL, !.exception_by = NoOne,
              !.approved_requested_by = NoOne, !.exception_expired = FALSE,
              !.sla_days = days]

\* The window goes and the deadline is computed again from where it started.
Revoked(f, days) ==
    [f EXCEPT !.exception_until = NULL, !.exception_by = NoOne,
              !.approved_requested_by = NoOne, !.exception_expired = FALSE,
              !.sla_days = days, !.due_at = f.sla_started_at + days]

\* clear_exception: a request that waits survives.
ClearException ==
    LET revoked == Revoked(row, Sla[row.severity]) IN
    /\ row.exception_until # NULL
    /\ Save(IF row.exception_state = "requested" THEN revoked
            ELSE [revoked EXCEPT !.exception_state = "none", !.requested_by = NoOne,
                                 !.requested_until = NULL])
    /\ UNCHANGED <<now, scan, dispatching>>

HasLapsed_Approved(f) ==
    /\ f.exception_state = "approved"
    /\ f.exception_until <= now

\* expire_exceptions' query: the window that ran out, whatever was asked since.
HasLapsed(f) ==
    /\ f.state # "CLOSED"
    /\ f.exception_until # NULL
    /\ f.exception_by # NoOne
    /\ f.exception_until <= now
    /\ ~f.exception_expired

ExpireExceptions ==
    /\ HasLapsed(row)
    /\ Save([row EXCEPT !.exception_expired = TRUE,
                        !.exception_state = IF @ = "approved" THEN "expired" ELSE @])
    /\ UNCHANGED <<now, scan, dispatching>>

-----------------------------------------------------------------------------
(* Scans and verifications. *)

\* The next job.
Fresh(r) == scan[r].phase = "free" /\ \A q \in Runs : q < r => scan[q].phase # "free"

\* A scheduled or requested scan of the asset.  (No run is folded into a row of the
\* inventory, and none can be sent to verify one.)
StartScan(r) ==
    /\ row.source = "scan"
    /\ Fresh(r)
    /\ scan' = [scan EXCEPT ![r].phase = "queued"]
    /\ UNCHANGED <<now, row, dispatching, watched, inherited>>

\* _trigger_verification_claimed up to start_scan, under the finding's advisory
\* lock.  The key names the state change it was asked on: asked again after a
\* dispatch that got no receipt, it finds the job that went out.  (It also names
\* the last dispatch, which changes only with the state, and a digest of the plan,
\* whose change is NoReceipt.)
TriggerVerification(r) ==
    /\ row.source = "scan"
    /\ dispatching = NoRun
    /\ CanMove(row.state, "VERIFYING")
    /\ \/ /\ Fresh(r)
          /\ \A q \in Runs : scan[q].key # row.changed
          /\ scan' = [scan EXCEPT ![r].phase = "queued", ![r].key = row.changed]
       \/ /\ scan[r].phase # "free" /\ scan[r].key = row.changed
          /\ UNCHANGED scan
    /\ dispatching' = r
    /\ UNCHANGED <<now, row, watched, inherited>>

ReceiptStands_AnyJob(r) == scan[r].key = row.changed

\* The job is still in flight and the row is the one the key names.  (One that is
\* being cancelled gets no receipt either: it is in flight here, and NoReceipt.)
ReceiptStands(r) ==
    /\ scan[r].phase = "queued"
    /\ scan[r].key = row.changed

\* Its last transaction, with the job and the row locked.
WriteReceipt ==
    /\ dispatching # NoRun
    /\ ReceiptStands(dispatching)
    /\ row' = [row EXCEPT !.state = "VERIFYING", !.changed = @ + 1,
                          !.verification_job_id = dispatching]
    /\ watched' = TRUE
    /\ dispatching' = NoRun
    /\ UNCHANGED <<now, scan, inherited>>

\* VerificationReconciliationRequired (a plan that changed, a job that ended), or
\* the replica dies and the advisory lock with it.
NoReceipt ==
    /\ dispatching # NoRun
    /\ dispatching' = NoRun
    /\ UNCHANGED <<now, row, scan, watched, inherited>>

\* Where a run looked is asked only of one that was sent to verify.
Covers(r) == IF scan[r].key = 0 THEN {"gaps"} ELSE {"full", "gaps", "refused"}

\* The scan looks, now; detectors without evidence record no time.
ScanSees(r) ==
    /\ scan[r].phase = "queued"
    /\ \E at \in {now, NULL}, level \in Levels, cover \in Covers(r) \ {"refused"} :
          scan' = [scan EXCEPT ![r].phase = "seen", ![r].at = at, ![r].severity = level,
                               ![r].cover = cover]
    /\ UNCHANGED <<now, row, dispatching, watched, inherited>>

ScanSeesNothing(r) ==
    /\ scan[r].phase = "queued"
    /\ \E cover \in Covers(r) :
          scan' = [scan EXCEPT ![r].phase = "clear", ![r].cover = cover]
    /\ UNCHANGED <<now, row, dispatching, watched, inherited>>

\* It fails or is cancelled with a run to publish, or without one: cancelled
\* while queued, written off by the reaper.
ScanFails(r) ==
    /\ scan[r].phase = "queued"
    /\ \E end \in {"failed", "lost"} : scan' = [scan EXCEPT ![r].phase = end]
    /\ UNCHANGED <<now, row, dispatching, watched, inherited>>

-----------------------------------------------------------------------------
(* The fold of a published run (register_findings_from_run). *)

FirstSight(r) ==
    [RestartClock(Absent, Sla[scan[r].severity]) EXCEPT
        !.state = "OPEN", !.changed = 1, !.severity = scan[r].severity,
        !.last_seen_run_id = r, !.newest = scan[r].at]

\* publication_disposition: everything it saw is older than what is known.
Historical(f, r) == f.newest # NULL /\ scan[r].at # NULL /\ scan[r].at < f.newest

\* _fp_suppressed and _fp_escalations: the verdict holds and this is no worse
\* than the last assessment.
FpHeld(f, level) ==
    /\ f.state = "CLOSED" /\ f.closure = "false_positive"
    /\ f.fp_suppress_until > now
    /\ level <= f.severity

Assessed_KeepsRun(f, r) ==
    [f EXCEPT !.severity = scan[r].severity,
              !.newest = IF scan[r].at # NULL THEN scan[r].at ELSE @]

Assessed(f, r) ==
    [f EXCEPT !.severity = scan[r].severity, !.last_seen_run_id = r,
              !.newest = IF scan[r].at # NULL THEN scan[r].at ELSE @]

\* An unreachable closure fixed nothing: seen again soon, the old clock goes on.
ContinueClock(f) == f.closure = "endpoint_unreachable" /\ now - f.closed_at <= Reach

\* One sighting of the run.
Sighted(f, r) ==
    IF f.state = "ABSENT" THEN FirstSight(r)
    ELSE IF Historical(f, r) THEN f
    ELSE IF FpHeld(f, scan[r].severity) \/ f.state # "CLOSED" THEN Assessed(f, r)
    ELSE IF ContinueClock(f) THEN Reopen(Assessed(f, r))
    ELSE RestartClock(Reopen(Assessed(f, r)), Sla[scan[r].severity])

SendBack(f) == [f EXCEPT !.state = "FIXING", !.changed = @ + 1]

\* The findings this run was dispatched to re-check.
Awaiting(f, r) == f.state = "VERIFYING" /\ f.verification_job_id = r

\* Still there, gone, refused from where it was seen, or nothing shown.
Verdict(f, r) ==
    IF f.last_seen_run_id = r \/ scan[r].cover = "gaps" THEN SendBack(f)
    ELSE IF scan[r].cover = "refused" THEN Close(f, "endpoint_unreachable")
    ELSE Close(f, "verified_remediated")

\* At least once, and marked with the publication: once.
RegisterFindings(r) ==
    LET f == IF scan[r].phase = "seen" THEN Sighted(row, r) ELSE row IN
    /\ scan[r].phase \in {"seen", "clear"}
    /\ Save(IF Awaiting(f, r) THEN Verdict(f, r) ELSE f)
    /\ scan' = [scan EXCEPT ![r] = [NoScan EXCEPT !.phase = "folded", !.key = scan[r].key]]
    /\ UNCHANGED <<now, dispatching>>

Released_Nothing(f, r) == f

Released(f, r) == IF Awaiting(f, r) THEN SendBack(f) ELSE f

\* release_unfinished_verification, which is tried once.
ReleaseVerification(r) ==
    /\ scan[r].phase = "failed"
    /\ \/ Save(Released(row, r)) /\ scan' = [scan EXCEPT ![r].phase = "folded"]
       \/ UNCHANGED <<row, watched, inherited>> /\ scan' = [scan EXCEPT ![r].phase = "lost"]
    /\ UNCHANGED <<now, dispatching>>

\* The run's publication is given up (dead, or the run is gone): it is never fed.
PublicationGivenUp(r) ==
    /\ scan[r].phase \in {"seen", "clear", "failed"}
    /\ scan' = [scan EXCEPT ![r] = [NoScan EXCEPT !.phase = "lost", !.key = scan[r].key]]
    /\ UNCHANGED <<now, row, dispatching, watched, inherited>>

-----------------------------------------------------------------------------
(* The fold of an inventory snapshot (_fold_device), which may be folded late, *)
(* or again.                                                                  *)

\* Matched by a snapshot received at some moment.
Matched(f, at, level) ==
    LET assessed == [f EXCEPT !.severity = level]
        observed == [assessed EXCEPT !.newest = at]
    IN
    IF f.state = "ABSENT"
    THEN ClockFrom([observed EXCEPT !.state = "OPEN", !.changed = 1], at, Sla[level])
    ELSE IF at <= f.newest THEN assessed
    ELSE IF FpHeld(f, level) \/ f.state # "CLOSED" THEN observed
    ELSE ClockFrom(Reopen(observed), at, Sla[level])

InventoryMatches(at, level) ==
    /\ row.source = "inventory"
    /\ Save(Matched(row, at, level))
    /\ UNCHANGED <<now, scan, dispatching>>

\* Closed by the inventory: the window goes, the rest of the acceptance stays.
Patched(f) ==
    [f EXCEPT !.state = "CLOSED", !.changed = @ + 1, !.closed_at = now,
              !.closure = "patched", !.machine_verified = TRUE,
              !.exception_until = NULL, !.exception_by = NoOne,
              !.orphaned = @ \/ f.exception_until # NULL \/ f.exception_state # "none"]

\* A later snapshot, assessed completely, does not have it any more.
InventoryClears(at) ==
    /\ row.source = "inventory"
    /\ Tracked /\ row.state # "CLOSED"
    /\ at > row.newest
    /\ Save(Patched(row))
    /\ UNCHANGED <<now, scan, dispatching>>

-----------------------------------------------------------------------------

Tick ==
    /\ now < MaxTime
    /\ now' = now + 1
    /\ UNCHANGED <<row, scan, dispatching, watched, inherited>>

FindingInit ==
    /\ now = 0
    /\ \E source \in {"scan", "inventory"} : row = [Absent EXCEPT !.source = source]
    /\ scan = [r \in Runs |-> NoScan]
    /\ dispatching = NoRun
    /\ watched = FALSE
    /\ inherited = FALSE

OperatorStep ==
    \/ \E s \in States : Transition(s)
    \/ MarkFalsePositive
    \/ ClearFalsePositive
    \/ \E link \in {"none", "unread"} : SetTicket(link)
    \/ \E s \in Words, button \in BOOLEAN : ApplyTicketStatus(s, button)
    \/ ClearException

PersonStep(p) ==
    \/ \E until \in (now + 1) .. (now + Longest) : RequestException(p, until)
    \/ ApproveException(p)
    \/ RejectException(p)
    \/ WithdrawRequest(p)

InventoryStep ==
    \E at \in 0 .. now :
        (\E level \in Levels : InventoryMatches(at, level)) \/ InventoryClears(at)

\* The end of a scan, and what its publication feeds or does not.
Ends(r) == ScanSees(r) \/ ScanSeesNothing(r) \/ ScanFails(r)

Feeds(r) == RegisterFindings(r) \/ ReleaseVerification(r) \/ PublicationGivenUp(r)

RunStep(r) == StartScan(r) \/ TriggerVerification(r) \/ Ends(r) \/ Feeds(r)

FindingNext ==
    \/ OperatorStep
    \/ \E p \in People : PersonStep(p)
    \/ \E r \in Runs : RunStep(r)
    \/ InventoryStep
    \/ WriteReceipt
    \/ NoReceipt
    \/ ExpireExceptions
    \/ Tick

FindingSpec == FindingInit /\ [][FindingNext]_vars

-----------------------------------------------------------------------------
(* Safety. *)

\* Whoever closes or reopens the finding, and whichever closure it was, leaves
\* the row whole: an open finding claims no closure, no machine verification and
\* no verdict; a closed one carries no acceptance, granted or asked for, unless
\* the inventory closed it, is machine-verified only by a verification run or a
\* snapshot, and suppressed only by a verdict (transition, apply_ticket_status,
\* mark_false_positive, clear_false_positive, register_findings_from_run,
\* _fold_device).
ClosureIsWhole ==
    IF row.state = "CLOSED"
    THEN /\ row.closure # "none" /\ row.closed_at # NULL
         /\ row.closure # "patched" => row.exception_until = NULL /\ row.exception_state = "none"
         /\ row.machine_verified <=> row.closure \in {"verified_remediated", "patched"}
         /\ row.fp_suppress_until # NULL <=> row.closure = "false_positive"
    ELSE /\ row.closure = "none" /\ row.closed_at = NULL
         /\ ~row.machine_verified
         /\ row.fp_suppress_until = NULL

\* The deadline of an open finding is the policy's, counted from where its clock
\* started, or the end of a window that was granted and is still on the row:
\* no request, refusal, withdrawal, revocation or reopening leaves another one.
\* (A finding closed as unreachable loses its acceptance and, seen again soon,
\* keeps the deadline the acceptance gave it: inherited.)
DeadlineIsOwed ==
    Tracked /\ row.state # "CLOSED" /\ ~inherited =>
        \/ row.due_at = row.sla_started_at + row.sla_days
        \/ row.exception_until # NULL /\ row.due_at = row.exception_until

\* Every window that is granted was asked for by one person and signed by
\* another, however requests, extensions, withdrawals and refusals follow each
\* other (approve_exception).
SignedByAnother ==
    row.exception_until # NULL =>
        /\ row.exception_by \in People
        /\ row.approved_requested_by \in People
        /\ row.exception_by # row.approved_requested_by

\* What the risk register reads is true: approved means a window is granted whose
\* lapse nobody has recorded, expired means one that has run out, and a lapse is
\* recorded only of a window that has (_state_behind_a_request,
\* expire_exceptions, approve_exception).  Not of a finding that the inventory
\* closed under an acceptance, until the next one is granted.
RegisterIsTrue ==
    ~row.orphaned =>
        /\ row.exception_state = "approved" =>
              row.exception_until # NULL /\ ~row.exception_expired
        /\ row.exception_state = "expired" =>
              row.exception_until # NULL /\ row.exception_until <= now
        /\ row.exception_expired => row.exception_until # NULL /\ row.exception_until <= now

\* A finding that was parked in VERIFYING by a dispatched verification has its
\* scan still to come: the job is in flight or what it left is still to be fed,
\* unless it left nothing or its publication was given up
\* (_trigger_verification_claimed, release_unfinished_verification).
SomebodyIsLooking ==
    row.state = "VERIFYING" /\ watched =>
        scan[row.verification_job_id].phase \in {"queued", "seen", "clear", "failed", "lost"}

\* A run that saw the finding never closes it as verified fixed, unless its
\* sighting was older than what was known (register_findings_from_run).
SeenIsNotFixed ==
    [][\A r \in Runs :
          scan[r].phase = "seen" /\ RegisterFindings(r) /\ row'.machine_verified
             => row.machine_verified \/ Historical(row, r)]_vars

-----------------------------------------------------------------------------
(* What comments say and the code does not keep. *)

\* "The run that was sent to look for it did not find it" (above the closure):
\* a historical sighting is left out of last_seen_run_id, which is what the
\* closure asks.
VerifiedMeansUnseen ==
    [][\A r \in Runs :
          scan[r].phase = "seen" /\ RegisterFindings(r) /\ row'.machine_verified
             => row.machine_verified]_vars

\* "leaving it on a closed row would suspend the SLA clock of a finding that came
\* back later" (transition): the deadline stays behind when the window goes.
DeadlineIsAlwaysOwed ==
    Tracked /\ row.state # "CLOSED" =>
        \/ row.due_at = row.sla_started_at + row.sla_days
        \/ row.exception_until # NULL /\ row.due_at = row.exception_until

\* "Called from every closing path ... leaving exception_state on a closed row would
\* hand the approver a queue item for a finding nobody can act on, and would put it
\* back in the register the next time it was reopened" (_drop_exception): the closure
\* by the inventory does not call it, and the request it leaves can still be signed.
ClosureDropsTheAcceptance ==
    row.state = "CLOSED" => row.exception_state = "none"

-----------------------------------------------------------------------------
(* Liveness.  Jobs end (the reaper sees to those nobody works on), and what   *)
(* they leave is published, or given up, in the end (RunPublication).  The    *)
(* escalation worker ticks.                                                   *)

FindingFairness ==
    /\ WF_vars(\E r \in Runs : Ends(r) \/ Feeds(r))
    /\ WF_vars(ExpireExceptions)

FindingFairSpec == FindingSpec /\ FindingFairness

\* A verification that was dispatched comes to an end: the finding leaves
\* VERIFYING, or its job left nothing to feed, or nothing that could be published.
VerificationEnds ==
    row.state = "VERIFYING" /\ watched ~>
        \/ row.state # "VERIFYING"
        \/ \E r \in Runs : row.verification_job_id = r /\ scan[r].phase = "lost"

\* Every acceptance that runs out on an open finding is recorded as lapsed, also
\* when an extension was asked for or refused in the meantime, unless a new
\* window, a revocation or a closure replaces it first (expire_exceptions).
LapseIsRecorded ==
    Tracked /\ row.state # "CLOSED" /\ row.exception_until # NULL /\ row.exception_until <= now ~>
        row.exception_expired \/ row.exception_until = NULL \/ row.exception_until > now
=============================================================================
