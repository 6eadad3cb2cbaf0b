----------------------- MODULE FindingLifecycleProofs -----------------------
(***************************************************************************)
(* Theorems about the tracked finding, for every set of runs, operators    *)
(* and tracker statuses, every policy and every bound.                     *)
(***************************************************************************)
EXTENDS FindingLifecycle, TLAPS

-----------------------------------------------------------------------------
(* The inductive invariant.  The first part is about one row, whoever is   *)
(* about to save it.                                                       *)

\* What ClosureIsWhole says, of any row.
Whole(f) ==
    IF f.state = "CLOSED"
    THEN /\ f.closure # "none" /\ f.closed_at # NULL
         /\ f.closure # "patched" => f.exception_until = NULL /\ f.exception_state = "none"
         /\ f.machine_verified <=> f.closure \in {"verified_remediated", "patched"}
         /\ f.fp_suppress_until # NULL <=> f.closure = "false_positive"
    ELSE /\ f.closure = "none" /\ f.closed_at = NULL
         /\ ~f.machine_verified
         /\ f.fp_suppress_until = NULL

\* A finding has changed since it was first seen; before, it has nothing.
Counted(f) ==
    IF f.state = "ABSENT"
    THEN f.changed = 0 /\ f.exception_state = "none" /\ f.exception_until = NULL
    ELSE f.changed > 0

\* A request that waits names who asked and until when.
Asked(f) ==
    f.exception_state = "requested" =>
        f.requested_by \in People /\ f.requested_until # NULL

\* What SignedByAnother says, of any row.
Signed(f) ==
    f.exception_until # NULL =>
        /\ f.exception_by \in People
        /\ f.approved_requested_by \in People
        /\ f.exception_by # f.approved_requested_by

\* What RegisterIsTrue says, of any row.
Registered(f) ==
    ~f.orphaned =>
        /\ f.exception_state = "approved" => f.exception_until # NULL /\ ~f.exception_expired
        /\ f.exception_state = "expired" => f.exception_until # NULL /\ f.exception_until <= now
        /\ f.exception_expired => f.exception_until # NULL /\ f.exception_until <= now

RowOK(f) ==
    /\ f \in Rows
    /\ Whole(f)
    /\ Counted(f)
    /\ Asked(f)
    /\ Signed(f)
    /\ Registered(f)

\* The deadline that the row itself explains: the policy's, or a window's.
Explained(f) ==
    /\ f.state \notin {"ABSENT", "CLOSED"} =>
          \/ f.due_at = f.sla_started_at + f.sla_days
          \/ f.exception_until # NULL /\ f.due_at = f.exception_until
    /\ f.state = "CLOSED" /\ f.closure = "endpoint_unreachable" =>
          f.due_at = f.sla_started_at + f.sla_days

DeadlineInv == inherited \/ Explained(row)

\* A job was dispatched on a change of the row that has happened, and as long as
\* that is the last one the row is where the dispatch found it.
KeyInv ==
    /\ \A r \in Runs :
          /\ scan[r].key <= row.changed
          /\ scan[r].key # 0 /\ scan[r].key = row.changed => row.state = "FIXING"
          /\ scan[r].phase = "free" => scan[r].key = 0
    /\ dispatching # NoRun => scan[dispatching].key # 0

\* A watched finding waits for a job that has not been fed.
WatchInv ==
    watched =>
        /\ row.state = "VERIFYING"
        /\ row.verification_job_id \in Runs
        /\ scan[row.verification_job_id].phase \in {"queued", "seen", "clear", "failed", "lost"}

FindingInv ==
    /\ FindingTypeOK
    /\ RowOK(row)
    /\ DeadlineInv
    /\ KeyInv
    /\ WatchInv

-----------------------------------------------------------------------------
(* What the operations make of a row. *)

\* The tables of the policy are numbers of days.
LEMMA Policy == \A level \in Levels : Sla[level] \in Nat
  BY FindingAssumption


\* What a closure leaves of the row.
ClosedAs(f, why, g) ==
    /\ g \in Rows
    /\ g.state = "CLOSED" /\ g.closure = why /\ g.closed_at = now
    /\ g.changed = f.changed + 1
    /\ g.exception_state = "none" /\ g.exception_until = NULL
    /\ g.exception_expired = FALSE
    /\ g.machine_verified = (why = "verified_remediated")
    /\ g.fp_suppress_until = f.fp_suppress_until
    /\ g.due_at = f.due_at /\ g.sla_started_at = f.sla_started_at
    /\ g.sla_days = f.sla_days

\* What a closure writes.
LEMMA CloseFields ==
    ASSUME NEW f \in Rows, now \in Nat, NEW why \in Closures
    PROVE  ClosedAs(f, why, Close(f, why))
  <1> DEFINE g == Close(f, why)
             v == (why = "verified_remediated")
             h == DropException(f)
             n == h.changed + 1
  <1>1. h \in Rows
    <2>1. "none" \in Acceptances /\ NULL \in Day /\ NoOne \in People \cup {NoOne}
      BY DEF Acceptances, Day
    <2> QED
      BY <2>1 DEF Rows, DropException
  <1>2. v \in BOOLEAN /\ n \in Nat /\ now \in Day
    BY <1>1 DEF Rows, Day
  <1>3. g = [h EXCEPT !.state = "CLOSED", !.changed = n,
                      !.closed_at = now, !.closure = why, !.machine_verified = v]
    BY DEF Close
  <1>4. g \in Rows
    <2> HIDE DEF v, g, n, h
    <2> QED
      BY <1>1, <1>2, <1>3 DEF Rows, States
  <1>5. /\ g.state = "CLOSED" /\ g.closure = why /\ g.closed_at = now
        /\ g.changed = f.changed + 1
        /\ g.exception_state = "none" /\ g.exception_until = NULL
        /\ g.exception_expired = FALSE
    BY DEF Rows, Close, DropException
  <1>6. /\ g.machine_verified = (why = "verified_remediated")
        /\ g.fp_suppress_until = f.fp_suppress_until
        /\ g.due_at = f.due_at /\ g.sla_started_at = f.sla_started_at
        /\ g.sla_days = f.sla_days
    BY DEF Rows, Close, DropException
  <1> QED
    BY <1>4, <1>5, <1>6 DEF ClosedAs

\* A closure other than a verdict of false positive leaves the row whole.
LEMMA CloseOK ==
    ASSUME NEW f, RowOK(f), now \in Nat, f.state \notin {"ABSENT", "CLOSED"},
           NEW why \in Closures, why \notin {"none", "false_positive", "patched"}
    PROVE  RowOK(Close(f, why))
  <1> DEFINE g == Close(f, why)
  <1>1. /\ f \in Rows /\ Whole(f) /\ Counted(f)
    BY DEF RowOK
  <1>c. ClosedAs(f, why, g)
    BY <1>1, CloseFields
  <1> HIDE DEF g
  <1>2. /\ g \in Rows
        /\ g.state = "CLOSED" /\ g.closure = why /\ g.closed_at = now
        /\ g.changed = f.changed + 1
        /\ g.exception_state = "none" /\ g.exception_until = NULL
        /\ g.exception_expired = FALSE
        /\ g.machine_verified = (why = "verified_remediated")
        /\ g.fp_suppress_until = f.fp_suppress_until
    BY <1>c DEF ClosedAs
  <1>3. Whole(g)
    <2>1. now # NULL /\ f.fp_suppress_until = NULL
      BY <1>1 DEF Whole, NULL
    <2>2. CASE why = "verified_remediated"
      BY <1>2, <2>1, <2>2 DEF Whole
    <2>3. CASE why # "verified_remediated"
      BY <1>2, <2>1, <2>3 DEF Whole
    <2> QED
      BY <2>2, <2>3
  <1>4. Counted(g)
    BY <1>1, <1>2 DEF Counted, Rows
  <1>5. Asked(g) /\ Signed(g) /\ Registered(g)
    BY <1>2 DEF Asked, Signed, Registered
  <1> QED
    BY <1>2, <1>3, <1>4, <1>5 DEF RowOK, g

\* So does the verdict, which says until when it holds.
LEMMA VerdictOK ==
    ASSUME NEW f, RowOK(f), now \in Nat, f.state \notin {"ABSENT", "CLOSED"}
    PROVE  RowOK([Close(f, "false_positive") EXCEPT !.fp_suppress_until = now + Suppress])
  <1> DEFINE c == Close(f, "false_positive")
             g == [c EXCEPT !.fp_suppress_until = now + Suppress]
  <1>1. /\ f \in Rows /\ Counted(f)
    BY DEF RowOK
  <1>c. ClosedAs(f, "false_positive", c)
    BY <1>1, CloseFields DEF Closures
  <1> HIDE DEF c
  <1>2. /\ c \in Rows
        /\ c.state = "CLOSED" /\ c.closure = "false_positive" /\ c.closed_at = now
        /\ c.changed = f.changed + 1
        /\ c.exception_state = "none" /\ c.exception_until = NULL
        /\ c.exception_expired = FALSE
        /\ c.machine_verified = FALSE
    BY <1>c DEF ClosedAs
  <1>3. now + Suppress \in Nat
    BY FindingAssumption
  <1>4. /\ g \in Rows
        /\ g.state = "CLOSED" /\ g.closure = "false_positive" /\ g.closed_at = now
        /\ g.changed = f.changed + 1
        /\ g.exception_state = "none" /\ g.exception_until = NULL
        /\ g.exception_expired = FALSE
        /\ g.machine_verified = FALSE
        /\ g.fp_suppress_until = now + Suppress
    BY <1>2, <1>3 DEF Rows, Day
  <1> HIDE DEF g
  <1>5. Whole(g)
    BY <1>3, <1>4 DEF Whole, NULL
  <1>6. Counted(g)
    BY <1>1, <1>4 DEF Counted, Rows
  <1>7. Asked(g) /\ Signed(g) /\ Registered(g)
    BY <1>4 DEF Asked, Signed, Registered
  <1> QED
    BY <1>4, <1>5, <1>6, <1>7 DEF RowOK, g, c

\* Two rows at the same point of the life cycle, and with the same acceptance.
SameLife(f, g) ==
    /\ g.state = f.state /\ g.changed = f.changed
    /\ g.closure = f.closure /\ g.closed_at = f.closed_at
    /\ g.machine_verified = f.machine_verified
    /\ g.fp_suppress_until = f.fp_suppress_until

SameRisk(f, g) ==
    /\ g.exception_state = f.exception_state /\ g.exception_until = f.exception_until
    /\ g.exception_by = f.exception_by
    /\ g.approved_requested_by = f.approved_requested_by
    /\ g.exception_expired = f.exception_expired
    /\ g.requested_by = f.requested_by /\ g.requested_until = f.requested_until
    /\ g.orphaned = f.orphaned

\* A reopening takes everything the closure wrote with it.
LEMMA ReopenOK ==
    ASSUME NEW f, RowOK(f), f.state = "CLOSED"
    PROVE  /\ RowOK(Reopen(f))
           /\ Reopen(f).state = "OPEN" /\ Reopen(f).changed = f.changed + 1
           /\ Reopen(f).due_at = f.due_at /\ Reopen(f).sla_started_at = f.sla_started_at
           /\ Reopen(f).sla_days = f.sla_days
  <1> DEFINE n == f.changed + 1
             u == IF f.closure = "false_positive" THEN NULL ELSE f.fp_suppress_until
             g == Reopen(f)
  <1>1. /\ f \in Rows /\ Whole(f) /\ Counted(f)
    BY DEF RowOK
  <1>2. u = NULL /\ n \in Nat /\ n > 0 /\ NULL \in Day
    BY <1>1 DEF Whole, Counted, Rows, Day, NULL
  <1>3. g = [f EXCEPT !.state = "OPEN", !.changed = n, !.closed_at = NULL,
                      !.machine_verified = FALSE, !.closure = "none",
                      !.fp_suppress_until = u]
    BY DEF Reopen
  <1> HIDE DEF n, u, g
  <1>4. g \in Rows
    <2>1. u \in Day
      BY <1>2
    <2>2. [f EXCEPT !.state = "OPEN", !.changed = n, !.closed_at = NULL] \in Rows
      BY <1>1, <1>2 DEF Rows, States
    <2>3. ASSUME NEW h \in Rows
          PROVE  [h EXCEPT !.machine_verified = FALSE, !.closure = "none",
                           !.fp_suppress_until = u] \in Rows
      BY <2>1 DEF Rows, Closures
    <2> QED
      BY <1>3, <2>2, <2>3
  <1>5. /\ g.state = "OPEN" /\ g.changed = n /\ g.closed_at = NULL
        /\ g.machine_verified = FALSE /\ g.closure = "none" /\ g.fp_suppress_until = NULL
        /\ g.due_at = f.due_at /\ g.sla_started_at = f.sla_started_at
        /\ g.sla_days = f.sla_days
    BY <1>1, <1>2, <1>3 DEF Rows
  <1>6. SameRisk(f, g)
    BY <1>1, <1>3 DEF Rows, SameRisk
  <1>7. Whole(g) /\ Counted(g)
    BY <1>2, <1>5 DEF Whole, Counted
  <1>8. Asked(g) /\ Signed(g) /\ Registered(g)
    BY <1>6 DEF RowOK, SameRisk, Asked, Signed, Registered
  <1> QED
    BY <1>4, <1>5, <1>7, <1>8 DEF RowOK, g, n

\* A write that touches neither leaves the row as good as it was.
LEMMA KeptOK ==
    ASSUME NEW f, RowOK(f), NEW g \in Rows, SameLife(f, g), SameRisk(f, g)
    PROVE  RowOK(g)
  <1>1. Whole(g)
    BY DEF RowOK, SameLife, SameRisk, Whole
  <1>2. Counted(g) /\ Asked(g)
    BY DEF RowOK, SameLife, SameRisk, Counted, Asked
  <1>3. Signed(g) /\ Registered(g)
    BY DEF RowOK, SameLife, SameRisk, Signed, Registered
  <1> QED
    BY <1>1, <1>2, <1>3 DEF RowOK

\* A finding that may carry an acceptance: open, or closed by the inventory.
Bears(f) == f.state # "ABSENT" /\ (f.state = "CLOSED" => f.closure = "patched")

\* Only such a one carries any.
LEMMA AcceptanceIsBorne ==
    ASSUME NEW f, RowOK(f), f.exception_state # "none" \/ f.exception_until # NULL
    PROVE  Bears(f)
  BY DEF RowOK, Whole, Counted, Bears

\* A change of the acceptance of such a finding has only the acceptance to keep.
LEMMA RiskOK ==
    ASSUME NEW f, RowOK(f), Bears(f),
           NEW g \in Rows, SameLife(f, g), Asked(g), Signed(g), Registered(g)
    PROVE  RowOK(g)
  <1>1. Whole(g) /\ Counted(g)
    BY DEF RowOK, SameLife, Whole, Counted, Bears
  <1> QED
    BY <1>1 DEF RowOK

\* The row in another state, one change later.
MovedTo(f, s) == [f EXCEPT !.state = s, !.changed = @ + 1]

\* An open finding that moves on stays open and keeps its acceptance.
LEMMA MovedOK ==
    ASSUME NEW f, RowOK(f), f.state \notin {"ABSENT", "CLOSED"},
           NEW s \in States \ {"ABSENT", "CLOSED"}
    PROVE  LET g == MovedTo(f, s) IN
           /\ RowOK(g)
           /\ g.state = s /\ g.changed = f.changed + 1
           /\ SameRisk(f, g)
           /\ g.closure = f.closure
           /\ g.verification_job_id = f.verification_job_id
           /\ g.due_at = f.due_at /\ g.sla_started_at = f.sla_started_at
           /\ g.sla_days = f.sla_days
  <1> DEFINE n == f.changed + 1
             g == MovedTo(f, s)
  <1>1. f \in Rows /\ Whole(f) /\ Counted(f)
    BY DEF RowOK
  <1>2. n \in Nat /\ n > 0
    BY <1>1 DEF Rows
  <1>3. g = [f EXCEPT !.state = s, !.changed = n]
    BY DEF MovedTo
  <1> HIDE DEF n, g
  <1>4. g \in Rows
    BY <1>1, <1>2, <1>3 DEF Rows
  <1>5. SameRisk(f, g)
    BY <1>1, <1>3 DEF SameRisk, Rows
  <1>6. /\ g.state = s /\ g.changed = n
        /\ g.closure = f.closure /\ g.closed_at = f.closed_at
        /\ g.machine_verified = f.machine_verified
        /\ g.fp_suppress_until = f.fp_suppress_until
        /\ g.due_at = f.due_at /\ g.sla_started_at = f.sla_started_at
        /\ g.sla_days = f.sla_days
        /\ g.verification_job_id = f.verification_job_id
    BY <1>1, <1>3 DEF Rows
  <1>7. Whole(g) /\ Counted(g)
    BY <1>1, <1>2, <1>6 DEF Whole, Counted
  <1>8. Asked(g) /\ Signed(g) /\ Registered(g)
    BY <1>5 DEF RowOK, SameRisk, Asked, Signed, Registered
  <1> QED
    BY <1>4, <1>5, <1>6, <1>7, <1>8 DEF RowOK, g, n

\* A clock that starts, whenever, owes what the policy says.
LEMMA ClockOK ==
    ASSUME NEW f, RowOK(f), NEW at \in Nat, NEW days \in Nat
    PROVE  LET g == ClockFrom(f, at, days) IN
           /\ RowOK(g)
           /\ g.state = f.state /\ g.changed = f.changed /\ g.closure = f.closure
           /\ g.due_at = g.sla_started_at + g.sla_days
  <1> DEFINE g == ClockFrom(f, at, days)
  <1>1. f \in Rows
    BY DEF RowOK
  <1>2. at + days \in Nat
    OBVIOUS
  <1>3. g \in Rows
    BY <1>1, <1>2 DEF Rows, ClockFrom
  <1>4. SameLife(f, g) /\ SameRisk(f, g)
    BY <1>1 DEF Rows, ClockFrom, SameLife, SameRisk
  <1>5. g.due_at = g.sla_started_at + g.sla_days
    BY <1>1 DEF Rows, ClockFrom
  <1> HIDE DEF g
  <1>6. RowOK(g)
    BY <1>3, <1>4, KeptOK
  <1> QED
    BY <1>4, <1>5, <1>6 DEF SameLife, g

\* So does one that starts again now.
LEMMA RestartOK ==
    ASSUME NEW f, RowOK(f), now \in Nat, NEW days \in Nat
    PROVE  LET g == RestartClock(f, days) IN
           /\ RowOK(g)
           /\ g.state = f.state /\ g.changed = f.changed /\ g.closure = f.closure
           /\ g.due_at = g.sla_started_at + g.sla_days
  BY ClockOK DEF RestartClock

\* What a link of a ticket reads is no business of the life cycle.
LEMMA TicketOK ==
    ASSUME NEW f, RowOK(f), NEW x \in Readings
    PROVE  LET g == [f EXCEPT !.ticket = x] IN
           /\ RowOK(g) /\ SameLife(f, g) /\ SameRisk(f, g)
           /\ g.due_at = f.due_at /\ g.sla_started_at = f.sla_started_at
           /\ g.sla_days = f.sla_days
           /\ g.verification_job_id = f.verification_job_id
  <1> DEFINE g == [f EXCEPT !.ticket = x]
  <1>1. f \in Rows
    BY DEF RowOK
  <1>2. g \in Rows
    BY <1>1 DEF Rows
  <1>3. SameLife(f, g) /\ SameRisk(f, g)
    BY <1>1 DEF Rows, SameLife, SameRisk
  <1>4. /\ g.due_at = f.due_at /\ g.sla_started_at = f.sla_started_at
        /\ g.sla_days = f.sla_days
        /\ g.verification_job_id = f.verification_job_id
    BY <1>1 DEF Rows
  <1> HIDE DEF g
  <1>5. RowOK(g)
    BY <1>2, <1>3, KeptOK
  <1> QED
    BY <1>3, <1>4, <1>5 DEF g

\* Nor is what a sighting assesses.
LEMMA AssessedOK ==
    ASSUME NEW f, RowOK(f), NEW r \in Runs, scan[r] \in Scans
    PROVE  LET g == Assessed(f, r) IN
           /\ RowOK(g) /\ SameLife(f, g) /\ SameRisk(f, g)
           /\ g.last_seen_run_id = r
           /\ g.due_at = f.due_at /\ g.sla_started_at = f.sla_started_at
           /\ g.sla_days = f.sla_days
           /\ g.verification_job_id = f.verification_job_id
  <1> DEFINE at == IF scan[r].at # NULL THEN scan[r].at ELSE f.newest
             level == scan[r].severity
             g == Assessed(f, r)
  <1>1. f \in Rows
    BY DEF RowOK
  <1>2. at \in Day /\ level \in Levels
    BY <1>1 DEF Rows, Scans
  <1>3. g = [f EXCEPT !.severity = level, !.last_seen_run_id = r, !.newest = at]
    BY DEF Assessed
  <1> HIDE DEF at, level, g
  <1>4. g \in Rows
    BY <1>1, <1>2, <1>3 DEF Rows
  <1>5. SameLife(f, g) /\ SameRisk(f, g)
    BY <1>1, <1>3 DEF Rows, SameLife, SameRisk
  <1>6. /\ g.last_seen_run_id = r
        /\ g.due_at = f.due_at /\ g.sla_started_at = f.sla_started_at
        /\ g.sla_days = f.sla_days
        /\ g.verification_job_id = f.verification_job_id
    BY <1>1, <1>3 DEF Rows
  <1>7. RowOK(g)
    BY <1>4, <1>5, KeptOK
  <1> QED
    BY <1>5, <1>6, <1>7 DEF g

\* The row before anything was seen is as good as any, whoever is to see it.
LEMMA AbsentOK ==
    /\ RowOK(Absent)
    /\ \A source \in {"scan", "inventory"} : RowOK([Absent EXCEPT !.source = source])
  <1>1. Absent \in Rows
    BY DEF Absent, Rows, States, Closures, Day, NULL, Levels, Acceptances, Readings
  <1>2. Whole(Absent) /\ Counted(Absent)
    BY DEF Absent, Whole, Counted
  <1>3. Asked(Absent) /\ Signed(Absent) /\ Registered(Absent)
    BY DEF Absent, Asked, Signed, Registered
  <1>4. RowOK(Absent)
    BY <1>1, <1>2, <1>3 DEF RowOK
  <1>5. ASSUME NEW source \in {"scan", "inventory"}
        PROVE  RowOK([Absent EXCEPT !.source = source])
    <2> DEFINE g == [Absent EXCEPT !.source = source]
    <2>1. g \in Rows /\ SameLife(Absent, g) /\ SameRisk(Absent, g)
      BY <1>1 DEF Rows, SameLife, SameRisk
    <2> HIDE DEF g
    <2>2. RowOK(g)
      BY <1>4, <2>1, KeptOK
    <2> QED
      BY <2>2 DEF g
  <1> QED
    BY <1>4, <1>5

\* The first sighting opens the finding with the deadline of the policy.
LEMMA FirstSightOK ==
    ASSUME now \in Nat, NEW r \in Runs, scan[r] \in Scans
    PROVE  LET g == FirstSight(r) IN
           /\ RowOK(g)
           /\ g.state = "OPEN" /\ g.changed = 1 /\ g.closure = "none"
           /\ g.due_at = g.sla_started_at + g.sla_days
  <1> DEFINE level == scan[r].severity
             at == scan[r].at
             f == RestartClock(Absent, Sla[level])
             g == FirstSight(r)
  <1>1. level \in Levels /\ at \in Day /\ Sla[level] \in Nat
    BY Policy DEF Scans
  <1>2. RowOK(f) /\ f.state = "ABSENT" /\ f.due_at = f.sla_started_at + f.sla_days
    <2>1. PICK days \in Nat : days = Sla[level]
      BY <1>1
    <2>2. /\ RowOK(RestartClock(Absent, days))
          /\ RestartClock(Absent, days).state = Absent.state
          /\ RestartClock(Absent, days).due_at =
               RestartClock(Absent, days).sla_started_at + RestartClock(Absent, days).sla_days
      BY AbsentOK, RestartOK
    <2>3. Absent.state = "ABSENT"
      BY DEF Absent
    <2> QED
      BY <2>1, <2>2, <2>3
  <1>3. g = [f EXCEPT !.state = "OPEN", !.changed = 1, !.severity = level,
                      !.last_seen_run_id = r, !.newest = at]
    BY DEF FirstSight
  <1> HIDE DEF level, at, f, g
  <1>4. f \in Rows /\ Whole(f) /\ Counted(f)
    BY <1>2 DEF RowOK
  <1>5. g \in Rows
    BY <1>1, <1>3, <1>4 DEF Rows, States
  <1>6. SameRisk(f, g)
    BY <1>3, <1>4 DEF Rows, SameRisk
  <1>7. /\ g.state = "OPEN" /\ g.changed = 1
        /\ g.closure = f.closure /\ g.closed_at = f.closed_at
        /\ g.machine_verified = f.machine_verified
        /\ g.fp_suppress_until = f.fp_suppress_until
        /\ g.due_at = f.due_at /\ g.sla_started_at = f.sla_started_at
        /\ g.sla_days = f.sla_days
    BY <1>3, <1>4 DEF Rows
  <1>8. Whole(g) /\ Counted(g)
    BY <1>2, <1>4, <1>7 DEF Whole, Counted
  <1>9. Asked(g) /\ Signed(g) /\ Registered(g)
    BY <1>2, <1>6 DEF RowOK, SameRisk, Asked, Signed, Registered
  <1>10. g.closure = "none"
    BY <1>2, <1>4, <1>7 DEF Whole
  <1> QED
    BY <1>2, <1>5, <1>7, <1>8, <1>9, <1>10 DEF RowOK, g

-----------------------------------------------------------------------------
(* What a transaction may save. *)

\* The row as it is, but for what it was last read or assessed to be.
Base(f) ==
    /\ RowOK(f) /\ SameLife(row, f) /\ SameRisk(row, f)
    /\ f.due_at = row.due_at /\ f.sla_started_at = row.sla_started_at
    /\ f.sla_days = row.sla_days
    /\ f.verification_job_id = row.verification_job_id

\* A row that may follow the one that is there: every change of its state is
\* counted, its deadline is explained or is the old one, and it waits for the
\* same verification if it still waits.
Follows(f) ==
    /\ RowOK(f)
    /\ f.changed > row.changed \/ (f.changed = row.changed /\ f.state = row.state)
    /\ Explained(f) \/ f.due_at = row.due_at
    /\ Explained(row) /\ (f.closure = "endpoint_unreachable" => row.exception_until = NULL)
          => Explained(f)
    /\ row.state = "VERIFYING" /\ f.state = "VERIFYING" =>
          f.verification_job_id = row.verification_job_id

\* Nothing in what the row keeps of a reading or an assessment explains a deadline.
LEMMA BaseFollows ==
    ASSUME NEW f, Base(f)
    PROVE  Follows(f)
  BY DEF Base, Follows, SameLife, SameRisk, Explained

\* Every legal move, by hand or by the tracker's word, may be saved.
LEMMA MoveFollows ==
    ASSUME now \in Nat, NEW f, Base(f), NEW s, CanMove(row.state, s),
           NEW why \in {"manual", "ticket_resolved"}
    PROVE  Follows(Move(f, s, why))
  <1>1. /\ RowOK(f) /\ SameLife(row, f) /\ SameRisk(row, f)
        /\ f.due_at = row.due_at /\ f.sla_started_at = row.sla_started_at
        /\ f.sla_days = row.sla_days
        /\ f \in Rows
    BY DEF Base, RowOK
  <1>2. /\ f.state = row.state /\ f.changed = row.changed /\ f.changed \in Nat
        /\ f.sla_days \in Nat /\ f.state \in States
    BY <1>1 DEF SameLife, Rows
  <1>3. /\ s \in States \ {"ABSENT"} /\ f.state # "ABSENT"
        /\ f.state = "CLOSED" => s = "OPEN"
        /\ s = "VERIFYING" => f.state # "VERIFYING"
    BY <1>2 DEF CanMove, TRANSITIONS, States
  <1>4. CASE s = "CLOSED"
    <2> DEFINE g == Close(f, why)
    <2>1. Move(f, s, why) = g
      BY <1>4 DEF Move
    <2>2. f.state \notin {"ABSENT", "CLOSED"} /\ why \in Closures
          /\ why \notin {"none", "false_positive", "patched", "endpoint_unreachable"}
      BY <1>3, <1>4 DEF Closures
    <2>3. RowOK(g)
      BY <1>1, <2>2, CloseOK
    <2>4. g.state = "CLOSED" /\ g.closure = why /\ g.changed = f.changed + 1
      BY <1>1, <2>2, CloseFields DEF ClosedAs
    <2> HIDE DEF g
    <2> QED
      BY <1>2, <2>1, <2>2, <2>3, <2>4 DEF Follows, Explained
  <1>5. CASE s # "CLOSED" /\ f.state = "CLOSED"
    <2> DEFINE h == Reopen(f)
               g == RestartClock(h, f.sla_days)
    <2>1. Move(f, s, why) = g
      BY <1>5 DEF Move
    <2>2. RowOK(h) /\ h.state = "OPEN" /\ h.changed = f.changed + 1
      BY <1>1, <1>5, ReopenOK
    <2> HIDE DEF h
    <2>3. /\ RowOK(g) /\ g.state = "OPEN" /\ g.changed = f.changed + 1
          /\ g.due_at = g.sla_started_at + g.sla_days
      BY <1>2, <2>2, RestartOK
    <2> HIDE DEF g
    <2> QED
      BY <1>2, <2>1, <2>3 DEF Follows, Explained
  <1>6. CASE s # "CLOSED" /\ f.state # "CLOSED"
    <2> DEFINE g == MovedTo(f, s)
    <2>1. Move(f, s, why) = g
      BY <1>6 DEF Move, MovedTo
    <2>2. /\ RowOK(g) /\ g.state = s /\ g.changed = f.changed + 1 /\ SameRisk(f, g)
          /\ g.closure = f.closure
          /\ g.due_at = f.due_at /\ g.sla_started_at = f.sla_started_at
          /\ g.sla_days = f.sla_days
      <3>1. s \in States \ {"ABSENT", "CLOSED"} /\ f.state \notin {"ABSENT", "CLOSED"}
        BY <1>3, <1>6
      <3> QED
        BY <1>1, <3>1, MovedOK
    <2> HIDE DEF g
    <2>3. Explained(row) => Explained(g)
      BY <1>1, <1>2, <1>3, <1>6, <2>2 DEF Explained, SameRisk
    <2> QED
      BY <1>1, <1>2, <1>3, <2>1, <2>2, <2>3 DEF Follows
  <1> QED
    BY <1>4, <1>5, <1>6

\* What a sighting makes of the row may be saved; one that leaves a finding in
\* VERIFYING has changed nothing else, and has noted the run unless it is historical.
LEMMA SightedFollows ==
    ASSUME now \in Nat, RowOK(row), NEW r \in Runs, scan[r] \in Scans
    PROVE  LET f == Sighted(row, r) IN
           /\ Follows(f)
           /\ f.state = "VERIFYING" => Base(f) /\ (f.last_seen_run_id = r \/ Historical(row, r))
  <1> DEFINE f == Sighted(row, r)
             a == Assessed(row, r)
  <1> SUFFICES /\ Follows(f)
               /\ f.state = "VERIFYING" =>
                     Base(f) /\ (f.last_seen_run_id = r \/ Historical(row, r))
    OBVIOUS
  <1>1. /\ RowOK(a) /\ SameLife(row, a) /\ SameRisk(row, a)
        /\ a.last_seen_run_id = r
        /\ a.due_at = row.due_at /\ a.sla_started_at = row.sla_started_at
        /\ a.sla_days = row.sla_days
        /\ a.verification_job_id = row.verification_job_id
    BY AssessedOK
  <1>2. row \in Rows /\ row.changed \in Nat /\ Sla[scan[r].severity] \in Nat
    BY Policy DEF RowOK, Rows, Scans
  <1> HIDE DEF a
  <1>3. Base(a) /\ Base(row)
    BY <1>1 DEF Base, SameLife, SameRisk
  <1>4. CASE row.state = "ABSENT"
    <2> DEFINE g == FirstSight(r)
    <2>1. f = g
      BY <1>4 DEF Sighted
    <2>2. /\ RowOK(g) /\ g.state = "OPEN" /\ g.changed = 1 /\ g.closure = "none"
          /\ g.due_at = g.sla_started_at + g.sla_days
      BY FirstSightOK
    <2>3. row.changed = 0
      BY <1>4 DEF RowOK, Counted
    <2> HIDE DEF g, f
    <2> QED
      BY <2>1, <2>2, <2>3 DEF Follows, Explained
  <1>5. CASE row.state # "ABSENT" /\ Historical(row, r)
    <2>1. f = row
      BY <1>5 DEF Sighted
    <2> HIDE DEF f
    <2> QED
      BY <1>3, <1>5, <2>1, BaseFollows
  <1>6. CASE row.state # "ABSENT" /\ ~Historical(row, r)
             /\ (FpHeld(row, scan[r].severity) \/ row.state # "CLOSED")
    <2>1. f = a
      BY <1>6 DEF Sighted, a
    <2> HIDE DEF f
    <2> QED
      BY <1>1, <1>3, <2>1, BaseFollows
  <1>7. CASE row.state = "CLOSED" /\ ~Historical(row, r) /\ ~FpHeld(row, scan[r].severity)
    <2> DEFINE h == Reopen(a)
    <2>1. a.state = "CLOSED" /\ a.changed = row.changed
      BY <1>1, <1>7 DEF SameLife
    <2>2. /\ RowOK(h) /\ h.state = "OPEN" /\ h.changed = row.changed + 1
          /\ h.due_at = row.due_at /\ h.sla_started_at = row.sla_started_at
          /\ h.sla_days = row.sla_days
      BY <1>1, <2>1, ReopenOK
    <2>3. CASE ContinueClock(row)
      <3>1. f = h
        BY <1>7, <2>3 DEF Sighted, a
      <3> HIDE DEF h, f
      <3>2. row.closure = "endpoint_unreachable"
        BY <2>3 DEF ContinueClock
      <3>3. Explained(row) => Explained(h)
        BY <1>7, <2>2, <3>2 DEF Explained
      <3> QED
        BY <1>2, <1>7, <2>2, <3>1, <3>3 DEF Follows
    <2>4. CASE ~ContinueClock(row)
      <3> DEFINE g == RestartClock(h, Sla[scan[r].severity])
      <3>1. f = g
        BY <1>7, <2>4 DEF Sighted, a
      <3> HIDE DEF h
      <3>2. /\ RowOK(g) /\ g.state = "OPEN" /\ g.changed = row.changed + 1
            /\ g.due_at = g.sla_started_at + g.sla_days
        BY <1>2, <2>2, RestartOK
      <3> HIDE DEF g, f
      <3> QED
        BY <1>2, <3>1, <3>2 DEF Follows, Explained
    <2> QED
      BY <2>3, <2>4
  <1> QED
    BY <1>4, <1>5, <1>6, <1>7

\* What a snapshot's match assesses and dates is no business of the life cycle.
LEMMA ObservedBase ==
    ASSUME RowOK(row), NEW level \in Levels, NEW at \in Day
    PROVE  Base([row EXCEPT !.severity = level, !.newest = at])
  <1> DEFINE g == [row EXCEPT !.severity = level, !.newest = at]
  <1>1. row \in Rows
    BY DEF RowOK
  <1>2. g \in Rows
    BY <1>1 DEF Rows
  <1>3. SameLife(row, g) /\ SameRisk(row, g)
    BY <1>1 DEF Rows, SameLife, SameRisk
  <1>4. /\ g.due_at = row.due_at /\ g.sla_started_at = row.sla_started_at
        /\ g.sla_days = row.sla_days
        /\ g.verification_job_id = row.verification_job_id
    BY <1>1 DEF Rows
  <1> HIDE DEF g
  <1>5. RowOK(g)
    BY <1>2, <1>3, KeptOK
  <1>6. Base(g)
    BY <1>3, <1>4, <1>5 DEF Base
  <1> QED
    BY <1>6 DEF g

\* A first match opens the finding.
LEMMA OpenedOK ==
    ASSUME NEW f, RowOK(f), f.state = "ABSENT"
    PROVE  LET g == [f EXCEPT !.state = "OPEN", !.changed = 1] IN
           RowOK(g) /\ g.state = "OPEN" /\ g.changed = 1
  <1> DEFINE g == [f EXCEPT !.state = "OPEN", !.changed = 1]
  <1>1. f \in Rows /\ Whole(f)
    BY DEF RowOK
  <1>2. g \in Rows
    BY <1>1 DEF Rows, States
  <1>3. SameRisk(f, g)
    BY <1>1 DEF Rows, SameRisk
  <1>4. /\ g.state = "OPEN" /\ g.changed = 1
        /\ g.closure = f.closure /\ g.closed_at = f.closed_at
        /\ g.machine_verified = f.machine_verified
        /\ g.fp_suppress_until = f.fp_suppress_until
    BY <1>1 DEF Rows
  <1> HIDE DEF g
  <1>5. Whole(g) /\ Counted(g)
    BY <1>1, <1>4 DEF Whole, Counted
  <1>6. Asked(g) /\ Signed(g) /\ Registered(g)
    BY <1>3 DEF RowOK, SameRisk, Asked, Signed, Registered
  <1> QED
    BY <1>2, <1>4, <1>5, <1>6 DEF RowOK, g

\* What a snapshot's match makes of the row may be saved.
LEMMA MatchedFollows ==
    ASSUME now \in Nat, RowOK(row), NEW at \in 0 .. now, NEW level \in Levels
    PROVE  Follows(Matched(row, at, level))
  <1> DEFINE a == [row EXCEPT !.severity = level]
             o == [row EXCEPT !.severity = level, !.newest = at]
             f == Matched(row, at, level)
  <1> SUFFICES Follows(f)
    OBVIOUS
  <1>1. at \in Nat /\ at \in Day /\ row \in Rows /\ row.newest \in Day
        /\ row.changed \in Nat /\ Sla[level] \in Nat
    BY Policy DEF RowOK, Rows, Day
  <1>2. Base(o)
    BY <1>1, ObservedBase
  <1>3. Base(a)
    <2>1. a = [row EXCEPT !.severity = level, !.newest = row.newest]
      BY <1>1 DEF Rows
    <2> QED
      BY <1>1, <2>1, ObservedBase
  <1>4. RowOK(o) /\ o.state = row.state /\ o.changed = row.changed
    BY <1>2 DEF Base, SameLife
  <1>5. [a EXCEPT !.newest = at] = o
    BY <1>1 DEF Rows
  <1> HIDE DEF a, o
  <1>6. \/ row.state = "ABSENT"
           /\ f = ClockFrom([o EXCEPT !.state = "OPEN", !.changed = 1], at, Sla[level])
        \/ f = a
        \/ f = o
        \/ row.state = "CLOSED" /\ f = ClockFrom(Reopen(o), at, Sla[level])
    BY <1>5 DEF Matched, a
  <1> HIDE DEF f
  <1>7. RowOK(f) /\ f.state = "OPEN" /\ f.changed > row.changed
          /\ f.due_at = f.sla_started_at + f.sla_days => Follows(f)
    BY DEF Follows, Explained
  <1>8. CASE row.state = "ABSENT"
             /\ f = ClockFrom([o EXCEPT !.state = "OPEN", !.changed = 1], at, Sla[level])
    <2> DEFINE h == [o EXCEPT !.state = "OPEN", !.changed = 1]
    <2>1. RowOK(h) /\ h.state = "OPEN" /\ h.changed = 1
      BY <1>4, <1>8, OpenedOK
    <2>2. row.changed = 0
      BY <1>8 DEF RowOK, Counted
    <2>3. f = ClockFrom(h, at, Sla[level])
      BY <1>8
    <2> HIDE DEF h
    <2>4. /\ RowOK(f) /\ f.state = "OPEN" /\ f.changed = 1
          /\ f.due_at = f.sla_started_at + f.sla_days
      BY <1>1, <2>1, <2>3, ClockOK
    <2> QED
      BY <1>7, <2>2, <2>4
  <1>9. CASE row.state = "CLOSED" /\ f = ClockFrom(Reopen(o), at, Sla[level])
    <2> DEFINE h == Reopen(o)
    <2>1. RowOK(h) /\ h.state = "OPEN" /\ h.changed = row.changed + 1
      BY <1>4, <1>9, ReopenOK
    <2>2. f = ClockFrom(h, at, Sla[level])
      BY <1>9
    <2> HIDE DEF h
    <2>3. /\ RowOK(f) /\ f.state = "OPEN" /\ f.changed = row.changed + 1
          /\ f.due_at = f.sla_started_at + f.sla_days
      BY <1>1, <2>1, <2>2, ClockOK
    <2> QED
      BY <1>1, <1>7, <2>3
  <1>10. Follows(a) /\ Follows(o)
    BY <1>2, <1>3, BaseFollows
  <1> QED
    BY <1>6, <1>8, <1>9, <1>10

\* So may the closure by a snapshot that does not have it any more.
LEMMA PatchedFollows ==
    ASSUME now \in Nat, RowOK(row), row.state \notin {"ABSENT", "CLOSED"}
    PROVE  Follows(Patched(row))
  <1> DEFINE n == row.changed + 1
             x == row.orphaned \/ row.exception_until # NULL \/ row.exception_state # "none"
             g == Patched(row)
  <1>1. row \in Rows /\ Whole(row) /\ Asked(row) /\ Registered(row) /\ row.changed \in Nat
    BY DEF RowOK, Rows
  <1>2. /\ n \in Nat /\ n > 0 /\ n > row.changed /\ x \in BOOLEAN
        /\ now \in Day /\ now # NULL /\ NULL \in Day
    BY <1>1 DEF Rows, Day, NULL
  <1>3. g = [row EXCEPT !.state = "CLOSED", !.changed = n, !.closed_at = now,
               !.closure = "patched", !.machine_verified = TRUE,
               !.exception_until = NULL, !.exception_by = NoOne, !.orphaned = x]
    BY DEF Patched
  <1>4. x <=> row.orphaned \/ row.exception_until # NULL \/ row.exception_state # "none"
    OBVIOUS
  <1> HIDE DEF n, x, g
  <1>5. g \in Rows
    <2>1. [row EXCEPT !.state = "CLOSED", !.changed = n, !.closed_at = now] \in Rows
      BY <1>1, <1>2 DEF Rows, States
    <2>2. ASSUME NEW h \in Rows
          PROVE  [h EXCEPT !.closure = "patched", !.machine_verified = TRUE,
                           !.exception_until = NULL, !.exception_by = NoOne,
                           !.orphaned = x] \in Rows
      BY <1>2 DEF Rows, Closures
    <2> QED
      BY <1>3, <2>1, <2>2
  <1>6. /\ g.state = "CLOSED" /\ g.changed = n /\ g.closed_at = now
        /\ g.closure = "patched" /\ g.machine_verified = TRUE
        /\ g.exception_until = NULL /\ g.orphaned = x
        /\ g.exception_state = row.exception_state
        /\ g.exception_expired = row.exception_expired
        /\ g.requested_by = row.requested_by /\ g.requested_until = row.requested_until
        /\ g.fp_suppress_until = row.fp_suppress_until
    BY <1>1, <1>2, <1>3 DEF Rows
  <1>7. row.fp_suppress_until = NULL
    BY <1>1 DEF Whole
  <1>8. Whole(g) /\ Counted(g)
    BY <1>2, <1>6, <1>7 DEF Whole, Counted
  <1>9. Asked(g) /\ Signed(g) /\ Registered(g)
    BY <1>1, <1>4, <1>6 DEF Asked, Signed, Registered
  <1>10. RowOK(g)
    BY <1>5, <1>8, <1>9 DEF RowOK
  <1> QED
    BY <1>2, <1>6, <1>10 DEF Follows, Explained, g

\* A finding that goes back to FIXING may be saved.
LEMMA SendBackFollows ==
    ASSUME NEW f, Base(f), f.state = "VERIFYING"
    PROVE  Follows(SendBack(f)) /\ SendBack(f).state = "FIXING"
           /\ SendBack(f).machine_verified = row.machine_verified
  <1> DEFINE g == MovedTo(f, "FIXING")
  <1>1. /\ RowOK(f) /\ SameLife(row, f) /\ SameRisk(row, f)
        /\ f.due_at = row.due_at /\ f.sla_started_at = row.sla_started_at
        /\ f.sla_days = row.sla_days
        /\ f \in Rows
    BY DEF Base, RowOK
  <1>2. "FIXING" \in States \ {"ABSENT", "CLOSED"} /\ f.state \notin {"ABSENT", "CLOSED"}
    BY DEF States
  <1>3. /\ RowOK(g) /\ g.state = "FIXING" /\ g.changed = f.changed + 1 /\ SameRisk(f, g)
        /\ g.closure = f.closure
        /\ g.due_at = f.due_at /\ g.sla_started_at = f.sla_started_at
        /\ g.sla_days = f.sla_days
    BY <1>1, <1>2, MovedOK
  <1>4. g = SendBack(f)
    BY DEF MovedTo, SendBack
  <1>5. g.machine_verified = f.machine_verified
    BY <1>1 DEF MovedTo, Rows
  <1> HIDE DEF g
  <1>6. f.state = row.state /\ f.changed = row.changed /\ f.changed \in Nat
        /\ f.machine_verified = row.machine_verified
    BY <1>1 DEF SameLife, Rows
  <1>7. Explained(row) => Explained(g)
    BY <1>1, <1>3, <1>6 DEF Explained, SameRisk
  <1>8. Follows(g)
    BY <1>1, <1>3, <1>6, <1>7 DEF Follows
  <1> QED
    BY <1>3, <1>4, <1>5, <1>6, <1>8

\* Whatever the verification shows, its verdict may be saved.
LEMMA VerdictFollows ==
    ASSUME now \in Nat, NEW f, Base(f), NEW r, f.state = "VERIFYING"
    PROVE  Follows(Verdict(f, r)) /\ Verdict(f, r).state # "VERIFYING"
  <1>1. /\ RowOK(f) /\ SameLife(row, f) /\ SameRisk(row, f)
        /\ f.due_at = row.due_at /\ f.sla_started_at = row.sla_started_at
        /\ f.sla_days = row.sla_days
        /\ f \in Rows
    BY DEF Base, RowOK
  <1>2. f.state = row.state /\ f.changed = row.changed /\ f.changed \in Nat
    BY <1>1 DEF SameLife, Rows
  <1>3. CASE Verdict(f, r) = SendBack(f)
    BY <1>3, SendBackFollows
  <1>4. ASSUME NEW why \in {"endpoint_unreachable", "verified_remediated"},
               Verdict(f, r) = Close(f, why)
        PROVE  Follows(Verdict(f, r)) /\ Verdict(f, r).state # "VERIFYING"
    <2> DEFINE g == Close(f, why)
    <2>1. why \in Closures /\ why \notin {"none", "false_positive", "patched"}
      BY DEF Closures
    <2>2. RowOK(g)
      BY <1>1, <2>1, CloseOK
    <2>c. ClosedAs(f, why, g)
      BY <1>1, <2>1, CloseFields
    <2>4. Verdict(f, r) = g
      BY <1>4
    <2> HIDE DEF g
    <2>3. /\ g.state = "CLOSED" /\ g.closure = why /\ g.changed = f.changed + 1
          /\ g.due_at = f.due_at /\ g.sla_started_at = f.sla_started_at
          /\ g.sla_days = f.sla_days
      BY <2>c DEF ClosedAs
    <2>5. Explained(row) /\ (g.closure = "endpoint_unreachable" => row.exception_until = NULL)
             => Explained(g)
      BY <1>1, <1>2, <2>3 DEF Explained
    <2> QED
      BY <1>1, <1>2, <2>2, <2>3, <2>4, <2>5 DEF Follows
  <1> QED
    BY <1>3, <1>4 DEF Verdict

\* A row that may follow, saved while the scans and the clock stand still or a
\* scan is marked as fed that the finding does not wait for, keeps the invariant.
LEMMA SaveKeeps ==
    ASSUME FindingInv, NEW f, Follows(f), Save(f),
           now' = now, dispatching' = dispatching, scan' \in [Runs -> Scans],
           \A r \in Runs : /\ scan'[r].key = scan[r].key
                           /\ scan'[r].phase = "free" => scan[r].phase = "free",
           watched /\ f.state = "VERIFYING" =>
              scan'[row.verification_job_id] = scan[row.verification_job_id]
    PROVE  FindingInv'
  <1>1. /\ FindingTypeOK /\ RowOK(row) /\ DeadlineInv /\ KeyInv /\ WatchInv
    BY DEF FindingInv
  <1>2. row' = f /\ watched' = (watched /\ f.state = "VERIFYING")
    BY DEF Save
  <1>3. RowOK(row)'
    BY <1>2 DEF Follows, RowOK, Whole, Counted, Asked, Signed, Registered, NULL
  <1>4. FindingTypeOK'
    BY <1>1, <1>2, <1>3 DEF FindingTypeOK, RowOK, Save
  <1>5. DeadlineInv'
    BY <1>1 DEF DeadlineInv, Save, Follows, Explained, NULL
  <1>6. KeyInv'
    <2>1. f.changed > row.changed \/ (f.changed = row.changed /\ f.state = row.state)
      BY DEF Follows
    <2>2. row.changed \in Nat /\ f.changed \in Nat
      BY <1>1 DEF Follows, RowOK, Rows
    <2>3. \A r \in Runs : scan[r].key \in Nat
      BY <1>1 DEF FindingTypeOK, Scans
    <2>4. ASSUME NEW r \in Runs
          PROVE  /\ scan'[r].key <= f.changed
                 /\ scan'[r].key # 0 /\ scan'[r].key = f.changed => f.state = "FIXING"
                 /\ scan'[r].phase = "free" => scan'[r].key = 0
      BY <1>1, <2>1, <2>2, <2>3 DEF KeyInv
    <2>5. dispatching # NoRun => scan'[dispatching].key # 0
      BY <1>1 DEF KeyInv, FindingTypeOK
    <2> QED
      BY <1>2, <2>4, <2>5 DEF KeyInv
  <1>7. WatchInv'
    <2> SUFFICES ASSUME watched' PROVE /\ row'.state = "VERIFYING"
                    /\ row'.verification_job_id \in Runs
                    /\ scan'[row'.verification_job_id].phase
                          \in {"queued", "seen", "clear", "failed", "lost"}
      BY DEF WatchInv
    <2>1. watched /\ f.state = "VERIFYING"
      BY <1>2
    <2>2. f.verification_job_id = row.verification_job_id
      BY <1>1, <2>1 DEF WatchInv, Follows
    <2> QED
      BY <1>1, <1>2, <2>1, <2>2 DEF WatchInv
  <1> QED
    BY <1>3, <1>4, <1>5, <1>6, <1>7 DEF FindingInv

\* Every operation of an operator, the tracker or the register saves its row
\* alone.
LEMMA SaveAlone ==
    ASSUME FindingInv, NEW f, Follows(f), Save(f), UNCHANGED <<now, scan, dispatching>>
    PROVE  FindingInv'
  <1>1. scan' \in [Runs -> Scans]
    BY DEF FindingInv, FindingTypeOK
  <1> QED
    BY <1>1, SaveKeeps

-----------------------------------------------------------------------------
(* The invariant, action by action. *)

\* Operators' moves, verdicts and tickets.
LEMMA OperatorKeeps ==
    ASSUME FindingInv, OperatorStep
    PROVE  FindingInv'
  <1>0. now \in Nat /\ RowOK(row) /\ row \in Rows
    BY DEF FindingInv, FindingTypeOK, RowOK
  <1>b. Base(row)
    BY <1>0 DEF Base, SameLife, SameRisk
  <1>1. ASSUME NEW s \in States, Transition(s)
        PROVE  FindingInv'
    <2>1. Follows(Move(row, s, "manual"))
      BY <1>0, <1>1, <1>b, MoveFollows DEF Transition
    <2> QED
      BY <1>1, <2>1, SaveAlone DEF Transition
  <1>2. CASE MarkFalsePositive
    <2> DEFINE c == Close(row, "false_positive")
               g == [c EXCEPT !.fp_suppress_until = now + Suppress]
    <2>1. row.state \notin {"ABSENT", "CLOSED"} /\ "false_positive" \in Closures
      BY <1>0, <1>2 DEF MarkFalsePositive, CanMove, TRANSITIONS, States, Rows, Closures
    <2>2. RowOK(g)
      BY <1>0, <2>1, VerdictOK
    <2>3. c \in Rows /\ c.state = "CLOSED" /\ c.closure = "false_positive"
          /\ c.changed = row.changed + 1
      BY <1>0, <2>1, CloseFields DEF ClosedAs
    <2> HIDE DEF c
    <2>4. g.state = "CLOSED" /\ g.closure = "false_positive" /\ g.changed = row.changed + 1
      BY <2>3 DEF Rows
    <2>5. Save(g) /\ UNCHANGED <<now, scan, dispatching>>
      BY <1>2 DEF MarkFalsePositive, c
    <2> HIDE DEF g
    <2>6. Follows(g)
      <3>1. row.changed \in Nat
        BY <1>0 DEF Rows
      <3> QED
        BY <2>2, <2>4, <3>1 DEF Follows, Explained
    <2> QED
      BY <2>5, <2>6, SaveAlone
  <1>3. CASE ClearFalsePositive
    <2> DEFINE h == Reopen(row)
               g == RestartClock(h, Sla[row.severity])
    <2>1. row.state = "CLOSED" /\ Sla[row.severity] \in Nat /\ row.changed \in Nat
      BY <1>0, <1>3, Policy DEF ClearFalsePositive, Rows
    <2>2. RowOK(h) /\ h.state = "OPEN" /\ h.changed = row.changed + 1
      BY <1>0, <2>1, ReopenOK
    <2>3. Save(g) /\ UNCHANGED <<now, scan, dispatching>>
      BY <1>3 DEF ClearFalsePositive
    <2> HIDE DEF h
    <2>4. /\ RowOK(g) /\ g.state = "OPEN" /\ g.changed = row.changed + 1
          /\ g.due_at = g.sla_started_at + g.sla_days
      BY <1>0, <2>1, <2>2, RestartOK
    <2> HIDE DEF g
    <2>5. Follows(g)
      BY <2>1, <2>4 DEF Follows, Explained
    <2> QED
      BY <2>3, <2>5, SaveAlone
  <1>4. ASSUME NEW link \in {"none", "unread"}, SetTicket(link)
        PROVE  FindingInv'
    <2>1. link \in Readings
      BY <1>4 DEF Readings
    <2>2. Base([row EXCEPT !.ticket = link])
      BY <1>0, <2>1, TicketOK DEF Base
    <2>3. Follows([row EXCEPT !.ticket = link])
      BY <2>2, BaseFollows
    <2> QED
      BY <1>4, <2>3, SaveAlone DEF SetTicket
  <1>5. ASSUME NEW s \in Words, NEW button \in BOOLEAN, ApplyTicketStatus(s, button)
        PROVE  FindingInv'
    <2> DEFINE read == [row EXCEPT !.ticket = s]
    <2>1. s \in Readings
      BY DEF Readings
    <2>2. Base(read)
      BY <1>0, <2>1, TicketOK DEF Base
    <2>3. CASE CanMove(row.state, s) /\ Save(Move(read, s, "ticket_resolved"))
      <3>1. Follows(Move(read, s, "ticket_resolved"))
        BY <1>0, <2>2, <2>3, MoveFollows
      <3> QED
        BY <1>5, <2>3, <3>1, SaveAlone DEF ApplyTicketStatus
    <2>4. CASE Save(read)
      <3>1. Follows(read)
        BY <2>2, BaseFollows
      <3> QED
        BY <1>5, <2>4, <3>1, SaveAlone DEF ApplyTicketStatus
    <2> QED
      BY <1>5, <2>3, <2>4 DEF ApplyTicketStatus
  <1>6. CASE ClearException
    <2> DEFINE days == Sla[row.severity]
               due == row.sla_started_at + days
               v == Revoked(row, days)
               w == [v EXCEPT !.exception_state = "none", !.requested_by = NoOne,
                              !.requested_until = NULL]
    <2>1. /\ days \in Nat /\ row.sla_started_at \in Nat /\ row.changed \in Nat
          /\ due \in Nat
          /\ NULL \in Day
      BY <1>0, Policy DEF Rows, Day, NULL
    <2>2. Bears(row)
      BY <1>0, <1>6, AcceptanceIsBorne DEF ClearException
    <2>3. Save(IF row.exception_state = "requested" THEN v ELSE w)
          /\ UNCHANGED <<now, scan, dispatching>>
      BY <1>6 DEF ClearException
    <2>4. v = [row EXCEPT !.exception_until = NULL, !.exception_by = NoOne,
                 !.approved_requested_by = NoOne, !.exception_expired = FALSE,
                 !.sla_days = days, !.due_at = due]
      BY DEF Revoked
    <2> HIDE DEF v, days, due
    <2>5. v \in Rows
      BY <1>0, <2>1, <2>4 DEF Rows
    <2>6. /\ SameLife(row, v)
          /\ v.exception_state = row.exception_state /\ v.exception_until = NULL
          /\ v.exception_expired = FALSE
          /\ v.requested_by = row.requested_by /\ v.requested_until = row.requested_until
          /\ v.due_at = due /\ v.sla_days = days /\ v.sla_started_at = row.sla_started_at
          /\ v.verification_job_id = row.verification_job_id
      BY <1>0, <2>4 DEF Rows, SameLife
    <2>7. CASE row.exception_state = "requested"
      <3>1. Asked(v) /\ Signed(v) /\ Registered(v)
        BY <1>0, <2>6, <2>7 DEF RowOK, Asked, Signed, Registered
      <3>2. RowOK(v)
        BY <1>0, <2>2, <2>5, <2>6, <3>1, RiskOK
      <3>3. Follows(v)
        BY <2>2, <2>6, <3>2 DEF Follows, Explained, SameLife, Bears, due
      <3> QED
        BY <2>3, <2>7, <3>3, SaveAlone
    <2>8. CASE row.exception_state # "requested"
      <3>1. w \in Rows
        BY <2>1, <2>5 DEF Rows, Acceptances
      <3>2. /\ SameLife(row, w)
            /\ w.exception_state = "none" /\ w.exception_until = NULL
            /\ w.exception_expired = FALSE
            /\ w.due_at = due /\ w.sla_days = days /\ w.sla_started_at = row.sla_started_at
            /\ w.verification_job_id = row.verification_job_id
        BY <2>5, <2>6 DEF Rows, SameLife
      <3> HIDE DEF w
      <3>3. Asked(w) /\ Signed(w) /\ Registered(w)
        BY <3>2 DEF Asked, Signed, Registered
      <3>4. RowOK(w)
        BY <1>0, <2>2, <3>1, <3>2, <3>3, RiskOK
      <3>5. Follows(w)
        BY <2>2, <3>2, <3>4 DEF Follows, Explained, SameLife, Bears, due
      <3> QED
        BY <2>3, <2>8, <3>5, SaveAlone
    <2> QED
      BY <2>7, <2>8
  <1> QED
    BY <1>1, <1>2, <1>3, <1>4, <1>5, <1>6 DEF OperatorStep

\* A write of the acceptance alone, with the deadline of the window it grants or
\* the one that was there, may be saved.
LEMMA RiskFollows ==
    ASSUME RowOK(row), Bears(row),
           NEW g \in Rows, SameLife(row, g), Asked(g), Signed(g), Registered(g),
           g.verification_job_id = row.verification_job_id,
           g.sla_started_at = row.sla_started_at, g.sla_days = row.sla_days,
           \/ g.due_at = row.due_at /\ g.exception_until = row.exception_until
           \/ g.exception_until # NULL /\ g.due_at = g.exception_until
    PROVE  Follows(g)
  <1>1. RowOK(g)
    BY RiskOK
  <1>2. g.state = row.state /\ g.changed = row.changed /\ g.closure = row.closure
    BY DEF SameLife
  <1>3. Explained(g) \/ g.due_at = row.due_at
    BY <1>2 DEF Explained, Bears
  <1>4. Explained(row) => Explained(g)
    BY <1>2 DEF Explained, Bears
  <1> QED
    BY <1>1, <1>2, <1>3, <1>4 DEF Follows

\* Requests, approvals, refusals and withdrawals.
LEMMA PersonKeeps ==
    ASSUME FindingInv, NEW p \in People, PersonStep(p)
    PROVE  FindingInv'
  <1>0. /\ now \in Nat /\ RowOK(row) /\ row \in Rows /\ p # NoOne
        /\ Asked(row) /\ Signed(row) /\ Registered(row)
    BY FindingAssumption DEF FindingInv, FindingTypeOK, RowOK
  <1>1. ASSUME NEW until \in (now + 1) .. (now + Longest), RequestException(p, until)
        PROVE  FindingInv'
    <2> DEFINE g == [row EXCEPT !.exception_state = "requested", !.requested_by = p,
                                !.requested_until = until]
    <2>1. Save(g) /\ UNCHANGED <<now, scan, dispatching>>
      BY <1>1 DEF RequestException
    <2>2. Bears(row) /\ until \in Nat /\ until # NULL
      BY <1>0, <1>1, FindingAssumption DEF RequestException, Tracked, NULL, Bears
    <2>3. g \in Rows
      <3>1. "requested" \in Acceptances /\ until \in Day /\ p \in People \cup {NoOne}
        BY <2>2 DEF Acceptances, Day
      <3> QED
        BY <1>0, <3>1 DEF Rows
    <2>4. /\ SameLife(row, g) /\ g.exception_state = "requested"
          /\ g.requested_by = p /\ g.requested_until = until
          /\ g.exception_until = row.exception_until /\ g.exception_by = row.exception_by
          /\ g.approved_requested_by = row.approved_requested_by
          /\ g.exception_expired = row.exception_expired /\ g.orphaned = row.orphaned
      BY <1>0 DEF Rows, SameLife
    <2>5. /\ g.due_at = row.due_at /\ g.sla_started_at = row.sla_started_at
          /\ g.sla_days = row.sla_days
          /\ g.verification_job_id = row.verification_job_id
      BY <1>0 DEF Rows
    <2> HIDE DEF g
    <2>6. Asked(g) /\ Signed(g) /\ Registered(g)
      BY <1>0, <2>2, <2>4 DEF Asked, Signed, Registered
    <2>7. Follows(g)
      BY <1>0, <2>2, <2>3, <2>4, <2>5, <2>6, RiskFollows
    <2> QED
      BY <2>1, <2>7, SaveAlone
  <1>2. CASE ApproveException(p)
    <2> DEFINE u == row.requested_until
               q == row.requested_by
               g == [row EXCEPT !.exception_state = "approved", !.exception_until = u,
                                !.exception_by = p, !.approved_requested_by = q,
                                !.exception_expired = FALSE, !.orphaned = FALSE,
                                !.due_at = u]
    <2>1. Save(g) /\ UNCHANGED <<now, scan, dispatching>>
      BY <1>2 DEF ApproveException
    <2>2. row.exception_state = "requested"
      BY <1>0, <1>2 DEF ApproveException, CanAccept, EXCEPTION_TRANSITIONS, Acceptances, Rows
    <2>3. Bears(row) /\ q \in People /\ q # p
      BY <1>0, <1>2, <2>2, AcceptanceIsBorne DEF ApproveException, MaySign, Asked
    <2>4. u \in Nat /\ u # NULL
      BY <1>0, <1>2 DEF ApproveException, Rows, Day, NULL
    <2> HIDE DEF u, q
    <2>5. g \in Rows
      <3>1. /\ "approved" \in Acceptances /\ u \in Day /\ u \in Nat
            /\ p \in People \cup {NoOne} /\ q \in People \cup {NoOne}
        BY <2>3, <2>4 DEF Acceptances, Day
      <3> QED
        BY <1>0, <3>1 DEF Rows
    <2>6. /\ SameLife(row, g) /\ g.exception_state = "approved"
          /\ g.exception_until = u /\ g.exception_by = p /\ g.approved_requested_by = q
          /\ g.exception_expired = FALSE
      BY <1>0 DEF Rows, SameLife
    <2>7. /\ g.due_at = u /\ g.sla_started_at = row.sla_started_at
          /\ g.sla_days = row.sla_days
          /\ g.verification_job_id = row.verification_job_id
      BY <1>0 DEF Rows
    <2>8. Save(g) /\ UNCHANGED <<now, scan, dispatching>>
      BY <2>1 DEF u, q
    <2> HIDE DEF g
    <2>9. Asked(g) /\ Signed(g) /\ Registered(g)
      BY <2>3, <2>4, <2>6 DEF Asked, Signed, Registered
    <2>10. Follows(g)
      BY <1>0, <2>3, <2>4, <2>5, <2>6, <2>7, <2>9, RiskFollows
    <2> QED
      BY <2>8, <2>10, SaveAlone
  <1>3. CASE RejectException(p)
    <2> DEFINE g == [row EXCEPT !.exception_state = "rejected"]
    <2>1. Save(g) /\ UNCHANGED <<now, scan, dispatching>>
      BY <1>3 DEF RejectException
    <2>2. row.exception_state = "requested"
      BY <1>0, <1>3 DEF RejectException, CanAccept, EXCEPTION_TRANSITIONS, Acceptances, Rows
    <2>3. Bears(row)
      BY <1>0, <2>2, AcceptanceIsBorne
    <2>4. g \in Rows
      BY <1>0 DEF Rows, Acceptances
    <2>5. /\ SameLife(row, g) /\ g.exception_state = "rejected"
          /\ g.exception_until = row.exception_until /\ g.exception_by = row.exception_by
          /\ g.approved_requested_by = row.approved_requested_by
          /\ g.exception_expired = row.exception_expired /\ g.orphaned = row.orphaned
      BY <1>0 DEF Rows, SameLife
    <2>6. /\ g.due_at = row.due_at /\ g.sla_started_at = row.sla_started_at
          /\ g.sla_days = row.sla_days
          /\ g.verification_job_id = row.verification_job_id
      BY <1>0 DEF Rows
    <2> HIDE DEF g
    <2>7. Asked(g) /\ Signed(g) /\ Registered(g)
      BY <1>0, <2>5 DEF Asked, Signed, Registered
    <2>8. Follows(g)
      BY <1>0, <2>3, <2>4, <2>5, <2>6, <2>7, RiskFollows
    <2> QED
      BY <2>1, <2>8, SaveAlone
  <1>4. CASE WithdrawRequest(p)
    <2> DEFINE x == StateBehindRequest(row)
               g == [row EXCEPT !.exception_state = x, !.requested_by = NoOne,
                                !.requested_until = NULL]
    <2>1. Save(g) /\ UNCHANGED <<now, scan, dispatching>>
      BY <1>4 DEF WithdrawRequest
    <2>2. row.exception_state = "requested"
      BY <1>4 DEF WithdrawRequest
    <2>3. Bears(row)
      BY <1>0, <2>2, AcceptanceIsBorne
    <2>4. row.exception_until \in Day /\ row.exception_expired \in BOOLEAN
      BY <1>0 DEF Rows
    <2>5. /\ x \in {"none", "approved", "expired"}
          /\ x = "approved" => row.exception_until # NULL /\ row.exception_until > now
          /\ x = "expired" => row.exception_until # NULL /\ row.exception_until <= now
      BY <1>0, <2>4 DEF StateBehindRequest, Day, NULL
    <2>6. ~row.orphaned /\ x = "approved" => ~row.exception_expired
      BY <1>0, <2>4, <2>5 DEF Registered, Day, NULL
    <2> HIDE DEF x
    <2>7. g \in Rows
      <3>1. x \in Acceptances /\ NULL \in Day
        BY <2>5 DEF Acceptances, Day, NULL
      <3> QED
        BY <1>0, <3>1 DEF Rows
    <2>8. /\ SameLife(row, g) /\ g.exception_state = x
          /\ g.exception_until = row.exception_until /\ g.exception_by = row.exception_by
          /\ g.approved_requested_by = row.approved_requested_by
          /\ g.exception_expired = row.exception_expired /\ g.orphaned = row.orphaned
      BY <1>0 DEF Rows, SameLife
    <2>9. /\ g.due_at = row.due_at /\ g.sla_started_at = row.sla_started_at
          /\ g.sla_days = row.sla_days
          /\ g.verification_job_id = row.verification_job_id
      BY <1>0 DEF Rows
    <2>10. Save(g) /\ UNCHANGED <<now, scan, dispatching>>
      BY <2>1 DEF x
    <2> HIDE DEF g
    <2>11. Asked(g) /\ Signed(g) /\ Registered(g)
      BY <1>0, <2>5, <2>6, <2>8 DEF Asked, Signed, Registered
    <2>12. Follows(g)
      BY <1>0, <2>3, <2>7, <2>8, <2>9, <2>11, RiskFollows
    <2> QED
      BY <2>10, <2>12, SaveAlone
  <1> QED
    BY <1>1, <1>2, <1>3, <1>4 DEF PersonStep

\* The tick that records a lapse.
LEMMA ExpireKeeps ==
    ASSUME FindingInv, ExpireExceptions
    PROVE  FindingInv'
  <1> DEFINE x == IF row.exception_state = "approved" THEN "expired" ELSE row.exception_state
             g == [row EXCEPT !.exception_expired = TRUE, !.exception_state = x]
  <1>1. /\ now \in Nat /\ RowOK(row) /\ row \in Rows
        /\ Asked(row) /\ Signed(row) /\ Registered(row)
    BY DEF FindingInv, FindingTypeOK, RowOK
  <1>2. /\ row.exception_until # NULL /\ row.exception_until <= now
        /\ Bears(row)
    BY <1>1, AcceptanceIsBorne DEF ExpireExceptions, HasLapsed
  <1>3. Save(g) /\ UNCHANGED <<now, scan, dispatching>>
    BY DEF ExpireExceptions
  <1>4. /\ x \in Acceptances /\ x # "approved"
        /\ x = "requested" => row.exception_state = "requested"
    BY <1>1 DEF Rows, Acceptances
  <1> HIDE DEF x
  <1>5. g \in Rows
    BY <1>1, <1>4 DEF Rows
  <1>6. /\ SameLife(row, g) /\ g.exception_state = x
        /\ g.exception_until = row.exception_until /\ g.exception_by = row.exception_by
        /\ g.approved_requested_by = row.approved_requested_by
        /\ g.exception_expired = TRUE
        /\ g.requested_by = row.requested_by /\ g.requested_until = row.requested_until
        /\ g.orphaned = row.orphaned
    BY <1>1 DEF Rows, SameLife
  <1>7. /\ g.due_at = row.due_at /\ g.sla_started_at = row.sla_started_at
        /\ g.sla_days = row.sla_days
        /\ g.verification_job_id = row.verification_job_id
    BY <1>1 DEF Rows
  <1>8. Save(g) /\ UNCHANGED <<now, scan, dispatching>>
    BY <1>3 DEF x
  <1> HIDE DEF g
  <1>9. Asked(g) /\ Signed(g) /\ Registered(g)
    BY <1>1, <1>2, <1>4, <1>6 DEF Asked, Signed, Registered
  <1>10. Follows(g)
    BY <1>1, <1>2, <1>5, <1>6, <1>7, <1>9, RiskFollows
  <1> QED
    BY <1>8, <1>10, SaveAlone

\* A scan that moves on, with a key it had or the one it is given, leaves the row.
LEMMA ScanKeeps ==
    ASSUME FindingInv, UNCHANGED <<now, row, watched, inherited>>,
           NEW r \in Runs, NEW c \in Scans, scan' = [scan EXCEPT ![r] = c],
           dispatching' = dispatching \/ (dispatching' = r /\ c.key # 0),
           c.key = scan[r].key \/ (c.key = row.changed /\ row.state = "FIXING"
                                     /\ scan[r].phase = "free"),
           c.phase \in {"queued", "seen", "clear", "failed", "lost"}
    PROVE  FindingInv'
  <1>1. /\ FindingTypeOK /\ RowOK(row) /\ DeadlineInv /\ KeyInv /\ WatchInv
        /\ row.changed \in Nat /\ NoRun \notin Runs
    BY FindingAssumption DEF FindingInv, RowOK, Rows
  <1>2. \A q \in Runs : scan'[q] = IF q = r THEN c ELSE scan[q]
    BY <1>1 DEF FindingTypeOK
  <1>3. FindingTypeOK'
    BY <1>1 DEF FindingTypeOK
  <1>4. RowOK(row)'
    BY <1>1 DEF RowOK, Whole, Counted, Asked, Signed, Registered
  <1>5. DeadlineInv'
    BY <1>1 DEF DeadlineInv, Explained
  <1>6. KeyInv'
    <2>1. ASSUME NEW q \in Runs
          PROVE  /\ scan'[q].key <= row.changed
                 /\ scan'[q].key # 0 /\ scan'[q].key = row.changed => row.state = "FIXING"
                 /\ scan'[q].phase = "free" => scan'[q].key = 0
      BY <1>1, <1>2 DEF KeyInv
    <2>2. dispatching' # NoRun => scan'[dispatching'].key # 0
      <3>1. CASE dispatching' = r
        <4>1. CASE c.key # 0
          BY <1>2, <3>1, <4>1
        <4>2. CASE c.key = 0
          <5>1. dispatching = r
            BY <3>1, <4>2
          <5>2. scan[r].key # 0
            BY <1>1, <5>1 DEF KeyInv
          <5>3. c.key = row.changed /\ row.state = "FIXING" /\ scan[r].phase = "free"
            BY <4>2, <5>2
          <5> QED
            BY <1>1, <5>2, <5>3 DEF KeyInv
        <4> QED
          BY <4>1, <4>2
      <3>2. CASE dispatching' # r
        BY <1>1, <1>2, <3>2 DEF KeyInv, FindingTypeOK
      <3> QED
        BY <3>1, <3>2
    <2> QED
      BY <2>1, <2>2 DEF KeyInv
  <1>7. WatchInv'
    BY <1>1, <1>2 DEF WatchInv
  <1> QED
    BY <1>3, <1>4, <1>5, <1>6, <1>7 DEF FindingInv

\* Scans start, verifications are triggered, and scans end.
LEMMA RunKeeps ==
    ASSUME FindingInv, NEW r \in Runs, StartScan(r) \/ TriggerVerification(r) \/ Ends(r)
    PROVE  FindingInv'
  <1>0. /\ FindingTypeOK /\ scan \in [Runs -> Scans] /\ scan[r] \in Scans /\ now \in Nat
        /\ row \in Rows /\ row.changed \in Nat /\ NULL \in Day /\ now \in Day
    BY DEF FindingInv, FindingTypeOK, Rows, Day, NULL
  <1>1. CASE StartScan(r)
    <2> DEFINE c == [scan[r] EXCEPT !.phase = "queued"]
    <2>1. /\ scan' = [scan EXCEPT ![r] = c]
          /\ UNCHANGED <<now, row, dispatching, watched, inherited>>
      BY <1>0, <1>1 DEF StartScan
    <2>2. c \in Scans /\ c.key = scan[r].key /\ c.phase = "queued"
      BY <1>0 DEF Scans, Phases
    <2> HIDE DEF c
    <2> QED
      BY <2>1, <2>2, ScanKeeps
  <1>2. CASE TriggerVerification(r)
    <2>1. /\ row.state = "FIXING" /\ dispatching = NoRun /\ dispatching' = r
          /\ UNCHANGED <<now, row, watched, inherited>>
      BY <1>0, <1>2 DEF TriggerVerification, CanMove, TRANSITIONS, States, Rows
    <2>2. row.changed > 0
      BY <1>0, <2>1 DEF FindingInv, RowOK, Counted
    <2>3. CASE Fresh(r) /\ scan' = [scan EXCEPT ![r].phase = "queued", ![r].key = row.changed]
      <3> DEFINE c == [scan[r] EXCEPT !.phase = "queued", !.key = row.changed]
      <3>1. scan' = [scan EXCEPT ![r] = c]
        BY <1>0, <2>3
      <3>2. c \in Scans /\ c.key = row.changed /\ c.phase = "queued"
        BY <1>0 DEF Scans, Phases
      <3>3. scan[r].phase = "free"
        BY <2>3 DEF Fresh
      <3> HIDE DEF c
      <3> QED
        <4>1. /\ dispatching' = r /\ c.key # 0 /\ c.key = row.changed /\ row.state = "FIXING"
              /\ UNCHANGED <<now, row, watched, inherited>>
          BY <1>0, <2>1, <2>2, <3>2
        <4> QED
          BY <3>1, <3>2, <3>3, <4>1, ScanKeeps
    <2>4. CASE scan[r].phase # "free" /\ scan[r].key = row.changed /\ UNCHANGED scan
      <3>1. KeyInv'
        BY <2>1, <2>2, <2>4 DEF FindingInv, KeyInv
      <3>2. FindingTypeOK'
        BY <1>0, <2>1, <2>4 DEF FindingTypeOK
      <3>3. RowOK(row)' /\ DeadlineInv'
        BY <2>1 DEF FindingInv, RowOK, Whole, Counted, Asked, Signed, Registered,
                    DeadlineInv, Explained
      <3>4. WatchInv'
        BY <2>1, <2>4 DEF FindingInv, WatchInv
      <3> QED
        BY <3>1, <3>2, <3>3, <3>4 DEF FindingInv
    <2> QED
      BY <1>2, <2>3, <2>4 DEF TriggerVerification
  <1>3. CASE ScanSees(r)
    <2>1. PICK at \in {now, NULL}, level \in Levels, cover \in Covers(r) \ {"refused"} :
             scan' = [scan EXCEPT ![r].phase = "seen", ![r].at = at,
                                  ![r].severity = level, ![r].cover = cover]
      BY <1>3 DEF ScanSees
    <2> DEFINE c == [scan[r] EXCEPT !.phase = "seen", !.at = at, !.severity = level,
                                    !.cover = cover]
    <2>2. /\ scan' = [scan EXCEPT ![r] = c]
          /\ UNCHANGED <<now, row, dispatching, watched, inherited>>
      BY <1>0, <1>3, <2>1 DEF ScanSees
    <2>3. cover \in {"full", "gaps", "refused"} /\ at \in Day
      BY <1>0 DEF Covers
    <2>4. c \in Scans /\ c.key = scan[r].key /\ c.phase = "seen"
      BY <1>0, <2>3 DEF Scans, Phases
    <2> HIDE DEF c
    <2> QED
      BY <2>2, <2>4, ScanKeeps
  <1>4. CASE ScanSeesNothing(r)
    <2>1. PICK cover \in Covers(r) :
             scan' = [scan EXCEPT ![r].phase = "clear", ![r].cover = cover]
      BY <1>4 DEF ScanSeesNothing
    <2> DEFINE c == [scan[r] EXCEPT !.phase = "clear", !.cover = cover]
    <2>2. /\ scan' = [scan EXCEPT ![r] = c]
          /\ UNCHANGED <<now, row, dispatching, watched, inherited>>
      BY <1>0, <1>4, <2>1 DEF ScanSeesNothing
    <2>3. cover \in {"full", "gaps", "refused"}
      BY DEF Covers
    <2>4. c \in Scans /\ c.key = scan[r].key /\ c.phase = "clear"
      BY <1>0, <2>3 DEF Scans, Phases
    <2> HIDE DEF c
    <2> QED
      BY <2>2, <2>4, ScanKeeps
  <1>5. CASE ScanFails(r)
    <2>1. PICK end \in {"failed", "lost"} : scan' = [scan EXCEPT ![r].phase = end]
      BY <1>5 DEF ScanFails
    <2> DEFINE c == [scan[r] EXCEPT !.phase = end]
    <2>2. /\ scan' = [scan EXCEPT ![r] = c]
          /\ UNCHANGED <<now, row, dispatching, watched, inherited>>
      BY <1>0, <1>5, <2>1 DEF ScanFails
    <2>3. c \in Scans /\ c.key = scan[r].key /\ c.phase \in {"failed", "lost"}
      BY <1>0 DEF Scans, Phases
    <2> HIDE DEF c
    <2> QED
      BY <2>2, <2>3, ScanKeeps
  <1> QED
    BY <1>1, <1>2, <1>3, <1>4, <1>5 DEF Ends

\* The receipt parks a finding that is where its key found it, behind a job that
\* is in flight.
LEMMA ReceiptKeeps ==
    ASSUME FindingInv, WriteReceipt
    PROVE  FindingInv'
  <1> DEFINE d == dispatching
             n == row.changed + 1
             g == [row EXCEPT !.state = "VERIFYING", !.changed = n, !.verification_job_id = d]
  <1>1. /\ FindingTypeOK /\ RowOK(row) /\ DeadlineInv /\ KeyInv
        /\ row \in Rows /\ row.changed \in Nat /\ n \in Nat /\ n > 0 /\ n > row.changed
    BY DEF FindingInv, RowOK, Rows
  <1>2. d \in Runs /\ scan[d].phase = "queued" /\ scan[d].key = row.changed /\ scan[d].key # 0
    BY <1>1 DEF WriteReceipt, ReceiptStands, KeyInv, FindingTypeOK
  <1>3. row.state = "FIXING"
    BY <1>1, <1>2 DEF KeyInv
  <1>4. /\ row' = g /\ watched' = TRUE /\ dispatching' = NoRun
        /\ UNCHANGED <<now, scan, inherited>>
    BY DEF WriteReceipt
  <1> HIDE DEF d, n
  <1>5. g \in Rows
    BY <1>1, <1>2 DEF Rows, States
  <1>6. SameRisk(row, g)
    BY <1>1 DEF Rows, SameRisk
  <1>7. /\ g.state = "VERIFYING" /\ g.changed = n /\ g.verification_job_id = d
        /\ g.closure = row.closure /\ g.closed_at = row.closed_at
        /\ g.machine_verified = row.machine_verified
        /\ g.fp_suppress_until = row.fp_suppress_until
        /\ g.due_at = row.due_at /\ g.sla_started_at = row.sla_started_at
        /\ g.sla_days = row.sla_days
    BY <1>1 DEF Rows
  <1> HIDE DEF g
  <1>8. Whole(g) /\ Counted(g)
    BY <1>1, <1>3, <1>7 DEF RowOK, Whole, Counted
  <1>9. Asked(g) /\ Signed(g) /\ Registered(g)
    BY <1>1, <1>6 DEF RowOK, SameRisk, Asked, Signed, Registered
  <1>10. RowOK(row)'
    BY <1>4, <1>5, <1>8, <1>9 DEF RowOK, Whole, Counted, Asked, Signed, Registered
  <1>11. DeadlineInv'
    BY <1>1, <1>3, <1>4, <1>6, <1>7 DEF DeadlineInv, Explained, SameRisk
  <1>12. FindingTypeOK'
    BY <1>1, <1>4, <1>5 DEF FindingTypeOK
  <1>13. KeyInv'
    <2>1. \A r \in Runs : scan[r].key \in Nat /\ scan[r].key <= row.changed
      BY <1>1 DEF KeyInv, FindingTypeOK, Scans
    <2> QED
      BY <1>1, <1>4, <1>7, <2>1 DEF KeyInv
  <1>14. WatchInv'
    BY <1>2, <1>4, <1>7 DEF WatchInv
  <1> QED
    BY <1>10, <1>11, <1>12, <1>13, <1>14 DEF FindingInv

\* The fold of a run keeps the invariant.
LEMMA FoldKeeps ==
    ASSUME FindingInv, NEW r \in Runs, RegisterFindings(r)
    PROVE  FindingInv'
  <1> DEFINE f == IF scan[r].phase = "seen" THEN Sighted(row, r) ELSE row
             c == [NoScan EXCEPT !.phase = "folded", !.key = scan[r].key]
             g == IF Awaiting(f, r) THEN Verdict(f, r) ELSE f
  <1>1. /\ scan \in [Runs -> Scans] /\ scan[r] \in Scans /\ now \in Nat /\ RowOK(row)
        /\ WatchInv
    BY DEF FindingInv, FindingTypeOK
  <1>2. /\ Save(g) /\ now' = now /\ dispatching' = dispatching
        /\ scan' = [scan EXCEPT ![r] = c]
    BY DEF RegisterFindings
  <1>3. c \in Scans /\ c.key = scan[r].key /\ c.phase = "folded"
    BY <1>1 DEF Scans, NoScan, Phases, Levels, Day, NULL
  <1>4. Base(row)
    BY <1>1 DEF Base, SameLife, SameRisk
  <1>5. Follows(f) /\ (f.state = "VERIFYING" => Base(f))
    <2>1. CASE scan[r].phase = "seen"
      BY <1>1, <2>1, SightedFollows
    <2>2. CASE scan[r].phase # "seen"
      BY <1>4, <2>2, BaseFollows
    <2> QED
      BY <2>1, <2>2
  <1> HIDE DEF c, f
  <1>6. Follows(g) /\ (g.state = "VERIFYING" => g = f /\ ~Awaiting(f, r))
    <2>1. CASE Awaiting(f, r)
      <3>1. f.state = "VERIFYING"
        BY <2>1 DEF Awaiting
      <3>2. Follows(Verdict(f, r)) /\ Verdict(f, r).state # "VERIFYING"
        BY <1>1, <1>5, <3>1, VerdictFollows
      <3> QED
        BY <2>1, <3>2
    <2>2. CASE ~Awaiting(f, r)
      BY <1>5, <2>2
    <2> QED
      BY <2>1, <2>2
  <1> HIDE DEF g
  <1>7. watched /\ g.state = "VERIFYING" =>
           scan'[row.verification_job_id] = scan[row.verification_job_id]
    <2> SUFFICES ASSUME watched, g.state = "VERIFYING"
                 PROVE  scan'[row.verification_job_id] = scan[row.verification_job_id]
      OBVIOUS
    <2>1. row.verification_job_id \in Runs
      BY <1>1 DEF WatchInv
    <2>2. row.verification_job_id # r
      BY <1>5, <1>6 DEF Base, Awaiting
    <2> QED
      BY <1>1, <1>2, <2>1, <2>2
  <1>8. /\ scan' \in [Runs -> Scans]
        /\ \A q \in Runs : /\ scan'[q].key = scan[q].key
                           /\ scan'[q].phase = "free" => scan[q].phase = "free"
    BY <1>1, <1>2, <1>3
  <1> QED
    BY <1>2, <1>6, <1>7, <1>8, SaveKeeps

\* So does the release of a verification that failed, done or lost.
LEMMA ReleaseKeeps ==
    ASSUME FindingInv, NEW r \in Runs, ReleaseVerification(r)
    PROVE  FindingInv'
  <1>1. /\ scan \in [Runs -> Scans] /\ scan[r] \in Scans /\ RowOK(row) /\ WatchInv
    BY DEF FindingInv, FindingTypeOK
  <1>2. Base(row)
    BY <1>1 DEF Base, SameLife, SameRisk
  <1>3. CASE Save(Released(row, r)) /\ scan' = [scan EXCEPT ![r].phase = "folded"]
    <2> DEFINE g == Released(row, r)
               c == [scan[r] EXCEPT !.phase = "folded"]
    <2>1. Save(g) /\ scan' = [scan EXCEPT ![r] = c] /\ UNCHANGED <<now, dispatching>>
      BY <1>1, <1>3 DEF ReleaseVerification
    <2>2. c \in Scans /\ c.key = scan[r].key /\ c.phase = "folded"
      BY <1>1 DEF Scans, Phases
    <2>3. Follows(g) /\ (g.state = "VERIFYING" => ~Awaiting(row, r) /\ row.state = "VERIFYING")
      <3>1. CASE Awaiting(row, r)
        <4>1. row.state = "VERIFYING" /\ g = SendBack(row)
          BY <3>1 DEF Awaiting, Released
        <4> QED
          BY <1>2, <4>1, SendBackFollows
      <3>2. CASE ~Awaiting(row, r)
        <4>1. g = row
          BY <3>2 DEF Released
        <4> QED
          BY <1>2, <3>2, <4>1, BaseFollows
      <3> QED
        BY <3>1, <3>2
    <2> HIDE DEF c, g
    <2>4. watched /\ g.state = "VERIFYING" =>
             scan'[row.verification_job_id] = scan[row.verification_job_id]
      BY <1>1, <2>1, <2>3 DEF WatchInv, Awaiting
    <2>5. /\ scan' \in [Runs -> Scans]
          /\ \A q \in Runs : /\ scan'[q].key = scan[q].key
                             /\ scan'[q].phase = "free" => scan[q].phase = "free"
      BY <1>1, <2>1, <2>2
    <2> QED
      BY <2>1, <2>3, <2>4, <2>5, SaveKeeps
  <1>4. CASE UNCHANGED <<row, watched, inherited>> /\ scan' = [scan EXCEPT ![r].phase = "lost"]
    <2> DEFINE c == [scan[r] EXCEPT !.phase = "lost"]
    <2>1. scan' = [scan EXCEPT ![r] = c] /\ UNCHANGED <<now, dispatching>>
      BY <1>1, <1>4 DEF ReleaseVerification
    <2>2. c \in Scans /\ c.key = scan[r].key /\ c.phase = "lost"
      BY <1>1 DEF Scans, Phases
    <2> HIDE DEF c
    <2> QED
      BY <1>4, <2>1, <2>2, ScanKeeps
  <1> QED
    BY <1>3, <1>4 DEF ReleaseVerification

\* A publication that is given up leaves the finding to wait.
LEMMA GivenUpKeeps ==
    ASSUME FindingInv, NEW r \in Runs, PublicationGivenUp(r)
    PROVE  FindingInv'
  <1> DEFINE c == [NoScan EXCEPT !.phase = "lost", !.key = scan[r].key]
  <1>1. scan[r] \in Scans
    BY DEF FindingInv, FindingTypeOK
  <1>2. c \in Scans /\ c.key = scan[r].key /\ c.phase = "lost"
    BY <1>1 DEF Scans, NoScan, Phases, Levels, Day, NULL
  <1>3. scan' = [scan EXCEPT ![r] = c] /\ UNCHANGED <<now, row, dispatching, watched, inherited>>
    BY DEF PublicationGivenUp
  <1> HIDE DEF c
  <1> QED
    BY <1>2, <1>3, ScanKeeps

\* The fold of an inventory snapshot keeps the invariant.
LEMMA InventoryKeeps ==
    ASSUME FindingInv, InventoryStep
    PROVE  FindingInv'
  <1>0. now \in Nat /\ RowOK(row)
    BY DEF FindingInv, FindingTypeOK
  <1>1. ASSUME NEW at \in 0 .. now, NEW level \in Levels, InventoryMatches(at, level)
        PROVE  FindingInv'
    <2>1. Follows(Matched(row, at, level))
      BY <1>0, MatchedFollows
    <2> QED
      BY <1>1, <2>1, SaveAlone DEF InventoryMatches
  <1>2. ASSUME NEW at \in 0 .. now, InventoryClears(at)
        PROVE  FindingInv'
    <2>1. Follows(Patched(row))
      BY <1>0, <1>2, PatchedFollows DEF InventoryClears, Tracked
    <2> QED
      BY <1>2, <2>1, SaveAlone DEF InventoryClears
  <1> QED
    BY <1>1, <1>2 DEF InventoryStep

\* The passing of a day makes no record false.
LEMMA TickKeeps ==
    ASSUME FindingInv, Tick
    PROVE  FindingInv'
  <1>1. /\ FindingTypeOK /\ RowOK(row) /\ row \in Rows /\ now \in Nat /\ now' = now + 1
        /\ UNCHANGED <<row, scan, dispatching, watched, inherited>>
    BY DEF FindingInv, FindingTypeOK, RowOK, Tick
  <1>2. row.exception_until \in Day
    BY <1>1 DEF Rows
  <1>3. Registered(row)'
    BY <1>1, <1>2 DEF RowOK, Registered, Day, NULL
  <1>4. RowOK(row)'
    BY <1>1, <1>3 DEF RowOK, Whole, Counted, Asked, Signed
  <1>5. FindingTypeOK'
    BY <1>1 DEF FindingTypeOK
  <1>6. DeadlineInv' /\ KeyInv' /\ WatchInv'
    BY <1>1 DEF FindingInv, DeadlineInv, Explained, KeyInv, WatchInv
  <1> QED
    BY <1>4, <1>5, <1>6 DEF FindingInv

\* A step that leaves row, scans, clock and histories keeps everything.
LEMMA DropKeeps ==
    ASSUME FindingInv, UNCHANGED <<now, row, scan, watched, inherited>>,
           dispatching' \in {dispatching, NoRun}
    PROVE  FindingInv'
  <1>1. FindingTypeOK'
    BY DEF FindingInv, FindingTypeOK
  <1>2. RowOK(row)'
    BY DEF FindingInv, RowOK, Whole, Counted, Asked, Signed, Registered
  <1>3. DeadlineInv' /\ KeyInv' /\ WatchInv'
    BY DEF FindingInv, DeadlineInv, Explained, KeyInv, WatchInv
  <1> QED
    BY <1>1, <1>2, <1>3 DEF FindingInv

\* Nothing is tracked at first.
LEMMA FindingStart ==
    ASSUME FindingInit
    PROVE  FindingInv
  <1>1. RowOK(row) /\ row.changed = 0 /\ row.state = "ABSENT"
    <2>1. PICK source \in {"scan", "inventory"} : row = [Absent EXCEPT !.source = source]
      BY DEF FindingInit
    <2>2. RowOK(row)
      BY <2>1, AbsentOK
    <2> QED
      BY <2>1, <2>2 DEF Absent
  <1>2. NoScan \in Scans /\ NoScan.key = 0
    BY DEF NoScan, Scans, Phases, Levels, Day, NULL
  <1>3. FindingTypeOK
    BY <1>1, <1>2 DEF FindingInit, FindingTypeOK, RowOK
  <1>4. DeadlineInv
    BY <1>1 DEF DeadlineInv, Explained
  <1>5. KeyInv /\ WatchInv
    BY <1>1, <1>2 DEF FindingInit, KeyInv, WatchInv
  <1> QED
    BY <1>1, <1>3, <1>4, <1>5 DEF FindingInv

\* Every step keeps the invariant.
LEMMA FindingStep ==
    ASSUME FindingInv, [FindingNext]_vars
    PROVE  FindingInv'
  <1>1. CASE OperatorStep
    BY <1>1, OperatorKeeps
  <1>2. ASSUME NEW p \in People, PersonStep(p)
        PROVE  FindingInv'
    BY <1>2, PersonKeeps
  <1>3. ASSUME NEW r \in Runs, RunStep(r)
        PROVE  FindingInv'
    BY <1>3, RunKeeps, FoldKeeps, ReleaseKeeps, GivenUpKeeps DEF RunStep, Feeds
  <1>4. CASE WriteReceipt
    BY <1>4, ReceiptKeeps
  <1>5. CASE NoReceipt
    BY <1>5, DropKeeps DEF NoReceipt
  <1>6. CASE ExpireExceptions
    BY <1>6, ExpireKeeps
  <1>7. CASE Tick
    BY <1>7, TickKeeps
  <1>8. CASE UNCHANGED vars
    BY <1>8, DropKeeps DEF vars
  <1>9. CASE InventoryStep
    BY <1>9, InventoryKeeps
  <1> QED
    BY <1>1, <1>2, <1>3, <1>4, <1>5, <1>6, <1>7, <1>8, <1>9 DEF FindingNext

\* The invariant holds in every reachable state.
THEOREM FindingInvariant == FindingSpec => []FindingInv
  <1>1. FindingInit => FindingInv
    BY FindingStart
  <1>2. FindingInv /\ [FindingNext]_vars => FindingInv'
    BY FindingStep
  <1> QED
    BY <1>1, <1>2, PTL DEF FindingSpec

-----------------------------------------------------------------------------
(* The properties. *)

\* The row, the scans and the histories keep their types (the columns of
\* vulnerabilities and the phases of a run).
THEOREM TypeCorrect == FindingSpec => []FindingTypeOK
  <1>1. FindingInv => FindingTypeOK
    BY DEF FindingInv
  <1> QED
    BY <1>1, FindingInvariant, PTL

\* Every closure and every reopening leaves the row whole (transition,
\* apply_ticket_status, mark_false_positive, clear_false_positive,
\* register_findings_from_run, _fold_device).
THEOREM ClosuresAreWhole == FindingSpec => []ClosureIsWhole
  <1>1. FindingInv => ClosureIsWhole
    BY DEF FindingInv, RowOK, Whole, ClosureIsWhole
  <1> QED
    BY <1>1, FindingInvariant, PTL

\* The deadline of an open finding is the policy's or that of a window on the
\* row, unless a dropped window left it (request_exception, approve_exception,
\* clear_exception, register_findings_from_run).
THEOREM DeadlinesAreOwed == FindingSpec => []DeadlineIsOwed
  <1>1. FindingInv => DeadlineIsOwed
    BY DEF FindingInv, DeadlineInv, Explained, DeadlineIsOwed, Tracked
  <1> QED
    BY <1>1, FindingInvariant, PTL

\* Nobody signs an acceptance they asked for (approve_exception).
THEOREM WindowsAreSignedByAnother == FindingSpec => []SignedByAnother
  <1>1. FindingInv => SignedByAnother
    BY DEF FindingInv, RowOK, Signed, SignedByAnother
  <1> QED
    BY <1>1, FindingInvariant, PTL

\* What the risk register reads is true (_state_behind_a_request,
\* expire_exceptions, approve_exception).
THEOREM TheRegisterIsTrue == FindingSpec => []RegisterIsTrue
  <1>1. FindingInv => RegisterIsTrue
    BY DEF FindingInv, RowOK, Registered, RegisterIsTrue
  <1> QED
    BY <1>1, FindingInvariant, PTL

\* A finding parked by a dispatched verification has its scan still to come
\* (_trigger_verification_claimed, release_unfinished_verification).
THEOREM SomebodyLooks == FindingSpec => []SomebodyIsLooking
  <1>1. FindingInv => SomebodyIsLooking
    BY DEF FindingInv, WatchInv, SomebodyIsLooking
  <1> QED
    BY <1>1, FindingInvariant, PTL

\* A sighting never sets the mark of a machine's verification.
LEMMA SightedVerifiesNothing ==
    ASSUME now \in Nat, RowOK(row), NEW r \in Runs, scan[r] \in Scans,
           Sighted(row, r).machine_verified
    PROVE  row.machine_verified
  <1> DEFINE f == Sighted(row, r)
             a == Assessed(row, r)
  <1>1. RowOK(f)
    BY SightedFollows DEF Follows
  <1>2. f.state = "CLOSED"
    <2> HIDE DEF f
    <2>1. f.machine_verified
      BY DEF f
    <2> QED
      BY <1>1, <2>1 DEF RowOK, Whole
  <1>3. a.machine_verified = row.machine_verified
    BY AssessedOK DEF SameLife
  <1>4. CASE f = row \/ f = a
    BY <1>3, <1>4
  <1>5. CASE f = FirstSight(r)
    BY <1>2, <1>5, FirstSightOK
  <1>6. ASSUME row.state = "CLOSED",
               f \in {Reopen(a), RestartClock(Reopen(a), Sla[scan[r].severity])}
        PROVE  FALSE
    <2>1. RowOK(a) /\ a.state = "CLOSED"
      BY <1>6, AssessedOK DEF SameLife
    <2> HIDE DEF a
    <2>2. RowOK(Reopen(a)) /\ Reopen(a).state = "OPEN"
      BY <2>1, ReopenOK
    <2>3. Sla[scan[r].severity] \in Nat
      BY Policy DEF Scans
    <2>4. RestartClock(Reopen(a), Sla[scan[r].severity]).state = "OPEN"
      BY <2>2, <2>3, RestartOK
    <2> QED
      BY <1>2, <1>6, <2>2, <2>4
  <1> QED
    BY <1>4, <1>5, <1>6 DEF Sighted

\* A run that saw the finding never closes it as verified fixed, unless its
\* sighting was older than what was known (register_findings_from_run).
THEOREM SeenIsNeverFixed == FindingSpec => SeenIsNotFixed
  <1> DEFINE Kept == \A r \in Runs :
                        scan[r].phase = "seen" /\ RegisterFindings(r) /\ row'.machine_verified
                           => row.machine_verified \/ Historical(row, r)
  <1>1. ASSUME FindingInv
        PROVE  Kept
    <2> SUFFICES ASSUME NEW r \in Runs, scan[r].phase = "seen", RegisterFindings(r),
                        row'.machine_verified, ~Historical(row, r)
                 PROVE  row.machine_verified
      OBVIOUS
    <2> DEFINE f == Sighted(row, r)
    <2>1. scan[r] \in Scans /\ now \in Nat /\ RowOK(row)
      BY <1>1 DEF FindingInv, FindingTypeOK
    <2>2. row' = IF Awaiting(f, r) THEN Verdict(f, r) ELSE f
      BY DEF RegisterFindings, Save
    <2>3. CASE Awaiting(f, r)
      <3>1. f.state = "VERIFYING"
        BY <2>3 DEF Awaiting
      <3>2. Base(f) /\ f.last_seen_run_id = r
        BY <2>1, <3>1, SightedFollows
      <3> HIDE DEF f
      <3>3. row' = SendBack(f)
        BY <2>2, <2>3, <3>2 DEF Verdict
      <3> QED
        BY <3>1, <3>2, <3>3, SendBackFollows
    <2>4. CASE ~Awaiting(f, r)
      BY <2>1, <2>2, <2>4, SightedVerifiesNothing
    <2> QED
      BY <2>3, <2>4
  <1>2. FindingInv => [Kept]_vars
    BY <1>1
  <1> QED
    BY <1>2, FindingInvariant, PTL DEF SeenIsNotFixed

=============================================================================
