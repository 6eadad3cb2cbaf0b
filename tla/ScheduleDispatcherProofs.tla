---------------------- MODULE ScheduleDispatcherProofs ----------------------
(***************************************************************************)
(* Theorems about the recurring scans, for every set of replicas, every    *)
(* cadence and every Retry-After, over any length of time.                 *)
(***************************************************************************)
EXTENDS ScheduleDispatcher, TLAPS

-----------------------------------------------------------------------------
(* The cadence. *)

\* The next occurrence is a moment after the one it is asked for.
LEMMA Cadence ==
    ASSUME NEW a \in Nat, NEW c \in BOOLEAN
    PROVE  /\ a \div Period \in Nat
           /\ NextOccurrence(c, a) \in Nat
           /\ NextOccurrence(c, a) > a
  <1>1. Period \in Nat \ {0}
    BY ScheduleAssumption
  <1>2. a \div Period \in Nat
    BY <1>1
  <1>3. (a \div Period + 1) * Period \in Nat /\ (a \div Period + 1) * Period > a
    BY <1>1
  <1>4. a + Period \in Nat /\ a + Period > a
    BY <1>1
  <1> QED
    BY <1>2, <1>3, <1>4 DEF NextOccurrence

\* The run that a cron tick belongs to.
LEMMA CronRun ==
    ASSUME NEW a \in Nat
    PROVE  /\ NextOccurrence(TRUE, a) = (a \div Period + 1) * Period
           /\ NextOccurrence(TRUE, a) \div Period = a \div Period + 1
  <1>1. Period \in Nat \ {0}
    BY ScheduleAssumption
  <1>2. a \div Period \in Nat
    BY <1>1
  <1>3. \A n \in Nat : (n * Period) \div Period = n
    BY <1>1
  <1> QED
    BY <1>2, <1>3 DEF NextOccurrence

\* Occurrences of a cron schedule come in the order of their moments.
LEMMA RunsInOrder ==
    ASSUME NEW a \in Nat, NEW b \in Nat
    PROVE  /\ a <= b => a \div Period <= b \div Period
           /\ a <= b => NextOccurrence(TRUE, a) <= NextOccurrence(TRUE, b)
           /\ b < NextOccurrence(TRUE, a) => b \div Period <= a \div Period
  <1>1. Period \in Nat \ {0} /\ a \div Period \in Nat /\ b \div Period \in Nat
    BY ScheduleAssumption
  <1>2. a <= b => a \div Period <= b \div Period
    BY <1>1
  <1>3. \A m, n \in Nat : m <= n => m * Period <= n * Period
    BY <1>1
  <1>4. a <= b => NextOccurrence(TRUE, a) <= NextOccurrence(TRUE, b)
    <2>1. a <= b => (a \div Period + 1) * Period <= (b \div Period + 1) * Period
      BY <1>1, <1>2, <1>3
    <2> QED
      BY <2>1, CronRun
  <1>5. b < (a \div Period + 1) * Period => b \div Period <= a \div Period
    BY <1>1
  <1> QED
    BY <1>2, <1>4, <1>5, CronRun

-----------------------------------------------------------------------------
(* Types. *)

\* Every step keeps the types.
LEMMA ScheduleTypeStep ==
    ASSUME ScheduleTypeOK, [ScheduleNext]_scheduleVars
    PROVE  ScheduleTypeOK'
  <1> USE DEF ScheduleTypeOK
  <1>0. /\ MaxTime \in Nat /\ Nobody \notin Replicas
        /\ RetryAfter \in Nat /\ now \in Nat /\ losses + 1 \in Nat /\ turns + 1 \in Nat
    BY ScheduleAssumption DEF Keys
  <1>a. Asleep \in Ticks
    BY DEF Asleep, Ticks, Writes, Times, None
  <1>n. \A c \in BOOLEAN, a \in Nat : NextOccurrence(c, a) \in Nat
    BY Cadence
  <1>f. \A r \in Replicas : [since EXCEPT ![r] = None] \in [Replicas -> Times]
    BY DEF Times
  <1>d. ASSUME NEW r \in Replicas, NEW w \in Writes, NEW u \in Times, Decide(r, w, u)
        PROVE  tick' \in [Replicas -> Ticks]
    <2>1. [tick[r] EXCEPT !.phase = "write", !.write = w, !.until = u] \in Ticks
      BY DEF Ticks
    <2> QED
      BY <1>d, <2>1 DEF Decide, Ticks
  <1>t. \A r \in Replicas : /\ tick[r] \in Ticks /\ tick[r].clock \in Nat
                            /\ tick[r].due \in Nat /\ tick[r].cron \in BOOLEAN
                            /\ tick[r].version \in Nat /\ tick[r].until \in Times
    BY DEF Ticks
  <1>w. "record" \in Writes /\ "skip" \in Writes /\ "defer" \in Writes /\ None \in Times
        /\ Nat \subseteq Times
    BY DEF Writes, Times
  <1>p. \A r \in Replicas : [past EXCEPT !.unrecorded = @ \/ Unrecorded(r)] \in Pasts
    <2>1. \A r \in Replicas : (past.unrecorded \/ Unrecorded(r)) \in BOOLEAN
      BY Zenon
    <2> QED
      BY <2>1 DEF Pasts
  <1>1. ASSUME NEW r \in Replicas, Acquire(r) PROVE ScheduleTypeOK'
    <2>1. lock' \in Replicas \cup {Nobody}
      BY <1>1 DEF Acquire
    <2>2. leads' \in [Replicas -> BOOLEAN]
      BY <1>1 DEF Acquire
    <2>3. tick' \in [Replicas -> Ticks]
      BY <1>1 DEF Acquire, Ticks
    <2> QED
      BY <1>1, <2>1, <2>2, <2>3 DEF Acquire
  <1>2. ASSUME NEW r \in Replicas, ReadDue(r) PROVE ScheduleTypeOK'
    <2>1. [Asleep EXCEPT !.phase = "start", !.clock = now, !.due = sched.next,
                         !.cron = sched.cron, !.version = sched.version] \in Ticks
      BY <1>0, <1>a DEF Ticks, Schedules
    <2>2. tick' \in [Replicas -> Ticks]
      BY <1>2, <1>a, <2>1 DEF ReadDue
    <2> QED
      BY <1>2, <2>2 DEF ReadDue
  <1>3. ASSUME NEW r \in Replicas, StartIsFull(r) PROVE ScheduleTypeOK'
    <2> DEFINE first == IF StaleMemory(r) THEN tick[r].clock ELSE since[r]
    <2>1. first \in Nat
      BY <1>t DEF StaleMemory, Times
    <2>2. NextOccurrence(tick[r].cron, first) \in Nat /\ tick[r].clock + RetryAfter \in Nat
      BY <1>0, <1>n, <1>t, <2>1
    <2> HIDE DEF first
    <2>3. tick' \in [Replicas -> Ticks]
      BY <1>3, <1>d, <1>w, <2>2 DEF StartIsFull, first
    <2>4. since' \in [Replicas -> Times]
      BY <1>3, <1>f, <1>w, <2>1 DEF StartIsFull, Forget, first
    <2> QED
      BY <1>3, <2>3, <2>4 DEF StartIsFull
  <1>4. ASSUME NEW r \in Replicas, NEW until \in BlockEnds(r), StartIsBlocked(r, until)
        PROVE  ScheduleTypeOK'
    <2>1. Period \in Nat
      BY ScheduleAssumption
    <2>2. until \in Times
      BY <1>t, <1>w, <2>1 DEF BlockEnds
    <2>3. tick' \in [Replicas -> Ticks]
      BY <1>4, <1>d, <1>w, <2>2 DEF StartIsBlocked
    <2> QED
      BY <1>4, <1>f, <2>3 DEF StartIsBlocked, Forget
  <1>5. ASSUME NEW r \in Replicas, StartIsRefused(r) PROVE ScheduleTypeOK'
    <2>1. tick' \in [Replicas -> Ticks]
      BY <1>5, <1>d, <1>w DEF StartIsRefused
    <2> QED
      BY <1>5, <1>f, <2>1 DEF StartIsRefused, Forget
  <1>6. ASSUME NEW r \in Replicas, Start(r) PROVE ScheduleTypeOK'
    <2>1. tick' \in [Replicas -> Ticks]
      BY <1>6, <1>d, <1>w DEF Start
    <2>2. [status |-> "active", version |-> tick[r].version] \in Scans
      BY <1>t DEF Scans
    <2>3. scans' \in [Keys -> Scans]
      BY <1>6, <2>2 DEF Start
    <2> QED
      BY <1>6, <1>f, <2>1, <2>3 DEF Start, Forget
  <1>7. ASSUME NEW r \in Replicas, StartRaises(r) PROVE ScheduleTypeOK'
    BY <1>7, <1>a, <1>f DEF StartRaises, Forget
  <1>8. ASSUME NEW r \in Replicas, Write(r) PROVE ScheduleTypeOK'
    <2> DEFINE cadence == NextOccurrence(sched.cron, tick[r].clock)
    <2>1. cadence \in Nat
      BY <1>n, <1>t DEF Schedules
    <2>2. MovedTo(tick[r], cadence) \in Nat
      BY <1>t, <2>1 DEF MovedTo, Times, None
    <2>3. KeyOf(tick[r]) \in Times
      BY <1>t, <1>w DEF KeyOf
    <2> HIDE DEF cadence
    <2>4. /\ [sched EXCEPT !.last = KeyOf(tick[r]), !.next = cadence] \in Schedules
          /\ [sched EXCEPT !.next = cadence] \in Schedules
          /\ [sched EXCEPT !.next = MovedTo(tick[r], cadence)] \in Schedules
      BY <2>1, <2>2, <2>3 DEF Schedules
    <2>5. sched' \in Schedules
      BY <1>8, <1>t, <2>4 DEF Write, cadence, Ticks, Writes
    <2>6. past' \in Pasts
      <3>1. (past.refused \/ tick[r].write # "record") \in BOOLEAN
        BY Zenon
      <3> QED
        BY <1>8, <3>1 DEF Write, Pasts
    <2>7. tick' \in [Replicas -> Ticks]
      BY <1>8, <1>a DEF Write
    <2> QED
      BY <1>8, <2>5, <2>6, <2>7 DEF Write
  <1>9. ASSUME NEW r \in Replicas, TickFails(r) PROVE ScheduleTypeOK'
    <2>1. past' \in Pasts
      BY <1>9, <1>p DEF TickFails
    <2> QED
      BY <1>9, <1>0, <1>a, <2>1 DEF TickFails
  <1>10. ASSUME NEW r \in Replicas, LoseConnection(r) PROVE ScheduleTypeOK'
    <2>1. (past.outlived \/ tick[r].phase # "idle") \in BOOLEAN
      BY Zenon
    <2>2. past' \in Pasts
      BY <1>10, <2>1 DEF LoseConnection, Pasts
    <2> QED
      BY <1>10, <1>0, <2>2 DEF LoseConnection
  <1>11. ASSUME NEW r \in Replicas, Crash(r) PROVE ScheduleTypeOK'
    <2>1. leads' \in [Replicas -> BOOLEAN]
      BY <1>11, Zenon DEF Crash
    <2>2. past' \in Pasts
      BY <1>11, <1>p DEF Crash
    <2> QED
      BY <1>11, <1>0, <1>a, <1>f, <2>1, <2>2 DEF Crash
  <1>12. ASSUME NEW k \in Keys, ScanEnds(k) PROVE ScheduleTypeOK'
    <2>1. scans' \in [Keys -> Scans]
      BY <1>12 DEF ScanEnds, Scans
    <2> QED
      BY <1>12, <2>1 DEF ScanEnds
  <1>13. CASE EditSchedule
    <2>0. NextOccurrence(~sched.cron, now) \in Nat
      <3> DEFINE c == ~sched.cron
      <3>1. c \in BOOLEAN
        BY Zenon
      <3> HIDE DEF c
      <3>2. NextOccurrence(c, now) \in Nat
        BY <1>0, <1>n, <3>1
      <3> QED
        BY <3>2, Zenon DEF c
    <2>1. sched.version + 1 \in Nat /\ NextOccurrence(~sched.cron, now) \in Nat
      BY <2>0 DEF Schedules
    <2>2. /\ [sched EXCEPT !.enabled = ~@] \in Schedules
          /\ [sched EXCEPT !.version = @ + 1] \in Schedules
          /\ [sched EXCEPT !.exists = FALSE] \in Schedules
      BY <2>1 DEF Schedules
    <2>3. [sched EXCEPT !.cron = ~@, !.next = NextOccurrence(~sched.cron, now)] \in Schedules
      BY <2>1 DEF Schedules
    <2> QED
      BY <1>13, <1>0, <2>2, <2>3 DEF EditSchedule
  <1>14. CASE SwitchTenant
    <2>1. active' \in BOOLEAN
      BY <1>14, Zenon DEF SwitchTenant
    <2>2. NextOccurrence(sched.cron, now) \in Nat
      BY <1>0, <1>n DEF Schedules
    <2>3. [sched EXCEPT !.next = NextOccurrence(sched.cron, now)] \in Schedules
      BY <2>2 DEF Schedules
    <2> QED
      BY <1>14, <1>0, <2>1, <2>3 DEF SwitchTenant
  <1>15. CASE Clock
    BY <1>15, <1>0 DEF Clock, Keys
  <1>16. CASE UNCHANGED scheduleVars
    BY <1>16 DEF scheduleVars
  <1>17. CASE TroubleTurns
    <2>1. trouble' \in BOOLEAN
      BY <1>17, Zenon DEF TroubleTurns
    <2> QED
      BY <1>17, <2>1 DEF TroubleTurns
  <1> QED
    BY <1>1, <1>2, <1>3, <1>4, <1>5, <1>6, <1>7, <1>8, <1>9, <1>10, <1>11, <1>12, <1>13,
       <1>14, <1>15, <1>16, <1>17
       DEF ScheduleNext, DispatcherStep

\* The schedule, its scans, the lock and the ticks of the dispatchers keep their types.
THEOREM ScheduleTypeCorrect == ScheduleSpec => []ScheduleTypeOK
  <1>1. ASSUME ScheduleInit PROVE ScheduleTypeOK
    <2>1. NextOccurrence(TRUE, 0) \in Nat
      BY Cadence
    <2>2. now \in Keys
      BY <1>1, ScheduleAssumption DEF ScheduleInit, Keys
    <2>3. sched \in Schedules
      BY <1>1, <2>1 DEF ScheduleInit, Schedules, Times
    <2>4. scans \in [Keys -> Scans]
      BY <1>1 DEF ScheduleInit, Scans, NoScan
    <2>5. tick \in [Replicas -> Ticks]
      BY <1>1 DEF ScheduleInit, Asleep, Ticks, Writes, Times
    <2>6. since \in [Replicas -> Times] /\ leads \in [Replicas -> BOOLEAN]
      BY <1>1 DEF ScheduleInit, Times
    <2> QED
      BY <1>1, <2>2, <2>3, <2>4, <2>5, <2>6 DEF ScheduleInit, ScheduleTypeOK, Pasts
  <1>2. ScheduleTypeOK /\ [ScheduleNext]_scheduleVars => ScheduleTypeOK'
    BY ScheduleTypeStep
  <1> QED
    BY <1>1, <1>2, PTL DEF ScheduleSpec

-----------------------------------------------------------------------------
(* What a tick carries, and the grid of the cron runs. *)

Busy(r) == tick[r].phase \in {"start", "write"}

Scanned(k) == scans[k].status # "none"

OnGrid(a) == (a \div Period) * Period = a

\* A tick carries a due time that had come by its clock; without an operator's turn the
\* schedule stays the cron schedule it was; without a refusal as well, every due time
\* that is read, written or scanned is a tick of the cadence.
GridInv ==
    /\ \A r \in Replicas : Busy(r) => tick[r].due <= tick[r].clock /\ tick[r].clock <= now
    /\ turns = 0 =>
          /\ sched.cron /\ sched.exists
          /\ \A r \in Replicas : Busy(r) => tick[r].cron
    /\ turns = 0 /\ ~past.refused =>
          /\ OnGrid(sched.next)
          /\ \A r \in Replicas : Busy(r) => OnGrid(tick[r].due)
          /\ \A k \in Keys : Scanned(k) => OnGrid(k)

\* Every occurrence of a cron schedule is on its grid.
LEMMA NextIsOnGrid ==
    ASSUME NEW a \in Nat
    PROVE  OnGrid(NextOccurrence(TRUE, a))
  BY CronRun DEF OnGrid

\* Every step but the reading of a due schedule hands on the ticks that are busy.
Carried(q) ==
    Busy(q)' => /\ Busy(q) /\ tick'[q].due = tick[q].due
                /\ tick'[q].clock = tick[q].clock /\ tick'[q].cron = tick[q].cron

\* A step that reads no due schedule keeps the grid.
LEMMA GridKept ==
    ASSUME ScheduleTypeOK, ScheduleTypeOK', GridInv,
           \A q \in Replicas : Carried(q),
           now' >= now, turns' = 0 => turns = 0, past.refused => past'.refused,
           turns' = 0 => sched'.cron = sched.cron /\ sched'.exists = sched.exists,
           turns' = 0 /\ ~past'.refused => OnGrid(sched.next)',
           \A k \in Keys : Scanned(k)' =>
               Scanned(k) \/ \E q \in Replicas : Busy(q) /\ tick[q].due = k
    PROVE  GridInv'
  <1>1. now \in Nat /\ now' \in Nat /\ \A q \in Replicas : tick[q].clock \in Nat
    BY ScheduleAssumption DEF ScheduleTypeOK, Keys, Ticks
  <1>2. \A r \in Replicas : Busy(r)' => tick'[r].due <= tick'[r].clock /\ tick'[r].clock <= now'
    BY <1>1 DEF GridInv, Carried
  <1>3. turns' = 0 =>
          /\ sched'.cron /\ sched'.exists
          /\ \A r \in Replicas : Busy(r)' => tick'[r].cron
    BY DEF GridInv, Carried
  <1>4. turns' = 0 /\ ~past'.refused =>
          /\ \A r \in Replicas : Busy(r)' => OnGrid(tick[r].due)'
          /\ \A k \in Keys : Scanned(k)' => OnGrid(k)
    BY DEF GridInv, Carried, OnGrid
  <1> QED
    BY <1>2, <1>3, <1>4 DEF GridInv, OnGrid

\* Every step keeps the grid.
LEMMA GridStep ==
    ASSUME ScheduleTypeOK, ScheduleTypeOK', GridInv, [ScheduleNext]_scheduleVars
    PROVE  GridInv'
  <1>y. /\ tick \in [Replicas -> Ticks] /\ tick' \in [Replicas -> Ticks]
        /\ scans \in [Keys -> Scans] /\ now \in Nat /\ sched \in Schedules
        /\ turns \in Nat /\ past \in Pasts
    BY ScheduleAssumption DEF ScheduleTypeOK, Keys
  <1>n. now >= now /\ turns + 1 # 0
    BY <1>y
  <1>g. turns = 0 /\ ~past.refused => OnGrid(sched.next)
    BY DEF GridInv
  <1>u. ASSUME UNCHANGED tick PROVE \A q \in Replicas : Carried(q)
    BY <1>u DEF Carried, Busy
  <1>s. ASSUME UNCHANGED scans
        PROVE  \A k \in Keys : Scanned(k)' => Scanned(k)
    BY <1>s DEF Scanned
  <1>a. ASSUME NEW r \in Replicas, tick' = [tick EXCEPT ![r] = Asleep]
        PROVE  \A q \in Replicas : Carried(q)
    BY <1>a, <1>y DEF Carried, Busy, Asleep
  <1>d. ASSUME NEW r \in Replicas, NEW w, NEW u, tick[r].phase = "start", Decide(r, w, u)
        PROVE  \A q \in Replicas : Carried(q)
    <2>1. \A q \in Replicas \ {r} : tick'[q] = tick[q]
      BY <1>d, <1>y DEF Decide
    <2>2. /\ tick'[r].due = tick[r].due /\ tick'[r].clock = tick[r].clock
          /\ tick'[r].cron = tick[r].cron
      BY <1>d, <1>y DEF Decide, Ticks
    <2> QED
      BY <1>d, <2>1, <2>2 DEF Carried, Busy
  <1>1. ASSUME NEW r \in Replicas, Acquire(r) PROVE GridInv'
    <2>1. \A q \in Replicas : Carried(q)
      BY <1>1, <1>y DEF Acquire, Carried, Busy, Ticks
    <2> QED
      BY <1>1, <1>n, <1>g, <1>s, <2>1, GridKept DEF Acquire, OnGrid
  <1>2. ASSUME NEW r \in Replicas, ReadDue(r) PROVE GridInv'
    <2>1. UNCHANGED <<now, sched, scans, past, turns>>
      BY <1>2 DEF ReadDue
    <2>2. \A q \in Replicas \ {r} : tick'[q] = tick[q]
      BY <1>2, <1>y DEF ReadDue
    <2>3. CASE Due /\ ~StillRunning
      <3>1. tick'[r] = [Asleep EXCEPT !.phase = "start", !.clock = now, !.due = sched.next,
                             !.cron = sched.cron, !.version = sched.version]
        BY <1>2, <1>y, <2>3 DEF ReadDue
      <3>2. tick'[r].clock = now /\ tick'[r].due = sched.next /\ tick'[r].cron = sched.cron
        BY <3>1 DEF Asleep
      <3>3. sched.next <= now
        BY <2>3 DEF Due
      <3> QED
        BY <1>n, <2>1, <2>2, <3>2, <3>3 DEF GridInv, Busy, Scanned, OnGrid
    <2>4. CASE ~(Due /\ ~StillRunning)
      <3>1. tick' = [tick EXCEPT ![r] = Asleep]
        BY <1>2, <2>4 DEF ReadDue
      <3> QED
        BY <1>a, <1>n, <1>g, <1>s, <2>1, <3>1, GridKept DEF OnGrid
    <2> QED
      BY <2>3, <2>4
  <1>3. ASSUME NEW r \in Replicas, StartIsFull(r) PROVE GridInv'
    <2>1. \A q \in Replicas : Carried(q)
      BY <1>3, <1>d DEF StartIsFull
    <2> QED
      BY <1>3, <1>n, <1>g, <1>s, <2>1, GridKept DEF StartIsFull, OnGrid
  <1>4. ASSUME NEW r \in Replicas, NEW until \in BlockEnds(r), StartIsBlocked(r, until)
        PROVE  GridInv'
    <2>1. \A q \in Replicas : Carried(q)
      BY <1>4, <1>d DEF StartIsBlocked
    <2> QED
      BY <1>4, <1>n, <1>g, <1>s, <2>1, GridKept DEF StartIsBlocked, OnGrid
  <1>5. ASSUME NEW r \in Replicas, StartIsRefused(r) PROVE GridInv'
    <2>1. \A q \in Replicas : Carried(q)
      BY <1>5, <1>d DEF StartIsRefused
    <2> QED
      BY <1>5, <1>n, <1>g, <1>s, <2>1, GridKept DEF StartIsRefused, OnGrid
  <1>6. ASSUME NEW r \in Replicas, Start(r) PROVE GridInv'
    <2>1. \A q \in Replicas : Carried(q)
      BY <1>6, <1>d DEF Start
    <2>2. \A k \in Keys : Scanned(k)' => Scanned(k) \/ (Busy(r) /\ tick[r].due = k)
      BY <1>6, <1>y DEF Start, Scanned, KeyOf, Busy
    <2> QED
      BY <1>6, <1>n, <1>g, <2>1, <2>2, GridKept DEF Start, OnGrid
  <1>7. ASSUME NEW r \in Replicas, StartRaises(r) PROVE GridInv'
    BY <1>7, <1>a, <1>n, <1>g, <1>s, GridKept DEF StartRaises, OnGrid
  <1>8. ASSUME NEW r \in Replicas, Write(r) PROVE GridInv'
    <2> DEFINE cadence == NextOccurrence(sched.cron, tick[r].clock)
    <2>1. UNCHANGED <<now, scans, turns>> /\ tick' = [tick EXCEPT ![r] = Asleep]
      BY <1>8 DEF Write
    <2>2. /\ past.refused => past'.refused
          /\ ~past'.refused => ~past.refused /\ tick[r].write = "record"
      BY <1>8, <1>y DEF Write, Pasts
    <2>3. sched'.cron = sched.cron /\ sched'.exists = sched.exists
      BY <1>8, <1>y DEF Write, Schedules, Ticks, Writes
    <2>4. ASSUME turns' = 0, ~past'.refused PROVE OnGrid(sched.next)'
      <3>1. sched.cron /\ sched.exists /\ tick[r].write = "record"
        BY <2>1, <2>2, <2>4 DEF GridInv
      <3>2. sched' = [sched EXCEPT !.last = KeyOf(tick[r]), !.next = cadence]
        BY <1>8, <3>1 DEF Write
      <3>3. cadence = NextOccurrence(TRUE, tick[r].clock) /\ tick[r].clock \in Nat
        BY <1>y, <3>1 DEF Schedules, Ticks, NextOccurrence
      <3>4. sched'.next = cadence
        BY <1>y, <3>2 DEF Schedules
      <3>5. OnGrid(cadence)
        BY <3>3, NextIsOnGrid
      <3> QED
        BY <3>4, <3>5 DEF OnGrid
    <2> QED
      BY <1>a, <1>n, <1>s, <2>1, <2>2, <2>3, <2>4, GridKept
  <1>9. ASSUME NEW r \in Replicas, TickFails(r) PROVE GridInv'
    <2>1. past'.refused = past.refused
      BY <1>9, <1>y DEF TickFails, Pasts
    <2> QED
      BY <1>9, <1>a, <1>n, <1>g, <1>s, <2>1, GridKept DEF TickFails, OnGrid
  <1>10. ASSUME NEW r \in Replicas, LoseConnection(r) PROVE GridInv'
    <2>1. past'.refused = past.refused
      BY <1>10, <1>y DEF LoseConnection, Pasts
    <2> QED
      BY <1>10, <1>u, <1>n, <1>g, <1>s, <2>1, GridKept DEF LoseConnection, OnGrid
  <1>11. ASSUME NEW r \in Replicas, Crash(r) PROVE GridInv'
    <2>1. past'.refused = past.refused
      BY <1>11, <1>y DEF Crash, Pasts
    <2> QED
      BY <1>11, <1>a, <1>n, <1>g, <1>s, <2>1, GridKept DEF Crash, OnGrid
  <1>12. ASSUME NEW k \in Keys, ScanEnds(k) PROVE GridInv'
    <2>1. \A l \in Keys : Scanned(l)' => Scanned(l)
      BY <1>12, <1>y DEF ScanEnds, Scanned
    <2> QED
      BY <1>12, <1>u, <1>n, <1>g, <2>1, GridKept DEF ScanEnds, OnGrid
  <1>13. CASE EditSchedule
    BY <1>13, <1>u, <1>n, <1>g, <1>s, GridKept DEF EditSchedule
  <1>14. CASE SwitchTenant
    BY <1>14, <1>u, <1>n, <1>g, <1>s, GridKept DEF SwitchTenant
  <1>15. CASE Clock
    BY <1>15, <1>u, <1>y, <1>n, <1>g, <1>s, GridKept DEF Clock, OnGrid
  <1>16. CASE UNCHANGED scheduleVars
    BY <1>16, <1>u, <1>n, <1>g, <1>s, GridKept DEF scheduleVars, OnGrid
  <1>17. CASE TroubleTurns
    BY <1>17, <1>u, <1>n, <1>g, <1>s, GridKept DEF TroubleTurns, OnGrid
  <1> QED
    BY <1>1, <1>2, <1>3, <1>4, <1>5, <1>6, <1>7, <1>8, <1>9, <1>10, <1>11, <1>12, <1>13,
       <1>14, <1>15, <1>16, <1>17
       DEF ScheduleNext, DispatcherStep

-----------------------------------------------------------------------------
(* One leader. *)

Active(k) == scans[k].status = "active"

\* Some dispatcher is about to write that the scan with this key is the last one.
Records(r, k) == tick[r].phase = "write" /\ tick[r].write = "record" /\ tick[r].due = k

Recording(k) == \E r \in Replicas : Records(r, k)

\* A scan under this key is not known to the schedule yet: its record is about to be
\* written, or was lost and the schedule still has the key to ask with.
Lost(k) == past.unrecorded /\ k = sched.next

Owed(k) == Recording(k) \/ Lost(k)

\* No operator's turn, no tick that outlived its lock, and not both a lost record and a
\* refusal.
Calm == turns = 0 /\ ~past.outlived /\ ~(past.refused /\ past.unrecorded)

\* Then nobody but the holder of the lock is in a tick and what it read is what the schedule
\* says; every run that was scanned is behind the schedule, or its record is owed; a scan
\* under way is the one the schedule knows of, or owes; a tick that goes on to a start found
\* none but one with its own key, and none but its own begins.
LeaderInv ==
    Calm =>
        /\ \A r \in Replicas : tick[r].phase # "idle" => lock = r
        /\ \A r \in Replicas : Busy(r) => tick[r].due = sched.next
        /\ \A k \in Keys : Scanned(k) => k \div Period < sched.next \div Period \/ Owed(k)
        /\ \A k, l \in Keys : ~Twice(k, l)
        /\ \A k \in Keys : Active(k) => sched.last = k \/ Owed(k)
        /\ \A r \in Replicas : Busy(r) => \A k \in Keys : Active(k) => Records(r, k) \/ Lost(k)
        /\ \A k, l \in Keys : Active(k) /\ Active(l) => k = l

\* A step that leaves the schedule alone, starts nothing, takes no tick to a start, and
\* loses no record without a trace.
LEMMA LeaderKept ==
    ASSUME ScheduleTypeOK, LeaderInv,
           Calm' => Calm,
           Calm' =>
              /\ \A r \in Replicas : tick'[r].phase # "idle" => lock' = r
              /\ sched' = sched /\ (past.unrecorded => past'.unrecorded)
              /\ \A r \in Replicas : Busy(r)' => Busy(r) /\ tick'[r].due = tick[r].due
              /\ \A r \in Replicas, k \in Keys : Busy(r)' /\ Records(r, k) => Records(r, k)'
              /\ \A k \in Keys : Recording(k) => Owed(k)'
              /\ \A k \in Keys : (Scanned(k)' => Scanned(k)) /\ (Active(k)' => Active(k))
    PROVE  LeaderInv'
  <1>1. SUFFICES ASSUME Calm' PROVE LeaderInv'
    BY DEF LeaderInv
  <1>0. Calm /\ \A k \in Keys : (Owed(k) => Owed(k)') /\ (Lost(k) => Lost(k)')
    BY <1>1 DEF Owed, Lost
  <1>2. \A r \in Replicas : Busy(r)' => tick'[r].due = sched'.next
    BY <1>0, <1>1 DEF LeaderInv
  <1>3. \A k \in Keys : Scanned(k)' =>
            k \div Period < sched'.next \div Period \/ Owed(k)'
    BY <1>0, <1>1 DEF LeaderInv
  <1>4. \A k, l \in Keys : ~Twice(k, l)'
    BY <1>0, <1>1 DEF LeaderInv, Twice, Scanned
  <1>5. \A k \in Keys : Active(k)' => sched'.last = k \/ Owed(k)'
    BY <1>0, <1>1 DEF LeaderInv
  <1>6. \A r \in Replicas : Busy(r)' =>
            \A k \in Keys : Active(k)' => Records(r, k)' \/ Lost(k)'
    BY <1>0, <1>1 DEF LeaderInv
  <1>7. \A k, l \in Keys : Active(k)' /\ Active(l)' => k = l
    BY <1>0, <1>1 DEF LeaderInv
  <1> QED
    BY <1>1, <1>2, <1>3, <1>4, <1>5, <1>6, <1>7 DEF LeaderInv

\* Every step keeps what one leader relies on.
LEMMA LeaderStep ==
    ASSUME ScheduleTypeOK, ScheduleTypeOK', GridInv, LeaderInv, [ScheduleNext]_scheduleVars
    PROVE  LeaderInv'
  <1>y. /\ tick \in [Replicas -> Ticks] /\ tick' \in [Replicas -> Ticks]
        /\ scans \in [Keys -> Scans] /\ scans' \in [Keys -> Scans] /\ now \in Nat
        /\ sched \in Schedules /\ turns \in Nat /\ past \in Pasts
        /\ Keys \subseteq Nat /\ Nobody \notin Replicas
    BY ScheduleAssumption DEF ScheduleTypeOK, Keys
  <1>n. turns + 1 # 0
    BY <1>y
  <1>s. ASSUME UNCHANGED scans
        PROVE  \A k \in Keys : (Scanned(k)' => Scanned(k)) /\ (Active(k)' => Active(k))
    BY <1>s DEF Scanned, Active
  <1>c. ASSUME UNCHANGED <<turns, past>>
        PROVE  /\ Calm' = Calm /\ (past.unrecorded => past'.unrecorded)
               /\ \A k \in Keys : Recording(k)' => Owed(k)'
    BY <1>c DEF Calm, Owed
  <1>u. ASSUME UNCHANGED tick
        PROVE  /\ \A r \in Replicas : Busy(r)' => Busy(r) /\ tick'[r].due = tick[r].due
               /\ \A r \in Replicas, k \in Keys : Busy(r)' /\ Records(r, k) => Records(r, k)'
               /\ \A k \in Keys : Recording(k) => Recording(k)'
    BY <1>u DEF Busy, Recording, Records
  <1>l. Calm => \A r \in Replicas : tick[r].phase # "idle" => lock = r
    BY DEF LeaderInv
  <1>f. ASSUME NEW r \in Replicas, tick' = [tick EXCEPT ![r] = Asleep],
               tick[r].phase # "write"
        PROVE  /\ \A q \in Replicas : tick'[q].phase # "idle" => tick[q].phase # "idle"
               /\ \A q \in Replicas : Busy(q)' => Busy(q) /\ tick'[q].due = tick[q].due
               /\ \A q \in Replicas, k \in Keys : Busy(q)' /\ Records(q, k) => Records(q, k)'
               /\ \A k \in Keys : Recording(k) => Recording(k)'
    <2>1. \A q \in Replicas \ {r} : tick'[q] = tick[q]
      BY <1>f, <1>y
    <2>2. tick'[r].phase = "idle"
      BY <1>f, <1>y DEF Asleep
    <2> QED
      BY <1>f, <2>1, <2>2 DEF Busy, Recording, Records
  <1>e. ASSUME NEW r \in Replicas, UNCHANGED <<sched, turns>>,
               tick' = [tick EXCEPT ![r] = Asleep],
               past' = [past EXCEPT !.unrecorded = @ \/ Unrecorded(r)]
        PROVE  /\ (Calm' => Calm) /\ (past.unrecorded => past'.unrecorded)
               /\ \A q \in Replicas : tick'[q].phase # "idle" => q # r /\ tick[q].phase # "idle"
               /\ \A q \in Replicas : Busy(q)' => Busy(q) /\ tick'[q].due = tick[q].due
               /\ \A q \in Replicas, k \in Keys : Busy(q)' /\ Records(q, k) => Records(q, k)'
               /\ Calm' => \A k \in Keys : Recording(k) => Owed(k)'
    <2>1. \A q \in Replicas \ {r} : tick'[q] = tick[q]
      BY <1>e, <1>y
    <2>2. tick'[r].phase = "idle"
      BY <1>e, <1>y DEF Asleep
    <2>3. /\ past'.outlived = past.outlived /\ past'.refused = past.refused
          /\ past'.unrecorded = (past.unrecorded \/ Unrecorded(r))
      BY <1>e, <1>y DEF Pasts
    <2>4. (Calm' => Calm) /\ (past.unrecorded => past'.unrecorded)
      BY <1>e, <2>3 DEF Calm
    <2>5. ASSUME Calm', NEW k \in Keys, NEW q \in Replicas, Records(q, k) PROVE Owed(k)'
      <3>1. CASE q = r
        <4>1. Unrecorded(r) /\ Busy(r) /\ tick[r].due = k
          BY <2>5, <3>1 DEF Records, Unrecorded, Busy
        <4>2. tick[r].due = sched.next
          BY <2>4, <2>5, <4>1 DEF LeaderInv
        <4> QED
          BY <1>e, <2>3, <4>1, <4>2 DEF Owed, Lost
      <3>2. CASE q # r
        <4>1. Records(q, k)'
          BY <2>1, <2>5, <3>2 DEF Records
        <4> QED
          BY <4>1 DEF Owed, Recording
      <3> QED
        BY <3>1, <3>2
    <2>6. Calm' => \A k \in Keys : Recording(k) => Owed(k)'
      BY <2>5 DEF Recording
    <2> QED
      BY <2>1, <2>2, <2>4, <2>6 DEF Busy, Records
  <1>d. ASSUME NEW r \in Replicas, NEW w, NEW u, tick[r].phase = "start", Decide(r, w, u)
        PROVE  /\ \A q \in Replicas : tick'[q].phase # "idle" => tick[q].phase # "idle"
               /\ \A q \in Replicas : Busy(q)' => Busy(q) /\ tick'[q].due = tick[q].due
               /\ \A q \in Replicas, k \in Keys : Busy(q)' /\ Records(q, k) => Records(q, k)'
               /\ \A k \in Keys : Recording(k) => Recording(k)'
               /\ tick'[r].phase = "write" /\ tick'[r].write = w /\ tick'[r].due = tick[r].due
    <2>1. \A q \in Replicas \ {r} : tick'[q] = tick[q]
      BY <1>d, <1>y DEF Decide
    <2>2. tick'[r].phase = "write" /\ tick'[r].write = w /\ tick'[r].due = tick[r].due
      BY <1>d, <1>y DEF Decide, Ticks
    <2> QED
      BY <1>d, <2>1, <2>2 DEF Busy, Recording, Records
  <1>1. ASSUME NEW r \in Replicas, Acquire(r) PROVE LeaderInv'
    <2>1. UNCHANGED <<sched, scans, turns, past>> /\ tick[r].phase = "idle"
      BY <1>1 DEF Acquire
    <2>2. /\ \A q \in Replicas : q # r => tick'[q] = tick[q]
          /\ tick'[r].phase # "idle" => lock \in {r, Nobody} /\ lock' = r
          /\ tick'[r].phase \in {"idle", "leading"}
          /\ lock' = lock \/ (lock = Nobody /\ lock' = r)
      BY <1>1, <1>y DEF Acquire, Ticks
    <2>3. /\ \A q \in Replicas : Busy(q)' => Busy(q) /\ tick'[q].due = tick[q].due
          /\ \A q \in Replicas, k \in Keys : Busy(q)' /\ Records(q, k) => Records(q, k)'
          /\ \A k \in Keys : Recording(k) => Recording(k)'
      BY <2>1, <2>2 DEF Busy, Recording, Records
    <2>4. Calm => \A q \in Replicas : tick'[q].phase # "idle" => lock' = q
      BY <1>l, <1>y, <2>2
    <2> QED
      BY <1>c, <1>s, <2>1, <2>3, <2>4, LeaderKept
  <1>3. ASSUME NEW r \in Replicas, StartIsFull(r) PROVE LeaderInv'
    <2>1. UNCHANGED <<sched, scans, lock, turns, past>>
      BY <1>3 DEF StartIsFull
    <2>2. \E w, u : tick[r].phase = "start" /\ Decide(r, w, u)
      BY <1>3 DEF StartIsFull
    <2> QED
      BY <1>d, <1>c, <1>l, <1>s, <2>1, <2>2, LeaderKept
  <1>4. ASSUME NEW r \in Replicas, NEW until \in BlockEnds(r), StartIsBlocked(r, until)
        PROVE  LeaderInv'
    <2>1. UNCHANGED <<sched, scans, lock, turns, past>>
      BY <1>4 DEF StartIsBlocked
    <2>2. tick[r].phase = "start" /\ Decide(r, "defer", until)
      BY <1>4 DEF StartIsBlocked
    <2> QED
      BY <1>d, <1>c, <1>l, <1>s, <2>1, <2>2, LeaderKept
  <1>5. ASSUME NEW r \in Replicas, StartIsRefused(r) PROVE LeaderInv'
    <2>1. UNCHANGED <<sched, scans, lock, turns, past>>
      BY <1>5 DEF StartIsRefused
    <2>2. tick[r].phase = "start" /\ Decide(r, "skip", None)
      BY <1>5 DEF StartIsRefused
    <2> QED
      BY <1>d, <1>c, <1>l, <1>s, <2>1, <2>2, LeaderKept
  <1>7. ASSUME NEW r \in Replicas, StartRaises(r) PROVE LeaderInv'
    <2>1. UNCHANGED <<sched, scans, lock, turns, past>>
      BY <1>7 DEF StartRaises
    <2>2. tick' = [tick EXCEPT ![r] = Asleep] /\ tick[r].phase # "write"
      BY <1>7 DEF StartRaises
    <2>3. Calm => \A q \in Replicas : tick'[q].phase # "idle" => lock' = q
      BY <1>f, <1>l, <2>1, <2>2
    <2>4. \A k \in Keys : Recording(k) => Owed(k)'
      BY <1>f, <2>2 DEF Owed
    <2>5. /\ \A q \in Replicas : Busy(q)' => Busy(q) /\ tick'[q].due = tick[q].due
          /\ \A q \in Replicas, k \in Keys : Busy(q)' /\ Records(q, k) => Records(q, k)'
      BY <1>f, <2>2
    <2> QED
      BY <1>c, <1>s, <2>1, <2>3, <2>4, <2>5, LeaderKept
  <1>9. ASSUME NEW r \in Replicas, TickFails(r) PROVE LeaderInv'
    <2>1. UNCHANGED <<sched, scans, lock, turns>> /\ tick' = [tick EXCEPT ![r] = Asleep]
          /\ past' = [past EXCEPT !.unrecorded = @ \/ Unrecorded(r)]
      BY <1>9 DEF TickFails
    <2> QED
      BY <1>e, <1>l, <1>s, <2>1, LeaderKept
  <1>10. ASSUME NEW r \in Replicas, LoseConnection(r) PROVE LeaderInv'
    <2>1. /\ UNCHANGED <<sched, scans, tick, turns>> /\ lock = r
          /\ past' = [past EXCEPT !.outlived = @ \/ tick[r].phase # "idle"]
      BY <1>10 DEF LoseConnection
    <2>2. /\ past'.unrecorded = past.unrecorded /\ past'.refused = past.refused
          /\ past'.outlived = (past.outlived \/ tick[r].phase # "idle")
      BY <1>y, <2>1 DEF Pasts
    <2>3. (Calm' => Calm) /\ (Calm' => tick[r].phase = "idle")
      BY <2>1, <2>2 DEF Calm
    <2>4. Calm' => \A q \in Replicas : tick'[q].phase # "idle" => lock' = q
      BY <1>l, <2>1, <2>3
    <2>5. \A k \in Keys : Recording(k) => Owed(k)'
      BY <1>u, <2>1 DEF Owed
    <2> QED
      BY <1>s, <1>u, <2>1, <2>2, <2>3, <2>4, <2>5, LeaderKept
  <1>11. ASSUME NEW r \in Replicas, Crash(r) PROVE LeaderInv'
    <2>1. /\ UNCHANGED <<sched, scans, turns>> /\ tick' = [tick EXCEPT ![r] = Asleep]
          /\ past' = [past EXCEPT !.unrecorded = @ \/ Unrecorded(r)]
          /\ lock # r => lock' = lock
      BY <1>11 DEF Crash
    <2>2. Calm' => \A q \in Replicas : tick'[q].phase # "idle" => lock' = q
      BY <1>e, <1>l, <2>1
    <2> QED
      BY <1>e, <1>s, <2>1, <2>2, LeaderKept
  <1>12. ASSUME NEW k \in Keys, ScanEnds(k) PROVE LeaderInv'
    <2>1. \A l \in Keys : (Scanned(l)' => Scanned(l)) /\ (Active(l)' => Active(l))
      BY <1>12, <1>y DEF ScanEnds, Scanned, Active
    <2>2. UNCHANGED <<sched, tick, lock, turns, past>>
      BY <1>12 DEF ScanEnds
    <2> QED
      BY <1>u, <1>c, <1>l, <2>1, <2>2, LeaderKept
  <1>13. CASE EditSchedule
    BY <1>13, <1>n DEF EditSchedule, LeaderInv, Calm
  <1>14. CASE SwitchTenant
    BY <1>14, <1>n DEF SwitchTenant, LeaderInv, Calm
  <1>15. CASE Clock
    <2>1. UNCHANGED <<sched, scans, tick, lock, turns, past>>
      BY <1>15 DEF Clock
    <2> QED
      BY <1>u, <1>c, <1>l, <1>s, <2>1, LeaderKept
  <1>16. CASE UNCHANGED scheduleVars
    <2>1. UNCHANGED <<sched, scans, tick, lock, turns, past>>
      BY <1>16 DEF scheduleVars
    <2> QED
      BY <1>u, <1>c, <1>l, <1>s, <2>1, LeaderKept
  <1>17. CASE TroubleTurns
    <2>1. UNCHANGED <<sched, scans, tick, lock, turns, past>>
      BY <1>17 DEF TroubleTurns
    <2> QED
      BY <1>u, <1>c, <1>l, <1>s, <2>1, LeaderKept
  <1>a. ASSUME Calm, NEW r \in Replicas, tick[r].phase # "idle"
        PROVE  /\ lock = r /\ \A q \in Replicas : q # r => tick[q].phase = "idle"
               /\ tick[r].phase # "write" => \A k \in Keys : ~Recording(k)
               /\ \A k \in Keys : Recording(k) => Records(r, k)
    BY <1>a, <1>l DEF Recording, Records
  <1>2. ASSUME NEW r \in Replicas, ReadDue(r) PROVE LeaderInv'
    <2>1. UNCHANGED <<sched, scans, lock, turns, past>> /\ tick[r].phase = "leading"
      BY <1>2 DEF ReadDue
    <2>2. \A q \in Replicas \ {r} : tick'[q] = tick[q]
      BY <1>2, <1>y DEF ReadDue
    <2>3. CASE Due /\ ~StillRunning
      <3>1. SUFFICES ASSUME Calm PROVE LeaderInv'
        BY <2>1 DEF LeaderInv, Calm
      <3>2. tick'[r] = [Asleep EXCEPT !.phase = "start", !.clock = now, !.due = sched.next,
                             !.cron = sched.cron, !.version = sched.version]
        BY <1>2, <1>y, <2>3 DEF ReadDue
      <3>3. tick'[r].phase = "start" /\ tick'[r].due = sched.next
        BY <3>2 DEF Asleep
      <3>4. lock = r /\ (\A q \in Replicas : q # r => tick[q].phase = "idle")
            /\ \A k \in Keys : ~Recording(k)
        BY <1>a, <2>1, <3>1
      <3>5. \A k \in Keys : Active(k) => Lost(k)
        <4>1. SUFFICES ASSUME NEW k \in Keys, Active(k), ~Lost(k) PROVE FALSE
          OBVIOUS
        <4>2. sched.last = k
          BY <3>1, <3>4, <4>1 DEF LeaderInv, Owed
        <4>3. k # None
          BY <1>y DEF None
        <4> QED
          BY <2>3, <4>1, <4>2, <4>3 DEF StillRunning, Active
      <3>6. \A q \in Replicas : tick'[q].phase # "idle" => q = r
        BY <2>2, <3>4
      <3>7. \A k \in Keys : Active(k)' = Active(k) /\ Scanned(k)' = Scanned(k)
                            /\ Lost(k)' = Lost(k)
        BY <2>1 DEF Active, Scanned, Lost
      <3>8. \A k \in Keys : Scanned(k)' =>
                k \div Period < sched'.next \div Period \/ Owed(k)'
        BY <2>1, <3>1, <3>4, <3>7 DEF LeaderInv, Owed
      <3>9. \A k, l \in Keys : ~Twice(k, l)'
        BY <2>1, <3>1 DEF LeaderInv, Twice
      <3>10. \A q \in Replicas : Busy(q)' => tick'[q].due = sched'.next
        BY <2>1, <3>3, <3>6 DEF Busy
      <3>11. \A q \in Replicas : tick'[q].phase # "idle" => lock' = q
        BY <2>1, <3>4, <3>6
      <3>12. \A k \in Keys : Active(k)' => Lost(k)' /\ Owed(k)'
        BY <3>5, <3>7 DEF Owed
      <3>13. \A k, l \in Keys : Active(k)' /\ Active(l)' => k = l
        BY <3>1, <3>7 DEF LeaderInv
      <3> QED
        BY <3>8, <3>9, <3>10, <3>11, <3>12, <3>13 DEF LeaderInv
    <2>4. CASE ~(Due /\ ~StillRunning)
      <3>1. tick' = [tick EXCEPT ![r] = Asleep] /\ tick[r].phase # "write"
        BY <1>2, <2>1, <2>4 DEF ReadDue
      <3>2. Calm => \A q \in Replicas : tick'[q].phase # "idle" => lock' = q
        BY <1>f, <1>l, <2>1, <3>1
      <3>3. \A k \in Keys : Recording(k) => Owed(k)'
        BY <1>f, <3>1 DEF Owed
      <3>4. /\ \A q \in Replicas : Busy(q)' => Busy(q) /\ tick'[q].due = tick[q].due
            /\ \A q \in Replicas, k \in Keys : Busy(q)' /\ Records(q, k) => Records(q, k)'
        BY <1>f, <3>1
      <3> QED
        BY <1>c, <1>s, <2>1, <3>2, <3>3, <3>4, LeaderKept
    <2> QED
      BY <2>3, <2>4
  <1>6. ASSUME NEW r \in Replicas, Start(r) PROVE LeaderInv'
    <2>0. PICK d \in Nat : d = tick[r].due
      BY <1>y DEF Ticks
    <2>1. /\ UNCHANGED <<sched, lock, turns, past>> /\ tick[r].phase = "start"
          /\ Decide(r, "record", None)
      BY <1>6 DEF Start
    <2>2. /\ \A q \in Replicas : tick'[q].phase # "idle" => tick[q].phase # "idle"
          /\ \A q \in Replicas : Busy(q)' => Busy(q) /\ tick'[q].due = tick[q].due
          /\ \A q \in Replicas, k \in Keys : Busy(q)' /\ Records(q, k) => Records(q, k)'
          /\ \A k \in Keys : Recording(k) => Recording(k)'
          /\ tick'[r].phase = "write" /\ tick'[r].write = "record" /\ tick'[r].due = d
      BY <1>d, <2>0, <2>1
    <2>3. CASE UNCHANGED scans
      BY <1>c, <1>l, <1>s, <2>1, <2>2, <2>3, LeaderKept
    <2>4. CASE /\ ~Scanned(d)
               /\ scans' = [scans EXCEPT ![d] = [status |-> "active", version |-> tick[r].version]]
      <3>1. SUFFICES ASSUME Calm PROVE LeaderInv'
        BY <2>1 DEF LeaderInv, Calm
      <3>2. /\ lock = r /\ (\A q \in Replicas : q # r => tick[q].phase = "idle")
            /\ \A k \in Keys : ~Recording(k)
        BY <1>a, <2>1, <3>1
      <3>3. d = sched.next /\ \A k \in Keys : ~Active(k)
        <4>1. Busy(r) /\ \A k \in Keys : ~Records(r, k)
          BY <2>1 DEF Busy, Records
        <4>2. d = sched.next
          BY <2>0, <3>1, <4>1 DEF LeaderInv
        <4>3. \A k \in Keys : Active(k) => Lost(k)
          BY <3>1, <4>1 DEF LeaderInv
        <4> QED
          BY <2>4, <4>2, <4>3 DEF Lost, Active, Scanned
      <3>4. \A k \in Keys : Scanned(k) => k \div Period < d \div Period
        BY <2>4, <3>1, <3>2, <3>3 DEF LeaderInv, Owed, Lost
      <3>5. \A k \in Keys : k # d => scans'[k] = scans[k]
        BY <1>y, <2>4
      <3>6. \A k \in Keys : Active(k)' => k = d
        BY <3>3, <3>5 DEF Active
      <3>7. \A q \in Replicas : tick'[q].phase # "idle" => q = r
        BY <2>2, <3>2
      <3>8. Recording(d)' /\ Records(r, d)'
        BY <2>2 DEF Recording, Records
      <3>9. \A k \in Keys : Scanned(k)' => k = d \/ k \div Period < d \div Period
        BY <3>4, <3>5 DEF Scanned
      <3>10. \A k, l \in Keys : ~Twice(k, l)'
        <4>1. SUFFICES ASSUME NEW k \in Keys, NEW l \in Keys, Twice(k, l)' PROVE FALSE
          OBVIOUS
        <4>2. Scanned(k)' /\ Scanned(l)' /\ k # l /\ k \div Period = l \div Period
          BY <4>1 DEF Twice, Scanned
        <4>3. k \div Period \in Nat /\ l \div Period \in Nat /\ d \div Period \in Nat
          <5>1. k \in Nat /\ l \in Nat /\ d \in Nat /\ TRUE \in BOOLEAN
            BY <1>y
          <5> QED
            BY <5>1, Cadence
        <4>4. k # d /\ l # d
          BY <3>9, <4>2, <4>3
        <4>5. Twice(k, l)
          BY <3>5, <4>2, <4>4 DEF Twice, Scanned
        <4> QED
          BY <3>1, <4>5 DEF LeaderInv
      <3>11. \A q \in Replicas : tick'[q].phase # "idle" => lock' = q
        BY <2>1, <3>2, <3>7
      <3>12. \A q \in Replicas : Busy(q)' => tick'[q].due = sched'.next
        BY <2>1, <2>2, <3>3, <3>7 DEF Busy
      <3>13. \A k \in Keys : Scanned(k)' =>
                k \div Period < sched'.next \div Period \/ Owed(k)'
        BY <2>1, <3>3, <3>8, <3>9 DEF Owed
      <3>14. \A k \in Keys : Active(k)' => sched'.last = k \/ Owed(k)'
        BY <3>6, <3>8 DEF Owed
      <3>15. \A q \in Replicas : Busy(q)' => \A k \in Keys : Active(k)' => Records(q, k)'
        BY <3>6, <3>7, <3>8 DEF Busy
      <3> QED
        BY <3>6, <3>10, <3>11, <3>12, <3>13, <3>14, <3>15 DEF LeaderInv
    <2> QED
      BY <1>6, <2>0, <2>3, <2>4 DEF Start, KeyOf, KeyTaken, Scanned
  <1>8. ASSUME NEW r \in Replicas, Write(r) PROVE LeaderInv'
    <2> DEFINE d == tick[r].due
               c == tick[r].clock
               cadence == NextOccurrence(sched.cron, c)
    <2>1. /\ UNCHANGED <<scans, lock, turns>> /\ tick[r].phase = "write"
          /\ tick' = [tick EXCEPT ![r] = Asleep]
          /\ past' = [past EXCEPT !.refused = @ \/ tick[r].write # "record"]
      BY <1>8 DEF Write
    <2>p. /\ past'.outlived = past.outlived /\ past'.unrecorded = past.unrecorded
          /\ past'.refused = (past.refused \/ tick[r].write # "record")
      BY <1>y, <2>1 DEF Pasts
    <2>2. SUFFICES ASSUME Calm, past.unrecorded => tick[r].write = "record" PROVE LeaderInv'
      BY <2>1, <2>p DEF LeaderInv, Calm
    <2>3. /\ \A q \in Replicas : q # r => tick[q].phase = "idle"
          /\ \A k \in Keys : Recording(k) => Records(r, k)
      BY <1>a, <2>1, <2>2
    <2>4. d = sched.next /\ d <= c /\ sched.cron /\ sched.exists /\ d \in Nat /\ c \in Nat
      <3>1. Busy(r)
        BY <2>1 DEF Busy
      <3> QED
        BY <1>y, <2>2, <3>1 DEF LeaderInv, GridInv, Ticks, Calm
    <2>5. \A q \in Replicas : tick'[q].phase = "idle"
      BY <1>y, <2>1, <2>3 DEF Asleep
    <2>6. cadence = NextOccurrence(TRUE, c)
      BY <2>4 DEF NextOccurrence
    <2>7. cadence \in Nat /\ cadence \div Period > d \div Period /\ d \div Period \in Nat
          /\ cadence \div Period \in Nat
      <3>1. cadence \div Period = c \div Period + 1
        BY <2>4, <2>6, CronRun
      <3>2. d \div Period <= c \div Period
        BY <2>4, RunsInOrder
      <3>3. c \div Period \in Nat /\ d \div Period \in Nat /\ cadence \in Nat
        BY <2>4, <2>6, Cadence
      <3> QED
        BY <3>1, <3>2, <3>3
    <2>8. /\ sched'.next \in Nat /\ sched'.next \div Period >= d \div Period
          /\ tick[r].write = "record" =>
                sched'.last = d /\ sched'.next \div Period > d \div Period
      <3> HIDE DEF cadence
      <3>1. CASE tick[r].write = "record"
        <4>1. sched' = [sched EXCEPT !.last = d, !.next = cadence]
          BY <1>8, <2>4, <3>1 DEF Write, KeyOf, cadence
        <4>2. sched'.last = d /\ sched'.next = cadence
          BY <1>y, <4>1 DEF Schedules
        <4> QED
          BY <2>7, <4>2
      <3>2. CASE tick[r].write = "skip"
        <4>1. sched' = [sched EXCEPT !.next = cadence]
          BY <1>8, <2>4, <3>2 DEF Write, cadence
        <4>2. sched'.next = cadence
          BY <1>y, <4>1 DEF Schedules
        <4> QED
          BY <2>7, <3>2, <4>2
      <3>3. CASE tick[r].write = "defer"
        <4>1. sched' = [sched EXCEPT !.next = MovedTo(tick[r], cadence)]
          BY <1>8, <2>4, <3>3 DEF Write, cadence
        <4>2. sched'.next = MovedTo(tick[r], cadence)
          BY <1>y, <4>1 DEF Schedules
        <4>3. CASE tick[r].until > c
          <5>1. tick[r].until \in Nat /\ sched'.next = tick[r].until /\ d <= tick[r].until
            BY <1>y, <2>4, <4>2, <4>3 DEF MovedTo, Ticks, Times, None
          <5>2. d \div Period <= tick[r].until \div Period
            BY <2>4, <5>1, RunsInOrder
          <5>3. tick[r].until \div Period \in Nat
            BY <5>1, Cadence
          <5> QED
            BY <2>7, <3>3, <5>1, <5>2, <5>3
        <4>4. CASE ~(tick[r].until > c)
          <5>1. sched'.next = cadence
            BY <4>2, <4>4 DEF MovedTo
          <5>2. cadence \div Period >= d \div Period /\ cadence \div Period \in Nat
            BY <2>7
          <5> QED
            BY <2>7, <3>3, <5>1, <5>2
        <4> QED
          BY <4>3, <4>4
      <3> QED
        BY <1>y, <3>1, <3>2, <3>3 DEF Ticks, Writes
    <2>9. \A k \in Keys : Active(k) => Records(r, k)
      <3>1. Busy(r)
        BY <2>1 DEF Busy
      <3> QED
        BY <2>1, <2>2, <2>4, <3>1 DEF LeaderInv, Lost, Records
    <2>10. ASSUME NEW k \in Keys, Scanned(k)' PROVE k \div Period < sched'.next \div Period
      <3>1. Scanned(k)
        BY <2>1, <2>10 DEF Scanned
      <3>2. k \div Period \in Nat /\ sched'.next \div Period \in Nat
        BY <1>y, <2>8, Cadence
      <3>3. CASE k \div Period < sched.next \div Period
        BY <2>4, <2>7, <2>8, <3>2, <3>3
      <3>4. CASE Recording(k)
        BY <2>3, <2>8, <3>4 DEF Records
      <3>5. CASE Lost(k)
        BY <2>2, <2>4, <2>8, <3>5 DEF Lost
      <3> QED
        BY <2>2, <3>1, <3>3, <3>4, <3>5 DEF LeaderInv, Owed
    <2>11. \A k \in Keys : Active(k)' => sched'.last = k
      BY <2>1, <2>8, <2>9 DEF Active, Records
    <2>12. \A k, l \in Keys : ~Twice(k, l)'
      BY <2>1, <2>2 DEF LeaderInv, Twice
    <2>13. \A q \in Replicas : ~Busy(q)'
      BY <2>5 DEF Busy
    <2>14. \A k, l \in Keys : Active(k)' /\ Active(l)' => k = l
      BY <2>11
    <2> QED
      BY <2>5, <2>10, <2>11, <2>12, <2>13, <2>14 DEF LeaderInv
  <1> QED
    BY <1>1, <1>2, <1>3, <1>4, <1>5, <1>6, <1>7, <1>8, <1>9, <1>10, <1>11, <1>12, <1>13,
       <1>14, <1>15, <1>16, <1>17
       DEF ScheduleNext, DispatcherStep

-----------------------------------------------------------------------------
(* The theorems. *)

ScheduleInv == ScheduleTypeOK /\ GridInv /\ LeaderInv

\* The strengthening: what ticks carry, the grid of the cron runs, and what a dispatcher
\* that ticks under its lock knows of its schedule.
THEOREM ScheduleInvariant == ScheduleSpec => []ScheduleInv
  <1>1. ASSUME ScheduleInit, ScheduleTypeOK PROVE GridInv /\ LeaderInv
    <2>1. /\ \A r \in Replicas : tick[r].phase = "idle"
          /\ \A k \in Keys : scans[k].status = "none"
      BY <1>1 DEF ScheduleInit, Asleep, NoScan
    <2>2. sched.cron /\ sched.exists /\ sched.next = NextOccurrence(TRUE, 0)
      BY <1>1 DEF ScheduleInit
    <2>3. OnGrid(sched.next)
      BY <2>2, NextIsOnGrid
    <2>4. GridInv
      BY <2>1, <2>2, <2>3 DEF GridInv, Busy, Scanned
    <2>5. LeaderInv
      BY <2>1 DEF LeaderInv, Busy, Scanned, Active, Twice
    <2> QED
      BY <2>4, <2>5
  <1>2. ASSUME ScheduleTypeOK, ScheduleTypeOK', GridInv, LeaderInv,
               [ScheduleNext]_scheduleVars
        PROVE  GridInv' /\ LeaderInv'
    BY <1>2, GridStep, LeaderStep
  <1> QED
    BY <1>1, <1>2, ScheduleTypeCorrect, PTL DEF ScheduleSpec, ScheduleInv

\* Leaders that overlap, for any length of time, start one scan of a run, and so do leaders
\* whose records fail and who ask again, and one who is refused again and again (the key
\* of _dispatch).
THEOREM RunIsScannedOnce == ScheduleSpec => []OneScanPerRun
  <1>1. ScheduleInv => OneScanPerRun
    <2>1. SUFFICES ASSUME ScheduleInv, Tolerated, NEW k \in Keys, NEW l \in Keys, Twice(k, l)
                   PROVE  FALSE
      BY DEF OneScanPerRun
    <2>2. CASE past.refused
      BY <2>1, <2>2 DEF ScheduleInv, LeaderInv, Tolerated, Calm
    <2>3. CASE ~past.refused
      <3>1. OnGrid(k) /\ OnGrid(l)
        BY <2>1, <2>3 DEF ScheduleInv, GridInv, Tolerated, Twice, Scanned
      <3> QED
        BY <2>1, <3>1 DEF OnGrid, Twice
    <2> QED
      BY <2>1, <2>2, <2>3 DEF Tolerated
  <1> QED
    BY <1>1, ScheduleInvariant, PTL

\* A schedule never has two scans under way, however often the write of last_job_id fails
\* or its replica dies before it: _job_still_running sees the recorded one, the key finds
\* the unrecorded one (_dispatch).
THEOREM ScansDoNotOverlap == ScheduleSpec => []OneScanAtATime
  <1>1. ScheduleInv => OneScanAtATime
    BY DEF ScheduleInv, LeaderInv, OneScanAtATime, Active, Tolerated, Calm
  <1> QED
    BY <1>1, ScheduleInvariant, PTL

\* A cron run is skipped for a full queue only when asking again would reach the next one,
\* whatever the replica remembers of earlier refusals (_queue_full_since).
THEOREM SkipIsTheLastResort == ScheduleSpec => SkipReachesTheNextRun
  <1>1. ASSUME ScheduleInv, NEW r \in Replicas, StartIsFull(r), since'[r] = None, tick[r].cron
        PROVE  tick[r].clock + RetryAfter >= NextOccurrence(TRUE, tick[r].due)
    <2> DEFINE c == tick[r].clock
               d == tick[r].due
               first == IF StaleMemory(r) THEN c ELSE since[r]
               following == NextOccurrence(tick[r].cron, first)
    <2>1. /\ c \in Nat /\ d \in Nat /\ tick[r].cron = TRUE
          /\ since \in [Replicas -> Times] /\ RetryAfter \in Nat
      BY <1>1, ScheduleAssumption DEF ScheduleInv, ScheduleTypeOK, Ticks
    <2>2. d <= c
      BY <1>1 DEF ScheduleInv, GridInv, StartIsFull, Busy
    <2>3. first \in Nat
      BY <2>1 DEF StaleMemory, Times
    <2>4. NextOccurrence(TRUE, d) <= NextOccurrence(TRUE, first)
      <3>1. CASE StaleMemory(r)
        BY <2>1, <2>2, <3>1, RunsInOrder
      <3>2. CASE ~StaleMemory(r)
        <4>1. since[r] \in Nat /\ NextOccurrence(TRUE, since[r]) \in Nat
          BY <2>1, <3>2, Cadence DEF StaleMemory, Times
        <4>2. d < NextOccurrence(TRUE, since[r])
          <5>1. ~(d >= NextOccurrence(tick[r].cron, since[r]))
            BY <3>2 DEF StaleMemory
          <5>2. NextOccurrence(tick[r].cron, since[r]) = NextOccurrence(TRUE, since[r])
            BY <1>1 DEF NextOccurrence
          <5>3. ~(d >= NextOccurrence(TRUE, since[r]))
            BY <5>1, <5>2, Zenon
          <5>4. \A x, y \in Nat : ~(x >= y) => x < y
            OBVIOUS
          <5> QED
            BY <2>1, <4>1, <5>3, <5>4
        <4>3. d \div Period <= since[r] \div Period
          BY <2>1, <4>1, <4>2, RunsInOrder
        <4>4. d \div Period \in Nat /\ since[r] \div Period \in Nat /\ Period \in Nat
          BY <2>1, <4>1, Cadence, ScheduleAssumption
        <4>5. (d \div Period + 1) * Period <= (since[r] \div Period + 1) * Period
          <5>1. \A m, n, p \in Nat : m <= n => m * p <= n * p
            OBVIOUS
          <5> QED
            BY <4>3, <4>4, <5>1
        <4> QED
          BY <2>1, <3>2, <4>1, <4>5, CronRun
      <3> QED
        BY <3>1, <3>2
    <2> HIDE DEF first
    <2>5. c + RetryAfter >= following
      <3>1. \/ c + RetryAfter >= following
            \/ since' = [since EXCEPT ![r] = first]
        BY <1>1 DEF StartIsFull, first
      <3>2. since' = [since EXCEPT ![r] = first] => since'[r] # None
        BY <2>1, <2>3 DEF None
      <3> QED
        BY <1>1, <3>1, <3>2
    <2>6. following = NextOccurrence(TRUE, first)
      BY <1>1 DEF NextOccurrence
    <2>7. NextOccurrence(TRUE, first) \in Nat /\ NextOccurrence(TRUE, d) \in Nat
      BY <2>1, <2>3, Cadence
    <2> HIDE DEF following
    <2>8. \A x, y, z \in Nat : x >= y /\ z <= y => x >= z
      OBVIOUS
    <2>9. c + RetryAfter \in Nat
      BY <2>1
    <2> QED
      BY <2>4, <2>5, <2>6, <2>7, <2>8, <2>9
  <1>2. ScheduleInv /\ [ScheduleNext]_scheduleVars =>
          [\A r \in Replicas :
              (StartIsFull(r) /\ since'[r] = None /\ tick[r].cron) =>
                  tick[r].clock + RetryAfter >= NextOccurrence(TRUE, tick[r].due)]_scheduleVars
    BY <1>1
  <1> QED
    BY <1>2, ScheduleInvariant, PTL DEF ScheduleSpec, SkipReachesTheNextRun
=============================================================================
