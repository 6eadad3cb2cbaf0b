-------------------------- MODULE LocalScansProofs --------------------------
(***************************************************************************)
(* Theorems about the local scans, for every set of jobs and replicas,     *)
(* every ceiling, and every lease and poll.                                *)
(***************************************************************************)
EXTENDS LocalScans, FiniteSetTheorems, TLAPS

\* The lengths that the deadlines are measured by are positive, and the mark
\* and the lease outlast the intervals at which they are renewed.
LEMMA Lengths ==
    /\ MaxScans \in Nat /\ Lease \in Nat \ {0} /\ Poll \in Nat \ {0}
    /\ MarkLife \in Nat /\ MarkLife >= 3 * Poll /\ MarkLife >= Lease
    /\ BeatEvery \in Nat \ {0} /\ BeatEvery <= Lease
    /\ {MaxClaims, MaxTurns, MaxFaults} \subseteq Nat
  <1>1. MaxScans \in Nat /\ Lease \in Nat \ {0} /\ Poll \in Nat \ {0}
    BY LocalAssumption
  <1>2. MarkLife \in Nat /\ MarkLife >= 3 * Poll /\ MarkLife >= Lease
    BY <1>1 DEF MarkLife
  <1>3. BeatEvery \in Nat \ {0} /\ BeatEvery <= Lease
    BY <1>1 DEF BeatEvery
  <1> QED
    BY <1>1, <1>2, <1>3, LocalAssumption

-----------------------------------------------------------------------------
(* Types. *)

\* Renewing and ageing a mark give a mark.
LEMMA MarkTypes ==
    ASSUME NEW m \in Marks
    PROVE  Renewed(m) \in Marks /\ Tick(m) \in Marks
  BY Lengths
      DEF Marks, Renewed, Tick, NoMark, Lapsed

\* A cleared mark and a fresh lease are marks.
LEMMA FreshMarks == NoMark \in Marks /\ Lease \in Marks
  BY Lengths
      DEF Marks, NoMark

\* An idle thread has the type of a thread.
LEMMA NoThreadType == NoThread \in Threads
  BY Lengths
      DEF NoThread, Threads, Stages

\* Every step keeps the types.
LEMMA TypeStep ==
    ASSUME LocalTypeOK, [LocalNext]_localVars
    PROVE  LocalTypeOK'
  <1> USE DEF LocalTypeOK
  <1>m. /\ NoMark \in Marks /\ Lease \in Marks
        /\ \A m \in Marks : Renewed(m) \in Marks /\ Tick(m) \in Marks
    BY MarkTypes, FreshMarks
  <1>w. ASSUME NEW j \in Jobs, NEW t \in Statuses, NEW m \in Marks
        PROVE  /\ [row EXCEPT ![j].status = t, ![j].mark = m] \in [Jobs -> Rows]
               /\ [row[j] EXCEPT !.status = t, !.mark = m] \in Rows
    BY DEF Rows
  <1>s. {"running", "failed", "succeeded"} \subseteq Statuses
    BY DEF Statuses
  <1>p. /\ Poll \in 0..Poll /\ BeatEvery \in 0..BeatEvery /\ 0 \in 0..BeatEvery
        /\ NoThread \in Threads
    BY Lengths, NoThreadType
  <1>n. {MaxClaims, MaxTurns, MaxFaults} \subseteq Nat
    BY LocalAssumption
  <1>1. ASSUME NEW j \in Jobs, Submit(j) PROVE LocalTypeOK'
    <2>1. row' \in [Jobs -> Rows]
      BY <1>1, <1>m DEF Submit, Rows, Statuses
    <2>2. thread' \in [Jobs -> Threads]
      BY <1>1, <1>p DEF Submit, Threads, Stages
    <2> QED
      BY <1>1, <1>n, <2>1, <2>2 DEF Submit, files, world, queue
  <1>2. ASSUME NEW j \in Jobs, Cancel(j) PROVE LocalTypeOK'
    <2>1. row' \in [Jobs -> Rows]
      BY <1>2, <1>m DEF Cancel, Rows, Statuses
    <2> QED
      BY <1>2, <1>n, <2>1 DEF Cancel, files, world, queue
  <1>3. ASSUME NEW j \in Jobs, SetPriority(j) PROVE LocalTypeOK'
    <2>1. row' \in [Jobs -> Rows]
      BY <1>3, <1>m DEF SetPriority, Rows, Statuses
    <2> QED
      BY <1>3, <1>n, <2>1 DEF SetPriority, files, world, queue
  <1>4. ASSUME NEW j \in Jobs, WindowShuts(j) PROVE LocalTypeOK'
    BY <1>4, <1>n DEF WindowShuts, files, world, queue
  <1>5. ASSUME NEW j \in Jobs, WindowOpens(j) PROVE LocalTypeOK'
    BY <1>5, <1>n DEF WindowOpens, files, world, queue
  <1>6. ASSUME NEW j \in Jobs, HoldSlot(j) PROVE LocalTypeOK'
    <2>2. thread' \in [Jobs -> Threads]
      BY <1>6, <1>p DEF HoldSlot, Threads, Stages
    <2> QED
      BY <1>6, <1>n, <2>2 DEF HoldSlot, files, world, queue
  <1>7. ASSUME NEW j \in Jobs, LockIsBusy(j) PROVE LocalTypeOK'
    <2>1. row' \in [Jobs -> Rows]
      BY <1>7, <1>m DEF LockIsBusy, Rows, Statuses
    <2>2. thread' \in [Jobs -> Threads]
      BY <1>7, <1>p DEF LockIsBusy, Threads, Stages
    <2> QED
      BY <1>7, <1>n, <2>1, <2>2 DEF LockIsBusy, files, world, queue
  <1>8. ASSUME NEW j \in Jobs, KeepWaiting(j) PROVE LocalTypeOK'
    <2>1. row' \in [Jobs -> Rows]
      BY <1>8, <1>m DEF KeepWaiting, Rows, Statuses
    <2>2. thread' \in [Jobs -> Threads]
      BY <1>8, <1>p DEF KeepWaiting, Threads, Stages
    <2> QED
      BY <1>8, <1>n, <2>1, <2>2 DEF KeepWaiting, Unlock, files, world, queue
  <1>9. ASSUME NEW j \in Jobs, StartScan(j) PROVE LocalTypeOK'
    <2>1. row' \in [Jobs -> Rows]
      <3>1. [row EXCEPT ![j].status = "running", ![j].mark = Lease] \in [Jobs -> Rows]
        BY <1>w, <1>s, <1>m
      <3> QED
        BY <1>9, <3>1 DEF StartScan
    <2>2. thread' \in [Jobs -> Threads]
      BY <1>9, <1>p DEF StartScan, Threads, Stages
    <2> QED
      BY <1>9, <1>n, <2>1, <2>2 DEF StartScan, Unlock, files, world, queue
  <1>10. ASSUME NEW j \in Jobs, NotStarted(j) PROVE LocalTypeOK'
    <2>2. thread' \in [Jobs -> Threads]
      BY <1>10, <1>p DEF NotStarted, Threads, Stages
    <2> QED
      BY <1>10, <1>n, <2>2 DEF NotStarted, Unlock, files, world, queue
  <1>11. ASSUME NEW j \in Jobs, AskFails(j) PROVE LocalTypeOK'
    <2>2. thread' \in [Jobs -> Threads]
      BY <1>11, <1>p DEF AskFails, Threads, Stages
    <2> QED
      BY <1>11, <1>n, <2>2 DEF AskFails, Unlock, files, world, queue
  <1>12. ASSUME NEW j \in Jobs, Renew(j) PROVE LocalTypeOK'
    <2>1. row' \in [Jobs -> Rows]
      BY <1>12, <1>m DEF Renew, Rows, Statuses
    <2>2. thread' \in [Jobs -> Threads]
      BY <1>12, <1>p DEF Renew, Threads, Stages
    <2> QED
      BY <1>12, <1>n, <2>1, <2>2 DEF Renew, files, world, queue
  <1>13. ASSUME NEW j \in Jobs, RenewFails(j) PROVE LocalTypeOK'
    <2>2. thread' \in [Jobs -> Threads]
      BY <1>13, <1>p DEF RenewFails, Threads, Stages
    <2> QED
      BY <1>13, <1>n, <2>2 DEF RenewFails, files, world, queue
  <1>14. ASSUME NEW j \in Jobs, WriteOutcome(j) PROVE LocalTypeOK'
    <2>1. row' \in [Jobs -> Rows]
      <3>1. PICK t \in Outcomes(j) :
               row' = [row EXCEPT ![j].status = t, ![j].mark = NoMark]
        BY <1>14 DEF WriteOutcome
      <3>2. t \in Statuses
        BY <1>s DEF Outcomes
      <3>3. [row EXCEPT ![j].status = t, ![j].mark = NoMark] \in [Jobs -> Rows]
        BY <3>2, <1>w, <1>m
      <3> QED
        BY <3>1, <3>3
    <2>2. thread' \in [Jobs -> Threads]
      BY <1>14, <1>p DEF WriteOutcome, Threads, Stages
    <2>3. thread[j].run \in Jobs \cup {NoRun}
      BY DEF Threads
    <2> QED
      BY <1>14, <1>n, <2>1, <2>2, <2>3 DEF WriteOutcome, files, world, queue
  <1>15. ASSUME NEW j \in Jobs, OutcomeRefused(j) PROVE LocalTypeOK'
    <2>2. thread' \in [Jobs -> Threads]
      BY <1>15, <1>p DEF OutcomeRefused, Threads, Stages
    <2> QED
      BY <1>15, <1>n, <2>2 DEF OutcomeRefused, files, world, queue
  <1>16. ASSUME NEW j \in Jobs, ScannerOpensRun(j) PROVE LocalTypeOK'
    <2> QED
      BY <1>16, <1>n, LocalAssumption DEF ScannerOpensRun, world, queue
  <1>17. ASSUME NEW j \in Jobs, ScanEnds(j) PROVE LocalTypeOK'
    <2>2. thread' \in [Jobs -> Threads]
      <3>1. RunToPublish(j) \in Jobs \cup {NoRun}
        BY DEF RunToPublish
      <3>2. [thread[j] EXCEPT !.stage = "done", !.beat = 0, !.run = RunToPublish(j)]
               \in Threads
        BY <1>p, <3>1 DEF Threads, Stages
      <3> QED
        BY <1>17, <3>2 DEF ScanEnds
    <2> QED
      BY <1>17, <1>n, <2>2 DEF ScanEnds, files, world, queue
  <1>18. ASSUME NEW j \in Jobs, ScanRaises(j) PROVE LocalTypeOK'
    <2>1. row' \in [Jobs -> Rows]
      <3>1. [row EXCEPT ![j].status = "failed", ![j].mark = NoMark] \in [Jobs -> Rows]
        BY <1>w, <1>s, <1>m
      <3> QED
        BY <1>18, <3>1 DEF ScanRaises
    <2>2. thread' \in [Jobs -> Threads]
      BY <1>18, <1>p DEF ScanRaises, Threads, Stages
    <2> QED
      BY <1>18, <1>n, <2>1, <2>2 DEF ScanRaises, files, world, queue
  <1>19. ASSUME NEW j \in Jobs, ThreadDies(j) PROVE LocalTypeOK'
    <2>2. thread' \in [Jobs -> Threads]
      BY <1>19, <1>p DEF ThreadDies, Killed
    <2>3. lock' \in Jobs \cup {Free, Sensor} /\ free' \in BOOLEAN
      BY <1>19 DEF ThreadDies, Unlock
    <2> QED
      BY <1>19, <1>n, <2>2, <2>3 DEF ThreadDies, files
  <1>20. ASSUME NEW j \in Jobs, FallsBehind(j) PROVE LocalTypeOK'
    <2>2. thread' \in [Jobs -> Threads]
      BY <1>20, <1>p DEF FallsBehind, Threads, Stages
    <2> QED
      BY <1>20, <1>n, <2>2 DEF FallsBehind, files, world, queue
  <1>21. ASSUME NEW j \in Jobs, Reap(j) PROVE LocalTypeOK'
    <2>1. row' \in [Jobs -> Rows]
      <3>1. [row EXCEPT ![j].status = "failed", ![j].mark = NoMark] \in [Jobs -> Rows]
        BY <1>w, <1>s, <1>m
      <3> QED
        BY <1>21, <3>1 DEF Reap
    <2> QED
      BY <1>21, <1>n, <2>1 DEF Reap, files, world, queue
  <1>22. ASSUME NEW p \in pubs, MoveRun(p) PROVE LocalTypeOK'
    BY <1>22 DEF MoveRun, world, queue
  <1>23. ASSUME NEW r \in Replicas, ReplicaDies(r) PROVE LocalTypeOK'
    <2>1. thread' \in [Jobs -> Threads]
      BY <1>23, <1>p DEF ReplicaDies, Killed
    <2>2. lock' \in Jobs \cup {Free, Sensor} /\ free' \in BOOLEAN
      BY <1>23 DEF ReplicaDies
    <2>3. UNCHANGED <<files, row, remote, claims, shut, turns>>
      BY <1>23 DEF ReplicaDies
    <2>4. up' \subseteq Replicas /\ faults' \in 0..MaxFaults
      BY <1>23, <1>n DEF ReplicaDies
    <2> QED
      BY <2>1, <2>2, <2>3, <2>4 DEF files
  <1>24. ASSUME NEW r \in Replicas, ReplicaReturns(r) PROVE LocalTypeOK'
    <2>1. row' \in [Jobs -> Rows]
      <3>1. \A j \in Jobs : [row[j] EXCEPT !.status = "failed", !.mark = NoMark] \in Rows
        BY <1>w, <1>s, <1>m
      <3> QED
        BY <1>24, <3>1 DEF ReplicaReturns
    <2> QED
      BY <1>24, <2>1 DEF ReplicaReturns, files, queue
  <1>25. CASE SensorAsks
    BY <1>25, <1>n DEF SensorAsks, files, world
  <1>26. CASE SensorAnswered
    <2>1. lock' = Free /\ free' = FALSE /\ remote' \in Nat
      BY <1>26 DEF SensorAnswered
    <2>2. UNCHANGED <<files, world, row, thread, claims>>
      BY <1>26 DEF SensorAnswered
    <2> QED
      BY <2>1, <2>2 DEF files, world
  <1>27. CASE SensorEnds
    BY <1>27, <1>n DEF SensorEnds, world
  <1>28. CASE Clock
    <2>1. row' \in [Jobs -> Rows]
      <3>1. \A a \in 0..(Lease + 1) : Aged(a) \in 0..(Lease + 1)
        BY Lengths
      DEF Aged
      <3> QED
        BY <1>28, <1>m, <3>1 DEF Clock, Rows
    <2>2. thread' \in [Jobs -> Threads]
      <3>1. /\ \A n \in 0..Poll : Down(n) \in 0..Poll
            /\ \A n \in 0..BeatEvery : Down(n) \in 0..BeatEvery
        BY Lengths
      DEF Down
      <3>2. \A j \in Jobs : [thread[j] EXCEPT !.nap = Down(@), !.beat = Down(@)] \in Threads
        BY <3>1 DEF Threads
      <3> QED
        BY <1>28, <3>2 DEF Clock
    <2> QED
      BY <1>28, <2>1, <2>2 DEF Clock, files, world, queue
  <1>29. CASE UNCHANGED localVars
    BY <1>29 DEF localVars
  <1> QED
    BY <1>1, <1>2, <1>3, <1>4, <1>5, <1>6, <1>7, <1>8, <1>9, <1>10, <1>11, <1>12, <1>13,
       <1>14, <1>15, <1>16, <1>17, <1>18, <1>19, <1>20, <1>21, <1>22, <1>23, <1>24,
       <1>25, <1>26, <1>27, <1>28, <1>29
    DEF LocalNext, ThreadStep, ScannerStep, SensorStep

\* Every reachable state of the local scans is well typed.
THEOREM LocalTypeCorrect == LocalSpec => []LocalTypeOK
  <1>1. LocalInit => LocalTypeOK
    <2>1. [status |-> "new", mark |-> NoMark, age |-> 0, priority |-> 0] \in Rows
      BY Lengths, FreshMarks DEF Rows, Statuses
    <2> SUFFICES ASSUME LocalInit
                 PROVE  LocalTypeOK
      OBVIOUS
    <2>2. row \in [Jobs -> Rows] /\ thread \in [Jobs -> Threads]
      BY <2>1, NoThreadType DEF LocalInit
    <2>3. claims \in 0..MaxClaims /\ turns \in 0..MaxTurns /\ faults \in 0..MaxFaults
      BY LocalAssumption DEF LocalInit
    <2>4. /\ pointer \in [Replicas -> Jobs \cup {NoRun}]
          /\ dir \in [Jobs -> {"none", "flat", "tagged", "moved"}]
      BY DEF LocalInit
    <2>5. /\ up \subseteq Replicas /\ shut \subseteq Jobs /\ remote \in Nat
          /\ lock \in Jobs \cup {Free, Sensor} /\ free \in BOOLEAN
          /\ pubs \subseteq Jobs \X Jobs
      BY DEF LocalInit
    <2> QED
      BY <2>2, <2>3, <2>4, <2>5 DEF LocalTypeOK
  <1> QED
    BY <1>1, TypeStep, PTL DEF LocalSpec

-----------------------------------------------------------------------------
(* Attended scans.  The mark of a waiting scan is at least half its life at *)
(* each ask, and runs down with the nap that follows; the lease of a running *)
(* one is never shorter than the time to its next renewal.  That a thread's  *)
(* stage and its row's status agree is what carries the two from step to     *)
(* step.                                                                     *)

JobInv(w, t) ==
    /\ t.stage = "ended" => t.nap = 0
    /\ w.status = "new" => t.stage = "ended" /\ w.mark = NoMark /\ w.age = 0
    /\ t.stage \in {"asking", "held"} => w.status \in {"queued"} \cup Terminal
    /\ t.stage \in {"scan", "done"} => w.status \in {"running"} \cup Terminal
    /\ t.stage = "held" => t.nap = 0
    /\ t.stage # "ended" /\ ~t.late /\ w.status = "queued" =>
          \/ w.mark = NoMark /\ w.age = 0 /\ t.nap = 0
          \/ w.mark >= 0 /\ 2 * (w.mark - t.nap) >= MarkLife - 2 * Poll
    /\ t.stage = "scan" /\ ~t.late /\ w.status = "running" => w.mark >= t.beat
    /\ t.stage = "done" /\ ~t.late /\ w.status = "running" => w.mark >= 0

ThreadsAgree == \A j \in Jobs : JobInv(row[j], thread[j])

\* Every step keeps each thread and its row in agreement.
LEMMA AgreeStep ==
    ASSUME LocalTypeOK, ThreadsAgree, [LocalNext]_localVars, NEW k \in Jobs
    PROVE  JobInv(row'[k], thread'[k])
  <1> DEFINE Quiet == row'[k] = row[k] /\ thread'[k] = thread[k]
  <1>q. Quiet => JobInv(row'[k], thread'[k])
    BY DEF ThreadsAgree
  <1>t. /\ row \in [Jobs -> Rows] /\ thread \in [Jobs -> Threads]
        /\ row[k].mark \in Marks /\ row[k].age \in Nat
        /\ thread[k].nap \in Nat /\ thread[k].beat \in Nat /\ thread[k].nap <= Poll
        /\ JobInv(row[k], thread[k])
    BY DEF LocalTypeOK, ThreadsAgree, Rows, Threads
  <1>1. ASSUME NEW j \in Jobs, Submit(j) PROVE JobInv(row'[k], thread'[k])
    <2>1. k # j => Quiet
      BY <1>1, <1>t DEF Submit
    <2>2. CASE k = j
      BY <1>1, <2>2, <1>t, Lengths
      DEF Submit, JobInv, NoThread, Terminal,
          NoMark, Lapsed, Marks, Rows, Threads
    <2> QED
      BY <2>1, <2>2, <1>q
  <1>2. ASSUME NEW j \in Jobs, Cancel(j) PROVE JobInv(row'[k], thread'[k])
    <2>1. k # j => Quiet
      BY <1>2, <1>t DEF Cancel
    <2>2. CASE k = j
      BY <1>2, <2>2, <1>t, Lengths
      DEF Cancel, JobInv, NoThread, Terminal,
          NoMark, Lapsed, Marks, Rows, Threads
    <2> QED
      BY <2>1, <2>2, <1>q
  <1>3. ASSUME NEW j \in Jobs, SetPriority(j) PROVE JobInv(row'[k], thread'[k])
    <2>1. k # j => Quiet
      BY <1>3, <1>t DEF SetPriority
    <2>2. CASE k = j
      BY <1>3, <2>2, <1>t, Lengths
      DEF SetPriority, JobInv, NoThread, Terminal,
          NoMark, Lapsed, Marks, Rows, Threads
    <2> QED
      BY <2>1, <2>2, <1>q
  <1>4. ASSUME NEW j \in Jobs, WindowShuts(j) PROVE JobInv(row'[k], thread'[k])
    BY <1>4, <1>q DEF WindowShuts, files, queue, world
  <1>5. ASSUME NEW j \in Jobs, WindowOpens(j) PROVE JobInv(row'[k], thread'[k])
    BY <1>5, <1>q DEF WindowOpens, files, queue, world
  <1>6. ASSUME NEW j \in Jobs, HoldSlot(j) PROVE JobInv(row'[k], thread'[k])
    <2>1. k # j => Quiet
      BY <1>6, <1>t DEF HoldSlot
    <2>2. CASE k = j
      BY <1>6, <2>2, <1>t, Lengths
      DEF HoldSlot, JobInv, NoThread, Terminal,
          NoMark, Lapsed, Marks, Rows, Threads
    <2> QED
      BY <2>1, <2>2, <1>q
  <1>7. ASSUME NEW j \in Jobs, LockIsBusy(j) PROVE JobInv(row'[k], thread'[k])
    <2>1. k # j => Quiet
      BY <1>7, <1>t DEF LockIsBusy
    <2>2. CASE k = j
      BY <1>7, <2>2, <1>t, Lengths
      DEF LockIsBusy, Renewed, JobInv, NoThread, Terminal,
          NoMark, Lapsed, Marks, Rows, Threads
    <2> QED
      BY <2>1, <2>2, <1>q
  <1>8. ASSUME NEW j \in Jobs, KeepWaiting(j) PROVE JobInv(row'[k], thread'[k])
    <2>1. k # j => Quiet
      BY <1>8, <1>t DEF KeepWaiting
    <2>2. CASE k = j
      BY <1>8, <2>2, <1>t, Lengths
      DEF KeepWaiting, Renewed, JobInv, NoThread, Terminal,
          NoMark, Lapsed, Marks, Rows, Threads
    <2> QED
      BY <2>1, <2>2, <1>q
  <1>9. ASSUME NEW j \in Jobs, StartScan(j) PROVE JobInv(row'[k], thread'[k])
    <2>1. k # j => Quiet
      BY <1>9, <1>t DEF StartScan
    <2>2. CASE k = j
      BY <1>9, <2>2, <1>t, Lengths
      DEF StartScan, JobInv, NoThread, Terminal,
          NoMark, Lapsed, Marks, Rows, Threads
    <2> QED
      BY <2>1, <2>2, <1>q
  <1>10. ASSUME NEW j \in Jobs, NotStarted(j) PROVE JobInv(row'[k], thread'[k])
    <2>1. k # j => Quiet
      BY <1>10, <1>t DEF NotStarted
    <2>2. CASE k = j
      BY <1>10, <2>2, <1>t, Lengths
      DEF NotStarted, JobInv, NoThread, Terminal,
          NoMark, Lapsed, Marks, Rows, Threads
    <2> QED
      BY <2>1, <2>2, <1>q
  <1>11. ASSUME NEW j \in Jobs, AskFails(j) PROVE JobInv(row'[k], thread'[k])
    <2>1. k # j => Quiet
      BY <1>11, <1>t DEF AskFails
    <2>2. CASE k = j
      BY <1>11, <2>2, <1>t, Lengths
      DEF AskFails, JobInv, NoThread, Terminal,
          NoMark, Lapsed, Marks, Rows, Threads
    <2> QED
      BY <2>1, <2>2, <1>q
  <1>12. ASSUME NEW j \in Jobs, Renew(j) PROVE JobInv(row'[k], thread'[k])
    <2>1. k # j => Quiet
      BY <1>12, <1>t DEF Renew
    <2>2. CASE k = j
      BY <1>12, <2>2, <1>t, Lengths
      DEF Renew, JobInv, NoThread, Terminal,
          NoMark, Lapsed, Marks, Rows, Threads
    <2> QED
      BY <2>1, <2>2, <1>q
  <1>13. ASSUME NEW j \in Jobs, RenewFails(j) PROVE JobInv(row'[k], thread'[k])
    <2>1. k # j => Quiet
      BY <1>13, <1>t DEF RenewFails
    <2>2. CASE k = j
      BY <1>13, <2>2, <1>t, Lengths
      DEF RenewFails, JobInv, NoThread, Terminal,
          NoMark, Lapsed, Marks, Rows, Threads
    <2> QED
      BY <2>1, <2>2, <1>q
  <1>14. ASSUME NEW j \in Jobs, WriteOutcome(j) PROVE JobInv(row'[k], thread'[k])
    <2>1. k # j => Quiet
      BY <1>14, <1>t DEF WriteOutcome
    <2>2. CASE k = j
      BY <1>14, <2>2, <1>t, Lengths
      DEF WriteOutcome, Outcomes, JobInv, NoThread, Terminal,
          NoMark, Lapsed, Marks, Rows, Threads
    <2> QED
      BY <2>1, <2>2, <1>q
  <1>15. ASSUME NEW j \in Jobs, OutcomeRefused(j) PROVE JobInv(row'[k], thread'[k])
    <2>1. k # j => Quiet
      BY <1>15, <1>t DEF OutcomeRefused
    <2>2. CASE k = j
      BY <1>15, <2>2, <1>t, Lengths
      DEF OutcomeRefused, JobInv, NoThread, Terminal,
          NoMark, Lapsed, Marks, Rows, Threads
    <2> QED
      BY <2>1, <2>2, <1>q
  <1>16. ASSUME NEW j \in Jobs, ScannerOpensRun(j) PROVE JobInv(row'[k], thread'[k])
    BY <1>16, <1>q DEF ScannerOpensRun, files, queue, world
  <1>17. ASSUME NEW j \in Jobs, ScanEnds(j) PROVE JobInv(row'[k], thread'[k])
    <2>1. k # j => Quiet
      BY <1>17, <1>t DEF ScanEnds
    <2>2. CASE k = j
      BY <1>17, <2>2, <1>t, Lengths
      DEF ScanEnds, JobInv, NoThread, Terminal,
          NoMark, Lapsed, Marks, Rows, Threads
    <2> QED
      BY <2>1, <2>2, <1>q
  <1>18. ASSUME NEW j \in Jobs, ScanRaises(j) PROVE JobInv(row'[k], thread'[k])
    <2>1. k # j => Quiet
      BY <1>18, <1>t DEF ScanRaises
    <2>2. CASE k = j
      BY <1>18, <2>2, <1>t, Lengths
      DEF ScanRaises, JobInv, NoThread, Terminal,
          NoMark, Lapsed, Marks, Rows, Threads
    <2> QED
      BY <2>1, <2>2, <1>q
  <1>19. ASSUME NEW j \in Jobs, ThreadDies(j) PROVE JobInv(row'[k], thread'[k])
    <2>1. k # j => Quiet
      BY <1>19, <1>t DEF ThreadDies, Killed
    <2>2. CASE k = j
      BY <1>19, <2>2, <1>t, Lengths
      DEF ThreadDies, Killed, JobInv, NoThread, Terminal,
          NoMark, Lapsed, Marks, Rows, Threads
    <2> QED
      BY <2>1, <2>2, <1>q
  <1>20. ASSUME NEW j \in Jobs, FallsBehind(j) PROVE JobInv(row'[k], thread'[k])
    <2>1. k # j => Quiet
      BY <1>20, <1>t DEF FallsBehind
    <2>2. CASE k = j
      BY <1>20, <2>2, <1>t, Lengths
      DEF FallsBehind, Alive, JobInv, NoThread, Terminal,
          NoMark, Lapsed, Marks, Rows, Threads
    <2> QED
      BY <2>1, <2>2, <1>q
  <1>21. ASSUME NEW j \in Jobs, Reap(j) PROVE JobInv(row'[k], thread'[k])
    <2>1. k # j => Quiet
      BY <1>21, <1>t DEF Reap
    <2>2. CASE k = j
      BY <1>21, <2>2, <1>t, Lengths
      DEF Reap, JobInv, NoThread, Terminal,
          NoMark, Lapsed, Marks, Rows, Threads
    <2> QED
      BY <2>1, <2>2, <1>q
  <1>22. ASSUME NEW p \in pubs, MoveRun(p) PROVE JobInv(row'[k], thread'[k])
    BY <1>22, <1>q DEF MoveRun
  <1>23. ASSUME NEW r \in Replicas, ReplicaDies(r) PROVE JobInv(row'[k], thread'[k])
    <2>1. row'[k] = row[k] /\ thread'[k] \in {thread[k], NoThread}
      BY <1>23, <1>t DEF ReplicaDies, Killed
    <2>2. JobInv(row[k], NoThread)
      BY <1>t DEF JobInv, NoThread
    <2> QED
      BY <2>1, <2>2, <1>t
  <1>24. ASSUME NEW r \in Replicas, ReplicaReturns(r) PROVE JobInv(row'[k], thread'[k])
    <2>1. /\ thread'[k] = thread[k]
          /\ \/ row'[k] = row[k]
             \/ row'[k] = [row[k] EXCEPT !.status = "failed", !.mark = NoMark]
      BY <1>24, <1>t DEF ReplicaReturns
    <2>2. JobInv([row[k] EXCEPT !.status = "failed", !.mark = NoMark], thread[k])
      BY <1>t DEF JobInv, Rows, Terminal
    <2> QED
      BY <2>1, <2>2, <1>t
  <1>25. CASE SensorAsks \/ SensorStep
    BY <1>25, <1>q DEF SensorAsks, SensorStep, SensorAnswered, SensorEnds
  <1>26. CASE Clock
    <2>1. /\ thread[k].late \/ OnTime(k)
          /\ row'[k] = [row[k] EXCEPT !.mark = Tick(@),
                                      !.age = IF NeverAsked(k) THEN Aged(@) ELSE @]
          /\ thread'[k] = [thread[k] EXCEPT !.nap = Down(@), !.beat = Down(@)]
      BY <1>26, <1>t DEF Clock
    <2>2. /\ row'[k].status = row[k].status
          /\ row'[k].mark = Tick(row[k].mark)
          /\ row'[k].age = IF NeverAsked(k) THEN Aged(row[k].age) ELSE row[k].age
          /\ thread'[k].stage = thread[k].stage /\ thread'[k].late = thread[k].late
          /\ thread'[k].nap = Down(thread[k].nap) /\ thread'[k].beat = Down(thread[k].beat)
      BY <2>1, <1>t DEF Rows, Threads
    <2>3. thread[k].stage = "ended" => thread'[k].nap = 0
      BY <2>2, <1>t DEF JobInv, Down
    <2>4. row[k].status = "new" => row'[k].mark = NoMark /\ row'[k].age = 0
      BY <2>2, <1>t DEF JobInv, NeverAsked, Tick, NoMark, Lapsed
    <2>5. thread[k].stage = "held" => thread'[k].nap = 0
      BY <2>2, <1>t DEF JobInv, Down
    <2>6. ASSUME thread[k].stage # "ended", ~thread[k].late, row[k].status = "queued"
          PROVE  /\ row'[k].mark >= 0
                 /\ 2 * (row'[k].mark - thread'[k].nap) >= MarkLife - 2 * Poll
      <3>1. thread[k].stage = "asking" /\ thread[k].nap > 0
        BY <2>1, <2>6, <1>t DEF OnTime, JobInv, Terminal
      <3>2. row[k].mark >= 0 /\ 2 * (row[k].mark - thread[k].nap) >= MarkLife - 2 * Poll
        BY <2>6, <3>1, <1>t DEF JobInv
      <3> QED
        BY <2>2, <3>1, <3>2, <1>t, Lengths
      DEF Tick, Down, Marks, NoMark, Lapsed
    <2>7. ASSUME thread[k].stage = "scan", ~thread[k].late, row[k].status = "running"
          PROVE  row'[k].mark >= thread'[k].beat
      <3>1. thread[k].beat > 0 /\ row[k].mark >= thread[k].beat
        BY <2>1, <2>7, <1>t DEF OnTime, JobInv
      <3> QED
        BY <2>2, <3>1, <1>t DEF Tick, Down, Marks, NoMark, Lapsed
    <2>8. thread[k].stage = "done" => thread[k].late
      BY <2>1 DEF OnTime
    <2> QED
      BY <2>2, <2>3, <2>4, <2>5, <2>6, <2>7, <2>8, <1>t DEF JobInv
  <1>27. CASE UNCHANGED localVars
    BY <1>27, <1>q DEF localVars
  <1> QED
    BY <1>1, <1>2, <1>3, <1>4, <1>5, <1>6, <1>7, <1>8, <1>9, <1>10, <1>11, <1>12, <1>13,
       <1>14, <1>15, <1>16, <1>17, <1>18, <1>19, <1>20, <1>21, <1>22, <1>23, <1>24, <1>25,
       <1>26, <1>27
    DEF LocalNext, ThreadStep, ScannerStep

\* Each thread and the row of its job agree in every reachable state.
THEOREM ThreadsAlwaysAgree == LocalSpec => []ThreadsAgree
  <1>1. LocalInit => ThreadsAgree
    BY DEF LocalInit, ThreadsAgree, JobInv, NoThread
  <1>2. LocalTypeOK /\ ThreadsAgree /\ [LocalNext]_localVars => ThreadsAgree'
    BY AgreeStep DEF ThreadsAgree
  <1> QED
    BY <1>1, <1>2, LocalTypeCorrect, PTL DEF LocalSpec

\* Whatever the lease and the poll are, a waiting scan that is asked for at each
\* poll, and a running one that is renewed at each interval, never lapses: half
\* a mark outlasts a poll (renew_waiting_mark), a lease outlasts an interval.
THEOREM AttendedIsNotReaped == LocalSpec => []AttendedNeverLapses
  <1>1. LocalTypeOK /\ ThreadsAgree => AttendedNeverLapses
    <2> SUFFICES ASSUME LocalTypeOK, ThreadsAgree, NEW j \in Jobs,
                        Alive(j), ~thread[j].late, Overdue(j)
                 PROVE  FALSE
      BY DEF AttendedNeverLapses
    <2>1. /\ JobInv(row[j], thread[j]) /\ thread[j].stage \in Stages
          /\ row[j].mark \in Marks /\ thread[j].nap \in Nat /\ thread[j].beat \in Nat
      BY DEF ThreadsAgree, LocalTypeOK, Rows, Threads
    <2>2. CASE row[j].status = "running" /\ row[j].mark = Lapsed
      BY <2>1, <2>2 DEF JobInv, Alive, Stages, Terminal, Lapsed
    <2>3. CASE row[j].status = "queued"
      BY <2>1, <2>3, Lengths
      DEF JobInv, Alive, Overdue, NeverAsked, Lapsed, NoMark
    <2> QED
      BY <2>2, <2>3 DEF Overdue
  <1> QED
    BY <1>1, LocalTypeCorrect, ThreadsAlwaysAgree, PTL

\* The outcome of a local scan is written once, whoever writes it first.
THEOREM LocalOutcomeIsWrittenOnce == LocalSpec => LocalOutcomeIsFinal
  <1>1. LocalTypeOK /\ ThreadsAgree /\ [LocalNext]_localVars =>
          [\A j \in Jobs : row[j].status \in Terminal => row'[j].status = row[j].status]_localVars
    <2> SUFFICES ASSUME LocalTypeOK, [LocalNext]_localVars, NEW k \in Jobs,
                        row[k].status \in Terminal
                 PROVE  row'[k].status = row[k].status
      OBVIOUS
    <2>t. row \in [Jobs -> Rows]
      BY DEF LocalTypeOK
    <2> USE DEF Terminal, Rows
    <2>1. ASSUME NEW j \in Jobs,
                 Submit(j) \/ Cancel(j) \/ SetPriority(j) \/ LockIsBusy(j) \/ KeepWaiting(j)
          PROVE  row'[k].status = row[k].status
      BY <2>1, <2>t DEF Submit, Cancel, SetPriority, LockIsBusy, KeepWaiting
    <2>2. ASSUME NEW j \in Jobs, StartScan(j) \/ Renew(j) \/ WriteOutcome(j) \/ ScanRaises(j)
          PROVE  row'[k].status = row[k].status
      BY <2>2, <2>t DEF StartScan, Renew, WriteOutcome, MayEnd, ScanRaises
    <2>3. ASSUME NEW j \in Jobs, Reap(j)
          PROVE  row'[k].status = row[k].status
      BY <2>3, <2>t DEF Reap, Overdue, NeverAsked
    <2>4. ASSUME NEW r \in Replicas, ReplicaReturns(r)
          PROVE  row'[k].status = row[k].status
      BY <2>4, <2>t DEF ReplicaReturns
    <2>5. CASE Clock
      BY <2>5, <2>t DEF Clock
    <2>6. CASE UNCHANGED row
      BY <2>6
    <2>7. ASSUME NEW j \in Jobs,
                 \/ WindowShuts(j) \/ WindowOpens(j) \/ HoldSlot(j) \/ NotStarted(j)
                 \/ AskFails(j) \/ RenewFails(j) \/ OutcomeRefused(j) \/ ScannerOpensRun(j)
                 \/ ScanEnds(j) \/ ThreadDies(j) \/ FallsBehind(j)
          PROVE  UNCHANGED row
      BY <2>7 DEF WindowShuts, WindowOpens, HoldSlot, NotStarted, AskFails, RenewFails,
                  OutcomeRefused, ScannerOpensRun, ScanEnds, ThreadDies, FallsBehind
    <2>8. ASSUME \/ \E p \in pubs : MoveRun(p)
                 \/ \E r \in Replicas : ReplicaDies(r)
                 \/ SensorAsks \/ SensorStep \/ UNCHANGED localVars
          PROVE  UNCHANGED row
      BY <2>8 DEF MoveRun, ReplicaDies, SensorAsks, SensorStep, SensorAnswered, SensorEnds,
                  localVars
    <2> QED
      BY <2>1, <2>2, <2>3, <2>4, <2>5, <2>6, <2>7, <2>8
      DEF LocalNext, ThreadStep, ScannerStep
  <1> QED
    BY <1>1, LocalTypeCorrect, ThreadsAlwaysAgree, PTL DEF LocalSpec, LocalOutcomeIsFinal

-----------------------------------------------------------------------------
(* The ceiling.  A claim that holds the lock and has counted a free slot    *)
(* already owns it: nobody else can count until the lock is given back.     *)

Reserved == IF free THEN 1 ELSE 0

SlotInv ==
    /\ \A j \in Jobs : thread[j].stage = "held" => lock = j
    /\ free => lock # Free
    /\ Out + Reserved <= MaxScans

\* The scans that run are finitely many and the slots out are a number.
LEMMA RunningCount ==
    ASSUME LocalTypeOK
    PROVE  /\ IsFiniteSet(Running)
           /\ Cardinality(Running) \in Nat
           /\ Out \in Nat
  <1>1. IsFiniteSet(Running)
    BY LocalAssumption, FS_Subset DEF Running
  <1> QED
    BY <1>1, FS_CardinalityType DEF LocalTypeOK, Out

\* A step that starts nobody does not raise the count of running scans.
LEMMA NobodyStarts ==
    ASSUME LocalTypeOK, LocalTypeOK',
           \A j \in Jobs : row'[j].status = "running" => row[j].status = "running"
    PROVE  Cardinality(Running') <= Cardinality(Running)
  <1>1. Running' \subseteq Running
    BY DEF Running
  <1> QED
    BY <1>1, RunningCount, FS_Subset DEF Running

\* Every step keeps the slots within the ceiling, the reserved one included.
LEMMA SlotStep ==
    ASSUME LocalTypeOK, LocalTypeOK', SlotInv, [LocalNext]_localVars
    PROVE  SlotInv'
  <1> DEFINE NoStart == \A j \in Jobs : row'[j].status = "running" => row[j].status = "running"
  <1> DEFINE NoHold  == \A j \in Jobs : thread'[j].stage = "held" => thread[j].stage = "held"
  <1>c. /\ Out \in Nat /\ Out' \in Nat /\ MaxScans \in Nat
        /\ Cardinality(Running) \in Nat /\ Cardinality(Running') \in Nat
        /\ remote \in Nat /\ remote' \in Nat
    <2>1. (Out \in Nat /\ Cardinality(Running) \in Nat)'
      BY RunningCount, PTL
    <2> QED
      BY <2>1, RunningCount, Lengths
      DEF LocalTypeOK
  <1>t. /\ row \in [Jobs -> Rows] /\ thread \in [Jobs -> Threads] /\ free \in BOOLEAN
        /\ lock \in Jobs \cup {Free, Sensor}
        /\ Free \notin Jobs /\ Sensor \notin Jobs /\ Free # Sensor
    BY LocalAssumption DEF LocalTypeOK
  <1>r. /\ Reserved \in Nat /\ Reserved <= 1
        /\ Reserved' \in Nat /\ Reserved' <= 1
    BY DEF Reserved
  <1>o. Out = Cardinality(Running) + remote /\ Out' = Cardinality(Running') + remote'
    BY DEF Out
  <1>q. ASSUME NoStart, NoHold, lock' = lock, free' = free, remote' <= remote
        PROVE  SlotInv'
    <2>1. Cardinality(Running') <= Cardinality(Running)
      BY <1>q, NobodyStarts
    <2>2. Reserved' = Reserved
      BY <1>q DEF Reserved
    <2> QED
      BY <1>q, <2>1, <2>2, <1>c, <1>r, <1>o DEF SlotInv
  <1>u. ASSUME NEW j \in Jobs, NoStart, NoHold, thread'[j].stage # "held", Unlock(j),
               remote' = remote
        PROVE  SlotInv'
    <2>1. Cardinality(Running') <= Cardinality(Running)
      BY <1>u, NobodyStarts
    <2>2. Reserved' <= Reserved
      BY <1>u DEF Reserved, Unlock
    <2>3. \A k \in Jobs : thread'[k].stage = "held" => lock' = k
      BY <1>u DEF SlotInv, Unlock
    <2>4. free' => lock' # Free
      BY <1>u DEF SlotInv, Unlock
    <2> QED
      BY <1>u, <2>1, <2>2, <2>3, <2>4, <1>c, <1>r, <1>o DEF SlotInv
  <1>1. ASSUME NEW j \in Jobs,
               Submit(j) \/ Cancel(j) \/ SetPriority(j) \/ WindowShuts(j) \/ WindowOpens(j)
        PROVE  SlotInv'
    <2>1. NoStart /\ NoHold
      BY <1>1, <1>t DEF Submit, Cancel, SetPriority, WindowShuts, WindowOpens, Rows, Threads
    <2>2. UNCHANGED <<lock, free, remote>>
      BY <1>1 DEF Submit, Cancel, SetPriority, WindowShuts, WindowOpens, queue
    <2> QED
      BY <2>1, <2>2, <1>q, <1>c
  <1>2. ASSUME NEW j \in Jobs,
               \/ LockIsBusy(j) \/ Renew(j) \/ RenewFails(j) \/ WriteOutcome(j)
               \/ OutcomeRefused(j) \/ ScannerOpensRun(j) \/ ScanEnds(j) \/ ScanRaises(j)
               \/ FallsBehind(j) \/ Reap(j)
        PROVE  SlotInv'
    <2>1. CASE LockIsBusy(j) \/ Renew(j) \/ RenewFails(j) \/ WriteOutcome(j)
      <3>1. NoStart
        <4>1. CASE LockIsBusy(j) \/ RenewFails(j)
          BY <4>1, <1>t DEF LockIsBusy, RenewFails, Rows
        <4>2. CASE Renew(j)
          BY <4>2, <1>t DEF Renew, Rows
        <4>3. CASE WriteOutcome(j)
          <5>1. PICK s \in Outcomes(j) :
                  row' = [row EXCEPT ![j].status = s, ![j].mark = NoMark]
            BY <4>3 DEF WriteOutcome
          <5>2. s # "running"
            BY <5>1 DEF Outcomes
          <5> QED
            BY <5>1, <5>2, <1>t DEF Rows
        <4> QED
          BY <2>1, <4>1, <4>2, <4>3
      <3>2. NoHold
        BY <2>1, <1>t DEF LockIsBusy, Renew, RenewFails, WriteOutcome, NoThread, Threads
      <3>3. UNCHANGED <<lock, free, remote>>
        BY <2>1 DEF LockIsBusy, Renew, RenewFails, WriteOutcome, queue
      <3> QED
        BY <3>1, <3>2, <3>3, <1>q, <1>c
    <2>2. CASE OutcomeRefused(j) \/ ScannerOpensRun(j) \/ ScanEnds(j) \/ ScanRaises(j)
      <3>1. NoStart
        BY <2>2, <1>t DEF OutcomeRefused, ScannerOpensRun, ScanEnds, ScanRaises, Rows
      <3>2. NoHold
        BY <2>2, <1>t DEF OutcomeRefused, ScannerOpensRun, ScanEnds, ScanRaises, NoThread,
                          Threads
      <3>3. UNCHANGED <<lock, free, remote>>
        BY <2>2 DEF OutcomeRefused, ScannerOpensRun, ScanEnds, ScanRaises, queue
      <3> QED
        BY <3>1, <3>2, <3>3, <1>q, <1>c
    <2>3. CASE FallsBehind(j) \/ Reap(j)
      <3>1. NoStart /\ NoHold
        BY <2>3, <1>t DEF FallsBehind, Reap, Rows, Threads
      <3>2. UNCHANGED <<lock, free, remote>>
        BY <2>3 DEF FallsBehind, Reap, queue
      <3> QED
        BY <3>1, <3>2, <1>q, <1>c
    <2> QED
      BY <1>2, <2>1, <2>2, <2>3
  <1>3. ASSUME NEW j \in Jobs, KeepWaiting(j) \/ NotStarted(j) \/ AskFails(j) \/ ThreadDies(j)
        PROVE  SlotInv'
    <2>1. NoStart
      BY <1>3, <1>t DEF KeepWaiting, NotStarted, AskFails, ThreadDies, Rows
    <2>2. NoHold /\ thread'[j].stage # "held"
      BY <1>3, <1>t DEF KeepWaiting, NotStarted, AskFails, ThreadDies, Killed, NoThread, Threads
    <2>3. Unlock(j) /\ remote' = remote
      BY <1>3 DEF KeepWaiting, NotStarted, AskFails, ThreadDies
    <2> QED
      BY <2>1, <2>2, <2>3, <1>u
  <1>4. ASSUME NEW j \in Jobs, HoldSlot(j) PROVE SlotInv'
    <2>1. lock = Free /\ lock' = j /\ free' = (Out < MaxScans) /\ remote' = remote
      BY <1>4 DEF HoldSlot, MayHold
    <2>2. Running' = Running
      BY <1>4 DEF HoldSlot, Running
    <2>3. \A k \in Jobs : thread[k].stage # "held"
      BY <2>1, <1>t DEF SlotInv
    <2>4. \A k \in Jobs : thread'[k].stage = "held" => k = j
      BY <1>4, <2>3, <1>t DEF HoldSlot
    <2>5. Out' = Out /\ Out <= MaxScans
      BY <2>1, <2>2, <1>o, <1>c, <1>r DEF SlotInv
    <2>6. Out' + Reserved' <= MaxScans
      <3>1. CASE Out < MaxScans
        <4>1. Out' < MaxScans
          BY <3>1, <2>5, Zenon
        <4>2. Reserved' = 0 \/ Reserved' = 1
          BY DEF Reserved
        <4>3. Out' + 0 <= MaxScans /\ Out' + 1 <= MaxScans
          BY <4>1, <1>c, <1>o
        <4> QED
          BY <4>2, <4>3
      <3>2. CASE ~(Out < MaxScans)
        <4>1. ~free'
          BY <2>1, <3>2, Zenon
        <4>2. Reserved' = 0
          BY <4>1 DEF Reserved
        <4> QED
          BY <4>2, <2>5, <1>c
      <3> QED
        BY <3>1, <3>2
    <2> QED
      BY <2>1, <2>4, <2>6, <1>t DEF SlotInv
  <1>5. ASSUME NEW j \in Jobs, StartScan(j) PROVE SlotInv'
    <2>1. lock = j /\ free /\ lock' = Free /\ free' = FALSE /\ remote' = remote
      BY <1>5 DEF StartScan, Unlock, SlotInv
    <2>2. Running' = Running \cup {j} /\ j \notin Running
      BY <1>5, <1>t DEF StartScan, Running, Rows
    <2>3. Cardinality(Running') = Cardinality(Running) + 1
      BY <2>2, RunningCount, FS_AddElement
    <2>4. \A k \in Jobs : thread'[k].stage # "held"
      BY <1>5, <2>1, <1>t DEF StartScan, SlotInv, Threads
    <2>5. Out' + Reserved' <= MaxScans
      BY <2>1, <2>3, <1>o, <1>c DEF SlotInv, Reserved
    <2> QED
      BY <2>1, <2>4, <2>5 DEF SlotInv
  <1>6. ASSUME NEW p \in pubs, MoveRun(p) PROVE SlotInv'
    BY <1>6, <1>q, <1>c DEF MoveRun, queue
  <1>7. ASSUME NEW r \in Replicas, ReplicaDies(r) PROVE SlotInv'
    <2>1. NoStart /\ remote' = remote
      BY <1>7 DEF ReplicaDies
    <2>2. Cardinality(Running') <= Cardinality(Running)
      BY <2>1, NobodyStarts
    <2>3. \A k \in Jobs : thread'[k].stage = "held" =>
                             thread[k].stage = "held" /\ OwnerOf[k] # r
      BY <1>7, <1>t DEF ReplicaDies, Killed, NoThread
    <2>4. \A k \in Jobs : thread'[k].stage = "held" => lock' = k
      BY <1>7, <2>3 DEF ReplicaDies, SlotInv
    <2>5. (free' => lock' # Free) /\ (free' => free)
      BY <1>7, <1>t DEF ReplicaDies, SlotInv
    <2>6. Reserved' <= Reserved
      BY <2>5 DEF Reserved
    <2> QED
      BY <2>1, <2>2, <2>4, <2>5, <2>6, <1>c, <1>r, <1>o DEF SlotInv
  <1>8. ASSUME NEW r \in Replicas, ReplicaReturns(r) PROVE SlotInv'
    <2>1. NoStart /\ NoHold /\ UNCHANGED <<lock, free, remote>>
      BY <1>8, <1>t DEF ReplicaReturns, queue, Rows
    <2> QED
      BY <2>1, <1>q, <1>c
  <1>9. CASE SensorAsks
    <2>1. lock = Free /\ lock' = Sensor /\ free' = (Out < MaxScans) /\ remote' = remote
      BY <1>9 DEF SensorAsks, MayHold
    <2>2. Running' = Running /\ thread' = thread
      BY <1>9 DEF SensorAsks, Running
    <2>3. \A k \in Jobs : thread'[k].stage # "held"
      BY <2>1, <2>2, <1>t DEF SlotInv
    <2>4. Out' = Out /\ Out <= MaxScans
      BY <2>1, <2>2, <1>o, <1>c, <1>r DEF SlotInv
    <2>5. Out' + Reserved' <= MaxScans
      <3>1. CASE Out < MaxScans
        <4>1. Out' < MaxScans
          BY <3>1, <2>4, Zenon
        <4>2. Reserved' = 0 \/ Reserved' = 1
          BY DEF Reserved
        <4>3. Out' + 0 <= MaxScans /\ Out' + 1 <= MaxScans
          BY <4>1, <1>c, <1>o
        <4> QED
          BY <4>2, <4>3
      <3>2. CASE ~(Out < MaxScans)
        <4>1. ~free'
          BY <2>1, <3>2, Zenon
        <4>2. Reserved' = 0
          BY <4>1 DEF Reserved
        <4> QED
          BY <4>2, <2>4, <1>c
      <3> QED
        BY <3>1, <3>2
    <2> QED
      BY <2>1, <2>3, <2>5, <1>t DEF SlotInv
  <1>10. CASE SensorAnswered
    <2>1. /\ lock = Sensor /\ lock' = Free /\ free' = FALSE
          /\ remote' = remote + Reserved
      BY <1>10, <1>c DEF SensorAnswered, Reserved
    <2>2. Running' = Running /\ thread' = thread
      BY <1>10 DEF SensorAnswered, Running
    <2>3. \A k \in Jobs : thread'[k].stage # "held"
      BY <2>1, <2>2, <1>t DEF SlotInv
    <2>4. Reserved' = 0
      BY <2>1 DEF Reserved
    <2>5. Out' + Reserved' <= MaxScans
      BY <2>1, <2>2, <2>4, <1>o, <1>c, <1>r DEF SlotInv
    <2> QED
      BY <2>1, <2>3, <2>5 DEF SlotInv
  <1>11. CASE SensorEnds
    BY <1>11, <1>q, <1>c DEF SensorEnds
  <1>12. CASE Clock
    <2>1. NoStart /\ NoHold /\ UNCHANGED <<lock, free, remote>>
      BY <1>12, <1>t DEF Clock, queue, Rows, Threads
    <2> QED
      BY <2>1, <1>q, <1>c
  <1>13. CASE UNCHANGED localVars
    BY <1>13, <1>q, <1>c DEF localVars
  <1> QED
    BY <1>1, <1>2, <1>3, <1>4, <1>5, <1>6, <1>7, <1>8, <1>9, <1>10, <1>11, <1>12, <1>13
    DEF LocalNext, ThreadStep, ScannerStep, SensorStep

\* The ceiling holds over local and remote scans together, however many
\* threads, replicas and sensors ask at once.
THEOREM CeilingHolds == LocalSpec => []LocalCeiling
  <1>1. LocalInit => SlotInv
    <2> SUFFICES ASSUME LocalInit
                 PROVE  SlotInv
      OBVIOUS
    <2>1. Running = {}
      BY DEF LocalInit, Running
    <2>2. Out = 0
      BY <2>1, FS_EmptySet DEF LocalInit, Out
    <2> QED
      BY <2>2, Lengths
      DEF LocalInit, SlotInv, NoThread, Reserved
  <1>2. LocalTypeOK /\ LocalTypeOK' /\ SlotInv /\ [LocalNext]_localVars => SlotInv'
    BY SlotStep
  <1>3. LocalTypeOK /\ SlotInv => LocalCeiling
    BY RunningCount, Lengths
      DEF SlotInv, LocalCeiling, Reserved
  <1> QED
    BY <1>1, <1>2, <1>3, LocalTypeCorrect, PTL DEF LocalSpec
=============================================================================
