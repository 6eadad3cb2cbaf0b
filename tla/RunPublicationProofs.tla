------------------------ MODULE RunPublicationProofs ------------------------
(* Theorems about RunPublication for every tree, every set of replicas,     *)
(* every setting of the leases and budgets and every number of claims.      *)
EXTENDS RunPublication, TLAPS

-----------------------------------------------------------------------------
(* Type correctness. *)

\* What the helpers on the row and on the attempts return (_hold, _snapshot,
\* _renew and the clock).
LEMMA HelpersType ==
    ASSUME TypeOK
    PROVE  /\ hold(row) \in Rows
           /\ Renewed \in Rows
           /\ Aged(row) \in Rows
           /\ \A r \in Replicas, b \in BOOLEAN : Snapshot(hold(row), r, b) \in Attempts
           /\ \A a \in Attempts : [a EXCEPT !.touched = Down(@)] \in Attempts
  <1> USE PublicationAssumption DEF TypeOK
  <1>1. hold(row) \in Rows
    <2> DEFINE base == IF row.claims < row.claims_base THEN 0 ELSE row.claims_base
    <2>1. base \in Nat /\ row.claims + 1 \in Nat /\ row.fence + 1 \in Nat
      BY DEF Rows
    <2>2. Horizon \in Timer
      BY DEF Timer
    <2> HIDE DEF base
    <2>3. [row EXCEPT !.due = Horizon, !.claims_base = base,
                      !.claims = @ + 1, !.fence = @ + 1] \in Rows
      BY <2>1, <2>2 DEF Rows
    <2> QED
      BY <2>3 DEF hold, base
  <1>2. Renewed \in Rows
    BY DEF Renewed, Rows, Timer
  <1>3. ASSUME NEW t \in Timer
        PROVE  Down(t) \in Timer
    BY DEF Down, Timer, NULL
  <1>4. Aged(row) \in Rows
    BY <1>3 DEF Aged, Rows
  <1>5. ASSUME NEW r \in Replicas, NEW b \in BOOLEAN
        PROVE  Snapshot(hold(row), r, b) \in Attempts
    BY <1>1 DEF Snapshot, Attempts, Rows, Reasons
  <1>6. ASSUME NEW a \in Attempts
        PROVE  [a EXCEPT !.touched = Down(@)] \in Attempts
    BY <1>3 DEF Attempts
  <1> QED
    BY <1>1, <1>2, <1>4, <1>5, <1>6

\* An attempt that moves on is still one (To, FailedWith).
LEMMA MovesType ==
    ASSUME TypeOK, NEW a \in live
    PROVE  /\ \A p \in Leased \cup {"claimed", "begin", "close", "failed"} :
                 To(a, p) \subseteq Attempts
           /\ \A r \in Reasons : FailedWith(a, r) \subseteq Attempts
  <1>1. a \in Attempts
    BY DEF TypeOK
  <1>2. ASSUME NEW p \in Leased \cup {"claimed", "begin", "close", "failed"}
        PROVE  [a EXCEPT !.phase = p] \in Attempts
    BY <1>1 DEF Attempts
  <1>3. ASSUME NEW r \in Reasons
        PROVE  [a EXCEPT !.phase = "failed", !.reason = r] \in Attempts
    BY <1>1 DEF Attempts
  <1> QED
    BY <1>2, <1>3 DEF To, FailedWith, TypeOK

\* Every step of an attempt keeps the types (GiveBack to RecordFailure).
LEMMA TypeWork ==
    ASSUME TypeOK, NEW a \in live, Work(a)
    PROVE  TypeOK'
  <1> USE PublicationAssumption DEF TypeOK, disk
  <1>a. a \in Attempts
    OBVIOUS
  <1>t. /\ \A p \in Leased \cup {"claimed", "begin", "close", "failed"} :
              To(a, p) \subseteq Attempts
        /\ \A r \in Reasons : FailedWith(a, r) \subseteq Attempts
    BY MovesType
  <1>1. CASE GiveBack(a)
    <2>1. Adoption \in Timer /\ row.claims_base + 1 \in Nat
      BY DEF Timer, Rows
    <2>2. [row EXCEPT !.due = Adoption, !.claims_base = @ + 1] \in Rows
      BY <2>1 DEF Rows
    <2>3. row' \in Rows
      BY <1>1, <2>2 DEF GiveBack
    <2> QED
      BY <1>1, <2>3 DEF GiveBack
  <1>2. CASE Condemn(a)
    BY <1>2, <1>t DEF Condemn, Reasons
  <1>3. CASE Start(a)
    BY <1>3, <1>t DEF Start
  <1>4. CASE Begin(a)
    BY <1>4, <1>t, HelpersType DEF Begin, Leased
  <1>5. CASE Publish(a)
    BY <1>5, <1>t DEF Publish, Leased, Reasons
  <1>6. ASSUME NEW f \in Files, PutFile(a, f)
        PROVE  TypeOK'
    <2>1. [a EXCEPT !.written = @ \cup {f}] \in Attempts
      BY <1>a DEF Attempts
    <2> QED
      BY <1>6, <2>1 DEF PutFile
  <1>7. CASE UploadFails(a)
    BY <1>7, <1>t DEF UploadFails, Leased
  <1>8. CASE RollBack(a)
    BY <1>8, <1>t DEF RollBack, Leased, Reasons
  <1>9. CASE TakeBack(a)
    BY <1>9, <1>t DEF TakeBack, Reasons
  <1>10. CASE MarkStored(a)
    <2>1. row' \in Rows
      BY <1>10 DEF MarkStored, Rows, Timer
    <2> QED
      BY <1>10, <1>t, <2>1 DEF MarkStored, Leased
  <1>11. CASE Promote(a)
    BY <1>11, <1>t DEF Promote, Leased
  <1>12. CASE PublishToBus(a)
    <2>1. bus' \subseteq {"stream", "outbox"}
      BY <1>12 DEF PublishToBus
    <2> QED
      BY <1>12, <1>t, <2>1 DEF PublishToBus, Leased
  <1>13. CASE ArchiveGone(a)
    BY <1>13, <1>t DEF ArchiveGone, Reasons
  <1>14. CASE Project(a)
    <2>1. [row EXCEPT !.projected = TRUE] \in Rows
      BY DEF Rows
    <2>2. row' \in Rows
      BY <1>14, <2>1 DEF Project
    <2>3. feeds' \in Nat
      BY <1>14 DEF Project
    <2> QED
      BY <1>14, <1>t, <2>2, <2>3 DEF Project, Reasons
  <1>15. CASE FailAttempt(a)
    BY <1>15, <1>t DEF FailAttempt, Reasons
  <1>16. CASE RecordSuccess(a)
    <2>1. row' \in Rows
      BY <1>16 DEF RecordSuccess, Rows, Statuses
    <2>2. note' \in BOOLEAN
      BY <1>16 DEF RecordSuccess, NoteAfterSuccess
    <2>3. archive' \in BOOLEAN
      BY <1>16, Zenon DEF RecordSuccess
    <2> QED
      BY <1>16, <2>1, <2>2, <2>3 DEF RecordSuccess
  <1>17. CASE RecordFailure(a)
    <2> DEFINE failed == [row EXCEPT !.attempts = @ + 1, !.touched = Orphan,
                                     !.claims_base = row.claims, !.last_error = a.reason]
    <2>f. failed \in Rows
      <3>1. Orphan \in Timer
        BY DEF Timer
      <3>2. a.reason \in Reasons
        BY <1>a DEF Attempts
      <3>3. row.attempts + 1 \in Nat /\ row.claims \in Nat
        BY DEF Rows
      <3> QED
        BY <3>1, <3>2, <3>3 DEF Rows
    <2>d. Backoff \in Timer /\ NULL \in Timer /\ "dead" \in Statuses
      BY DEF Timer, Statuses
    <2>r. /\ [failed EXCEPT !.status = "dead", !.due = NULL] \in Rows
          /\ [failed EXCEPT !.due = Backoff] \in Rows
      <3> HIDE DEF failed
      <3> QED
        BY <2>f, <2>d DEF Rows
    <2>1. row' \in Rows
      BY <1>17, <2>r, Zenon DEF RecordFailure
    <2>2. note' \in BOOLEAN
      BY <1>17 DEF RecordFailure
    <2> QED
      BY <1>17, <2>1, <2>2 DEF RecordFailure
  <1> QED
    BY <1>1, <1>2, <1>3, <1>4, <1>5, <1>6, <1>7, <1>8, <1>9, <1>10, <1>11, <1>12,
       <1>13, <1>14, <1>15, <1>16, <1>17 DEF Work

\* Type correctness: whatever is claimed, refused, lost or killed, the row, the
\* attempts and the store keep their types (the whole of run_publisher).
THEOREM PublicationTypeCorrect == Spec => []TypeOK
  <1> USE PublicationAssumption
  <1>1. Init => TypeOK
    <2>1. NewRow \in Rows
      BY DEF NewRow, Rows, Statuses, Reasons, Timer, NULL
    <2> SUFFICES ASSUME Init
                 PROVE  TypeOK
      OBVIOUS
    <2>2. /\ live \subseteq Attempts
          /\ store \subseteq Files
          /\ bus \subseteq {"stream", "outbox"}
          /\ feeds \in Nat
          /\ requeues \in Nat
      BY SMT DEF Init
    <2>3. /\ note \in BOOLEAN
          /\ inline \in BOOLEAN
          /\ staging \in BOOLEAN
          /\ archive \in BOOLEAN
          /\ podGone \in BOOLEAN
      BY Zenon DEF Init
    <2> QED
      BY <2>1, <2>2, <2>3, Zenon DEF Init, TypeOK
  <1>2. TypeOK /\ [Next]_vars => TypeOK'
    <2> SUFFICES ASSUME TypeOK, [Next]_vars
                 PROVE  TypeOK'
      OBVIOUS
    <2> USE DEF TypeOK, disk
    <2>1. CASE PublishNow
      BY <2>1, HelpersType DEF PublishNow, ClaimBy
    <2>2. ASSUME NEW r \in Replicas, ClaimDue(r)
          PROVE  TypeOK'
      BY <2>2, HelpersType DEF ClaimDue, ClaimBy
    <2>3. ASSUME NEW a \in live, Work(a)
          PROVE  TypeOK'
      BY <2>3, TypeWork
    <2>4. ASSUME NEW a \in live, Renew(a)
          PROVE  TypeOK'
      BY <2>4, HelpersType DEF Renew
    <2>5. CASE Requeue
      <3>1. 0 \in Timer /\ Orphan \in Timer /\ "pending" \in Statuses
        BY DEF Timer, Statuses
      <3>2. row.fence + 1 \in Nat /\ row.claims \in Nat
        BY DEF Rows
      <3>3. [row EXCEPT !.status = "pending", !.attempts = 0,
                        !.claims_base = row.claims, !.fence = @ + 1,
                        !.due = 0, !.touched = Orphan] \in Rows
        BY <3>1, <3>2 DEF Rows
      <3> QED
        BY <2>5, <3>3 DEF Requeue
    <2>6. CASE Discard
      <3>1. row' \in Rows
        BY <2>6 DEF Discard, Rows, Statuses
      <3> QED
        BY <2>6, <3>1 DEF Discard
    <2>7. ASSUME NEW r \in Replicas, Crash(r)
          PROVE  TypeOK'
      <3>1. inline' \in BOOLEAN
        BY <2>7, Zenon DEF Crash
      <3> QED
        BY <2>7, <3>1 DEF Crash
    <2>8. CASE LosePod
      <3>1. staging' \in BOOLEAN /\ archive' \in BOOLEAN
        BY <2>8, Zenon DEF LosePod
      <3> QED
        BY <2>8, <3>1 DEF LosePod
    <2>9. CASE Tick
      BY <2>9, HelpersType DEF Tick
    <2>10. ASSUME NEW a \in live, LoseOutcome(a)
           PROVE  TypeOK'
      BY <2>10 DEF LoseOutcome
    <2>11. CASE UNCHANGED vars
      BY <2>11 DEF vars
    <2> QED
      BY <2>1, <2>2, <2>3, <2>4, <2>5, <2>6, <2>7, <2>8, <2>9, <2>10, <2>11 DEF Next
  <1> QED
    BY <1>1, <1>2, PTL DEF Spec

-----------------------------------------------------------------------------
(* The outcome of a run: fed once, announced, and the note on its job true,  *)
(* with any number of attempts at once.                                      *)

\* What holds of an attempt that is running: a failed one says why, one that is
\* past the bus has sent the message, one that is about to close the row has
\* the receipt of the projection.
AttemptOutcome(a) ==
    /\ a.phase = "failed" => a.reason # "none"
    /\ a.phase \in {"project", "close"} => bus # {}
    /\ a.phase = "close" => (Present => row.projected)

\* The inductive invariant behind FedExactlyOnce, NoteIsTrue and
\* PublishedReachedTheBus: the mark counts the feeds, and a job that is noted
\* as unpublished has a row with an error, so that the attempt that lands after
\* all finds a reason to clear the note.
OutcomeInv ==
    /\ feeds = IF row.projected THEN 1 ELSE 0
    /\ row.status = "published" => row.projected /\ bus # {} /\ ~note
    /\ row.status = "dead" => note
    /\ Present /\ note => row.last_error # "none"
    /\ \A a \in live : AttemptOutcome(a)

\* The members of the set of attempts after one of them moved on (To,
\* FailedWith).
LEMMA Movers ==
    ASSUME TypeOK, NEW a \in live, NEW b
    PROVE  /\ \A p : b \in To(a, p) =>
                 \/ b \in live
                 \/ /\ b.phase = p /\ b.reason = a.reason
                    /\ b.written = a.written /\ b.stored = a.stored
           /\ \A r : b \in FailedWith(a, r) =>
                 \/ b \in live
                 \/ b.phase = "failed" /\ b.reason = r /\ b.stored = a.stored
  <1>1. a \in Attempts
    BY DEF TypeOK
  <1> QED
    BY <1>1 DEF To, FailedWith, Attempts

\* A step that leaves the outcome alone: the note, the bus, the feeds and the
\* three columns of the row that OutcomeInv reads.
LEMMA QuietOutcome ==
    ASSUME OutcomeInv,
           UNCHANGED <<note, bus, feeds>>,
           row'.status = row.status,
           row'.projected = row.projected,
           row'.last_error = row.last_error,
           \A b \in live' : AttemptOutcome(b)
    PROVE  OutcomeInv'
  BY DEF OutcomeInv, AttemptOutcome, Present

\* What the helpers leave alone in the row (_hold, _renew and the clock).
LEMMA HelpersKeep ==
    ASSUME TypeOK
    PROVE  \A r \in {hold(row), Renewed, Aged(row)} :
              /\ r.status = row.status
              /\ r.projected = row.projected
              /\ r.last_error = row.last_error
              /\ r.stored = row.stored
  <1>1. row \in Rows
    BY DEF TypeOK
  <1>2. /\ hold(row).status = row.status
        /\ hold(row).projected = row.projected
        /\ hold(row).last_error = row.last_error
        /\ hold(row).stored = row.stored
    BY <1>1 DEF hold, Rows
  <1>3. /\ Renewed.status = row.status
        /\ Renewed.projected = row.projected
        /\ Renewed.last_error = row.last_error
        /\ Renewed.stored = row.stored
    BY <1>1 DEF Renewed, Rows
  <1>4. /\ Aged(row).status = row.status
        /\ Aged(row).projected = row.projected
        /\ Aged(row).last_error = row.last_error
        /\ Aged(row).stored = row.stored
    BY <1>1 DEF Aged, Rows
  <1> QED
    BY <1>2, <1>3, <1>4

\* A step that only moves its attempt on, or ends it, leaves the outcome alone
\* (the steps of an attempt before the bus, and its failures).
LEMMA OutcomeMove ==
    ASSUME TypeOK, OutcomeInv, NEW a \in live,
           UNCHANGED <<note, bus, feeds>>,
           row'.status = row.status,
           row'.projected = row.projected,
           row'.last_error = row.last_error,
           \/ live' = live \ {a}
           \/ \E p \in {"begin", "publish", "uploading", "rollback", "takeback",
                        "promote", "bus"} : live' = To(a, p)
           \/ \E r \in Reasons \ {"none"} : live' = FailedWith(a, r)
    PROVE  OutcomeInv'
  <1>1. ASSUME NEW b \in live
        PROVE  AttemptOutcome(b)
    BY DEF OutcomeInv
  <1>2. ASSUME NEW b \in live'
        PROVE  AttemptOutcome(b)
    <2>1. CASE b \in live
      BY <1>1, <2>1
    <2>2. CASE b \notin live
      BY <2>2, Movers DEF AttemptOutcome
    <2> QED
      BY <2>1, <2>2
  <1> QED
    BY <1>2, QuietOutcome

\* Every step of an attempt keeps OutcomeInv.
LEMMA OutcomeWork ==
    ASSUME TypeOK, OutcomeInv, NEW a \in live, Work(a)
    PROVE  OutcomeInv'
  <1>a. a \in Attempts /\ row \in Rows
    BY DEF TypeOK
  <1>1. CASE GiveBack(a)
    <2>1. /\ row'.status = row.status
          /\ row'.projected = row.projected
          /\ row'.last_error = row.last_error
      BY <1>1, <1>a DEF GiveBack, Rows
    <2> QED
      BY <1>1, <2>1, OutcomeMove DEF GiveBack, disk
  <1>2. CASE Condemn(a)
    BY <1>2, OutcomeMove DEF Condemn, disk, Reasons
  <1>3. CASE Start(a)
    BY <1>3, OutcomeMove DEF Start, disk
  <1>4. CASE Begin(a)
    BY <1>4, OutcomeMove, HelpersKeep DEF Begin, disk
  <1>5. CASE Publish(a)
    BY <1>5, OutcomeMove DEF Publish, disk, Reasons
  <1>6. ASSUME NEW f \in Files, PutFile(a, f)
        PROVE  OutcomeInv'
    <2>1. ASSUME NEW b \in live'
          PROVE  AttemptOutcome(b)
      BY <1>6, <1>a, <2>1 DEF PutFile, OutcomeInv, AttemptOutcome, Attempts
    <2> QED
      BY <1>6, <2>1, QuietOutcome DEF PutFile
  <1>7. CASE UploadFails(a)
    BY <1>7, OutcomeMove DEF UploadFails
  <1>8. CASE RollBack(a)
    BY <1>8, OutcomeMove DEF RollBack, disk, Reasons
  <1>9. CASE TakeBack(a)
    BY <1>9, OutcomeMove DEF TakeBack, Reasons
  <1>10. CASE MarkStored(a)
    <2>1. /\ row'.status = row.status
          /\ row'.projected = row.projected
          /\ row'.last_error = row.last_error
      BY <1>10, <1>a DEF MarkStored, Rows
    <2> QED
      BY <1>10, <2>1, OutcomeMove DEF MarkStored, disk
  <1>11. CASE Promote(a)
    BY <1>11, OutcomeMove DEF Promote
  <1>12. CASE PublishToBus(a)
    <2>1. bus' # {}
      BY <1>12 DEF PublishToBus
    <2>2. ASSUME NEW b \in live'
          PROVE  AttemptOutcome(b)'
      BY <1>12, <2>1, <2>2, Movers DEF PublishToBus, OutcomeInv, AttemptOutcome, Present
    <2> QED
      BY <1>12, <2>1, <2>2 DEF PublishToBus, OutcomeInv, Present
  <1>13. CASE ArchiveGone(a)
    BY <1>13, OutcomeMove DEF ArchiveGone, disk, Reasons
  <1>14. CASE Project(a)
    <2>1. /\ row'.status = row.status
          /\ row'.last_error = row.last_error
          /\ row.projected => row'.projected
          /\ Present => row'.projected
          /\ feeds' = IF row'.projected THEN 1 ELSE 0
      <3>1. CASE FirstPass
        BY <1>14, <1>a, <3>1 DEF Project, FirstPass, OutcomeInv, Rows
      <3>2. CASE ~FirstPass
        BY <1>14, <1>a, <3>2 DEF Project, FirstPass, OutcomeInv, Rows
      <3> QED
        BY <3>1, <3>2
    <2>2. ASSUME NEW b \in live'
          PROVE  AttemptOutcome(b)'
      <3>1. CASE b \in live
        BY <1>14, <2>1, <3>1 DEF Project, OutcomeInv, AttemptOutcome, Present, disk
      <3>2. CASE b \notin live
        BY <1>14, <2>1, <2>2, <3>2, Movers DEF Project, OutcomeInv, AttemptOutcome, Present, disk
      <3> QED
        BY <3>1, <3>2
    <2> QED
      BY <1>14, <2>1, <2>2 DEF Project, OutcomeInv, Present, disk
  <1>15. CASE FailAttempt(a)
    BY <1>15, OutcomeMove DEF FailAttempt, disk, Reasons
  <1>16. CASE RecordSuccess(a)
    <2>1. CASE ~Present
      BY <1>16, <2>1, OutcomeMove DEF RecordSuccess
    <2>2. CASE Present
      <3>1. /\ row'.status = "published"
            /\ row'.projected = row.projected
            /\ row'.last_error = row.last_error
        BY <1>16, <1>a, <2>2 DEF RecordSuccess, Rows
      <3>2. ~note'
        BY <1>16, <2>2, <1>a DEF RecordSuccess, NoteAfterSuccess, OutcomeInv, TypeOK
      <3>3. row.projected /\ bus # {}
        BY <1>16, <2>2 DEF RecordSuccess, OutcomeInv, AttemptOutcome
      <3> QED
        BY <1>16, <3>1, <3>2, <3>3
        DEF RecordSuccess, OutcomeInv, AttemptOutcome, Present
    <2> QED
      BY <2>1, <2>2
  <1>17. CASE RecordFailure(a)
    <2>1. CASE ~Present
      BY <1>17, <2>1, OutcomeMove DEF RecordFailure, disk
    <2>2. CASE Present
      <3>1. a.reason # "none"
        BY <1>17 DEF RecordFailure, OutcomeInv, AttemptOutcome
      <3>2. /\ row'.projected = row.projected
            /\ row'.last_error = a.reason
        BY <1>17, <1>a, <2>2 DEF RecordFailure, Rows
      <3>3. \/ row'.status = "dead" /\ note'
            \/ row'.status = row.status /\ note' = note
        BY <1>17, <1>a, <2>2 DEF RecordFailure, Rows
      <3> QED
        BY <1>17, <2>2, <3>1, <3>2, <3>3
        DEF RecordFailure, OutcomeInv, AttemptOutcome, Present, disk
    <2> QED
      BY <2>1, <2>2
  <1> QED
    BY <1>1, <1>2, <1>3, <1>4, <1>5, <1>6, <1>7, <1>8, <1>9, <1>10, <1>11, <1>12,
       <1>13, <1>14, <1>15, <1>16, <1>17 DEF Work

\* Every step keeps OutcomeInv, however many attempts there are.
LEMMA OutcomeStep ==
    ASSUME TypeOK, OutcomeInv, [Next]_vars
    PROVE  OutcomeInv'
  <1>h. /\ row \in Rows
        /\ \A r \in {hold(row), Renewed, Aged(row)} :
              /\ r.status = row.status
              /\ r.projected = row.projected
              /\ r.last_error = row.last_error
    BY HelpersKeep DEF TypeOK
  <1>a. \A b \in live : AttemptOutcome(b)
    BY DEF OutcomeInv
  <1>s. \A r, q : AttemptOutcome(Snapshot(hold(row), r, q))
    BY DEF AttemptOutcome, Snapshot
  <1>1. CASE PublishNow
    <2>1. CASE UNCHANGED <<row, live>>
      BY <1>1, <1>a, <2>1, QuietOutcome DEF PublishNow, disk
    <2>2. CASE ClaimBy(Owner, TRUE)
      BY <1>1, <1>a, <1>h, <1>s, <2>2, QuietOutcome DEF PublishNow, ClaimBy, disk
    <2> QED
      BY <1>1, <2>1, <2>2 DEF PublishNow
  <1>2. ASSUME NEW r \in Replicas, ClaimDue(r)
        PROVE  OutcomeInv'
    BY <1>2, <1>a, <1>h, <1>s, QuietOutcome DEF ClaimDue, ClaimBy, disk
  <1>3. ASSUME NEW a \in live, Work(a)
        PROVE  OutcomeInv'
    BY <1>3, OutcomeWork
  <1>4. ASSUME NEW a \in live, Renew(a)
        PROVE  OutcomeInv'
    BY <1>4, <1>a, <1>h, QuietOutcome DEF Renew, disk
  <1>5. CASE Requeue
    <2>1. /\ row.status = "dead"
          /\ row'.status = "pending"
          /\ row'.projected = row.projected
          /\ row'.last_error = row.last_error
      BY <1>5, <1>h DEF Requeue, Decidable, Rows
    <2> QED
      BY <1>5, <2>1 DEF Requeue, OutcomeInv, AttemptOutcome, Present, disk
  <1>6. CASE Discard
    <2>1. /\ row'.status = "discarded"
          /\ row'.projected = row.projected
      BY <1>6, <1>h DEF Discard, Rows
    <2> QED
      BY <1>6, <2>1 DEF Discard, OutcomeInv, AttemptOutcome, Present, disk
  <1>7. ASSUME NEW r \in Replicas, Crash(r)
        PROVE  OutcomeInv'
    BY <1>7, <1>a, QuietOutcome DEF Crash, disk
  <1>8. CASE LosePod
    BY <1>8, <1>a, QuietOutcome DEF LosePod
  <1>9. CASE Tick
    <2>1. ASSUME NEW b \in live'
          PROVE  AttemptOutcome(b)
      <3>1. PICK a \in live : b = [a EXCEPT !.touched = Down(@)]
        BY <1>9 DEF Tick
      <3>2. b.phase = a.phase /\ b.reason = a.reason
        BY <3>1 DEF TypeOK, Attempts
      <3> QED
        BY <1>a, <3>2 DEF AttemptOutcome
    <2> QED
      BY <1>9, <1>h, <2>1, QuietOutcome DEF Tick, disk
  <1>10. ASSUME NEW a \in live, LoseOutcome(a)
         PROVE  OutcomeInv'
    BY <1>10, <1>a, QuietOutcome DEF LoseOutcome, disk
  <1>11. CASE UNCHANGED vars
    BY <1>11, <1>a, QuietOutcome DEF vars
  <1> QED
    BY <1>1, <1>2, <1>3, <1>4, <1>5, <1>6, <1>7, <1>8, <1>9, <1>10, <1>11 DEF Next

\* The inductive invariant holds in every reachable state.
THEOREM OutcomeInvariant == Spec => []OutcomeInv
  <1>1. Init => OutcomeInv
    BY DEF Init, NewRow, OutcomeInv
  <1>2. TypeOK /\ OutcomeInv /\ [Next]_vars => OutcomeInv'
    BY OutcomeStep
  <1> QED
    BY <1>1, <1>2, PublicationTypeCorrect, PTL DEF Spec

\* However many attempts are running, wherever a replica dies and whatever the
\* operator requeues, the derived state is fed from one publication at most
\* once, and before the row is closed as published (_project, first_pass).
THEOREM RunIsFedExactlyOnce == Spec => []FedExactlyOnce
  <1>1. OutcomeInv => FedExactlyOnce
    BY DEF OutcomeInv, FedExactlyOnce
  <1> QED
    BY <1>1, OutcomeInvariant, PTL

\* The note on the job is there while the row is dead and gone once the run is
\* published, with attempts that fail and land in any order (_record_success,
\* _record_failure).
THEOREM NoteIsAlwaysTrue == Spec => []NoteIsTrue
  <1>1. OutcomeInv => NoteIsTrue
    BY DEF OutcomeInv, NoteIsTrue
  <1> QED
    BY <1>1, OutcomeInvariant, PTL

\* No row is closed as published before its message is on the stream or in the
\* outbox (_publish_to_bus).
THEOREM PublishedIsOnTheBus == Spec => []PublishedReachedTheBus
  <1>1. OutcomeInv => PublishedReachedTheBus
    BY DEF OutcomeInv, PublishedReachedTheBus
  <1> QED
    BY <1>1, OutcomeInvariant, PTL

-----------------------------------------------------------------------------
(* A stored run is whole, when the lease keeps attempts apart.               *)

\* What holds of the attempt that is running: its keys are in the store until it
\* takes them back, nobody takes the tree it is sending away, it takes back only what nobody stored, and past the upload
\* its row is stamped.
AttemptWhole(a) ==
    /\ a.phase \in {"claimed", "begin", "publish", "uploading", "rollback", "takeback"}
          => a.written \subseteq store
    /\ a.phase = "uploading" => SeesStaging(a)
    /\ a.phase = "takeback" => ~row.stored
    /\ a.stored => row.stored
    /\ a.phase \in {"promote", "bus", "project", "close"} => (Present => row.stored)

\* The inductive invariant behind PublishedRunIsWhole.
WholeInv ==
    /\ \A a, b \in live : a = b
    /\ row.stored => store = Files
    /\ row.status = "published" => row.stored
    /\ \A a \in live : AttemptWhole(a)

\* A step that moves its attempt on and writes neither the stamp nor the store,
\* to a phase that asks nothing new of it, keeps WholeInv.
LEMMA WholeMove ==
    ASSUME TypeOK, WholeInv, NEW a \in live,
           UNCHANGED <<store, staging>>,
           row'.status = row.status,
           row'.stored = row.stored,
           \/ live' = live \ {a}
           \/ \E r : live' = FailedWith(a, r)
           \/ \E p : live' = To(a, p) /\ AttemptWhole([a EXCEPT !.phase = p])
    PROVE  WholeInv'
  <1>1. live = {a} /\ a \in Attempts
    BY DEF WholeInv, TypeOK
  <1>2. ASSUME NEW b \in live'
        PROVE  AttemptWhole(b)
    <2>1. CASE live' = live \ {a}
      BY <1>1, <1>2, <2>1
    <2>2. ASSUME NEW r, live' = FailedWith(a, r)
          PROVE  AttemptWhole(b)
      <3>1. b.phase = "failed" /\ b.stored = a.stored
        BY <1>1, <1>2, <2>2 DEF FailedWith, Attempts
      <3> QED
        BY <3>1 DEF AttemptWhole, WholeInv
    <2>3. ASSUME NEW p, live' = To(a, p), AttemptWhole([a EXCEPT !.phase = p])
          PROVE  AttemptWhole(b)
      BY <1>1, <1>2, <2>3 DEF To
    <2> QED
      BY <2>1, <2>2, <2>3
  <1>3. \A b, c \in live' : b = c
    BY <1>1 DEF FailedWith, To
  <1> QED
    BY <1>2, <1>3 DEF WholeInv, AttemptWhole, Present, SeesStaging

\* Every step of the attempt keeps WholeInv.
LEMMA WholeWork ==
    ASSUME TypeOK, WholeInv, NEW a \in live, Work(a)
    PROVE  WholeInv'
  <1>a. a \in Attempts /\ row \in Rows /\ store \subseteq Files /\ live = {a}
    BY DEF TypeOK, WholeInv
  <1>w. AttemptWhole(a)
    BY DEF WholeInv
  <1>p. ASSUME NEW p
        PROVE  /\ [a EXCEPT !.phase = p].phase = p
               /\ [a EXCEPT !.phase = p].written = a.written
               /\ [a EXCEPT !.phase = p].stored = a.stored
               /\ [a EXCEPT !.phase = p].replica = a.replica
    BY <1>a DEF Attempts
  <1>1. CASE GiveBack(a)
    <2>1. row'.status = row.status /\ row'.stored = row.stored
      BY <1>1, <1>a DEF GiveBack, Rows
    <2> QED
      BY <1>1, <2>1, WholeMove DEF GiveBack, disk
  <1>2. CASE Condemn(a)
    BY <1>2, WholeMove DEF Condemn, disk
  <1>3. CASE Start(a)
    <2>1. AttemptWhole([a EXCEPT !.phase = "begin"])
      BY <1>3, <1>w, <1>p DEF Start, AttemptWhole
    <2> QED
      BY <1>3, <2>1, WholeMove DEF Start, disk
  <1>4. CASE Begin(a)
    <2>1. AttemptWhole([a EXCEPT !.phase = "publish"])
      BY <1>4, <1>w, <1>p DEF Begin, AttemptWhole
    <2>2. row'.status = row.status /\ row'.stored = row.stored
      BY <1>4, HelpersKeep DEF Begin
    <2> QED
      BY <1>4, <2>1, <2>2, WholeMove DEF Begin, disk
  <1>5. CASE Publish(a)
    <2>1. SeesStaging(a) => AttemptWhole([a EXCEPT !.phase = "uploading"])
      BY <1>5, <1>w, <1>p DEF Publish, AttemptWhole, SeesStaging
    <2>2. TreeIsStored(a) => AttemptWhole([a EXCEPT !.phase = "bus"])
      BY <1>5, <1>w, <1>p DEF Publish, TreeIsStored, AttemptWhole
    <2> QED
      BY <1>5, <2>1, <2>2, WholeMove DEF Publish, disk
  <1>6. ASSUME NEW f \in Files, PutFile(a, f)
        PROVE  WholeInv'
    <2> DEFINE b == [a EXCEPT !.written = @ \cup {f}]
    <2>1. live' = {b}
      BY <1>6, <1>a DEF PutFile
    <2>2. /\ b.phase = "uploading" /\ b.written = a.written \cup {f}
          /\ b.stored = a.stored /\ b.replica = a.replica
      BY <1>6, <1>a DEF PutFile, Attempts
    <2>3. /\ row' = row /\ staging' = staging
          /\ store' = store \cup {f} /\ a.written \subseteq store
      BY <1>6, <1>w DEF PutFile, AttemptWhole
    <2> HIDE DEF b
    <2>4. AttemptWhole(b)'
      BY <1>6, <1>w, <2>2, <2>3 DEF AttemptWhole, PutFile, SeesStaging
    <2>5. row'.stored => store' = Files
      BY <2>3, <1>a DEF WholeInv
    <2> QED
      BY <2>1, <2>3, <2>4, <2>5 DEF WholeInv
  <1>7. CASE UploadFails(a)
    <2> DEFINE b == [a EXCEPT !.phase = "rollback"]
    <2>1. live' = {b}
      BY <1>7, <1>a DEF UploadFails, To
    <2>2. PICK landed \in SUBSET (Files \ a.written) : store' = store \cup landed
      BY <1>7 DEF UploadFails
    <2>3. row' = row /\ a.written \subseteq store
      BY <1>7, <1>w DEF UploadFails, AttemptWhole
    <2>4. AttemptWhole(b)'
      BY <1>w, <1>p, <2>2, <2>3 DEF AttemptWhole
    <2>5. row'.stored => store' = Files
      BY <2>2, <2>3, <1>a DEF WholeInv
    <2> HIDE DEF b
    <2> QED
      BY <2>1, <2>3, <2>4, <2>5 DEF WholeInv
  <1>8. CASE RollBack(a)
    <2>1. MayTakeBack(a) => AttemptWhole([a EXCEPT !.phase = "takeback"])
      BY <1>8, <1>w, <1>p DEF RollBack, MayTakeBack, AttemptWhole
    <2> QED
      BY <1>8, <2>1, WholeMove DEF RollBack, disk
  <1>9. CASE TakeBack(a)
    <2> DEFINE b == [a EXCEPT !.phase = "failed", !.reason = "refused"]
    <2>1. live' = {b}
      BY <1>9, <1>a DEF TakeBack, FailedWith
    <2>2. b.phase = "failed" /\ b.stored = a.stored
      BY <1>a DEF Attempts
    <2>3. row' = row /\ ~row.stored
      BY <1>9, <1>w DEF TakeBack, AttemptWhole
    <2> HIDE DEF b
    <2>4. AttemptWhole(b)'
      BY <1>w, <2>2, <2>3 DEF AttemptWhole
    <2> QED
      BY <2>1, <2>3, <2>4 DEF WholeInv
  <1>10. CASE MarkStored(a)
    <2> DEFINE b == [a EXCEPT !.phase = "promote"]
    <2>1. live' = {b}
      BY <1>10, <1>a DEF MarkStored, To
    <2>2. store = Files /\ store' = store
      BY <1>10, <1>a, <1>w DEF MarkStored, Uploaded, AttemptWhole, disk
    <2>3. /\ row'.status = row.status
          /\ row.stored => row'.stored
          /\ Present => row'.stored
      BY <1>10, <1>a DEF MarkStored, Rows
    <2>4. AttemptWhole(b)'
      BY <1>w, <1>p, <2>3 DEF AttemptWhole, Present
    <2> HIDE DEF b
    <2> QED
      BY <2>1, <2>2, <2>3, <2>4 DEF WholeInv
  <1>11. CASE Promote(a)
    <2> DEFINE b == [a EXCEPT !.phase = "bus"]
    <2>1. live' = {b} /\ row' = row /\ store' = store
      BY <1>11, <1>a DEF Promote, To
    <2>2. AttemptWhole(b)'
      BY <1>11, <1>w, <1>p, <2>1 DEF Promote, AttemptWhole, Present
    <2> HIDE DEF b
    <2> QED
      BY <2>1, <2>2 DEF WholeInv
  <1>12. CASE PublishToBus(a)
    <2>1. AttemptWhole([a EXCEPT !.phase = "project"])
      BY <1>12, <1>w, <1>p DEF PublishToBus, AttemptWhole
    <2> QED
      BY <1>12, <2>1, WholeMove DEF PublishToBus
  <1>13. CASE ArchiveGone(a)
    BY <1>13, WholeMove DEF ArchiveGone, disk
  <1>14. CASE Project(a)
    <2>1. AttemptWhole([a EXCEPT !.phase = "close"])
      BY <1>14, <1>w, <1>p DEF Project, AttemptWhole
    <2>2. row'.status = row.status /\ row'.stored = row.stored
      BY <1>14, <1>a DEF Project, Rows
    <2> QED
      BY <1>14, <2>1, <2>2, WholeMove DEF Project, disk
  <1>15. CASE FailAttempt(a)
    BY <1>15, WholeMove DEF FailAttempt, disk
  <1>16. CASE RecordSuccess(a)
    <2>1. Present => row.stored
      BY <1>16, <1>w DEF RecordSuccess, AttemptWhole
    <2>2. /\ row'.stored = row.stored
          /\ row'.status = row.status \/ Present
          /\ live' = {} /\ store' = store
      BY <1>16, <1>a DEF RecordSuccess, Rows
    <2> QED
      BY <2>1, <2>2 DEF WholeInv
  <1>17. CASE RecordFailure(a)
    <2>1. /\ row'.stored = row.stored
          /\ row'.status = row.status \/ row'.status = "dead"
          /\ live' = {} /\ store' = store
      BY <1>17, <1>a DEF RecordFailure, Rows, disk
    <2> QED
      BY <2>1 DEF WholeInv
  <1> QED
    BY <1>1, <1>2, <1>3, <1>4, <1>5, <1>6, <1>7, <1>8, <1>9, <1>10, <1>11, <1>12,
       <1>13, <1>14, <1>15, <1>16, <1>17 DEF Work

\* Every step keeps WholeInv while attempts do not overlap.
LEMMA WholeStep ==
    ASSUME Overlap = FALSE, TypeOK, WholeInv, [Next]_vars
    PROVE  WholeInv'
  <1>a. row \in Rows /\ live \subseteq Attempts
    BY DEF TypeOK
  <1>1. ASSUME NEW r \in Replicas, NEW q \in BOOLEAN, ClaimBy(r, q), UNCHANGED store
        PROVE  WholeInv'
    <2>b. PICK b : b = Snapshot(hold(row), r, q)
      OBVIOUS
    <2>1. live' = {b}
      BY <1>1, <2>b DEF ClaimBy
    <2>2. row'.status = row.status /\ row'.stored = row.stored
      BY <1>1, HelpersKeep DEF ClaimBy
    <2>3. /\ b.written = {}
          /\ b.phase \in {"begin", "claimed"}
          /\ b.stored = row.stored
      BY <2>b, HelpersKeep DEF Snapshot
    <2>4. AttemptWhole(b)'
      BY <2>2, <2>3 DEF AttemptWhole
    <2> QED
      BY <1>1, <2>1, <2>2, <2>4 DEF WholeInv
  <1>2. ASSUME UNCHANGED <<store, staging>>,
               row'.status = row.status,
               row'.stored = row.stored,
               live' \subseteq live
        PROVE  WholeInv'
    BY <1>2 DEF WholeInv, AttemptWhole, Present, SeesStaging
  <1>3. CASE PublishNow
    BY <1>1, <1>2, <1>3, PublicationAssumption DEF PublishNow, disk
  <1>4. ASSUME NEW r \in Replicas, ClaimDue(r)
        PROVE  WholeInv'
    BY <1>1, <1>4 DEF ClaimDue, disk
  <1>5. ASSUME NEW a \in live, Work(a)
        PROVE  WholeInv'
    BY <1>5, WholeWork
  <1>6. ASSUME NEW a \in live, Renew(a)
        PROVE  WholeInv'
    BY <1>2, <1>6, HelpersKeep DEF Renew, disk
  <1>7. CASE Requeue
    <2>1. /\ row'.status = "pending" /\ row.status = "dead"
          /\ row'.stored = row.stored
      BY <1>7, <1>a DEF Requeue, Decidable, Rows
    <2> QED
      BY <1>7, <2>1 DEF Requeue, WholeInv, AttemptWhole, Present, SeesStaging, disk
  <1>8. CASE Discard
    <2>1. row'.status = "discarded" /\ row'.stored = row.stored
      BY <1>8, <1>a DEF Discard, Rows
    <2> QED
      BY <1>8, <2>1 DEF Discard, WholeInv, AttemptWhole, Present, SeesStaging, disk
  <1>9. ASSUME NEW r \in Replicas, Crash(r)
        PROVE  WholeInv'
    BY <1>2, <1>9 DEF Crash, disk
  <1>10. CASE LosePod
    <2>1. /\ live' \subseteq live /\ row' = row /\ store' = store
          /\ \A b \in live' : b.replica # Owner
          /\ staging' = (staging /\ Shared)
      BY <1>10 DEF LosePod
    <2>2. ASSUME NEW b \in live'
          PROVE  AttemptWhole(b)'
      BY <2>1 DEF WholeInv, AttemptWhole, Present, SeesStaging, Reaches
    <2> QED
      BY <2>1, <2>2 DEF WholeInv
  <1>11. CASE Tick
    <2>1. row'.status = row.status /\ row'.stored = row.stored
      BY <1>11, HelpersKeep DEF Tick
    <2>2. ASSUME NEW b \in live'
          PROVE  AttemptWhole(b)
      <3>1. PICK a \in live : b = [a EXCEPT !.touched = Down(@)]
        BY <1>11 DEF Tick
      <3>2. /\ b.phase = a.phase /\ b.written = a.written
            /\ b.stored = a.stored /\ b.replica = a.replica
        BY <1>a, <3>1 DEF Attempts
      <3> QED
        BY <3>2 DEF WholeInv, AttemptWhole, SeesStaging
    <2>3. \A b, c \in live' : b = c
      BY <1>11 DEF Tick, WholeInv
    <2> QED
      BY <1>11, <2>1, <2>2, <2>3 DEF Tick, WholeInv, AttemptWhole, Present, SeesStaging, disk
  <1>12. ASSUME NEW a \in live, LoseOutcome(a)
         PROVE  WholeInv'
    BY <1>2, <1>12 DEF LoseOutcome, disk
  <1>13. CASE UNCHANGED vars
    BY <1>2, <1>13 DEF vars
  <1> QED
    BY <1>3, <1>4, <1>5, <1>6, <1>7, <1>8, <1>9, <1>10, <1>11, <1>12, <1>13 DEF Next

\* While the lease keeps attempts apart, a run that is marked as stored is in
\* the store with every one of its files, through every failure, crash and
\* requeue, and only such a run is closed as published (_mark_stored,
\* _roll_back_upload, _may_take_back).
THEOREM StoredRunIsWhole ==
    ASSUME Overlap = FALSE
    PROVE  Spec => []PublishedRunIsWhole
  <1>1. Init => WholeInv
    BY DEF Init, NewRow, WholeInv
  <1>2. TypeOK /\ WholeInv /\ [Next]_vars => WholeInv'
    BY WholeStep
  <1>3. WholeInv => PublishedRunIsWhole
    BY DEF WholeInv, PublishedRunIsWhole
  <1> QED
    BY <1>1, <1>2, <1>3, PublicationTypeCorrect, PTL DEF Spec
-----------------------------------------------------------------------------
(* The budget of claims. *)

\* The claims since the last outcome.
Unsettled == row.claims - row.claims_base

\* What may be left unsettled when no attempt is at its first question: the
\* budget, the claim publish_now takes without asking and the claim that was
\* lost with the pod.
Allowance == claim_budget + (IF inline THEN 0 ELSE 1) + (IF podGone THEN 1 ELSE 0)

AttemptClaims(a) ==
    /\ Present /\ a.phase \notin {"claimed", "failed"} => Unsettled <= Allowance
    /\ a.phase = "claimed" =>
          /\ row.status = "pending"
          /\ a.claims = row.claims
          /\ a.claims_base = row.claims_base
          /\ Unsettled >= 1

\* The inductive invariant behind ClaimsBounded: while attempts do not overlap,
\* the one that asks about the budget or hands its claim back has the numbers
\* of the row itself, and its own claim is among the ones it counts.
ClaimsInv ==
    /\ \A a, b \in live : a = b
    /\ Unsettled \in 0 .. (claim_budget + 3)
    /\ Present => Unsettled <= Allowance + 1
    /\ Present /\ live = {} => Unsettled <= Allowance
    /\ \A a \in live : AttemptClaims(a)

\* The budget is a number, and the allowance is two above it at most
\* (_claim_budget).
LEMMA BudgetType ==
    claim_budget \in Nat /\ Allowance \in claim_budget .. (claim_budget + 2)
  <1>1. claim_budget \in Nat
    BY PublicationAssumption DEF claim_budget
  <1> QED
    BY <1>1 DEF Allowance

\* A step that leaves the claims, the base and the status of the row alone and
\* moves its attempt on past the first question (_publish and its failures).
LEMMA ClaimsMove ==
    ASSUME TypeOK, ClaimsInv, NEW a \in live,
           row'.status = row.status,
           row'.claims = row.claims,
           row'.claims_base = row.claims_base,
           UNCHANGED <<inline, podGone>>,
           Present => Unsettled <= Allowance,
           NEW b, live' = (live \ {a}) \cup {b}, b.phase # "claimed"
    PROVE  ClaimsInv'
  <1>1. live' = {b}
    BY DEF ClaimsInv
  <1>2. Unsettled' = Unsettled /\ Allowance' = Allowance /\ (Present' <=> Present)
    BY DEF Unsettled, Allowance, claim_budget, Present
  <1>3. AttemptClaims(b)'
    BY <1>2 DEF AttemptClaims
  <1>4. claim_budget' = claim_budget
    BY DEF claim_budget
  <1> QED
    BY <1>1, <1>2, <1>3, <1>4 DEF ClaimsInv

\* A step that leaves them alone and removes attempts past the first question,
\* or none (renewals, crashes, steps without effect).
LEMMA ClaimsLess ==
    ASSUME TypeOK, ClaimsInv,
           row'.status = row.status,
           row'.claims = row.claims,
           row'.claims_base = row.claims_base,
           UNCHANGED podGone, inline' => inline, inline \in BOOLEAN, inline' \in BOOLEAN,
           live' \subseteq live,
           \A a \in live \ live' : a.phase \notin {"claimed", "failed"}
    PROVE  ClaimsInv'
  <1>0. row.claims \in Nat /\ row.claims_base \in Nat
    BY DEF TypeOK, Rows
  <1>1. Unsettled' = Unsettled /\ (Present' <=> Present) /\ claim_budget' = claim_budget
    BY DEF Unsettled, claim_budget, Present
  <1>2. Unsettled \in Int /\ Allowance \in Int /\ Allowance' \in Int /\ Allowance' >= Allowance
    BY <1>0, BudgetType DEF Unsettled, Allowance, claim_budget
  <1>3. ASSUME NEW a \in live'
        PROVE  AttemptClaims(a)'
    <2>1. AttemptClaims(a)
      BY <1>3 DEF ClaimsInv
    <2> QED
      BY <1>1, <1>2, <2>1 DEF AttemptClaims
  <1>4. Present' /\ live' = {} => Unsettled' <= Allowance'
    <2>1. CASE live = {}
      BY <1>1, <1>2, <2>1 DEF ClaimsInv
    <2>2. CASE live' = {} /\ live # {}
      <3>1. PICK a \in live : a.phase \notin {"claimed", "failed"}
        BY <2>2
      <3> QED
        BY <1>1, <1>2, <3>1 DEF ClaimsInv, AttemptClaims
    <2> QED
      BY <2>1, <2>2
  <1>5. Present' => Unsettled' <= Allowance' + 1
    <2> SUFFICES ASSUME Present'
                 PROVE  Unsettled' <= Allowance' + 1
      OBVIOUS
    <2>1. Unsettled <= Allowance + 1
      BY <1>1 DEF ClaimsInv
    <2>2. \A u, x, y \in Int : u <= x + 1 /\ y >= x => u <= y + 1
      OBVIOUS
    <2>3. Unsettled <= Allowance' + 1
      BY <1>2, <2>1, <2>2
    <2> QED
      BY <1>1, <2>3
  <1> QED
    BY <1>1, <1>3, <1>4, <1>5 DEF ClaimsInv

\* Every step of an attempt keeps ClaimsInv (GiveBack to RecordFailure).
LEMMA ClaimsWork ==
    ASSUME TypeOK, ClaimsInv, NEW a \in live, Work(a)
    PROVE  ClaimsInv'
  <1>a. a \in Attempts /\ row \in Rows /\ live = {a} /\ AttemptClaims(a)
    BY DEF TypeOK, ClaimsInv
  <1>b. /\ row.claims \in Nat /\ row.claims_base \in Nat /\ Unsettled \in Int
        /\ claim_budget' = claim_budget
    BY <1>a DEF Rows, Unsettled, claim_budget
  <1>c. claim_budget \in Nat /\ Allowance \in claim_budget .. (claim_budget + 2)
    BY BudgetType
  <1>1. CASE GiveBack(a)
    <2>1. /\ row'.claims = row.claims /\ row'.claims_base = row.claims_base + 1
          /\ row'.status = row.status /\ live' = {} /\ UNCHANGED <<inline, podGone>>
      BY <1>1, <1>a DEF GiveBack, AttemptClaims, Present, Rows
    <2>2. /\ Unsettled' = Unsettled - 1 /\ Allowance' = Allowance
          /\ (Present' <=> Present) /\ Unsettled >= 1
      BY <1>1, <1>a, <1>b, <2>1 DEF Unsettled, Allowance, claim_budget, Present, AttemptClaims,
                                    GiveBack
    <2> QED
      BY <1>b, <1>c, <2>1, <2>2 DEF ClaimsInv
  <1>2. CASE Condemn(a) \/ Start(a)
    <2>1. row' = row /\ UNCHANGED <<inline, podGone>> /\ a.phase = "claimed"
      BY <1>2 DEF Condemn, Start
    <2>2. Unsettled' = Unsettled /\ Allowance' = Allowance /\ (Present' <=> Present)
      BY <2>1 DEF Unsettled, Allowance, claim_budget, Present
    <2>3. PICK b : live' = {b} /\ \/ b.phase = "failed"
                                  \/ b.phase = "begin" /\ Unsettled <= claim_budget
      <3>1. CASE Condemn(a)
        <4>1. PICK q : live' = FailedWith(a, q)
          BY <3>1 DEF Condemn
        <4>2. PICK b : b = [a EXCEPT !.phase = "failed", !.reason = q]
          OBVIOUS
        <4>3. live' = {b} /\ b.phase = "failed"
          BY <1>a, <4>1, <4>2 DEF FailedWith, Attempts
        <4> QED
          BY <4>3
      <3>2. CASE Start(a)
        <4>b. PICK b : b = [a EXCEPT !.phase = "begin"]
          OBVIOUS
        <4>1. live' = {b} /\ b.phase = "begin" /\ ~ClaimsSpent(a)
          BY <1>a, <3>2, <4>b DEF Start, To, Attempts
        <4>2. Unsettled <= claim_budget
          BY <1>a, <1>b, <1>c, <2>1, <4>1 DEF ClaimsSpent, AttemptClaims, Unsettled
        <4> QED
          BY <4>1, <4>2
      <3> QED
        BY <1>2, <3>1, <3>2
    <2>4. AttemptClaims(b)'
      BY <1>b, <1>c, <2>2, <2>3 DEF AttemptClaims
    <2> QED
      BY <1>b, <2>2, <2>3, <2>4 DEF ClaimsInv
  <1>3. ASSUME a.phase \notin {"claimed", "failed"},
               row'.status = row.status,
               row'.claims = row.claims,
               row'.claims_base = row.claims_base,
               UNCHANGED <<inline, podGone>>,
               \/ \E p : live' = To(a, p) /\ p # "claimed"
               \/ \E r : live' = FailedWith(a, r)
               \/ \E w : live' = (live \ {a}) \cup {[a EXCEPT !.written = w]}
        PROVE  ClaimsInv'
    <2>1. PICK b : live' = (live \ {a}) \cup {b} /\ b.phase # "claimed"
      <3>1. ASSUME NEW p, live' = To(a, p), p # "claimed"
            PROVE  \E b : live' = (live \ {a}) \cup {b} /\ b.phase # "claimed"
        <4>1. [a EXCEPT !.phase = p].phase = p
          BY <1>a DEF Attempts
        <4> QED
          BY <3>1, <4>1 DEF To
      <3>2. ASSUME NEW r, live' = FailedWith(a, r)
            PROVE  \E b : live' = (live \ {a}) \cup {b} /\ b.phase # "claimed"
        <4>1. [a EXCEPT !.phase = "failed", !.reason = r].phase # "claimed"
          BY <1>a DEF Attempts
        <4> QED
          BY <3>2, <4>1 DEF FailedWith
      <3>3. ASSUME NEW w, live' = (live \ {a}) \cup {[a EXCEPT !.written = w]}
            PROVE  \E b : live' = (live \ {a}) \cup {b} /\ b.phase # "claimed"
        <4>1. [a EXCEPT !.written = w].phase # "claimed"
          BY <1>a, <1>3 DEF Attempts
        <4> QED
          BY <3>3, <4>1
      <3> QED
        BY <1>3, <3>1, <3>2, <3>3
    <2>2. Present => Unsettled <= Allowance
      BY <1>a, <1>3 DEF AttemptClaims
    <2> QED
      BY <1>3, <2>1, <2>2, ClaimsMove
  <1>4. CASE Begin(a)
    <2>1. Renewed.status = row.status /\ Renewed.claims = row.claims
          /\ Renewed.claims_base = row.claims_base
      BY <1>a DEF Renewed, Rows
    <2> QED
      BY <1>3, <1>4, <2>1 DEF Begin
  <1>5. CASE Publish(a)
    BY <1>3, <1>5 DEF Publish
  <1>6. ASSUME NEW f \in Files, PutFile(a, f)
        PROVE  ClaimsInv'
    BY <1>3, <1>6 DEF PutFile
  <1>7. CASE UploadFails(a) \/ RollBack(a) \/ TakeBack(a)
    BY <1>3, <1>7 DEF UploadFails, RollBack, TakeBack
  <1>8. CASE MarkStored(a)
    <2>1. row'.status = row.status /\ row'.claims = row.claims
          /\ row'.claims_base = row.claims_base
      BY <1>a, <1>8 DEF MarkStored, Rows
    <2> QED
      BY <1>3, <1>8, <2>1 DEF MarkStored, Uploaded
  <1>9. CASE Promote(a) \/ PublishToBus(a) \/ ArchiveGone(a)
    BY <1>3, <1>9 DEF Promote, PublishToBus, ArchiveGone
  <1>10. CASE Project(a)
    <2>1. row'.status = row.status /\ row'.claims = row.claims
          /\ row'.claims_base = row.claims_base
      BY <1>a, <1>10 DEF Project, Rows
    <2> QED
      BY <1>3, <1>10, <2>1 DEF Project
  <1>11. CASE FailAttempt(a)
    BY <1>3, <1>11 DEF FailAttempt, Uploaded
  <1>12. CASE RecordSuccess(a)
    <2>1. /\ row'.claims = row.claims /\ row'.claims_base = row.claims_base
          /\ row'.status \notin {"pending", "dead"} /\ live' = {}
      BY <1>a, <1>12 DEF RecordSuccess, Present, Rows
    <2>2. Unsettled' = Unsettled /\ ~Present'
      BY <2>1 DEF Unsettled, Present
    <2> QED
      BY <1>b, <2>1, <2>2 DEF ClaimsInv
  <1>13. CASE RecordFailure(a)
    <2>1. CASE Present
      <3>1. row'.claims = row.claims /\ row'.claims_base = row.claims
        BY <1>a, <1>13, <2>1 DEF RecordFailure, Rows
      <3>2. Unsettled' = 0 /\ live' = {} /\ UNCHANGED <<inline, podGone>>
        BY <1>a, <1>b, <1>13, <3>1 DEF RecordFailure, Unsettled
      <3>3. Allowance' = Allowance
        BY <3>2 DEF Allowance, claim_budget
      <3> QED
        BY <1>b, <1>c, <3>2, <3>3 DEF ClaimsInv
    <2>2. CASE ~Present
      <3>1. row' = row /\ live' = {}
        BY <1>a, <1>13, <2>2 DEF RecordFailure
      <3>2. Unsettled' = Unsettled /\ ~Present'
        BY <2>2, <3>1 DEF Unsettled, Present
      <3> QED
        BY <1>b, <3>1, <3>2 DEF ClaimsInv
    <2> QED
      BY <2>1, <2>2
  <1> QED
    BY <1>1, <1>2, <1>4, <1>5, <1>6, <1>7, <1>8, <1>9, <1>10, <1>11, <1>12, <1>13 DEF Work

\* Every step keeps ClaimsInv while attempts do not overlap and a replica dies
\* only of the work.
LEMMA ClaimsStep ==
    ASSUME Overlap = FALSE, CrashAnywhere = FALSE, TypeOK, ClaimsInv, [Next]_vars
    PROVE  ClaimsInv'
  <1>a. /\ row \in Rows /\ live \subseteq Attempts /\ row.claims \in Nat
        /\ row.claims_base \in Nat /\ Unsettled \in Int
        /\ claim_budget' = claim_budget /\ inline \in BOOLEAN /\ podGone \in BOOLEAN
    BY DEF TypeOK, Rows, Unsettled, claim_budget
  <1>c. claim_budget \in Nat /\ Allowance \in claim_budget .. (claim_budget + 2)
    BY BudgetType
  <1>1. ASSUME NEW r \in Replicas, NEW q \in BOOLEAN, ClaimBy(r, q), Present,
               UNCHANGED podGone,
               IF q THEN inline /\ ~inline' ELSE inline' = inline /\ row.status = "pending"
        PROVE  ClaimsInv'
    <2>b. PICK b : b = Snapshot(hold(row), r, q)
      OBVIOUS
    <2>1. live = {} /\ live' = {b} /\ row' = hold(row)
      BY <1>1, <2>b DEF ClaimBy
    <2>2. ~(row.claims < row.claims_base)
      BY <1>a DEF ClaimsInv, Unsettled
    <2>3. /\ hold(row).claims = row.claims + 1 /\ hold(row).claims_base = row.claims_base
          /\ hold(row).status = row.status
      BY <1>a, <2>2 DEF hold, Rows
    <2>4. /\ b.claims = row'.claims /\ b.claims_base = row'.claims_base
          /\ b.phase = IF q THEN "begin" ELSE "claimed"
      BY <2>1, <2>b DEF Snapshot
    <2>5. Unsettled' = Unsettled + 1 /\ Present' /\ Unsettled \in Nat /\ Unsettled <= Allowance
      BY <1>1, <1>a, <2>1, <2>3 DEF Unsettled, Present, ClaimsInv
    <2>6. Allowance' = IF q THEN Allowance + 1 ELSE Allowance
      BY <1>1, <1>c DEF Allowance, claim_budget
    <2>7. AttemptClaims(b)'
      BY <1>1, <1>c, <2>1, <2>3, <2>4, <2>5, <2>6 DEF AttemptClaims
    <2> QED
      BY <1>a, <1>c, <2>1, <2>5, <2>6, <2>7 DEF ClaimsInv
  <1>2. CASE PublishNow
    <2>1. CASE Present /\ ClaimBy(Owner, TRUE)
      BY <1>1, <1>2, <2>1, PublicationAssumption DEF PublishNow
    <2>2. CASE UNCHANGED <<row, live>>
      BY <1>2, <1>a, <2>2, ClaimsLess DEF PublishNow
    <2> QED
      BY <1>2, <2>1, <2>2 DEF PublishNow
  <1>3. ASSUME NEW r \in Replicas, ClaimDue(r)
        PROVE  ClaimsInv'
    <2>1. /\ ClaimBy(r, FALSE) /\ row.status = "pending" /\ inline' = inline
          /\ podGone' = podGone
      BY <1>3 DEF ClaimDue, DueFor
    <2> QED
      BY <1>1, <2>1 DEF Present
  <1>4. ASSUME NEW a \in live, Renew(a)
        PROVE  ClaimsInv'
    <2>1. Renewed.status = row.status /\ Renewed.claims = row.claims
          /\ Renewed.claims_base = row.claims_base
      BY <1>a DEF Renewed, Rows
    <2> QED
      BY <1>4, <1>a, <2>1, ClaimsLess DEF Renew
  <1>5. CASE Requeue
    <2>1. /\ row'.claims = row.claims /\ row'.claims_base = row.claims
          /\ row.status = "dead" /\ UNCHANGED <<live, inline, podGone>>
      BY <1>5, <1>a DEF Requeue, Decidable, Rows
    <2>2. Unsettled' = 0 /\ Allowance' = Allowance
      BY <1>a, <2>1 DEF Unsettled, Allowance, claim_budget
    <2>3. ASSUME NEW b \in live
          PROVE  AttemptClaims(b)'
      <3>1. b.phase # "claimed"
        BY <2>1 DEF ClaimsInv, AttemptClaims
      <3> QED
        BY <1>c, <2>2, <3>1 DEF AttemptClaims
    <2> QED
      BY <1>a, <1>c, <2>1, <2>2, <2>3 DEF ClaimsInv
  <1>6. CASE Discard
    <2>1. /\ row'.claims = row.claims /\ row'.claims_base = row.claims_base
          /\ row.status = "dead" /\ row'.status = "discarded"
          /\ UNCHANGED <<live, inline, podGone>>
      BY <1>6, <1>a DEF Discard, Decidable, Rows
    <2>2. Unsettled' = Unsettled /\ ~Present'
      BY <2>1 DEF Unsettled, Present
    <2>3. ASSUME NEW b \in live
          PROVE  AttemptClaims(b)'
      <3>1. b.phase # "claimed"
        BY <2>1 DEF ClaimsInv, AttemptClaims
      <3> QED
        BY <2>2, <3>1 DEF AttemptClaims
    <2> QED
      BY <1>a, <2>1, <2>2, <2>3 DEF ClaimsInv
  <1>7. ASSUME NEW r \in Replicas, Crash(r)
        PROVE  ClaimsInv'
    <2>1. \A a \in live \ live' : a.phase \notin {"claimed", "failed"}
      BY <1>7 DEF Crash, Leased
    <2> QED
      BY <1>7, <1>a, <2>1, ClaimsLess DEF Crash
  <1>8. CASE LosePod
    <2>1. row' = row /\ ~podGone /\ podGone' /\ ~inline' /\ live' \subseteq live
      BY <1>8 DEF LosePod
    <2>2. Unsettled' = Unsettled /\ (Present' <=> Present) /\ Allowance' >= Allowance + 1
          /\ Allowance' \in Int
      BY <1>c, <2>1 DEF Unsettled, Present, Allowance, claim_budget
    <2>3. ASSUME NEW b \in live'
          PROVE  AttemptClaims(b)'
      <3>1. AttemptClaims(b)
        BY <2>1, <2>3 DEF ClaimsInv
      <3> QED
        BY <1>a, <1>c, <2>1, <2>2, <3>1 DEF AttemptClaims
    <2>4. Present => Unsettled <= Allowance + 1
      BY DEF ClaimsInv
    <2>5. Present' => Unsettled' <= Allowance'
      BY <1>a, <1>c, <2>2, <2>4
    <2>6. ASSUME Present'
          PROVE  Unsettled' <= Allowance' + 1
      <3>1. Unsettled' <= Allowance' /\ Unsettled' \in Int /\ Allowance' \in Int
        BY <1>a, <2>2, <2>5, <2>6
      <3>2. \A u, y \in Int : u <= y => u <= y + 1
        OBVIOUS
      <3> QED
        BY <3>1, <3>2
    <2> QED
      BY <1>a, <2>1, <2>2, <2>3, <2>5, <2>6 DEF ClaimsInv
  <1>9. CASE Tick
    <2>1. /\ row'.status = row.status /\ row'.claims = row.claims
          /\ row'.claims_base = row.claims_base /\ UNCHANGED <<inline, podGone>>
      BY <1>9, <1>a DEF Tick, Aged, Rows
    <2>2. Unsettled' = Unsettled /\ (Present' <=> Present) /\ Allowance' = Allowance
      BY <2>1 DEF Unsettled, Present, Allowance, claim_budget
    <2>3. ASSUME NEW b \in live'
          PROVE  AttemptClaims(b)'
      <3>1. PICK a \in live : b = [a EXCEPT !.touched = Down(@)]
        BY <1>9 DEF Tick
      <3>2. b.phase = a.phase /\ b.claims = a.claims /\ b.claims_base = a.claims_base
        BY <1>a, <3>1 DEF Attempts
      <3> QED
        BY <2>1, <2>2, <3>2 DEF ClaimsInv, AttemptClaims
    <2>4. (\A b, c \in live' : b = c) /\ (live' = {} => live = {})
      BY <1>9 DEF Tick, ClaimsInv
    <2> QED
      BY <1>a, <2>2, <2>3, <2>4 DEF ClaimsInv
  <1>10. CASE UNCHANGED vars
    BY <1>a, <1>10, ClaimsLess DEF vars
  <1> QED
    BY <1>2, <1>3, <1>4, <1>5, <1>6, <1>7, <1>8, <1>9, <1>10, ClaimsWork DEF Next, LoseOutcome

\* While the lease keeps attempts apart and replicas die only of the work, a
\* tree that kills whoever takes it is given up after a bounded number of
\* claims, and a claim that is handed back never moves the base past the fence
\* (_claims_spent, _hold, _give_back).
THEOREM ClaimsAreBounded ==
    ASSUME Overlap = FALSE, CrashAnywhere = FALSE
    PROVE  Spec => []ClaimsBounded
  <1>1. Init => ClaimsInv
    <2> SUFFICES ASSUME Init PROVE ClaimsInv
      OBVIOUS
    <2>1. Unsettled = 0 /\ live = {}
      BY DEF Init, NewRow, Unsettled
    <2> QED
      BY <2>1, BudgetType DEF ClaimsInv
  <1>2. TypeOK /\ ClaimsInv /\ [Next]_vars => ClaimsInv'
    BY ClaimsStep
  <1>3. ClaimsInv => ClaimsBounded
    BY DEF ClaimsInv, ClaimsBounded, Unsettled
  <1> QED
    BY <1>1, <1>2, <1>3, PublicationTypeCorrect, PTL DEF Spec
=============================================================================
