--------------------------- MODULE RunPublication ---------------------------
(***************************************************************************)
(* The life of one run_publications row: api/services/run_publisher.py.    *)
(*                                                                         *)
(* complete_job accepted an upload and inserted the row; the run becomes   *)
(* visible afterwards.  An attempt claims the row, copies the staging tree *)
(* to the store file by file, stamps the row as stored, promotes the tree, *)
(* sends the archive to the bus, feeds the derived state and deletes the   *)
(* row.  Attempts run in the accepting request and in the reconciler of    *)
(* every replica; each holds the row by a lease that it renews, so two may *)
(* work on one row after a renewal failed, or when the request and a tick  *)
(* meet.  The backend is a remote store, the upload comes from an agent    *)
(* and its job succeeded.                                                  *)
(*                                                                         *)
(* Instants are what is left of the period the code measures from them, in *)
(* ticks, as in JobQueue; NULL is -1.  Each database transaction, each     *)
(* file transfer and each other visible effect is one step.                *)
(*                                                                         *)
(* Name_Word is a mutated form of Name, the bug Word names; nothing in the *)
(* specification uses it.                                                  *)
(***************************************************************************)
EXTENDS Integers

CONSTANTS
    Files,        \* the files of the staging tree
    Replicas,     \* API replicas, by instance id
    Owner,        \* the replica that accepted the upload
    Shared,       \* do the others see the owner's disk?
    MaxAttempts,  \* run_publication_max_attempts
    Horizon,      \* _lease_horizon_seconds
    Backoff,      \* _retry_delay_seconds
    Adoption,     \* _adoption_seconds
    Orphan,       \* _orphan_deadline_seconds
    Overlap,      \* may an attempt start while another one is running?
    CrashAnywhere,\* may any step fail, or does a replica die only of the work?
    MaxClaims,    \* bound: how often the row is claimed in all
    MaxRequeues   \* bound: how often an operator requeues it

ASSUME PublicationAssumption ==
    /\ Files # {}
    /\ Owner \in Replicas
    /\ Shared \in BOOLEAN
    /\ MaxAttempts \in Nat \ {0}
    /\ Horizon \in Nat \ {0}
    /\ Backoff \in Nat \ {0}
    /\ Adoption \in Nat \ {0}
    /\ Orphan \in Nat \ {0}
    /\ Overlap \in BOOLEAN
    /\ CrashAnywhere \in BOOLEAN
    /\ MaxClaims \in Nat
    /\ MaxRequeues \in Nat

VARIABLES
    row,       \* the run_publications row
    note,      \* does the job say that its run was not published?
    live,      \* the attempts that are running
    inline,    \* has the accepting request yet to call publish_now?
    staging,   \* is the staging tree on the owner's disk?
    archive,   \* is the upload's archive beside it?
    store,     \* the keys under the run's prefix in the store
    bus,       \* where the run's message is: on the stream, in the outbox
    feeds,     \* how often the derived state was fed from this row
    podGone,   \* is the owner's pod gone for good, with its disk?
    requeues   \* operator requeues so far

vars == <<row, note, live, inline, staging, archive, store, bus, feeds, podGone, requeues>>

disk == <<staging, archive, store, bus>>

-----------------------------------------------------------------------------
(* Data. *)

NULL == -1

Timer == Nat \cup {NULL}

\* A deleted row keeps, for the properties, the reason it was deleted for.
Statuses == {"pending", "dead", "published", "discarded"}

\* Why an attempt failed: an exception a retry may cure, or one of the named
\* ends (_TREE_IS_GONE, _ARCHIVE_IS_GONE, _REPLICA_IS_GONE, _NEVER_ATTEMPTED).
Reasons == {"none", "refused", "tree", "archive", "replica", "claims"}

Final(reason) == reason \notin {"none", "refused"}

Rows ==
    [status : Statuses, attempts : Nat, claims : Nat, claims_base : Nat, fence : Nat,
     stored : BOOLEAN,           \* stored_at IS NOT NULL
     due : Timer,                \* next_attempt_at
     leased : Timer,             \* leased_until
     touched : Timer,            \* the orphan deadline, from updated_at
     adoptable : Timer,          \* the adoption window, from created_at
     projected : BOOLEAN,        \* the findings mark of publication_marks
     last_error : Reasons]

\* What new_publication inserts: due at once.
NewRow ==
    [status |-> "pending", attempts |-> 0, claims |-> 0, claims_base |-> 0, fence |-> 0,
     stored |-> FALSE, due |-> 0, leased |-> NULL, touched |-> Orphan,
     adoptable |-> Adoption, projected |-> FALSE, last_error |-> "none"]

\* The phases that run inside "with _Lease".
Leased == {"publish", "uploading", "rollback", "takeback", "promote", "bus", "project"}

\* An attempt: its thread, the snapshot of the row its claim took (_snapshot),
\* where it is, the keys it has written and how it failed.
Attempts ==
    [replica : Replicas, request : BOOLEAN,
     claims : Nat, claims_base : Nat, fence : Nat, stored : BOOLEAN, touched : Timer,
     phase : Leased \cup {"claimed", "begin", "close", "failed"},
     written : SUBSET Files, reason : Reasons]

TypeOK ==
    /\ row \in Rows
    /\ note \in BOOLEAN
    /\ live \subseteq Attempts
    /\ inline \in BOOLEAN
    /\ staging \in BOOLEAN
    /\ archive \in BOOLEAN
    /\ store \subseteq Files
    /\ bus \subseteq {"stream", "outbox"}
    /\ feeds \in Nat
    /\ podGone \in BOOLEAN
    /\ requeues \in Nat

Present == row.status \in {"pending", "dead"}

\* Does a replica see what is on the owner's disk?
Reaches(r) == r = Owner \/ Shared

SeesStaging(a) == staging /\ Reaches(a.replica)

SeesArchive(a) == archive /\ Reaches(a.replica)

Alive(r) == r = Owner => ~podGone

To(a, phase) == (live \ {a}) \cup {[a EXCEPT !.phase = phase]}

FailedWith(a, reason) ==
    (live \ {a}) \cup {[a EXCEPT !.phase = "failed", !.reason = reason]}

-----------------------------------------------------------------------------
(* Claims. *)

\* _hold: out of the due window, one more claim, a new fence.
hold(r) ==
    LET base == IF r.claims < r.claims_base THEN 0 ELSE r.claims_base
    IN  [r EXCEPT !.due = Horizon, !.claims_base = base,
                  !.claims = @ + 1, !.fence = @ + 1]

\* The attempt that the claim of row r starts.
Snapshot(r, replica, request) ==
    [replica |-> replica, request |-> request, claims |-> r.claims,
     claims_base |-> r.claims_base, fence |-> r.fence, stored |-> r.stored,
     touched |-> r.touched, phase |-> IF request THEN "begin" ELSE "claimed",
     written |-> {}, reason |-> "none"]

ClaimBy(replica, request) ==
    /\ Overlap \/ live = {}
    /\ row.claims < MaxClaims
    /\ row' = hold(row)
    /\ live' = live \cup {Snapshot(hold(row), replica, request)}

\* publish_now, called once by the accepting request: whatever the row's status
\* and due date, unless another transaction has it locked at this moment.
PublishNow ==
    /\ inline
    /\ inline' = FALSE
    /\ \/ Present /\ ClaimBy(Owner, TRUE)
       \/ UNCHANGED <<row, live>>
    /\ UNCHANGED <<note, disk, feeds, podGone, requeues>>

DueFor_OwnOnly(r) == row.status = "pending" /\ row.due = 0 /\ r = Owner

\* _claim_due's query.
DueFor(r) ==
    /\ row.status = "pending"
    /\ row.due = 0
    /\ r = Owner \/ row.adoptable = 0

\* A tick of the reconciler: one thread per replica.
ClaimDue(r) ==
    /\ Alive(r)
    /\ \A a \in live : a.replica = r => a.request
    /\ DueFor(r)
    /\ ClaimBy(r, FALSE)
    /\ UNCHANGED <<note, inline, disk, feeds, podGone, requeues>>

\* _tree_is_stored: some attempt stamped the row and the store has keys.
TreeIsStored(a) == a.stored /\ store # {}

ForeignAndAbsent(a) ==
    /\ a.replica # Owner
    /\ ~SeesStaging(a)
    /\ ~TreeIsStored(a)

claim_budget == IF 2 * MaxAttempts > 4 THEN 2 * MaxAttempts ELSE 4

ClaimsSpent_Never(a) == FALSE

ClaimsSpent(a) == a.claims - a.claims_base > claim_budget

\* _give_back: offered to its own replica again, and the claim is not counted.
GiveBack(a) ==
    /\ a.phase = "claimed"
    /\ ForeignAndAbsent(a)
    /\ a.touched # 0
    /\ row' = IF Present
              THEN [row EXCEPT !.due = Adoption, !.claims_base = @ + 1]
              ELSE row
    /\ live' = live \ {a}
    /\ UNCHANGED <<note, inline, disk, feeds, podGone, requeues>>

\* The two ends without an attempt: the row is orphaned, or it kills whoever
\* takes it.
Condemn(a) ==
    /\ a.phase = "claimed"
    /\ \/ ForeignAndAbsent(a) /\ a.touched = 0 /\ live' = FailedWith(a, "replica")
       \/ ~ForeignAndAbsent(a) /\ ClaimsSpent(a) /\ live' = FailedWith(a, "claims")
    /\ UNCHANGED <<row, note, inline, disk, feeds, podGone, requeues>>

Start(a) ==
    /\ a.phase = "claimed"
    /\ ~ForeignAndAbsent(a)
    /\ ~ClaimsSpent(a)
    /\ live' = To(a, "begin")
    /\ UNCHANGED <<row, note, inline, disk, feeds, podGone, requeues>>

-----------------------------------------------------------------------------
(* The lease. *)

\* _renew: the proof of life whatever the status, the hold while it is pending.
Renewed ==
    IF ~Present THEN row
    ELSE IF row.status = "pending"
         THEN [row EXCEPT !.leased = Horizon, !.due = Horizon, !.touched = Orphan]
         ELSE [row EXCEPT !.leased = Horizon]

\* _Lease.__enter__ stamps before the work starts; a renewal may be lost.
Begin(a) ==
    /\ a.phase = "begin"
    /\ row' \in {row, Renewed}
    /\ live' = To(a, "publish")
    /\ UNCHANGED <<note, inline, disk, feeds, podGone, requeues>>

Renew(a) ==
    /\ a.phase \in Leased
    /\ row' = Renewed
    /\ UNCHANGED <<note, live, inline, disk, feeds, podGone, requeues>>

-----------------------------------------------------------------------------
(* _publish. *)

Publish(a) ==
    /\ a.phase = "publish"
    /\ \/ SeesStaging(a) /\ live' = To(a, "uploading")
       \/ ~SeesStaging(a) /\ TreeIsStored(a) /\ live' = To(a, "bus")
       \/ ~SeesStaging(a) /\ ~TreeIsStored(a) /\ live' = FailedWith(a, "tree")
    /\ UNCHANGED <<row, note, inline, disk, feeds, podGone, requeues>>

\* One file of upload_tree.
PutFile(a, f) ==
    /\ a.phase = "uploading"
    /\ f \notin a.written
    /\ SeesStaging(a)
    /\ store' = store \cup {f}
    /\ live' = (live \ {a}) \cup {[a EXCEPT !.written = @ \cup {f}]}
    /\ UNCHANGED <<row, note, inline, staging, archive, bus, feeds, podGone, requeues>>

\* The store refuses, the staging tree is no longer there to read, or the marker
\* after it cannot be written.  What was sent and not acknowledged may have
\* landed.
UploadFails(a) ==
    /\ a.phase = "uploading"
    /\ \E landed \in SUBSET (Files \ a.written) :
          /\ landed # {} => SeesStaging(a)
          /\ store' = store \cup landed
    /\ live' = To(a, "rollback")
    /\ UNCHANGED <<row, note, inline, staging, archive, bus, feeds, podGone, requeues>>

MayTakeBack_Unstamped(a) ==
    Present /\ row.claims = a.claims /\ row.fence = a.fence

\* _may_take_back: nobody has stored the run, nobody has claimed it since.
MayTakeBack(a) ==
    /\ Present
    /\ ~row.stored
    /\ row.claims = a.claims
    /\ row.fence = a.fence

\* _roll_back_upload decides ...
RollBack(a) ==
    /\ a.phase = "rollback"
    /\ \/ a.written # {} /\ MayTakeBack(a) /\ live' = To(a, "takeback")
       \/ ~(a.written # {} /\ MayTakeBack(a)) /\ live' = FailedWith(a, "refused")
    /\ UNCHANGED <<row, note, inline, disk, feeds, podGone, requeues>>

\* ... and removes the keys this attempt wrote, or as many as the store lets it.
TakeBack(a) ==
    /\ a.phase = "takeback"
    /\ \E keys \in SUBSET a.written : store' = store \ keys
    /\ live' = FailedWith(a, "refused")
    /\ UNCHANGED <<row, note, inline, staging, archive, bus, feeds, podGone, requeues>>

\* publish_run returns: every file is up, or it found no directory to send.
Uploaded(a) ==
    /\ a.phase = "uploading"
    /\ a.written = Files \/ (a.written = {} /\ ~SeesStaging(a))

\* _mark_stored, before the promotion.
MarkStored(a) ==
    /\ Uploaded(a)
    /\ row' = IF Present
              THEN [row EXCEPT !.stored = TRUE, !.touched = Orphan]
              ELSE row
    /\ live' = To(a, "promote")
    /\ UNCHANGED <<note, inline, disk, feeds, podGone, requeues>>

\* promote_staging: the tree becomes the owner's copy of the run.
Promote(a) ==
    /\ a.phase = "promote"
    /\ SeesStaging(a)
    /\ staging' = FALSE
    /\ live' = To(a, "bus")
    /\ UNCHANGED <<row, note, inline, archive, store, bus, feeds, podGone, requeues>>

\* _publish_to_bus: delivered (and a recorded copy forgotten), or written down.
PublishToBus(a) ==
    /\ a.phase = "bus"
    /\ SeesArchive(a)
    /\ bus' \in {{"stream"}, bus \cup {"outbox"}}
    /\ live' = To(a, "project")
    /\ UNCHANGED <<row, note, inline, staging, archive, store, feeds, podGone, requeues>>

ArchiveGone(a) ==
    /\ a.phase = "bus"
    /\ ~SeesArchive(a)
    /\ live' = FailedWith(a, "archive")
    /\ UNCHANGED <<row, note, inline, disk, feeds, podGone, requeues>>

FirstPass_Unmarked == Present

\* publication_marks.first_pass, under the row's lock.
FirstPass == Present /\ ~row.projected

\* _project: fed by this attempt, by an earlier one, or not at all because the
\* row was closed by a peer.  The receipt is read in a transaction of its own.
Project(a) ==
    /\ a.phase = "project"
    /\ IF FirstPass
       THEN row' = [row EXCEPT !.projected = TRUE] /\ feeds' = feeds + 1
       ELSE UNCHANGED <<row, feeds>>
    /\ live' \in {To(a, "close"), FailedWith(a, "refused")}
    /\ UNCHANGED <<note, inline, disk, podGone, requeues>>

\* Any other exception on the way: a full disk, a stamp the database refuses, a
\* promotion that finds no tree, a refused message with no outbox, a fold that
\* failed and left no receipt.
FailAttempt(a) ==
    /\ a.phase \in {"publish", "promote", "bus", "project"} \/ Uploaded(a)
    /\ live' = FailedWith(a, "refused")
    /\ UNCHANGED <<row, note, inline, disk, feeds, podGone, requeues>>

-----------------------------------------------------------------------------
(* The outcome of an attempt. *)

NoteAfterSuccess_OnlyDead == IF row.status = "dead" THEN FALSE ELSE note

\* The note is decided from the row as it is now, under its lock.  (_clear_notes
\* gives up on a database error of its own; that error is not modelled.)
NoteAfterSuccess ==
    IF row.last_error # "none" \/ row.status = "dead" THEN FALSE ELSE note

RecordSuccess(a) ==
    /\ a.phase = "close"
    /\ IF Present
       THEN row' = [row EXCEPT !.status = "published"] /\ note' = NoteAfterSuccess
       ELSE UNCHANGED <<row, note>>
    /\ archive' = (archive /\ ~Reaches(a.replica))
    /\ live' = live \ {a}
    /\ UNCHANGED <<inline, staging, store, bus, feeds, podGone, requeues>>

\* Out of attempts, or beyond a retry.
Spent(reason) == Final(reason) \/ row.attempts + 1 >= MaxAttempts

RecordFailure(a) ==
    LET failed == [row EXCEPT !.attempts = @ + 1, !.touched = Orphan,
                              !.claims_base = row.claims, !.last_error = a.reason]
    IN
    /\ a.phase = "failed"
    /\ IF ~Present THEN UNCHANGED <<row, note>>
       ELSE IF Spent(a.reason)
            THEN /\ row' = [failed EXCEPT !.status = "dead", !.due = NULL]
                 /\ note' = TRUE
            ELSE /\ row' = [failed EXCEPT !.due = Backoff]
                 /\ UNCHANGED note
    /\ live' = live \ {a}
    /\ UNCHANGED <<inline, disk, feeds, podGone, requeues>>

\* The database refuses the transaction that ends the attempt, or the store the
\* question a tick asks first: the exception ends the tick or the request.
LoseOutcome(a) ==
    /\ CrashAnywhere
    /\ a.phase \in {"claimed", "close", "failed"}
    /\ live' = live \ {a}
    /\ UNCHANGED <<row, note, inline, disk, feeds, podGone, requeues>>

-----------------------------------------------------------------------------
(* The operator's two buttons. *)

\* _refuse_while_leased.
Decidable == row.status = "dead" /\ row.leased <= 0

Requeue ==
    /\ Decidable
    /\ requeues < MaxRequeues
    /\ requeues' = requeues + 1
    /\ row' = [row EXCEPT !.status = "pending", !.attempts = 0,
                          !.claims_base = row.claims, !.fence = @ + 1,
                          !.due = 0, !.touched = Orphan]
    /\ UNCHANGED <<note, live, inline, disk, feeds, podGone>>

Discard ==
    /\ Decidable
    /\ row' = [row EXCEPT !.status = "discarded"]
    /\ UNCHANGED <<note, live, inline, disk, feeds, podGone, requeues>>

-----------------------------------------------------------------------------
(* Failures and time. *)

\* A replica's process dies and is restarted with the disk it had.
Crash(r) ==
    /\ \/ r = Owner /\ inline
       \/ \E a \in live : a.replica = r
    /\ CrashAnywhere \/ \A a \in live : a.replica = r => a.phase \in Leased
    /\ live' = {a \in live : a.replica # r}
    /\ inline' = (inline /\ r # Owner)
    /\ UNCHANGED <<row, note, disk, feeds, podGone, requeues>>

\* The owner's pod is taken away; what only it could see is gone with it.
LosePod ==
    /\ ~podGone
    /\ podGone' = TRUE
    /\ live' = {a \in live : a.replica # Owner}
    /\ inline' = FALSE
    /\ staging' = (staging /\ Shared)
    /\ archive' = (archive /\ Shared)
    /\ UNCHANGED <<row, note, store, bus, feeds, requeues>>

Down(t) == IF t > 0 THEN t - 1 ELSE t

Aged(r) ==
    [r EXCEPT !.due = Down(@), !.leased = Down(@), !.touched = Down(@),
              !.adoptable = Down(@)]

Tick ==
    /\ Present
    /\ row' = Aged(row)
    /\ live' = {[a EXCEPT !.touched = Down(@)] : a \in live}
    /\ <<row', live'>> # <<row, live>>
    /\ UNCHANGED <<note, inline, disk, feeds, podGone, requeues>>

-----------------------------------------------------------------------------

Init ==
    /\ row = NewRow
    /\ note = FALSE
    /\ live = {}
    /\ inline = TRUE
    /\ staging = TRUE
    /\ archive = TRUE
    /\ store = {}
    /\ bus = {}
    /\ feeds = 0
    /\ podGone = FALSE
    /\ requeues = 0

\* What an attempt does by itself, from its claim to its outcome.
Work(a) ==
    \/ GiveBack(a)
    \/ Condemn(a)
    \/ Start(a)
    \/ Begin(a)
    \/ Publish(a)
    \/ \E f \in Files : PutFile(a, f)
    \/ UploadFails(a)
    \/ RollBack(a)
    \/ TakeBack(a)
    \/ MarkStored(a)
    \/ Promote(a)
    \/ PublishToBus(a)
    \/ ArchiveGone(a)
    \/ Project(a)
    \/ FailAttempt(a)
    \/ RecordSuccess(a)
    \/ RecordFailure(a)

Next ==
    \/ PublishNow
    \/ \E r \in Replicas : ClaimDue(r)
    \/ \E a \in live : Work(a)
    \/ \E a \in live : Renew(a)
    \/ \E a \in live : LoseOutcome(a)
    \/ Requeue
    \/ Discard
    \/ \E r \in Replicas : Crash(r)
    \/ LosePod
    \/ Tick

Spec == Init /\ [][Next]_vars

-----------------------------------------------------------------------------
(* Fairness: time passes, every replica's reconciler keeps ticking, and an   *)
(* attempt that is running goes on to its outcome (every call it makes has a *)
(* timeout) unless its replica dies, which it may do again and again.        *)

FairSpec ==
    /\ Spec
    /\ WF_vars(Tick)
    /\ \A r \in Replicas : WF_vars(ClaimDue(r))
    /\ \A n \in 1 .. MaxClaims + MaxRequeues :
          WF_vars(\E a \in live : a.fence = n /\ Work(a))

-----------------------------------------------------------------------------
(* Safety. *)

\* A run that is marked as stored is in the store with all of its files, and
\* stays so whatever later attempts fail at; no run is reported as published
\* before it is (_mark_stored, _roll_back_upload, _may_take_back).
PublishedRunIsWhole ==
    /\ row.stored => store = Files
    /\ row.status = "published" => row.stored

\* The derived state is fed from one publication at most once, by however many
\* attempts, and a row is closed as published only after it was (_project,
\* publication_marks.first_pass).
FedExactlyOnce ==
    /\ feeds <= 1
    /\ row.status = "published" => feeds = 1

\* The note on the job is true: it is there when the row is dead and gone when
\* the run is published, also when one attempt gives up while another one
\* lands (_record_failure, _record_success).
NoteIsTrue ==
    /\ row.status = "dead" => note
    /\ row.status = "published" => ~note

\* A row is closed as published only when its message was delivered or written
\* down (_publish_to_bus, publish_ingest_or_record).
PublishedReachedTheBus == row.status = "published" => bus # {}

\* A tree that kills every replica that takes it is not claimed for ever: the
\* claims since the last outcome stay within the budget, but for the claim that
\* finds it spent, the one publish_now adds without asking, and one that is lost
\* with the pod (_claims_spent).  And a claim that is handed back is taken off
\* the budget once: the base never passes the fence it is counted from, so
\* _hold never starts the budget over (_give_back, _hold).
ClaimsBounded == row.claims - row.claims_base \in 0 .. (claim_budget + 3)

-----------------------------------------------------------------------------
(* What comments and documents say and the code does not keep. *)

\* "the side that loses is harmless rather than destructive": the first half of
\* PublishedRunIsWhole, when attempts do overlap (_roll_back_upload).
StoredStaysWhole == row.stored => store = Files

\* "Both are written only when no reachable copy of the tree was found - not in
\* staging, and not whole in the store" (_resolution).
GoneMeansGone ==
    [][row'.last_error \in {"tree", "replica"} /\ row'.last_error # row.last_error
         => ~(row.stored /\ store = Files)]_vars

-----------------------------------------------------------------------------
(* Liveness. *)

\* An accepted run is published or somebody is told: the row does not stay
\* pending for ever, whatever refuses, crashes or is lost.
RunIsDecided == <>[](row.status # "pending")
=============================================================================
