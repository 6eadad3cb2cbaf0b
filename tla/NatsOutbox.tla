----------------------------- MODULE NatsOutbox -----------------------------
(***************************************************************************)
(* The messages the broker refused: api/services/nats_outbox.py.           *)
(*                                                                         *)
(* An accepted run's publication sends one ingest message and the run's    *)
(* asset events, in every attempt that comes so far, and attempts overlap  *)
(* (RunPublication).  What the broker does not take is written to          *)
(* nats_outbox, one row per message id, and the reconciler of every        *)
(* replica claims the due rows, publishes them outside any transaction and *)
(* writes each outcome back.  A claim is nothing but a later               *)
(* next_attempt_at, so two ticks may hold one row once that window has     *)
(* lapsed; _record_attempt reads the row without locking it, so its read   *)
(* and its write are two steps.                                            *)
(*                                                                         *)
(* due is what is left until next_attempt_at, in ticks; it goes on below   *)
(* zero, down to -Overdue, because the claim takes the oldest row first.   *)
(*                                                                         *)
(* Name_Word is a mutated form of Name, the bug Word names; nothing in the *)
(* specification uses it.                                                  *)
(***************************************************************************)
EXTENDS Integers, FiniteSets

CONSTANTS
    Ingests,        \* messages of kind "ingest": a run for the analytical store
    Events,         \* messages of kind "asset_event"
    NoMsg,          \* no message
    Attempts,       \* the attempts at a message's publication
    Reconcilers,    \* the outbox reconcilers of the replicas
    OutboxAttempts, \* nats_outbox_max_attempts
    OutboxBatch,    \* nats_outbox_batch_size
    PerRow,         \* what one publish may take, max(30, retry base) seconds
    RetryBase,      \* nats_outbox_retry_base_seconds
    RetryMax,       \* nats_outbox_retry_max_seconds
    Lapses,         \* may a tick take longer than PerRow for each of its rows?
    Overdue,        \* bound: how long a row is remembered to have been due
    MaxCopies,      \* bound: copies of a message on the stream
    MaxMoves        \* bound: publications, operator requeues and failed ticks, in all

Msgs == Ingests \cup Events

ASSUME OutboxAssumption ==
    /\ Ingests \cap Events = {}
    /\ NoMsg \notin Msgs
    /\ IsFiniteSet(Msgs)
    /\ OutboxAttempts \in Nat \ {0}
    /\ OutboxBatch \in Nat \ {0}
    /\ PerRow \in Nat \ {0}
    /\ RetryBase \in Nat \ {0}
    /\ RetryMax \in Nat \ {0}
    /\ Lapses \in BOOLEAN
    /\ Overdue \in Nat
    /\ MaxCopies \in Nat \ {0}
    /\ MaxMoves \in Nat

VARIABLES
    rows,       \* the nats_outbox row of each message
    sender,     \* where each attempt is with each message
    broker,     \* is there a broker to connect to?
    stream,     \* copies of each message the stream has taken
    recent,     \* the ids inside the stream's duplicate_window
    tick,       \* the pass each reconciler is in
    lost,       \* events the database could not take either (counted "skipped")
    discarded,  \* messages an operator gave up (discard_dead)
    requeued,   \* messages an operator put back (requeue_dead)
    bodyless,   \* the ingests whose archive was over the inline cap
    moves       \* publications, requeues and failed ticks so far

bus == <<broker, stream, recent>>

ends == <<lost, discarded, requeued>>

outboxVars == <<rows, sender, bus, tick, ends, bodyless, moves>>

-----------------------------------------------------------------------------
(* Data. *)

Rows == [status : {"absent", "pending", "dead"}, attempts : Nat, due : Int]

Absent == [status |-> "absent", attempts |-> 0, due |-> 0]

\* A tick: the rows it has claimed and not yet reached, the one it is at, those of
\* them that were deleted since (a later row of the message has another id), what
\* the broker said of it, its row as _record_attempt read it, and how much longer
\* the batch may take (0 if there is no saying).
Ticks ==
    [stage : {"idle", "publish", "read", "write"}, work : SUBSET Msgs,
     at : Msgs \cup {NoMsg}, gone : SUBSET Msgs, ok : BOOLEAN, seen : Rows, left : Nat]

Idle ==
    [stage |-> "idle", work |-> {}, at |-> NoMsg, gone |-> {}, ok |-> FALSE,
     seen |-> Absent, left |-> 0]

\* An attempt at its last hop: not there yet, answered by the broker one way or
\* the other, failed, or past it with the message out or written down ("late" when
\* another attempt had delivered it by then).  One that dies stays where it is, and
\* the next one is another attempt.
Senders == {"away", "accepted", "refused", "failed", "delivered", "recorded", "late"}

\* The messages some attempt has delivered.
Delivered == {m \in Msgs : \E a \in Attempts : sender[m][a] = "delivered"}

\* The messages some attempt is through with.
Through ==
    {m \in Msgs : \E a \in Attempts : sender[m][a] \in {"delivered", "recorded", "late"}}

OutboxTypeOK ==
    /\ rows \in [Msgs -> Rows]
    /\ sender \in [Msgs -> [Attempts -> Senders]]
    /\ broker \in BOOLEAN
    /\ stream \in [Msgs -> Nat]
    /\ recent \subseteq Msgs
    /\ tick \in [Reconcilers -> Ticks]
    /\ lost \subseteq Msgs
    /\ discarded \subseteq Msgs
    /\ requeued \subseteq Msgs
    /\ bodyless \subseteq Ingests
    /\ moves \in Nat

\* The rows a tick has claimed and not finished with.
Held(r) == ((tick[r].work \cup {tick[r].at}) \ {NoMsg}) \ tick[r].gone

\* The ticks when the row of m is deleted.
Deleted(m) ==
    [q \in Reconcilers |->
        IF m \in Held(q) THEN [tick[q] EXCEPT !.gone = @ \cup {m}] ELSE tick[q]]

OutboxInit ==
    /\ rows = [m \in Msgs |-> Absent]
    /\ sender = [m \in Msgs |-> [a \in Attempts |-> "away"]]
    /\ broker \in BOOLEAN
    /\ stream = [m \in Msgs |-> 0]
    /\ recent = {}
    /\ tick = [r \in Reconcilers |-> Idle]
    /\ lost = {}
    /\ discarded = {}
    /\ requeued = {}
    /\ bodyless \in SUBSET Ingests
    /\ moves = 0

Move == moves < MaxMoves /\ moves' = moves + 1

-----------------------------------------------------------------------------
(* The broker. *)

\* The stream takes a message, unless its id is still in the duplicate window.
Take(m) ==
    /\ broker
    /\ stream' = [stream EXCEPT ![m] = IF m \in recent THEN @ ELSE @ + 1]
    /\ recent' = recent \cup {m}

\* publish_json: taken and said so, or not known to be taken.  A publish whose
\* answer is lost has reached the stream and counts as refused.
Published(m, ok) ==
    \/ ok /\ Take(m)
    \/ ~ok /\ Take(m)
    \/ ~ok /\ UNCHANGED <<stream, recent>>

\* The broker goes away, or comes back.
BrokerTurns ==
    /\ broker' = ~broker
    /\ UNCHANGED <<rows, sender, stream, recent, tick, ends, bodyless, moves>>

\* The duplicate window of a message ends.
WindowEnds(m) ==
    /\ m \in recent
    /\ stream[m] < MaxCopies
    /\ recent' = recent \ {m}
    /\ UNCHANGED <<rows, sender, broker, stream, tick, ends, bodyless, moves>>

-----------------------------------------------------------------------------
(* The last hop of a publication. *)

\* _is_replayable: an ingest without its archive would be taken by the broker
\* and bring the analytical store nothing.
Replayable(m) == m \notin bodyless

\* publish_raw_results or publish_asset_event, in an attempt of the publication.
Publish(m, a, ok) ==
    /\ sender[m][a] = "away"
    /\ Move
    /\ Published(m, ok)
    /\ sender' = [sender EXCEPT ![m][a] = IF ok THEN "accepted" ELSE "refused"]
    /\ UNCHANGED <<rows, broker, tick, ends, bodyless>>

ForgetRecorded_Never(m) == FALSE

\* _forget_recorded: a pending row of an ingest that was delivered after all.
ForgetRecorded(m) == m \in Ingests /\ rows[m].status = "pending"

\* The broker took it: publish_ingest_or_record drops what an earlier attempt
\* wrote down.  publish_events writes nothing.
Deliver(m, a) ==
    /\ sender[m][a] = "accepted"
    /\ IF ForgetRecorded(m)
       THEN rows' = [rows EXCEPT ![m] = Absent] /\ tick' = Deleted(m)
       ELSE UNCHANGED <<rows, tick>>
    /\ sender' = [sender EXCEPT ![m][a] = "delivered"]
    /\ UNCHANGED <<bus, ends, bodyless, moves>>

\* Due at once; dead on arrival when there is no body to publish again.
NewRow(m) ==
    [status |-> IF Replayable(m) THEN "pending" ELSE "dead", attempts |-> 0, due |-> 0]

\* record_failed_publish and record_undelivered_asset_events: one row per
\* message id, the first one stays.
Record(m, a) ==
    /\ sender[m][a] = "refused"
    /\ rows' = IF rows[m].status = "absent" THEN [rows EXCEPT ![m] = NewRow(m)] ELSE rows
    /\ sender' = [sender EXCEPT ![m][a] = IF m \in Delivered THEN "late" ELSE "recorded"]
    /\ UNCHANGED <<bus, tick, ends, bodyless, moves>>

RecordFails_Counted(m, a) ==
    /\ sender[m][a] = "refused"
    /\ sender' = [sender EXCEPT ![m][a] = "recorded"]
    /\ UNCHANGED <<rows, bus, tick, ends, bodyless, moves>>

\* The database takes nothing.  An ingest fails the attempt, and there will be
\* another; _hand_over counts the events as lost and lets the publication go on.
RecordFails(m, a) ==
    /\ \/ /\ m \in Ingests
          /\ sender[m][a] \in {"accepted", "refused"}
          /\ sender' = [sender EXCEPT ![m][a] = "failed"]
          /\ UNCHANGED lost
       \/ /\ m \in Events
          /\ sender[m][a] = "refused"
          /\ sender' = [sender EXCEPT ![m][a] = "recorded"]
          /\ lost' = lost \cup {m}
    /\ UNCHANGED <<rows, bus, tick, discarded, requeued, bodyless, moves>>

-----------------------------------------------------------------------------
(* The reconciler: reconcile_once. *)

Smaller(a, b) == IF a <= b THEN a ELSE b

\* _retry_delay_seconds.
RetryDelay(attempts) ==
    Smaller(RetryBase * 2 ^ Smaller(IF attempts > 1 THEN attempts - 1 ELSE 0, 20), RetryMax)

\* The rows a claim may take.
DueRows == {m \in Msgs : rows[m].status = "pending" /\ rows[m].due <= 0}

\* _take: the n oldest of some rows, ties broken anyhow.
Oldest(S, n) ==
    {T \in SUBSET S :
        /\ Cardinality(T) = Smaller(n, Cardinality(S))
        /\ \A t \in T, u \in S \ T : rows[t].due <= rows[u].due}

\* The slots of a batch that are kept for ingests.
IngestShare == OutboxBatch \div 2

\* The batches _claim_due may come back with: both lanes have a share, and what
\* one of them leaves goes to the other.
Batches ==
    IF OutboxBatch = 1 THEN Oldest(DueRows, 1)
    ELSE UNION {UNION {{first \cup second \cup third :
                third \in Oldest((DueRows \cap Ingests) \ first,
                                 OutboxBatch - Cardinality(first \cup second))} :
                second \in Oldest(DueRows \ Ingests, OutboxBatch - Cardinality(first))} :
                first \in Oldest(DueRows \cap Ingests, IngestShare)}

Visibility_OneRow(n) == PerRow

\* How long a claim hides a batch of n rows.
Visibility(n) == PerRow * n

\* A claim spends an attempt of every row of its batch and hides it for as long
\* as the whole batch may take, counted from before the tick asked for its
\* connection; with no broker nothing is claimed.
ClaimDue(r, batch, passed) ==
    /\ tick[r].stage = "idle"
    /\ broker
    /\ batch # {}
    /\ rows' = [m \in Msgs |->
                   IF m \in batch
                   THEN [rows[m] EXCEPT !.attempts = @ + 1,
                                        !.due = Visibility(Cardinality(batch)) - passed]
                   ELSE rows[m]]
    /\ tick' = [tick EXCEPT ![r] =
                   [Idle EXCEPT !.stage = "publish", !.work = batch,
                                !.left = IF Lapses THEN 0
                                         ELSE PerRow * Cardinality(batch) - passed]]
    /\ UNCHANGED <<sender, bus, ends, bodyless, moves>>

\* _republish, for one row of the batch and outside any transaction.
Republish(r, m, ok) ==
    /\ tick[r].stage = "publish"
    /\ m \in tick[r].work
    /\ Published(m, ok)
    /\ tick' = [tick EXCEPT ![r].stage = "read", ![r].work = @ \ {m}, ![r].at = m,
                            ![r].ok = ok]
    /\ UNCHANGED <<rows, sender, broker, ends, bodyless, moves>>

\* The tick goes on with the rest of its batch.
OnToNext(r) ==
    IF tick[r].work = {} THEN Idle
    ELSE [Idle EXCEPT !.stage = "publish", !.work = tick[r].work,
                      !.gone = tick[r].gone \cap tick[r].work, !.left = tick[r].left]

\* The row a tick is at, by its id.
RowAt(r) == IF tick[r].at \in tick[r].gone THEN Absent ELSE rows[tick[r].at]

\* _record_attempt, its read: the row may be gone.
ReadRow(r) ==
    /\ tick[r].stage = "read"
    /\ \/ RowAt(r).status = "absent" /\ tick' = [tick EXCEPT ![r] = OnToNext(r)]
       \/ /\ RowAt(r).status # "absent"
          /\ tick' = [tick EXCEPT ![r].stage = "write", ![r].seen = RowAt(r)]
    /\ UNCHANGED <<rows, sender, bus, ends, bodyless, moves>>

Spent_Early(seen) == seen.attempts >= OutboxAttempts - 1

\* Has this row had all its attempts?
Spent(seen) == seen.attempts >= OutboxAttempts

\* The row after a refusal is written to it: the columns the session changed
\* against what it read.  The delay counts from the start of the tick, so part
\* of it may have passed.
Refused(row, seen, passed) ==
    IF Spent(seen)
    THEN IF seen.status = "dead" THEN row ELSE [row EXCEPT !.status = "dead", !.due = 0]
    ELSE IF row.status = "dead" THEN row
    ELSE [row EXCEPT !.due = RetryDelay(seen.attempts) - passed]

\* _record_attempt, its write.  A delete that finds no row is a warning; an
\* update that finds none raises, and the tick drops the rest of its batch.
WriteOutcome(r) ==
    LET m == tick[r].at
    IN  /\ tick[r].stage = "write"
        /\ \/ /\ tick[r].ok
              /\ RowAt(r).status = "absent"
              /\ tick' = [tick EXCEPT ![r] = OnToNext(r)]
              /\ UNCHANGED rows
           \/ /\ tick[r].ok
              /\ RowAt(r).status # "absent"
              /\ rows' = [rows EXCEPT ![m] = Absent]
              /\ tick' = [Deleted(m) EXCEPT ![r] = OnToNext(r)]
           \/ /\ ~tick[r].ok
              /\ RowAt(r).status # "absent"
              /\ \E passed \in 0 .. RetryDelay(tick[r].seen.attempts) :
                    rows' = [rows EXCEPT ![m] = Refused(@, tick[r].seen, passed)]
              /\ tick' = [tick EXCEPT ![r] = OnToNext(r)]
           \/ /\ ~tick[r].ok
              /\ RowAt(r).status = "absent"
              /\ tick' = [tick EXCEPT ![r] = Idle]
              /\ UNCHANGED rows
        /\ UNCHANGED <<sender, bus, ends, bodyless, moves>>

\* The replica dies, or the database fails an outcome: the rows the tick held
\* are due again when its window has passed.
TickDies(r) ==
    /\ tick[r].stage # "idle"
    /\ Move
    /\ tick' = [tick EXCEPT ![r] = Idle]
    /\ UNCHANGED <<rows, sender, bus, ends, bodyless>>

-----------------------------------------------------------------------------
(* The operator. *)

\* The dead rows a requeue puts back: never one without a body.
RequeueableRows == {m \in Msgs : rows[m].status = "dead" /\ Replayable(m)}

RequeueDead ==
    /\ Move
    /\ RequeueableRows # {}
    /\ rows' = [m \in Msgs |->
                   IF m \in RequeueableRows
                   THEN [status |-> "pending", attempts |-> 0, due |-> 0] ELSE rows[m]]
    /\ requeued' = requeued \cup RequeueableRows
    /\ UNCHANGED <<sender, bus, tick, lost, discarded, bodyless>>

DiscardDead(m) ==
    /\ rows[m].status = "dead"
    /\ rows' = [rows EXCEPT ![m] = Absent]
    /\ tick' = Deleted(m)
    /\ discarded' = discarded \cup {m}
    /\ UNCHANGED <<sender, bus, lost, requeued, bodyless, moves>>

-----------------------------------------------------------------------------
(* Time. *)

Before(due) == IF due > -Overdue THEN due - 1 ELSE due

\* Time passes, but not beyond what the batches at work may take.
OutboxTick ==
    /\ \A r \in Reconcilers : tick[r].left # 1
    /\ \/ \E m \in Msgs : rows[m].status = "pending" /\ rows[m].due > -Overdue
       \/ \E r \in Reconcilers : tick[r].left > 0
    /\ rows' = [m \in Msgs |->
                   IF rows[m].status = "pending"
                   THEN [rows[m] EXCEPT !.due = Before(@)] ELSE rows[m]]
    /\ tick' = [r \in Reconcilers |->
                   [tick[r] EXCEPT !.left = IF @ > 0 THEN @ - 1 ELSE 0]]
    /\ UNCHANGED <<sender, bus, ends, bodyless, moves>>

-----------------------------------------------------------------------------

ReconcilerStep(r) ==
    \/ \E batch \in Batches : \E passed \in 0 .. PerRow * Cardinality(batch) - 1 :
          ClaimDue(r, batch, passed)
    \/ \E m \in Msgs, ok \in BOOLEAN : Republish(r, m, ok)
    \/ ReadRow(r)
    \/ WriteOutcome(r)

AttemptStep(m, a) ==
    \/ \E ok \in BOOLEAN : Publish(m, a, ok)
    \/ Deliver(m, a)
    \/ Record(m, a)
    \/ RecordFails(m, a)

MessageStep(m) ==
    \/ \E a \in Attempts : AttemptStep(m, a)
    \/ DiscardDead(m)
    \/ WindowEnds(m)

OutboxNext ==
    \/ \E m \in Msgs : MessageStep(m)
    \/ \E r \in Reconcilers : ReconcilerStep(r) \/ TickDies(r)
    \/ RequeueDead
    \/ BrokerTurns
    \/ OutboxTick

OutboxSpec == OutboxInit /\ [][OutboxNext]_outboxVars

-----------------------------------------------------------------------------
(* Safety. *)

\* No refused message is gone without a trace: once an attempt is through with it,
\* it is on the stream, or its row is there, or an operator discarded it, or the
\* loss was counted (publish_ingest_or_record, _forget_recorded, _record_attempt,
\* discard_dead).
NothingGoesSilently ==
    \A m \in Through :
        \/ stream[m] > 0
        \/ rows[m].status # "absent"
        \/ m \in discarded \cup lost

\* Of a run that reached the broker nothing waits in the outbox that an earlier
\* attempt wrote down: only an operator brings such a row back, or an attempt that
\* was refused before the delivery and comes to its own record after it
\* (_forget_recorded).
DeliveredLeavesNoRow ==
    \A m \in Ingests \cap Delivered :
        rows[m].status = "pending" =>
            m \in requeued \/ \E a \in Attempts : sender[m][a] = "late"

\* What the words of _forget_recorded say, of a tick that has left its claim
\* transaction as the only thing not covered: a run that was delivered has no
\* pending row, unless an operator brought it back.
DeliveredIsForgotten ==
    \A m \in Ingests \cap Delivered : rows[m].status = "pending" => m \in requeued

\* Replicas divide the backlog: as long as no batch overruns its window, no two
\* of them work on one row (_claim_due, reconcile_once).
PeersDivideTheBacklog ==
    ~Lapses => \A r, q \in Reconcilers : r # q => Held(r) \cap Held(q) = {}

\* A message is given up only when its row had all its attempts, unless there was
\* nothing to publish; a failure that a slow tick writes late can only undo an
\* operator's requeue (_claim_due, _record_attempt).
GivenUpWhenSpent ==
    \A m \in Msgs \ bodyless :
        (rows[m].status = "dead" /\ rows[m].attempts < OutboxAttempts) => Lapses /\ m \in requeued

\* A message without its archive never goes out of the outbox, where the broker
\* would take it and the backlog would look drained (_is_replayable).
NothingHollowIsReplayed == \A r \in Reconcilers : Held(r) \cap bodyless = {}

-----------------------------------------------------------------------------
(* Liveness. *)

\* The loop of every reconciler goes on, and so does time.
ReconcilerFairness ==
    /\ \A r \in Reconcilers : WF_outboxVars(ReconcilerStep(r))
    /\ WF_outboxVars(OutboxTick)
=============================================================================
