-------------------------- MODULE NatsOutboxProofs --------------------------
(***************************************************************************)
(* Theorems about the outbox, for every set of messages and of             *)
(* reconcilers, every batch size and every delay, whether or not a batch   *)
(* may outlast the window its claim hides it for.                          *)
(***************************************************************************)
EXTENDS NatsOutbox, FiniteSetTheorems, TLAPS

-----------------------------------------------------------------------------
(* What the operators return. *)

\* The backoff of an attempt is a number.
LEMMA DelayType ==
    ASSUME NEW n \in Nat
    PROVE  RetryDelay(n) \in Int
  <1> DEFINE k == IF n > 1 THEN n - 1 ELSE 0
             e == Smaller(k, 20)
  <1>1. k \in Nat
    OBVIOUS
  <1>2. e \in Nat
    BY <1>1 DEF Smaller
  <1>3. 2 ^ e \in Int
    BY <1>2
  <1> HIDE DEF e
  <1>4. RetryBase * 2 ^ e \in Int /\ RetryMax \in Int
    BY <1>3, OutboxAssumption
  <1>5. Smaller(RetryBase * 2 ^ e, RetryMax) \in Int
    BY <1>4 DEF Smaller
  <1> QED
    BY <1>5 DEF RetryDelay, e, k

\* A batch is made of due rows.
LEMMA BatchIsDue ==
    ASSUME NEW batch \in Batches
    PROVE  batch \subseteq DueRows
  <1>1. ASSUME NEW S, NEW n, NEW T \in Oldest(S, n) PROVE T \subseteq S
    BY <1>1 DEF Oldest
  <1>2. CASE OutboxBatch = 1
    BY <1>1, <1>2 DEF Batches
  <1>3. CASE OutboxBatch # 1
    <2>1. PICK first \in Oldest(DueRows \cap Ingests, IngestShare) :
            batch \in UNION {{first \cup second \cup third :
                third \in Oldest((DueRows \cap Ingests) \ first,
                                 OutboxBatch - Cardinality(first \cup second))} :
                second \in Oldest(DueRows \ Ingests, OutboxBatch - Cardinality(first))}
      BY <1>3, Zenon DEF Batches
    <2>2. PICK second \in Oldest(DueRows \ Ingests, OutboxBatch - Cardinality(first)) :
            batch \in {first \cup second \cup third :
                third \in Oldest((DueRows \cap Ingests) \ first,
                                 OutboxBatch - Cardinality(first \cup second))}
      BY <2>1, Zenon
    <2>3. PICK third \in Oldest((DueRows \cap Ingests) \ first,
                                 OutboxBatch - Cardinality(first \cup second)) :
            batch = first \cup second \cup third
      BY <2>2, Zenon
    <2>4. first \subseteq DueRows /\ second \subseteq DueRows /\ third \subseteq DueRows
      BY <1>1
    <2> QED
      BY <2>3, <2>4
  <1> QED
    BY <1>2, <1>3

\* The window of a claim is positive.
LEMMA WindowType ==
    ASSUME NEW batch \in SUBSET Msgs, batch # {}
    PROVE  /\ Cardinality(batch) \in Nat \ {0}
           /\ PerRow * Cardinality(batch) \in Nat \ {0}
           /\ Visibility(Cardinality(batch)) = PerRow * Cardinality(batch)
  <1>1. IsFiniteSet(batch)
    BY OutboxAssumption, FS_Subset
  <1>2. Cardinality(batch) \in Nat /\ Cardinality(batch) # 0
    BY <1>1, FS_CardinalityType, FS_EmptySet
  <1>3. PerRow \in Nat \ {0}
    BY OutboxAssumption
  <1>4. \A p, c \in Nat \ {0} : p * c \in Nat \ {0}
    OBVIOUS
  <1> QED
    BY <1>2, <1>3, <1>4 DEF Visibility

\* An idle tick and an absent row have their types.
LEMMA IdleType == Idle \in Ticks /\ Absent \in Rows
  BY DEF Idle, Ticks, Absent, Rows

\* A tick that is done with a message is a tick.
LEMMA OnToNextType ==
    ASSUME OutboxTypeOK, NEW r \in Reconcilers
    PROVE  OnToNext(r) \in Ticks
  <1>1. tick[r] \in Ticks
    BY DEF OutboxTypeOK
  <1> QED
    BY <1>1, IdleType DEF OnToNext, Ticks, Idle, Absent, Rows

\* Deleting a row leaves every tick a tick.
LEMMA DeletedType ==
    ASSUME OutboxTypeOK, NEW m \in Msgs
    PROVE  Deleted(m) \in [Reconcilers -> Ticks]
  BY DEF OutboxTypeOK, Deleted, Ticks

\* A row that is claimed has the type of a row.
LEMMA ClaimedType ==
    ASSUME NEW row \in Rows, NEW n \in Nat, NEW d \in Int
    PROVE  [row EXCEPT !.attempts = n, !.due = d] \in Rows
  BY DEF Rows

\* A row that is given up is a row.
LEMMA DeadType ==
    ASSUME NEW row \in Rows, NEW d \in Int
    PROVE  [row EXCEPT !.status = "dead", !.due = d] \in Rows
  BY DEF Rows

\* A refused attempt leaves a row, keeps its attempts, and is given up only when spent.
LEMMA RefusedType ==
    ASSUME NEW row \in Rows, NEW seen \in Rows, NEW passed \in 0 .. RetryDelay(seen.attempts)
    PROVE  /\ Refused(row, seen, passed) \in Rows
           /\ Refused(row, seen, passed).attempts = row.attempts
           /\ Refused(row, seen, passed).status \in {row.status, "dead"}
           /\ (Refused(row, seen, passed).status = "dead" /\ row.status # "dead") => Spent(seen)
  <1>1. RetryDelay(seen.attempts) \in Int /\ passed \in Int
    BY DelayType DEF Rows
  <1>2. CASE Refused(row, seen, passed) = row
    BY <1>2 DEF Rows
  <1>3. CASE /\ Spent(seen)
             /\ Refused(row, seen, passed) = [row EXCEPT !.status = "dead", !.due = 0]
    <2>1. [row EXCEPT !.status = "dead", !.due = 0] \in Rows
      <3> DEFINE z == 0
      <3>1. z \in Int
        OBVIOUS
      <3> HIDE DEF z
      <3>2. [row EXCEPT !.status = "dead", !.due = z] \in Rows
        BY <3>1, DeadType
      <3> QED
        BY <3>2, Zenon DEF z
    <2>2. [row EXCEPT !.status = "dead", !.due = 0].attempts = row.attempts
      BY DEF Rows
    <2>3. [row EXCEPT !.status = "dead", !.due = 0].status = "dead"
      BY DEF Rows
    <2> QED
      BY <1>3, <2>1, <2>2, <2>3
  <1>4. CASE Refused(row, seen, passed)
                = [row EXCEPT !.due = RetryDelay(seen.attempts) - passed]
    <2>1. RetryDelay(seen.attempts) - passed \in Int
      BY <1>1
    <2> HIDE DEF Refused
    <2> QED
      BY <1>4, <2>1 DEF Rows
  <1> QED
    BY <1>2, <1>3, <1>4, Zenon DEF Refused

-----------------------------------------------------------------------------
(* Types. *)

\* A tick is at a message exactly while it reads and writes its row.
AtItsMessage ==
    \A r \in Reconcilers : tick[r].stage \in {"read", "write"} <=> tick[r].at \in Msgs

\* Every step keeps the types.
LEMMA OutboxTypeStep ==
    ASSUME OutboxTypeOK, AtItsMessage, [OutboxNext]_outboxVars
    PROVE  OutboxTypeOK'
  <1> USE DEF OutboxTypeOK
  <1>a. moves \in Nat /\ moves + 1 \in Nat
    OBVIOUS
  <1>d. \A m \in Msgs : Deleted(m) \in [Reconcilers -> Ticks]
    BY DeletedType
  <1>i. Idle \in Ticks /\ Absent \in Rows
    BY IdleType
  <1>o. \A r \in Reconcilers : OnToNext(r) \in Ticks
    BY OnToNextType
  <1>t. ASSUME NEW m \in Msgs, NEW ok \in BOOLEAN, Published(m, ok)
        PROVE  stream' \in [Msgs -> Nat] /\ recent' \subseteq Msgs
    BY <1>t DEF Published, Take
  <1>1. ASSUME NEW m \in Msgs, NEW b \in Attempts, NEW ok \in BOOLEAN,
               Publish(m, b, ok)
        PROVE  OutboxTypeOK'
    <2>1. sender' \in [Msgs -> [Attempts -> Senders]]
      BY <1>1 DEF Publish, Senders
    <2>2. stream' \in [Msgs -> Nat] /\ recent' \subseteq Msgs
      BY <1>1, <1>t DEF Publish
    <2> QED
      BY <1>1, <2>1, <2>2, <1>a DEF Publish, Move, ends
  <1>2. ASSUME NEW m \in Msgs, NEW b \in Attempts, Deliver(m, b) PROVE OutboxTypeOK'
    <2>1. sender' \in [Msgs -> [Attempts -> Senders]]
      BY <1>2 DEF Deliver, Senders
    <2>2. rows' \in [Msgs -> Rows] /\ tick' \in [Reconcilers -> Ticks]
      BY <1>2, <1>d, <1>i DEF Deliver
    <2> QED
      BY <1>2, <2>1, <2>2 DEF Deliver, bus, ends
  <1>3. ASSUME NEW m \in Msgs, NEW b \in Attempts, Record(m, b) PROVE OutboxTypeOK'
    <2>1. sender' \in [Msgs -> [Attempts -> Senders]]
      BY <1>3 DEF Record, Senders
    <2>2. NewRow(m) \in Rows
      BY DEF NewRow, Rows
    <2>3. rows' \in [Msgs -> Rows]
      BY <1>3, <2>2 DEF Record
    <2> QED
      BY <1>3, <2>1, <2>3 DEF Record, bus, ends
  <1>4. ASSUME NEW m \in Msgs, NEW b \in Attempts, RecordFails(m, b) PROVE OutboxTypeOK'
    <2>0. lost' \subseteq Msgs
      BY <1>4 DEF RecordFails
    <2>1. sender' \in [Msgs -> [Attempts -> Senders]] /\ lost' \subseteq Msgs
      <3>1. CASE sender' = [sender EXCEPT ![m][b] = "failed"]
        BY <2>0, <3>1 DEF Senders
      <3>2. CASE sender' = [sender EXCEPT ![m][b] = "recorded"]
        BY <2>0, <3>2 DEF Senders
      <3> QED
        BY <1>4, <3>1, <3>2 DEF RecordFails
    <2> QED
      BY <1>4, <2>1 DEF RecordFails, bus
  <1>6. ASSUME NEW m \in Msgs, DiscardDead(m) PROVE OutboxTypeOK'
    <2>1. rows' \in [Msgs -> Rows] /\ tick' \in [Reconcilers -> Ticks]
      BY <1>6, <1>d, <1>i DEF DiscardDead
    <2> QED
      BY <1>6, <2>1 DEF DiscardDead, bus
  <1>7. ASSUME NEW m \in Msgs, WindowEnds(m) PROVE OutboxTypeOK'
    BY <1>7 DEF WindowEnds, ends
  <1>8. ASSUME NEW r \in Reconcilers, NEW batch \in Batches,
           NEW passed \in 0 .. PerRow * Cardinality(batch) - 1,
           ClaimDue(r, batch, passed)
        PROVE  OutboxTypeOK'
    <2>1. batch \subseteq Msgs /\ batch # {}
      BY <1>8, BatchIsDue DEF DueRows, ClaimDue
    <2>0. Visibility(Cardinality(batch)) \in Int /\ PerRow * Cardinality(batch) \in Nat
      BY <2>1, WindowType
    <2>2. /\ Visibility(Cardinality(batch)) - passed \in Int
          /\ PerRow * Cardinality(batch) - passed \in Nat
      BY <2>0
    <2>3. rows' \in [Msgs -> Rows]
      <3>1. ASSUME NEW m \in Msgs
            PROVE  [rows[m] EXCEPT !.attempts = @ + 1,
                                   !.due = Visibility(Cardinality(batch)) - passed] \in Rows
        <4>1. rows[m] \in Rows /\ rows[m].attempts + 1 \in Nat
          BY DEF Rows
        <4> QED
          BY <2>2, <4>1, ClaimedType
      <3> QED
        BY <1>8, <3>1 DEF ClaimDue
    <2>4. [Idle EXCEPT !.stage = "publish", !.work = batch,
                       !.left = IF Lapses THEN 0
                                ELSE PerRow * Cardinality(batch) - passed] \in Ticks
      BY <2>1, <2>2, <1>i DEF Ticks
    <2>5. tick' \in [Reconcilers -> Ticks]
      BY <1>8, <2>4 DEF ClaimDue
    <2> QED
      BY <1>8, <2>3, <2>5 DEF ClaimDue, bus, ends
  <1>9. ASSUME NEW r \in Reconcilers, NEW m \in Msgs, NEW ok \in BOOLEAN,
               Republish(r, m, ok)
        PROVE  OutboxTypeOK'
    <2>1. [tick[r] EXCEPT !.stage = "read", !.work = @ \ {m}, !.at = m, !.ok = ok] \in Ticks
      BY DEF Ticks
    <2>3. tick' \in [Reconcilers -> Ticks]
      BY <1>9, <2>1 DEF Republish, Ticks
    <2>2. stream' \in [Msgs -> Nat] /\ recent' \subseteq Msgs
      BY <1>9, <1>t DEF Republish
    <2> QED
      BY <1>9, <2>2, <2>3 DEF Republish, ends
  <1>10. ASSUME NEW r \in Reconcilers, ReadRow(r) PROVE OutboxTypeOK'
    <2>1. tick[r] \in Ticks
      OBVIOUS
    <2>2. RowAt(r) \in Rows
      BY <1>10, <1>i, <2>1 DEF RowAt, ReadRow, AtItsMessage
    <2>3. [tick[r] EXCEPT !.stage = "write", !.seen = RowAt(r)] \in Ticks
      BY <2>1, <2>2 DEF Ticks
    <2>4. tick' \in [Reconcilers -> Ticks]
      BY <1>10, <1>o, <2>3 DEF ReadRow
    <2> QED
      BY <1>10, <2>4 DEF ReadRow, bus, ends
  <1>11. ASSUME NEW r \in Reconcilers, WriteOutcome(r) PROVE OutboxTypeOK'
    <2>1. tick[r] \in Ticks /\ tick[r].at \in Msgs
      BY <1>11 DEF WriteOutcome, AtItsMessage
    <2>2. tick[r].seen \in Rows
      BY <2>1 DEF Ticks
    <2>3. tick' \in [Reconcilers -> Ticks]
      BY <1>11, <1>o, <1>i, <1>d, <2>1 DEF WriteOutcome
    <2>4. rows' \in [Msgs -> Rows]
      <3>1. \A passed \in 0 .. RetryDelay(tick[r].seen.attempts) :
                Refused(rows[tick[r].at], tick[r].seen, passed) \in Rows
        BY <2>1, <2>2, RefusedType
      <3> QED
        BY <1>11, <1>i, <2>1, <3>1 DEF WriteOutcome
    <2> QED
      BY <1>11, <2>3, <2>4 DEF WriteOutcome, bus, ends
  <1>12. ASSUME NEW r \in Reconcilers, TickDies(r) PROVE OutboxTypeOK'
    BY <1>12, <1>a, <1>i DEF TickDies, Move, bus, ends
  <1>13. CASE RequeueDead
    <2>1. rows' \in [Msgs -> Rows]
      BY <1>13 DEF RequeueDead, Rows
    <2> QED
      BY <1>13, <1>a, <2>1 DEF RequeueDead, Move, bus, RequeueableRows
  <1>14. CASE BrokerTurns
    BY <1>14 DEF BrokerTurns, ends
  <1>15. CASE OutboxTick
    <2>1. rows' \in [Msgs -> Rows]
      <3>1. Overdue \in Nat
        BY OutboxAssumption
      <3>2. ASSUME NEW m \in Msgs PROVE [rows[m] EXCEPT !.due = Before(@)] \in Rows
        <4>1. rows[m] \in Rows /\ rows[m].due \in Int
          BY DEF Rows
        <4>2. Before(rows[m].due) \in Int
          BY <3>1, <4>1 DEF Before
        <4> HIDE DEF OutboxTypeOK
        <4> QED
          BY <4>1, <4>2 DEF Rows
      <3> QED
        BY <1>15, <3>2 DEF OutboxTick
    <2>2. tick' \in [Reconcilers -> Ticks]
      <3>1. ASSUME NEW r \in Reconcilers
            PROVE  [tick[r] EXCEPT !.left = IF @ > 0 THEN @ - 1 ELSE 0] \in Ticks
        <4>1. tick[r] \in Ticks
          OBVIOUS
        <4> HIDE DEF OutboxTypeOK
        <4> QED
          BY <4>1 DEF Ticks
      <3> QED
        BY <1>15, <3>1 DEF OutboxTick
    <2> QED
      BY <1>15, <2>1, <2>2 DEF OutboxTick, bus, ends
  <1>16. CASE UNCHANGED outboxVars
    BY <1>16 DEF outboxVars, bus, ends
  <1> QED
    BY <1>1, <1>2, <1>3, <1>4, <1>6, <1>7, <1>8, <1>9, <1>10, <1>11, <1>12, <1>13,
       <1>14, <1>15, <1>16
       DEF OutboxNext, MessageStep, AttemptStep, ReconcilerStep

-----------------------------------------------------------------------------
(* What is known of a tick. *)

\* The rows a tick holds, and what the deletion of a row does to it.
Claimed(t) == ((t.work \cup {t.at}) \ {NoMsg}) \ t.gone

\* A deleted row leaves what its holders hold, and nothing else of them changes.
LEMMA AfterDelete ==
    ASSUME OutboxTypeOK, NEW m \in Msgs, NEW q \in Reconcilers
    PROVE  /\ Deleted(m)[q].stage = tick[q].stage /\ Deleted(m)[q].at = tick[q].at
           /\ Deleted(m)[q].work = tick[q].work /\ Deleted(m)[q].ok = tick[q].ok
           /\ Deleted(m)[q].left = tick[q].left /\ Deleted(m)[q].seen = tick[q].seen
           /\ Claimed(Deleted(m)[q]) = Claimed(tick[q]) \ {m}
           /\ tick[q].gone \subseteq Deleted(m)[q].gone
           /\ m \in Msgs /\ tick[q].at = m => m \in Deleted(m)[q].gone
  <1>1. tick[q] \in Ticks
    BY DEF OutboxTypeOK
  <1>2. m # NoMsg
    BY OutboxAssumption
  <1>3. CASE m \in Held(q)
    <2>1. Deleted(m)[q] = [tick[q] EXCEPT !.gone = @ \cup {m}]
      BY <1>3 DEF Deleted
    <2> QED
      BY <1>1, <1>3, <2>1, <1>2 DEF Ticks, Claimed, Held
  <1>4. CASE m \notin Held(q)
    <2>1. Deleted(m)[q] = tick[q]
      BY <1>4 DEF Deleted
    <2> QED
      BY <1>2, <1>4, <2>1 DEF Claimed, Held
  <1> QED
    BY <1>3, <1>4

\* A tick that goes on holds what was left of its batch.
LEMMA AfterRow ==
    ASSUME OutboxTypeOK, NEW r \in Reconcilers
    PROVE  /\ OnToNext(r).stage \in {"idle", "publish"} /\ OnToNext(r).at = NoMsg
           /\ Claimed(OnToNext(r)) \subseteq Claimed(tick[r])
           /\ (OnToNext(r).stage = "idle") <=> (OnToNext(r) = Idle)
           /\ OnToNext(r).stage # "idle" => OnToNext(r).left = tick[r].left
           /\ tick[r].at \notin tick[r].work => tick[r].at \notin Claimed(OnToNext(r))
  <1>1. tick[r] \in Ticks
    BY DEF OutboxTypeOK
  <1>2. CASE tick[r].work = {}
    BY <1>2 DEF OnToNext, Idle, Claimed
  <1>3. CASE tick[r].work # {}
    <2>1. OnToNext(r) = [stage |-> "publish", work |-> tick[r].work, at |-> NoMsg,
                         gone |-> tick[r].gone \cap tick[r].work, ok |-> FALSE,
                         seen |-> Absent, left |-> tick[r].left]
      BY <1>3 DEF OnToNext, Idle
    <2>2. Idle.stage = "idle"
      BY DEF Idle
    <2> QED
      BY <1>1, <2>1, <2>2 DEF Claimed, Ticks
  <1> QED
    BY <1>2, <1>3

\* An idle tick holds nothing.
LEMMA IdleHoldsNothing ==
    /\ Claimed(Idle) = {} /\ Idle.stage = "idle" /\ Idle.at = NoMsg
    /\ Idle.work = {} /\ Idle.left = 0
  BY DEF Idle, Claimed

\* A tick that is idle holds nothing; one that is at a message has taken it out of its
\* batch, and the stream has it if the broker said so.  A row it holds is there, and
\* has had at least the attempts the tick saw, unless an operator put it back.
TickInv(t) ==
    /\ t.stage = "idle" => t.work = {} /\ t.left = 0
    /\ t.stage \in {"read", "write"} <=> t.at \in Msgs
    /\ t.at \notin t.work
    /\ t.stage \in {"read", "write"} /\ t.ok => stream[t.at] > 0
    /\ t.stage = "write" /\ t.at \notin t.gone =>
          t.seen.attempts <= rows[t.at].attempts \/ t.at \in requeued
    /\ Claimed(t) \cap bodyless = {}
    /\ \A m \in Claimed(t) : m \in Msgs /\ rows[m].status # "absent"

\* What is known of a message.  The three clauses after the second are
\* NothingGoesSilently, DeliveredLeavesNoRow and, for rows with a body, the part of
\* GivenUpWhenSpent that holds however long a batch takes.
RowInv(m) ==
    /\ m \in recent => stream[m] > 0
    /\ \A a \in Attempts : sender[m][a] \in {"accepted", "delivered", "late"} => stream[m] > 0
    /\ \A a \in Attempts : sender[m][a] = "recorded" =>
          stream[m] > 0 \/ rows[m].status # "absent" \/ m \in discarded \cup lost
    /\ m \in Ingests /\ rows[m].status = "pending" =>
          \/ m \in requeued
          \/ \E a \in Attempts : sender[m][a] = "late"
          \/ \A a \in Attempts : sender[m][a] # "delivered"
    /\ m \notin bodyless /\ rows[m].status = "dead" /\ rows[m].attempts < OutboxAttempts =>
          m \in requeued
    /\ m \in bodyless => rows[m].status # "pending"

OutboxInv ==
    /\ OutboxTypeOK
    /\ \A m \in Msgs : RowInv(m)
    /\ \A r \in Reconcilers : TickInv(tick[r])

\* The stream never gives a message back.
LEMMA StreamGrows ==
    ASSUME OutboxTypeOK, NEW m \in Msgs, NEW ok \in BOOLEAN, Published(m, ok),
           \A n \in Msgs : n \in recent => stream[n] > 0
    PROVE  /\ \A n \in Msgs : stream'[n] >= stream[n] /\ (n \in recent' => stream'[n] > 0)
           /\ ok => stream'[m] > 0
  BY DEF OutboxTypeOK, Published, Take

\* A claim gives the rows of its batch an attempt and a window, and nothing else.
LEMMA ClaimEffect ==
    ASSUME OutboxTypeOK, NEW r \in Reconcilers, NEW batch \in Batches,
           NEW passed \in 0 .. PerRow * Cardinality(batch) - 1,
           ClaimDue(r, batch, passed)
    PROVE  /\ batch \subseteq DueRows
           /\ PerRow * Cardinality(batch) - passed \in Nat \ {0}
           /\ \A n \in Msgs : /\ rows'[n].status = rows[n].status
                              /\ rows'[n].attempts >= rows[n].attempts
           /\ \A n \in batch : rows'[n].due = PerRow * Cardinality(batch) - passed
           /\ \A n \in Msgs \ batch : rows'[n] = rows[n]
  <1>1. batch \subseteq DueRows /\ batch \subseteq Msgs /\ batch # {}
    BY BatchIsDue DEF ClaimDue, DueRows
  <1>2. /\ PerRow * Cardinality(batch) \in Nat \ {0}
        /\ Visibility(Cardinality(batch)) = PerRow * Cardinality(batch)
        /\ PerRow * Cardinality(batch) \in Int
    BY <1>1, WindowType
  <1>6. PerRow * Cardinality(batch) - passed \in Nat \ {0}
    BY <1>2
  <1>3. \A n \in Msgs \ batch : rows'[n] = rows[n]
    BY DEF ClaimDue
  <1>4. ASSUME NEW n \in batch
        PROVE  /\ rows'[n].status = rows[n].status
               /\ rows'[n].attempts >= rows[n].attempts
               /\ rows'[n].due = PerRow * Cardinality(batch) - passed
    <2>1. rows[n] \in Rows /\ rows[n].attempts \in Nat /\ rows[n].attempts + 1 \in Nat
      BY <1>1 DEF OutboxTypeOK, Rows
    <2> DEFINE row == rows[n]
               a == rows[n].attempts + 1
               d == PerRow * Cardinality(batch) - passed
    <2>2. rows'[n] = [row EXCEPT !.attempts = a, !.due = d]
      BY <1>1, <1>2 DEF ClaimDue
    <2>3. row \in Rows /\ a \in Nat /\ d \in Int /\ a >= rows[n].attempts
      BY <1>2, <1>6, <2>1
    <2> HIDE DEF row, a, d
    <2>4. rows'[n].status = row.status
      BY <2>2, <2>3 DEF Rows
    <2>5. rows'[n].attempts = a
      BY <2>2, <2>3 DEF Rows
    <2>6. rows'[n].due = d
      BY <2>2, <2>3 DEF Rows
    <2> QED
      BY <2>3, <2>4, <2>5, <2>6 DEF row, a, d
  <1>5. \A n \in Msgs : rows[n].attempts \in Nat
    BY DEF OutboxTypeOK, Rows
  <1> QED
    BY <1>1, <1>3, <1>4, <1>5, <1>6

\* Every step keeps what is known of each message.
LEMMA RowStep ==
    ASSUME OutboxInv, OutboxTypeOK', [OutboxNext]_outboxVars, NEW n \in Msgs
    PROVE  RowInv(n)'
  <1> USE DEF RowInv
  <1>t. OutboxTypeOK /\ RowInv(n) /\ OutboxAttempts \in Nat
    BY OutboxAssumption DEF OutboxInv
  <1>y. /\ rows \in [Msgs -> Rows] /\ rows' \in [Msgs -> Rows]
        /\ sender \in [Msgs -> [Attempts -> Senders]] /\ stream \in [Msgs -> Nat]
        /\ stream' \in [Msgs -> Nat]
    BY <1>t DEF OutboxTypeOK
  <1>a. Absent.status = "absent"
    BY DEF Absent
  <1>1. ASSUME NEW m \in Msgs, NEW b \in Attempts, NEW ok \in BOOLEAN,
               Publish(m, b, ok)
        PROVE  RowInv(n)'
    <2>1. /\ \A k \in Msgs : stream'[k] >= stream[k] /\ (k \in recent' => stream'[k] > 0)
          /\ ok => stream'[m] > 0
      BY <1>1, <1>t, StreamGrows DEF Publish, OutboxInv
    <2>2. \A a \in Attempts :
             \/ sender'[n][a] = sender[n][a] /\ ~(n = m /\ a = b)
             \/ n = m /\ a = b /\ sender'[n][a] = "accepted" /\ ok
             \/ n = m /\ a = b /\ sender'[n][a] = "refused"
      <3>0. sender' = [sender EXCEPT ![m][b] = IF ok THEN "accepted" ELSE "refused"]
        BY <1>1, Zenon DEF Publish
      <3>1. CASE ok
        BY <1>y, <3>0, <3>1
      <3>2. CASE ~ok
        BY <1>y, <3>0, <3>2
      <3> QED
        BY <3>1, <3>2
    <2>3. sender[m][b] = "away"
      BY <1>1 DEF Publish
    <2>4. UNCHANGED <<rows, lost, discarded, requeued, bodyless>>
      BY <1>1 DEF Publish, ends
    <2>5. \A a \in Attempts : sender[n][a] = "late" => sender'[n][a] = "late"
      BY <2>2, <2>3
    <2>6. stream[n] \in Nat /\ stream'[n] \in Nat /\ stream'[n] >= stream[n]
      BY <1>y, <2>1
    <2>7. \A a \in Attempts : sender'[n][a] \in {"accepted", "delivered", "late"} => stream'[n] > 0
      BY <1>t, <2>1, <2>2, <2>6
    <2> QED
      BY <1>t, <2>1, <2>2, <2>4, <2>5, <2>6, <2>7
  <1>2. ASSUME NEW m \in Msgs, NEW b \in Attempts, Deliver(m, b) PROVE RowInv(n)'
    <2>1. CASE n = m
      <3>1. /\ sender[n][b] = "accepted" /\ sender'[n][b] = "delivered"
            /\ \A a \in Attempts \ {b} : sender'[n][a] = sender[n][a]
        BY <1>2, <1>y, <2>1 DEF Deliver
      <3>2. rows'[n] = IF ForgetRecorded(n) THEN Absent ELSE rows[n]
        BY <1>2, <1>y, <2>1 DEF Deliver
      <3>3. UNCHANGED <<stream, recent, lost, discarded, requeued, bodyless>>
        BY <1>2 DEF Deliver, bus, ends
      <3> QED
        BY <1>t, <1>y, <1>a, <3>1, <3>2, <3>3 DEF ForgetRecorded
    <2>2. CASE n # m
      BY <1>2, <1>t, <1>y, <2>2 DEF Deliver, bus, ends
    <2> QED
      BY <2>1, <2>2
  <1>3. ASSUME NEW m \in Msgs, NEW b \in Attempts, Record(m, b) PROVE RowInv(n)'
    <2>1. CASE n = m
      <3>1. /\ sender[n][b] = "refused"
            /\ sender'[n][b] = IF n \in Delivered THEN "late" ELSE "recorded"
            /\ \A a \in Attempts \ {b} : sender'[n][a] = sender[n][a]
        BY <1>3, <1>y, <2>1 DEF Record
      <3>2. rows'[n] = IF rows[n].status = "absent" THEN NewRow(n) ELSE rows[n]
        BY <1>3, <1>y, <2>1 DEF Record
      <3>3. UNCHANGED <<stream, recent, lost, discarded, requeued, bodyless>>
        BY <1>3 DEF Record, bus, ends
      <3>4. /\ NewRow(n).status = IF n \in bodyless THEN "dead" ELSE "pending"
        BY DEF NewRow, Replayable
      <3>5. CASE n \in Delivered
        <4>1. stream[n] > 0
          BY <1>t, <3>5 DEF Delivered
        <4> QED
          BY <1>t, <3>1, <3>2, <3>3, <3>4, <3>5, <4>1
      <3>6. CASE n \notin Delivered
        <4>1. \A a \in Attempts : sender[n][a] # "delivered"
          BY <3>6 DEF Delivered
        <4> QED
          BY <1>t, <3>1, <3>2, <3>3, <3>4, <3>6, <4>1
      <3> QED
        BY <3>5, <3>6
    <2>2. CASE n # m
      BY <1>3, <1>t, <1>y, <2>2 DEF Record, bus, ends
    <2> QED
      BY <2>1, <2>2
  <1>4. ASSUME NEW m \in Msgs, NEW b \in Attempts, RecordFails(m, b) PROVE RowInv(n)'
    <2>1. /\ \A a \in Attempts :
                \/ sender'[n][a] = sender[n][a]
                \/ sender'[n][a] = "failed" /\ sender[n][a] # "late"
                \/ sender'[n][a] = "recorded" /\ sender[n][a] # "late" /\ n \in lost'
          /\ lost \subseteq lost'
      <3>1. CASE m \in Ingests /\ sender[m][b] \in {"accepted", "refused"}
                 /\ sender' = [sender EXCEPT ![m][b] = "failed"] /\ lost' = lost
        <4>1. CASE n = m
          <5>1. sender'[n] = [sender[n] EXCEPT ![b] = "failed"] /\ sender[n] \in [Attempts -> Senders]
            BY <1>y, <3>1, <4>1
          <5> QED
            BY <3>1, <4>1, <5>1
        <4>2. CASE n # m
          BY <1>y, <3>1, <4>2
        <4> QED
          BY <4>1, <4>2
      <3>2. CASE sender[m][b] = "refused" /\ lost' = lost \cup {m}
                 /\ sender' = [sender EXCEPT ![m][b] = "recorded"]
        <4>1. CASE n = m
          <5>1. sender'[n] = [sender[n] EXCEPT ![b] = "recorded"] /\ sender[n] \in [Attempts -> Senders]
            BY <1>y, <3>2, <4>1
          <5> QED
            BY <3>2, <4>1, <5>1
        <4>2. CASE n # m
          BY <1>y, <3>2, <4>2
        <4> QED
          BY <4>1, <4>2
      <3> QED
        BY <1>4, <3>1, <3>2 DEF RecordFails
    <2>2. UNCHANGED <<rows, stream, recent, discarded, requeued, bodyless>>
      BY <1>4 DEF RecordFails, bus
    <2> QED
      BY <1>t, <2>1, <2>2
  <1>6. ASSUME NEW m \in Msgs, DiscardDead(m) PROVE RowInv(n)'
    BY <1>6, <1>t, <1>y, <1>a DEF DiscardDead, bus
  <1>7. ASSUME NEW m \in Msgs, WindowEnds(m) PROVE RowInv(n)'
    BY <1>7, <1>t, <1>y DEF WindowEnds, ends
  <1>8. ASSUME NEW r \in Reconcilers, NEW batch \in Batches,
           NEW passed \in 0 .. PerRow * Cardinality(batch) - 1,
           ClaimDue(r, batch, passed)
        PROVE  RowInv(n)'
    <2>1. /\ rows'[n].status = rows[n].status
          /\ rows'[n].attempts >= rows[n].attempts
      BY <1>8, <1>t, ClaimEffect
    <2>2. rows[n].attempts \in Nat /\ rows'[n].attempts \in Nat
      BY <1>y DEF Rows
    <2>3. UNCHANGED <<sender, stream, recent, lost, discarded, requeued, bodyless>>
      BY <1>8 DEF ClaimDue, bus, ends
    <2> QED
      BY <1>t, <2>1, <2>2, <2>3
  <1>9. ASSUME NEW r \in Reconcilers, NEW m \in Msgs, NEW ok \in BOOLEAN,
               Republish(r, m, ok)
        PROVE  RowInv(n)'
    <2>1. \A k \in Msgs : stream'[k] >= stream[k] /\ (k \in recent' => stream'[k] > 0)
      BY <1>9, <1>t, StreamGrows DEF Republish, OutboxInv
    <2> QED
      BY <1>9, <1>t, <1>y, <2>1 DEF Republish, ends
  <1>10. ASSUME NEW r \in Reconcilers, ReadRow(r) PROVE RowInv(n)'
    BY <1>10, <1>t DEF ReadRow, bus, ends
  <1>11. ASSUME NEW r \in Reconcilers, WriteOutcome(r) PROVE RowInv(n)'
    <2> DEFINE m == tick[r].at
    <2>1. tick[r] \in Ticks /\ m \in Msgs /\ TickInv(tick[r]) /\ tick[r].stage = "write"
      BY <1>11, <1>t DEF WriteOutcome, OutboxInv, TickInv, OutboxTypeOK
    <2>2. tick[r].seen \in Rows
      BY <2>1 DEF Ticks
    <2>3. CASE rows'[n] = rows[n]
      BY <1>11, <1>t, <2>3 DEF WriteOutcome, bus, ends
    <2>4. CASE n = m /\ tick[r].ok
      <3>1. stream[n] > 0
        BY <2>1, <2>4 DEF TickInv
      <3>2. rows'[n] \in {rows[n], Absent}
        BY <1>11, <1>y, <2>4 DEF WriteOutcome
      <3> QED
        BY <1>11, <1>t, <1>a, <3>1, <3>2 DEF WriteOutcome, bus, ends
    <2>5. CASE n = m /\ ~tick[r].ok /\ rows'[n] # rows[n]
      <3>1. RowAt(r).status # "absent"
        BY <1>11, <2>5 DEF WriteOutcome
      <3>2. m \notin tick[r].gone
        BY <3>1, <1>a DEF RowAt
      <3>3. PICK passed \in 0 .. RetryDelay(tick[r].seen.attempts) :
               rows'[m] = Refused(rows[m], tick[r].seen, passed)
        BY <1>11, <1>y, <2>1, <2>5 DEF WriteOutcome
      <3>4. /\ rows'[m].attempts = rows[m].attempts
            /\ rows'[m].status \in {rows[m].status, "dead"}
            /\ rows'[m].status = "dead" /\ rows[m].status # "dead" => Spent(tick[r].seen)
        <4>1. rows[m] \in Rows
          BY <1>y, <2>1
        <4> QED
          BY <3>3, <4>1, <2>2, RefusedType
      <3>5. tick[r].seen.attempts <= rows[m].attempts \/ m \in requeued
        BY <2>1, <3>2 DEF TickInv
      <3>6. rows[m].status # "absent"
        BY <3>1, <3>2 DEF RowAt
      <3>7. rows[m].attempts \in Nat /\ tick[r].seen.attempts \in Nat
        BY <1>y, <2>1, <2>2 DEF Rows
      <3>8. rows'[m].status = "dead" /\ rows[m].status # "dead" =>
               rows'[m].attempts >= OutboxAttempts \/ m \in requeued
        BY <3>4, <3>5, <3>7, <1>t DEF Spent
      <3> QED
        BY <1>11, <1>t, <2>5, <3>4, <3>6, <3>7, <3>8 DEF WriteOutcome, bus, ends
    <2> QED
      BY <1>11, <1>y, <2>1, <2>3, <2>4, <2>5 DEF WriteOutcome
  <1>12. ASSUME NEW r \in Reconcilers, TickDies(r) PROVE RowInv(n)'
    BY <1>12, <1>t DEF TickDies, bus, ends
  <1>13. CASE RequeueDead
    BY <1>13, <1>t, <1>y DEF RequeueDead, RequeueableRows, Replayable, bus
  <1>14. CASE BrokerTurns
    BY <1>14, <1>t DEF BrokerTurns, ends
  <1>15. CASE OutboxTick
    <2>1. /\ rows'[n].status = rows[n].status
          /\ rows'[n].attempts = rows[n].attempts
      BY <1>15, <1>y DEF OutboxTick, Rows
    <2> QED
      BY <1>15, <1>t, <2>1 DEF OutboxTick, bus, ends
  <1>16. CASE UNCHANGED outboxVars
    BY <1>16, <1>t DEF outboxVars, bus, ends
  <1> QED
    BY <1>1, <1>2, <1>3, <1>4, <1>6, <1>7, <1>8, <1>9, <1>10, <1>11, <1>12, <1>13,
       <1>14, <1>15, <1>16
       DEF OutboxNext, MessageStep, AttemptStep, ReconcilerStep

\* A tick that loses at most a deleted row keeps what is known of it, as long as the rows
\* it holds stay, with their attempts.
LEMMA TickKept ==
    ASSUME OutboxTypeOK, OutboxTypeOK', NEW q \in Reconcilers, TickInv(tick[q]),
           \/ tick'[q] = tick[q]
           \/ \E m \in Msgs : tick'[q] = Deleted(m)[q],
           \A n \in Msgs : stream'[n] >= stream[n],
           bodyless' = bodyless, requeued \subseteq requeued',
           \A n \in Claimed(tick'[q]) :
               /\ rows'[n].status # "absent"
               /\ rows'[n].attempts >= rows[n].attempts \/ n \in requeued'
    PROVE  TickInv(tick[q])'
  <1> DEFINE t == tick[q]
             u == tick'[q]
  <1>0. t \in Ticks /\ u \in Ticks /\ rows \in [Msgs -> Rows] /\ rows' \in [Msgs -> Rows]
        /\ stream \in [Msgs -> Nat] /\ stream' \in [Msgs -> Nat]
    BY DEF OutboxTypeOK
  <1>1. /\ u.stage = t.stage /\ u.at = t.at /\ u.work = t.work /\ u.ok = t.ok
        /\ u.seen = t.seen /\ u.left = t.left /\ t.gone \subseteq u.gone
        /\ Claimed(u) \subseteq Claimed(t)
    BY AfterDelete
  <1>3. u.stage \in {"read", "write"} /\ u.ok => stream'[u.at] > 0
    BY <1>0, <1>1 DEF TickInv
  <1>4. u.stage = "write" /\ u.at \notin u.gone =>
            u.seen.attempts <= rows'[u.at].attempts \/ u.at \in requeued'
    <2>1. SUFFICES ASSUME u.stage = "write", u.at \notin u.gone
                   PROVE  u.seen.attempts <= rows'[u.at].attempts \/ u.at \in requeued'
      OBVIOUS
    <2>2. u.at \in Msgs /\ u.at # NoMsg
      BY <1>1, <2>1, OutboxAssumption DEF TickInv
    <2>3. u.at \in Claimed(u)
      BY <2>1, <2>2 DEF Claimed
    <2>4. t.seen.attempts <= rows[t.at].attempts \/ t.at \in requeued
      BY <1>1, <2>1 DEF TickInv
    <2>5. t.seen.attempts \in Nat /\ rows[t.at].attempts \in Nat /\ rows'[t.at].attempts \in Nat
      BY <1>0, <1>1, <2>2 DEF Ticks, Rows
    <2> QED
      BY <1>1, <2>3, <2>4, <2>5
  <1> QED
    BY <1>1, <1>3, <1>4 DEF TickInv

\* Every step keeps what is known of each tick.
LEMMA TickStep ==
    ASSUME OutboxInv, OutboxTypeOK', [OutboxNext]_outboxVars, NEW q \in Reconcilers
    PROVE  TickInv(tick[q])'
  <1>t. OutboxTypeOK /\ TickInv(tick[q])
    BY DEF OutboxInv
  <1>y. /\ rows \in [Msgs -> Rows] /\ rows' \in [Msgs -> Rows]
        /\ stream \in [Msgs -> Nat] /\ stream' \in [Msgs -> Nat]
        /\ tick \in [Reconcilers -> Ticks] /\ tick' \in [Reconcilers -> Ticks]
    BY <1>t DEF OutboxTypeOK
  <1>n. /\ \A n \in Msgs : rows[n].attempts \in Nat /\ stream[n] >= stream[n]
        /\ \A n \in Claimed(tick[q]) : /\ n \in Msgs /\ rows[n].status # "absent"
                                        /\ rows[n].attempts >= rows[n].attempts
        /\ \A m \in Msgs : Claimed(Deleted(m)[q]) = Claimed(tick[q]) \ {m}
    <2>1. \A n \in Msgs : rows[n].attempts \in Nat /\ stream[n] \in Nat
      BY <1>y DEF Rows
    <2> QED
      BY <1>t, <2>1, AfterDelete DEF TickInv
  <1>i. TickInv(Idle)'
    BY IdleHoldsNothing, OutboxAssumption DEF TickInv, Idle
  <1>1. ASSUME NEW m \in Msgs, NEW b \in Attempts, NEW ok \in BOOLEAN,
               Publish(m, b, ok)
        PROVE  TickInv(tick[q])'
    <2>1. \A n \in Msgs : stream'[n] >= stream[n]
      BY <1>1, <1>t, StreamGrows DEF Publish, OutboxInv, RowInv
    <2>2. UNCHANGED <<rows, tick, requeued, bodyless>>
      BY <1>1 DEF Publish, ends
    <2> QED
      BY <1>t, <1>n, <2>1, <2>2, TickKept
  <1>2. ASSUME NEW m \in Msgs, NEW b \in Attempts, Deliver(m, b) PROVE TickInv(tick[q])'
    <2>1. UNCHANGED <<stream, requeued, bodyless>>
      BY <1>2 DEF Deliver, bus, ends
    <2>2. CASE UNCHANGED <<rows, tick>>
      BY <1>t, <1>n, <2>1, <2>2, TickKept
    <2>3. CASE rows' = [rows EXCEPT ![m] = Absent] /\ tick' = Deleted(m)
      <3>1. \A n \in Msgs \ {m} : rows'[n] = rows[n]
        BY <1>y, <2>3
      <3> QED
        BY <1>t, <1>n, <2>1, <2>3, <3>1, TickKept
    <2> QED
      BY <1>2, <2>2, <2>3 DEF Deliver
  <1>3. ASSUME NEW m \in Msgs, NEW b \in Attempts, Record(m, b) PROVE TickInv(tick[q])'
    <2>1. UNCHANGED <<stream, requeued, bodyless, tick>>
      BY <1>3 DEF Record, bus, ends
    <2>2. \A n \in Msgs : rows[n].status # "absent" => rows'[n] = rows[n]
      BY <1>3, <1>y DEF Record
    <2> QED
      BY <1>t, <1>n, <2>1, <2>2, TickKept
  <1>4. ASSUME NEW m \in Msgs, NEW b \in Attempts, RecordFails(m, b) PROVE TickInv(tick[q])'
    <2>1. UNCHANGED <<rows, stream, requeued, bodyless, tick>>
      BY <1>4 DEF RecordFails, bus
    <2> QED
      BY <1>t, <1>n, <2>1, TickKept
  <1>6. ASSUME NEW m \in Msgs, DiscardDead(m) PROVE TickInv(tick[q])'
    <2>1. UNCHANGED <<stream, requeued, bodyless>>
      BY <1>6 DEF DiscardDead, bus
    <2>2. tick' = Deleted(m) /\ \A n \in Msgs \ {m} : rows'[n] = rows[n]
      BY <1>6, <1>y DEF DiscardDead
    <2> QED
      BY <1>t, <1>n, <2>1, <2>2, TickKept
  <1>7. ASSUME NEW m \in Msgs, WindowEnds(m) PROVE TickInv(tick[q])'
    <2>1. UNCHANGED <<rows, stream, requeued, bodyless, tick>>
      BY <1>7 DEF WindowEnds, ends
    <2> QED
      BY <1>t, <1>n, <2>1, TickKept
  <1>8. ASSUME NEW r \in Reconcilers, NEW batch \in Batches,
           NEW passed \in 0 .. PerRow * Cardinality(batch) - 1,
           ClaimDue(r, batch, passed)
        PROVE  TickInv(tick[q])'
    <2>1. /\ batch \subseteq DueRows
          /\ \A n \in Msgs : /\ rows'[n].status = rows[n].status
                             /\ rows'[n].attempts >= rows[n].attempts
      BY <1>8, <1>t, ClaimEffect
    <2>2. UNCHANGED <<stream, requeued, bodyless>>
      BY <1>8 DEF ClaimDue, bus, ends
    <2>3. CASE q # r
      <3>1. tick'[q] = tick[q]
        BY <1>8, <1>y, <2>3 DEF ClaimDue
      <3> QED
        BY <1>t, <1>n, <2>1, <2>2, <3>1, TickKept
    <2>4. CASE q = r
      <3> DEFINE left == IF Lapses THEN 0 ELSE PerRow * Cardinality(batch) - passed
                 u == [Idle EXCEPT !.stage = "publish", !.work = batch, !.left = left]
      <3>1. tick'[q] = u
        BY <1>8, <1>y, <2>4 DEF ClaimDue
      <3> HIDE DEF left
      <3>2. /\ u.stage = "publish" /\ u.work = batch /\ u.at = NoMsg /\ u.gone = {}
        BY DEF Idle
      <3> HIDE DEF u
      <3>3. Claimed(u) = batch
        BY <2>1, <3>2, OutboxAssumption DEF Claimed, DueRows
      <3>4. \A n \in batch : n \in Msgs /\ rows[n].status = "pending" /\ n \notin bodyless
        BY <2>1 DEF DueRows, OutboxInv, RowInv
      <3>5. NoMsg \notin Msgs
        BY OutboxAssumption
      <3> QED
        BY <2>1, <2>2, <3>1, <3>2, <3>3, <3>4, <3>5 DEF TickInv
    <2> QED
      BY <2>3, <2>4
  <1>9. ASSUME NEW r \in Reconcilers, NEW m \in Msgs, NEW ok \in BOOLEAN,
               Republish(r, m, ok)
        PROVE  TickInv(tick[q])'
    <2>1. /\ \A k \in Msgs : stream'[k] >= stream[k]
          /\ ok => stream'[m] > 0
      BY <1>9, <1>t, StreamGrows DEF Republish, OutboxInv, RowInv
    <2>2. UNCHANGED <<rows, requeued, bodyless>>
      BY <1>9 DEF Republish, ends
    <2>3. CASE q # r
      <3>1. tick'[q] = tick[q]
        BY <1>9, <1>y, <2>3 DEF Republish
      <3> QED
        BY <1>t, <1>n, <2>1, <2>2, <3>1, TickKept
    <2>4. CASE q = r
      <3> DEFINE u == tick'[q]
      <3>1. /\ u.stage = "read" /\ u.work = tick[q].work \ {m} /\ u.at = m
            /\ u.ok = ok /\ u.gone = tick[q].gone
        BY <1>9, <1>y, <2>4 DEF Republish, Ticks
      <3>2. tick[q].at = NoMsg /\ m \in tick[q].work
        BY <1>9, <1>t, <1>y, <2>4 DEF Republish, TickInv, Ticks
      <3> HIDE DEF u
      <3>3. Claimed(u) = Claimed(tick[q])
        BY <3>1, <3>2, OutboxAssumption DEF Claimed
      <3> QED
        BY <1>t, <2>1, <2>2, <3>1, <3>3 DEF TickInv, u
    <2> QED
      BY <2>3, <2>4
  <1>o. ASSUME NEW r \in Reconcilers, tick'[r] = OnToNext(r), q = r,
               rows' = rows \/ \A n \in Claimed(OnToNext(r)) : rows'[n] = rows[n],
               UNCHANGED <<stream, requeued, bodyless>>
        PROVE  TickInv(tick[q])'
    <2>1. /\ OnToNext(r).stage \in {"idle", "publish"} /\ OnToNext(r).at = NoMsg
          /\ Claimed(OnToNext(r)) \subseteq Claimed(tick[r])
          /\ OnToNext(r).stage = "idle" => OnToNext(r).work = {} /\ OnToNext(r).left = 0
      BY <1>t, AfterRow, IdleHoldsNothing
    <2>2. OnToNext(r).work \subseteq Msgs /\ NoMsg \notin Msgs
      BY <1>t, <1>o, OnToNextType, OutboxAssumption DEF Ticks
    <2> QED
      BY <1>t, <1>o, <2>1, <2>2 DEF TickInv
  <1>10. ASSUME NEW r \in Reconcilers, ReadRow(r) PROVE TickInv(tick[q])'
    <2>1. UNCHANGED <<rows, stream, requeued, bodyless>>
      BY <1>10 DEF ReadRow, bus, ends
    <2>2. CASE q # r
      <3>1. tick'[q] = tick[q]
        BY <1>10, <1>y, <2>2 DEF ReadRow
      <3> QED
        BY <1>t, <1>n, <2>1, <3>1, TickKept
    <2>3. CASE q = r /\ tick' = [tick EXCEPT ![r] = OnToNext(r)]
      BY <1>o, <1>y, <2>1, <2>3
    <2>4. CASE /\ q = r /\ RowAt(r).status # "absent"
               /\ tick' = [tick EXCEPT ![r].stage = "write", ![r].seen = RowAt(r)]
      <3> DEFINE u == tick'[q]
      <3>1. /\ u.stage = "write" /\ u.work = tick[q].work /\ u.at = tick[q].at
            /\ u.ok = tick[q].ok /\ u.gone = tick[q].gone /\ u.seen = RowAt(r)
        BY <1>y, <2>4 DEF Ticks
      <3>2. Claimed(u) = Claimed(tick[q])
        BY <3>1 DEF Claimed
      <3>3. tick[q].at \in Msgs /\ tick[q].stage = "read"
        BY <1>10, <1>t, <2>4 DEF ReadRow, TickInv
      <3>4. u.at \notin u.gone => u.seen = rows[u.at]
        BY <2>4, <3>1 DEF RowAt
      <3>5. rows[u.at].attempts \in Nat
        BY <1>n, <3>1, <3>3
      <3>6. u.at \notin u.gone => u.seen.attempts <= rows'[u.at].attempts
        BY <2>1, <3>4, <3>5
      <3> HIDE DEF u
      <3> QED
        BY <1>t, <2>1, <3>1, <3>2, <3>3, <3>6 DEF TickInv, u
    <2> QED
      BY <1>10, <2>2, <2>3, <2>4 DEF ReadRow
  <1>11. ASSUME NEW r \in Reconcilers, WriteOutcome(r) PROVE TickInv(tick[q])'
    <2> DEFINE m == tick[r].at
    <2>1. UNCHANGED <<stream, requeued, bodyless>>
      BY <1>11 DEF WriteOutcome, bus, ends
    <2>2. TickInv(tick[r]) /\ tick[r].stage = "write" /\ m \in Msgs /\ tick[r] \in Ticks
      BY <1>11, <1>y DEF WriteOutcome, OutboxInv, TickInv
    <2>3. /\ m \notin Claimed(OnToNext(r))
          /\ Claimed(OnToNext(r)) \subseteq Msgs
      BY <1>t, <2>2, AfterRow, OutboxAssumption DEF TickInv
    <2>4. CASE UNCHANGED rows /\ tick' = [tick EXCEPT ![r] = OnToNext(r)]
      BY <1>o, <1>t, <1>n, <1>y, <2>1, <2>4, TickKept
    <2>5. CASE UNCHANGED rows /\ tick' = [tick EXCEPT ![r] = Idle]
      BY <1>i, <1>t, <1>n, <1>y, <2>1, <2>5, TickKept
    <2>6. CASE /\ rows' = [rows EXCEPT ![m] = Absent]
               /\ tick' = [Deleted(m) EXCEPT ![r] = OnToNext(r)]
      <3>1. \A n \in Msgs \ {m} : rows'[n] = rows[n]
        BY <1>y, <2>6
      <3>2. CASE q = r
        <4>1. tick'[r] = OnToNext(r)
          BY <2>6, <3>2, DeletedType, <1>t, <2>2
        <4> QED
          BY <1>o, <2>1, <2>3, <3>1, <3>2, <4>1
      <3>3. CASE q # r
        <4>1. tick'[q] = Deleted(m)[q]
          BY <2>6, <3>3, DeletedType, <1>t, <2>2
        <4> QED
          BY <1>t, <1>n, <2>1, <2>2, <3>1, <4>1, TickKept
      <3> QED
        BY <3>2, <3>3
    <2>7. ASSUME NEW passed \in 0 .. RetryDelay(tick[r].seen.attempts),
                 rows' = [rows EXCEPT ![m] = Refused(@, tick[r].seen, passed)],
                 tick' = [tick EXCEPT ![r] = OnToNext(r)],
                 RowAt(r).status # "absent"
          PROVE  TickInv(tick[q])'
      <3>1. \A n \in Msgs \ {m} : rows'[n] = rows[n]
        BY <1>y, <2>7
      <3>2. tick[r].seen \in Rows /\ rows[m] \in Rows
        BY <1>y, <2>2 DEF Ticks
      <3>3. /\ rows'[m].attempts = rows[m].attempts
            /\ rows'[m].status \in {rows[m].status, "dead"}
        BY <1>y, <2>2, <2>7, <3>2, RefusedType
      <3>4. CASE q = r
        <4>1. tick'[r] = OnToNext(r)
          BY <1>y, <2>7, <3>4
        <4> QED
          BY <1>o, <2>1, <2>3, <3>1, <3>4, <4>1
      <3>5. CASE q # r
        <4>1. tick'[q] = tick[q]
          BY <1>y, <2>7, <3>5
        <4>2. \A n \in Claimed(tick'[q]) : /\ rows'[n].status # "absent"
                                           /\ rows'[n].attempts >= rows[n].attempts
          BY <1>n, <3>1, <3>3, <4>1
        <4> QED
          BY <1>t, <1>n, <2>1, <4>1, <4>2, TickKept
      <3> QED
        BY <3>4, <3>5
    <2> QED
      BY <1>11, <2>4, <2>5, <2>6, <2>7 DEF WriteOutcome
  <1>12. ASSUME NEW r \in Reconcilers, TickDies(r) PROVE TickInv(tick[q])'
    <2>1. UNCHANGED <<rows, stream, requeued, bodyless>>
      BY <1>12 DEF TickDies, bus, ends
    <2> QED
      BY <1>12, <1>i, <1>t, <1>n, <1>y, <2>1, TickKept DEF TickDies
  <1>14. CASE BrokerTurns
    <2>1. UNCHANGED <<rows, stream, requeued, bodyless, tick>>
      BY <1>14 DEF BrokerTurns, ends
    <2> QED
      BY <1>t, <1>n, <2>1, TickKept
  <1>13. CASE RequeueDead
    <2>1. UNCHANGED <<stream, bodyless, tick>> /\ requeued \subseteq requeued'
      BY <1>13 DEF RequeueDead, bus
    <2>2. ASSUME NEW n \in Msgs
          PROVE  rows'[n] = rows[n] \/ (rows'[n].status # "absent" /\ n \in requeued')
      <3>1. CASE n \in RequeueableRows
        BY <1>13, <3>1 DEF RequeueDead
      <3>2. CASE n \notin RequeueableRows
        BY <1>13, <3>2 DEF RequeueDead
      <3> QED
        BY <3>1, <3>2
    <2> QED
      BY <1>t, <1>n, <2>1, <2>2, TickKept
  <1>15. CASE OutboxTick
    <2>1. UNCHANGED <<stream, requeued, bodyless>>
      BY <1>15 DEF OutboxTick, bus, ends
    <2>2. \A n \in Msgs : /\ rows'[n].status = rows[n].status
                         /\ rows'[n].attempts = rows[n].attempts
      BY <1>15, <1>y DEF OutboxTick, Rows
    <2> DEFINE u == tick'[q]
    <2>3. /\ u.stage = tick[q].stage /\ u.work = tick[q].work /\ u.at = tick[q].at
          /\ u.ok = tick[q].ok /\ u.gone = tick[q].gone /\ u.seen = tick[q].seen
      BY <1>15, <1>y DEF OutboxTick, Ticks
    <2>4. tick[q].left = 0 => u.left = 0
      BY <1>15, <1>y DEF OutboxTick, Ticks
    <2>5. Claimed(u) = Claimed(tick[q])
      BY <2>3 DEF Claimed
    <2> HIDE DEF u
    <2>6. u.stage \in {"read", "write"} => u.at \in Msgs
      BY <1>t, <2>3 DEF TickInv
    <2> QED
      BY <1>t, <2>1, <2>2, <2>3, <2>4, <2>5, <2>6 DEF TickInv, u
  <1>16. CASE UNCHANGED outboxVars
    <2>1. UNCHANGED <<rows, stream, requeued, bodyless, tick>>
      BY <1>16 DEF outboxVars, bus, ends
    <2> QED
      BY <1>t, <1>n, <2>1, TickKept
  <1> QED
    BY <1>1, <1>2, <1>3, <1>4, <1>6, <1>7, <1>8, <1>9, <1>10, <1>11, <1>12, <1>13,
       <1>14, <1>15, <1>16
       DEF OutboxNext, MessageStep, AttemptStep, ReconcilerStep

\* Every step keeps the strengthening.
LEMMA OutboxInvStep ==
    ASSUME OutboxInv, [OutboxNext]_outboxVars
    PROVE  OutboxInv'
  <1>1. AtItsMessage
    BY DEF OutboxInv, TickInv, AtItsMessage
  <1>2. OutboxTypeOK'
    BY <1>1, OutboxTypeStep DEF OutboxInv
  <1> QED
    BY <1>2, RowStep, TickStep DEF OutboxInv

\* The empty outbox satisfies the strengthening.
LEMMA OutboxInvInit ==
    ASSUME OutboxInit
    PROVE  OutboxInv
  <1>1. OutboxTypeOK
    <2>1. rows \in [Msgs -> Rows] /\ tick \in [Reconcilers -> Ticks]
      BY IdleType DEF OutboxInit
    <2>2. sender \in [Msgs -> [Attempts -> Senders]] /\ stream \in [Msgs -> Nat]
      BY DEF OutboxInit, Senders
    <2> QED
      BY <2>1, <2>2 DEF OutboxInit, OutboxTypeOK
  <1>2. ASSUME NEW m \in Msgs PROVE RowInv(m)
    BY DEF OutboxInit, RowInv, Absent
  <1>3. ASSUME NEW r \in Reconcilers PROVE TickInv(tick[r])
    <2>1. tick[r] = Idle
      BY DEF OutboxInit
    <2> QED
      BY <2>1, IdleHoldsNothing, OutboxAssumption DEF TickInv
  <1> QED
    BY <1>1, <1>2, <1>3 DEF OutboxInv

\* The strengthening of every theorem below: the types, what a row and its senders
\* say of each message, and what a tick holds (nats_outbox.py, record and reconcile).
THEOREM OutboxInvariant == OutboxSpec => []OutboxInv
  <1>1. OutboxInit => OutboxInv
    BY OutboxInvInit
  <1>2. OutboxInv /\ [OutboxNext]_outboxVars => OutboxInv'
    BY OutboxInvStep
  <1> QED
    BY <1>1, <1>2, PTL DEF OutboxSpec

\* The rows, the senders, the ticks and the records of the outbox keep their types
\* through every step of nats_outbox.py.
THEOREM OutboxTypeCorrect == OutboxSpec => []OutboxTypeOK
  <1>1. OutboxInv => OutboxTypeOK
    BY DEF OutboxInv
  <1> QED
    BY <1>1, OutboxInvariant, PTL

\* No refused message is gone without a trace, however many reconcilers hold its row
\* and however late they write (publish_ingest_or_record, _record_attempt).
THEOREM NothingIsLostSilently == OutboxSpec => []NothingGoesSilently
  <1>1. OutboxInv => NothingGoesSilently
    BY DEF OutboxInv, RowInv, NothingGoesSilently, Through
  <1> QED
    BY <1>1, OutboxInvariant, PTL

\* However many attempts overlap, what an earlier one wrote down of a delivered run is
\* gone: a pending row is an operator's, or of an attempt whose own refusal is written
\* after the delivery (_forget_recorded, record_failed_publish).
THEOREM DeliveredStaysForgotten == OutboxSpec => []DeliveredLeavesNoRow
  <1>1. OutboxInv => DeliveredLeavesNoRow
    BY DEF OutboxInv, RowInv, DeliveredLeavesNoRow, Delivered, Msgs
  <1> QED
    BY <1>1, OutboxInvariant, PTL

\* No tick ever holds a message without its archive (_is_replayable).
THEOREM HollowIsNeverHeld == OutboxSpec => []NothingHollowIsReplayed
  <1>1. OutboxInv => NothingHollowIsReplayed
    BY DEF OutboxInv, TickInv, NothingHollowIsReplayed, Held, Claimed
  <1> QED
    BY <1>1, OutboxInvariant, PTL

-----------------------------------------------------------------------------
(* Batches that keep within their window. *)

\* While no batch outlasts the window of its claim, a row that a tick holds is pending
\* and hidden for at least as long as the batch may still take, so no other claim finds
\* it due; a row with a body is dead only when it had its attempts.
Saw(t) == t.stage = "write" /\ t.at \notin t.gone => t.seen.attempts <= rows[t.at].attempts

WindowInv ==
    /\ \A r \in Reconcilers : tick[r].stage # "idle" => tick[r].left > 0
    /\ \A r \in Reconcilers : \A m \in Claimed(tick[r]) :
          rows[m].status = "pending" /\ rows[m].due >= tick[r].left
    /\ \A r, q \in Reconcilers : r # q => Claimed(tick[r]) \cap Claimed(tick[q]) = {}
    /\ \A r \in Reconcilers : Saw(tick[r])
    /\ \A m \in Msgs \ bodyless :
          rows[m].status = "dead" => rows[m].attempts >= OutboxAttempts

\* The part of it that is about one tick survives a step that leaves the tick and its
\* rows alone, or deletes a row.
Undisturbed(q) ==
    /\ tick'[q] = tick[q] \/ \E m \in Msgs : tick'[q] = Deleted(m)[q]
    /\ \A n \in Claimed(tick'[q]) : rows'[n] = rows[n]

Shrinks(q) ==
    /\ Claimed(tick'[q]) \subseteq Claimed(tick[q])
    /\ tick'[q].stage # "idle" => tick[q].stage # "idle" /\ tick'[q].left = tick[q].left
    /\ \A n \in Claimed(tick'[q]) : rows'[n] = rows[n]
    /\ Saw(tick[q])'

\* A tick that a step leaves alone holds no more than before.
LEMMA UndisturbedShrinks ==
    ASSUME OutboxInv, WindowInv, NEW q \in Reconcilers, Undisturbed(q)
    PROVE  Shrinks(q)
  <1>t. OutboxTypeOK /\ TickInv(tick[q]) /\ Saw(tick[q])
    BY DEF OutboxInv, WindowInv
  <1>1. /\ tick'[q].stage = tick[q].stage /\ tick'[q].at = tick[q].at
        /\ tick'[q].left = tick[q].left /\ tick'[q].seen = tick[q].seen
        /\ Claimed(tick'[q]) \subseteq Claimed(tick[q])
        /\ tick[q].gone \subseteq tick'[q].gone
    BY <1>t, AfterDelete DEF Undisturbed
  <1>2. Saw(tick[q])'
    <2>1. SUFFICES ASSUME tick'[q].stage = "write", tick'[q].at \notin tick'[q].gone
                   PROVE  tick'[q].seen.attempts <= rows'[tick'[q].at].attempts
      BY DEF Saw
    <2>2. tick'[q].at \in Msgs /\ tick'[q].at # NoMsg
      BY <1>t, <1>1, <2>1, OutboxAssumption DEF TickInv
    <2>3. tick'[q].at \in Claimed(tick'[q])
      BY <2>1, <2>2 DEF Claimed
    <2>4. rows'[tick'[q].at] = rows[tick[q].at]
      BY <1>1, <2>3 DEF Undisturbed
    <2>5. tick[q].seen.attempts <= rows[tick[q].at].attempts
      BY <1>t, <1>1, <2>1 DEF Saw
    <2> QED
      BY <1>1, <2>4, <2>5
  <1> QED
    BY <1>1, <1>2 DEF Shrinks, Undisturbed

\* A step after which every tick holds no more than before keeps the windows.
LEMMA ShrinksKeeps ==
    ASSUME OutboxInv', WindowInv, bodyless' = bodyless,
           \A q \in Reconcilers : Shrinks(q),
           \A m \in Msgs \ bodyless : rows'[m].status = "dead" =>
               rows'[m].attempts >= OutboxAttempts
    PROVE  WindowInv'
  <1>1. \A r \in Reconcilers : tick'[r].stage # "idle" => tick'[r].left > 0
    BY DEF WindowInv, Shrinks
  <1>2. ASSUME NEW r \in Reconcilers, NEW m \in Claimed(tick'[r])
        PROVE  rows'[m].status = "pending" /\ rows'[m].due >= tick'[r].left
    <2>1. m \in Claimed(tick[r]) /\ rows'[m] = rows[m]
      BY <1>2 DEF Shrinks
    <2>2. tick'[r].stage # "idle"
      <3>1. TickInv(tick[r])' /\ tick'[r] \in Ticks
        BY DEF OutboxInv, OutboxTypeOK
      <3> QED
        BY <1>2, <3>1 DEF TickInv, Claimed, Ticks
    <2> QED
      BY <2>1, <2>2 DEF WindowInv, Shrinks
  <1>3. \A r, q \in Reconcilers : r # q => Claimed(tick'[r]) \cap Claimed(tick'[q]) = {}
    BY DEF WindowInv, Shrinks
  <1> QED
    BY <1>1, <1>2, <1>3 DEF WindowInv, Shrinks

\* Every step keeps the windows while no batch overruns.
LEMMA WindowStep ==
    ASSUME ~Lapses, OutboxInv, OutboxInv', WindowInv, [OutboxNext]_outboxVars
    PROVE  WindowInv'
  <1>y. /\ rows \in [Msgs -> Rows] /\ rows' \in [Msgs -> Rows]
        /\ tick \in [Reconcilers -> Ticks] /\ tick' \in [Reconcilers -> Ticks]
        /\ OutboxTypeOK /\ OutboxAttempts \in Nat
    BY OutboxAssumption DEF OutboxInv, OutboxTypeOK
  <1>a. Absent.status = "absent"
    BY DEF Absent
  <1>m. \A r \in Reconcilers : \A n \in Claimed(tick[r]) :
            n \in Msgs /\ rows[n].status = "pending"
    BY DEF OutboxInv, WindowInv, TickInv
  <1>w. \A m \in Msgs \ bodyless : rows[m].status = "dead" =>
            rows[m].attempts >= OutboxAttempts
    BY DEF WindowInv
  <1>d. ASSUME NEW m \in Msgs, bodyless' = bodyless, rows' = [rows EXCEPT ![m] = Absent],
               \A q \in Reconcilers : tick'[q] = Deleted(m)[q] \/ Shrinks(q)
        PROVE  WindowInv'
    <2>1. ASSUME NEW q \in Reconcilers, tick'[q] = Deleted(m)[q] PROVE Undisturbed(q)
      <3>1. Claimed(tick'[q]) = Claimed(tick[q]) \ {m}
        BY <1>y, <2>1, AfterDelete
      <3> QED
        BY <1>d, <1>m, <1>y, <2>1, <3>1 DEF Undisturbed
    <2>2. \A n \in Msgs \ bodyless : rows'[n].status = "dead" =>
              rows'[n].attempts >= OutboxAttempts
      BY <1>a, <1>d, <1>w, <1>y
    <2> QED
      BY <1>d, <2>1, <2>2, UndisturbedShrinks, ShrinksKeeps
  <1>u. ASSUME UNCHANGED <<rows, tick, bodyless>> PROVE WindowInv'
    <2>1. \A q \in Reconcilers : Undisturbed(q)
      BY <1>u DEF Undisturbed
    <2> QED
      BY <1>u, <1>w, <2>1, UndisturbedShrinks, ShrinksKeeps
  <1>1. ASSUME NEW m \in Msgs, MessageStep(m) PROVE WindowInv'
    <2>1. ASSUME NEW b \in Attempts, Deliver(m, b) PROVE WindowInv'
      <3>1. bodyless' = bodyless
        BY <2>1 DEF Deliver
      <3>2. CASE UNCHANGED <<rows, tick>>
        BY <3>1, <3>2, <1>u
      <3>3. CASE rows' = [rows EXCEPT ![m] = Absent] /\ tick' = Deleted(m)
        BY <3>1, <3>3, <1>d
      <3> QED
        BY <2>1, <3>2, <3>3 DEF Deliver
    <2>2. CASE DiscardDead(m)
      BY <1>d, <2>2 DEF DiscardDead
    <2>3. ASSUME NEW b \in Attempts, Record(m, b) PROVE WindowInv'
      <3>1. UNCHANGED <<tick, bodyless>>
        BY <2>3 DEF Record
      <3>2. \A n \in Msgs : rows[n].status # "absent" => rows'[n] = rows[n]
        BY <1>y, <2>3 DEF Record
      <3>3. \A q \in Reconcilers : Undisturbed(q)
        BY <1>m, <3>1, <3>2 DEF Undisturbed
      <3>4. NewRow(m).status = "dead" => m \in bodyless
        BY DEF NewRow, Replayable
      <3>5. \A n \in Msgs : rows'[n] = rows[n] \/ (n = m /\ rows'[n] = NewRow(m))
        BY <1>y, <2>3 DEF Record
      <3> QED
        BY <1>w, <3>1, <3>3, <3>4, <3>5, UndisturbedShrinks, ShrinksKeeps
    <2>4. ASSUME NEW b \in Attempts, NEW ok \in BOOLEAN, Publish(m, b, ok) PROVE WindowInv'
      BY <1>u, <2>4 DEF Publish
    <2>5. ASSUME NEW b \in Attempts, RecordFails(m, b) PROVE WindowInv'
      BY <1>u, <2>5 DEF RecordFails
    <2>7. CASE WindowEnds(m)
      BY <1>u, <2>7 DEF WindowEnds
    <2> QED
      BY <1>1, <2>1, <2>2, <2>3, <2>4, <2>5, <2>7 DEF MessageStep, AttemptStep
  <1>2. ASSUME NEW r \in Reconcilers, NEW batch \in Batches,
           NEW passed \in 0 .. PerRow * Cardinality(batch) - 1,
           ClaimDue(r, batch, passed)
        PROVE  WindowInv'
    <2> DEFINE w == PerRow * Cardinality(batch) - passed
    <2>1. /\ batch \subseteq DueRows /\ w \in Nat \ {0}
          /\ \A n \in Msgs : /\ rows'[n].status = rows[n].status
                             /\ rows'[n].attempts >= rows[n].attempts
          /\ \A n \in batch : rows'[n].due = w
          /\ \A n \in Msgs \ batch : rows'[n] = rows[n]
      BY <1>2, <1>y, ClaimEffect
    <2> HIDE DEF w
    <2>2. /\ tick'[r].stage = "publish" /\ tick'[r].work = batch /\ tick'[r].at = NoMsg
          /\ tick'[r].gone = {} /\ tick'[r].left = w
      <3>1. tick'[r] = [Idle EXCEPT !.stage = "publish", !.work = batch,
                                    !.left = IF Lapses THEN 0 ELSE w]
        BY <1>2, <1>y DEF ClaimDue, w
      <3> QED
        BY <3>1 DEF Idle
    <2>3. Claimed(tick'[r]) = batch
      BY <2>1, <2>2, OutboxAssumption DEF Claimed, DueRows
    <2>4. \A q \in Reconcilers \ {r} : tick'[q] = tick[q]
      BY <1>2, <1>y DEF ClaimDue
    <2>5. ASSUME NEW q \in Reconcilers, q # r PROVE Claimed(tick[q]) \cap batch = {}
      <3>1. SUFFICES ASSUME NEW n \in Claimed(tick[q]), n \in batch PROVE FALSE
        OBVIOUS
      <3>2. rows[n].due <= 0 /\ rows[n].due >= tick[q].left /\ rows[n].due \in Int
        BY <1>m, <1>y, <2>1, <3>1 DEF DueRows, WindowInv, Rows
      <3>3. tick[q].stage # "idle" /\ tick[q].left \in Nat
        <4>1. TickInv(tick[q]) /\ tick[q] \in Ticks
          BY <1>y DEF OutboxInv
        <4> QED
          BY <3>1, <4>1 DEF TickInv, Claimed, Ticks
      <3>4. tick[q].left > 0
        BY <3>3 DEF WindowInv
      <3> QED
        BY <3>2, <3>3, <3>4
    <2>6. ASSUME NEW q \in Reconcilers, q # r PROVE Shrinks(q)
      <3>1. Undisturbed(q)
        BY <1>m, <2>1, <2>4, <2>5, <2>6 DEF Undisturbed
      <3> QED
        BY <3>1, UndisturbedShrinks
    <2>7. bodyless' = bodyless
      BY <1>2 DEF ClaimDue
    <2>8. \A m \in Msgs \ bodyless : rows'[m].status = "dead" =>
              rows'[m].attempts >= OutboxAttempts
      <3>1. \A m \in Msgs : rows[m].attempts \in Nat /\ rows'[m].attempts \in Nat
        BY <1>y DEF Rows
      <3> QED
        BY <1>w, <1>y, <2>1, <3>1
    <2>9. \A q \in Reconcilers : tick'[q].stage # "idle" => tick'[q].left > 0
      BY <2>1, <2>2, <2>4 DEF WindowInv
    <2>10. \A q \in Reconcilers : \A m \in Claimed(tick'[q]) :
              rows'[m].status = "pending" /\ rows'[m].due >= tick'[q].left
      <3>1. \A m \in batch : rows'[m].status = "pending" /\ rows'[m].due >= tick'[r].left
        BY <2>1, <2>2 DEF DueRows
      <3>2. ASSUME NEW q \in Reconcilers, q # r, NEW m \in Claimed(tick'[q])
            PROVE  rows'[m].status = "pending" /\ rows'[m].due >= tick'[q].left
        BY <2>4, <2>6, <3>2 DEF Shrinks, WindowInv
      <3> QED
        BY <2>3, <3>1, <3>2
    <2>11. \A q, p \in Reconcilers : q # p => Claimed(tick'[q]) \cap Claimed(tick'[p]) = {}
      BY <2>3, <2>4, <2>5 DEF WindowInv
    <2>12. \A q \in Reconcilers : Saw(tick[q])'
      BY <2>2, <2>6 DEF Shrinks, Saw
    <2> QED
      BY <2>7, <2>8, <2>9, <2>10, <2>11, <2>12 DEF WindowInv
  <1>k. ASSUME NEW r \in Reconcilers, bodyless' = bodyless, Shrinks(r),
               \A q \in Reconcilers \ {r} : tick'[q] = tick[q],
               UNCHANGED rows
        PROVE  WindowInv'
    <2>1. \A q \in Reconcilers \ {r} : Undisturbed(q)
      BY <1>k DEF Undisturbed
    <2>2. \A q \in Reconcilers : Shrinks(q)
      BY <1>k, <2>1, UndisturbedShrinks
    <2> QED
      BY <1>k, <1>w, <2>2, ShrinksKeeps
  <1>3. ASSUME NEW r \in Reconcilers, NEW m \in Msgs, NEW ok \in BOOLEAN,
               Republish(r, m, ok)
        PROVE  WindowInv'
    <2>1. UNCHANGED <<rows, bodyless>> /\ \A q \in Reconcilers \ {r} : tick'[q] = tick[q]
      BY <1>3, <1>y DEF Republish
    <2>2. /\ tick'[r].stage = "read" /\ tick'[r].work = tick[r].work \ {m}
          /\ tick'[r].at = m /\ tick'[r].gone = tick[r].gone /\ tick'[r].left = tick[r].left
      BY <1>3, <1>y DEF Republish, Ticks
    <2>3. tick[r].stage = "publish" /\ m \in tick[r].work
      BY <1>3 DEF Republish
    <2>4. Claimed(tick'[r]) \subseteq Claimed(tick[r])
      BY <2>2, <2>3 DEF Claimed
    <2>5. Shrinks(r)
      BY <2>1, <2>2, <2>3, <2>4 DEF Shrinks, Saw
    <2> QED
      BY <1>k, <2>1, <2>5
  <1>o. ASSUME NEW r \in Reconcilers, tick[r].stage # "idle",
               tick'[r] = OnToNext(r) \/ tick'[r] = Idle,
               \A n \in Claimed(OnToNext(r)) : rows'[n] = rows[n]
        PROVE  Shrinks(r)
    <2>1. /\ OnToNext(r).stage \in {"idle", "publish"}
          /\ Claimed(OnToNext(r)) \subseteq Claimed(tick[r])
          /\ OnToNext(r).stage # "idle" => OnToNext(r).left = tick[r].left
      BY <1>y, AfterRow
    <2> QED
      BY <1>o, <2>1, IdleHoldsNothing DEF Shrinks, Saw
  <1>4. ASSUME NEW r \in Reconcilers, ReadRow(r) PROVE WindowInv'
    <2>1. UNCHANGED <<rows, bodyless>> /\ \A q \in Reconcilers \ {r} : tick'[q] = tick[q]
      BY <1>4, <1>y DEF ReadRow
    <2>2. tick[r].stage = "read" /\ TickInv(tick[r])
      BY <1>4 DEF ReadRow, OutboxInv
    <2>3. CASE tick' = [tick EXCEPT ![r] = OnToNext(r)]
      BY <1>k, <1>o, <1>y, <2>1, <2>2, <2>3
    <2>4. CASE tick' = [tick EXCEPT ![r].stage = "write", ![r].seen = RowAt(r)]
      <3>1. /\ tick'[r].stage = "write" /\ tick'[r].work = tick[r].work
            /\ tick'[r].at = tick[r].at /\ tick'[r].gone = tick[r].gone
            /\ tick'[r].left = tick[r].left /\ tick'[r].seen = RowAt(r)
        BY <1>y, <2>4 DEF Ticks
      <3>2. Claimed(tick'[r]) = Claimed(tick[r])
        BY <3>1 DEF Claimed
      <3>3. tick[r].at \in Msgs /\ rows[tick[r].at].attempts \in Nat
        BY <1>y, <2>2 DEF TickInv, Rows
      <3>4. Saw(tick[r])'
        BY <2>1, <3>1, <3>3 DEF Saw, RowAt
      <3>5. Shrinks(r)
        BY <2>1, <2>2, <3>1, <3>2, <3>4 DEF Shrinks
      <3> QED
        BY <1>k, <2>1, <3>5
    <2> QED
      BY <1>4, <2>3, <2>4 DEF ReadRow
  <1>5. ASSUME NEW r \in Reconcilers, WriteOutcome(r) PROVE WindowInv'
    <2> DEFINE m == tick[r].at
    <2>1. bodyless' = bodyless /\ tick[r].stage = "write"
      BY <1>5 DEF WriteOutcome
    <2>2. TickInv(tick[r]) /\ m \in Msgs /\ m # NoMsg /\ tick[r] \in Ticks
      BY <1>y, <2>1, OutboxAssumption DEF OutboxInv, TickInv
    <2>3. m \notin Claimed(OnToNext(r)) /\ Claimed(OnToNext(r)) \subseteq Msgs
      <3>1. /\ m \notin Claimed(OnToNext(r))
            /\ Claimed(OnToNext(r)) \subseteq Claimed(tick[r])
        BY <1>y, <2>2, AfterRow DEF TickInv
      <3> QED
        BY <1>m, <3>1
    <2>4. CASE UNCHANGED rows /\ tick' = [tick EXCEPT ![r] = OnToNext(r)]
      BY <1>k, <1>o, <1>y, <2>1, <2>4
    <2>5. CASE UNCHANGED rows /\ tick' = [tick EXCEPT ![r] = Idle]
      BY <1>k, <1>o, <1>y, <2>1, <2>5
    <2>6. CASE /\ rows' = [rows EXCEPT ![m] = Absent]
               /\ tick' = [Deleted(m) EXCEPT ![r] = OnToNext(r)]
      <3>1. \A n \in Msgs \ {m} : rows'[n] = rows[n]
        BY <1>y, <2>6
      <3>2. /\ tick'[r] = OnToNext(r)
            /\ \A q \in Reconcilers \ {r} : tick'[q] = Deleted(m)[q]
        BY <1>y, <2>2, <2>6, DeletedType
      <3>3. Shrinks(r)
        BY <1>o, <2>1, <2>3, <3>1, <3>2
      <3> QED
        BY <1>d, <2>1, <2>2, <2>6, <3>2, <3>3
    <2>7. ASSUME NEW passed \in 0 .. RetryDelay(tick[r].seen.attempts),
                 rows' = [rows EXCEPT ![m] = Refused(@, tick[r].seen, passed)],
                 tick' = [tick EXCEPT ![r] = OnToNext(r)],
                 RowAt(r).status # "absent"
          PROVE  WindowInv'
      <3>1. \A n \in Msgs \ {m} : rows'[n] = rows[n]
        BY <1>y, <2>7
      <3>2. m \notin tick[r].gone
        BY <1>a, <2>7 DEF RowAt
      <3>3. m \in Claimed(tick[r]) /\ tick[r].seen.attempts <= rows[m].attempts
        BY <2>1, <2>2, <3>2 DEF Claimed, WindowInv, Saw
      <3>4. tick[r].seen \in Rows /\ rows[m] \in Rows
        BY <1>y, <2>2 DEF Ticks
      <3>5. /\ rows'[m].attempts = rows[m].attempts
            /\ (rows'[m].status = "dead" /\ rows[m].status # "dead") => Spent(tick[r].seen)
        BY <1>y, <2>2, <2>7, <3>4, RefusedType
      <3>6. Shrinks(r)
        <4>1. tick'[r] = OnToNext(r)
          BY <1>y, <2>7
        <4> QED
          BY <1>o, <2>1, <2>3, <3>1, <4>1
      <3>7. ASSUME NEW q \in Reconcilers, q # r PROVE Shrinks(q)
        <4>1. tick'[q] = tick[q]
          BY <1>y, <2>7, <3>7
        <4>2. m \notin Claimed(tick[q])
          BY <3>3, <3>7 DEF WindowInv
        <4>3. Undisturbed(q)
          BY <1>m, <3>1, <4>1, <4>2 DEF Undisturbed
        <4> QED
          BY <4>3, UndisturbedShrinks
      <3>8. \A n \in Msgs \ bodyless : rows'[n].status = "dead" =>
                rows'[n].attempts >= OutboxAttempts
        <4>1. rows[m].status # "dead"
          BY <1>m, <3>3
        <4>2. tick[r].seen.attempts \in Nat /\ rows[m].attempts \in Nat
          BY <3>4 DEF Rows
        <4>3. rows'[m].status = "dead" => rows'[m].attempts >= OutboxAttempts
          BY <1>y, <3>3, <3>5, <4>1, <4>2 DEF Spent
        <4> QED
          BY <1>w, <3>1, <4>3
      <3> QED
        BY <2>1, <3>6, <3>7, <3>8, ShrinksKeeps
    <2> QED
      BY <1>5, <2>4, <2>5, <2>6, <2>7 DEF WriteOutcome
  <1>6. ASSUME NEW r \in Reconcilers, TickDies(r) PROVE WindowInv'
    BY <1>6, <1>k, <1>o, <1>y DEF TickDies
  <1>7. CASE RequeueDead
    <2>1. UNCHANGED <<tick, bodyless>>
      BY <1>7 DEF RequeueDead
    <2>2. \A n \in Msgs : rows[n].status # "dead" => rows'[n] = rows[n]
      BY <1>7 DEF RequeueDead, RequeueableRows
    <2>3. \A n \in Msgs \ bodyless : rows'[n].status # "dead" \/ rows'[n] = rows[n]
      BY <1>7, <1>y DEF RequeueDead
    <2>4. \A q \in Reconcilers : Undisturbed(q)
      BY <1>m, <2>1, <2>2 DEF Undisturbed
    <2> QED
      BY <1>w, <2>1, <2>3, <2>4, UndisturbedShrinks, ShrinksKeeps
  <1>8. CASE BrokerTurns
    BY <1>8, <1>u DEF BrokerTurns
  <1>9. CASE OutboxTick
    <2>1. \A r \in Reconcilers :
            /\ tick'[r].stage = tick[r].stage /\ tick'[r].work = tick[r].work
            /\ tick'[r].at = tick[r].at /\ tick'[r].gone = tick[r].gone
            /\ tick'[r].seen = tick[r].seen
            /\ tick'[r].left = IF tick[r].left > 0 THEN tick[r].left - 1 ELSE 0
      BY <1>9, <1>y DEF OutboxTick, Ticks
    <2>2. \A r \in Reconcilers : tick[r].left \in Nat /\ tick[r].left # 1
      BY <1>9, <1>y DEF OutboxTick, Ticks
    <2>3. \A r \in Reconcilers : Claimed(tick'[r]) = Claimed(tick[r])
      BY <2>1 DEF Claimed
    <2>4. \A n \in Msgs : /\ rows'[n].status = rows[n].status
                         /\ rows'[n].attempts = rows[n].attempts
      BY <1>9, <1>y DEF OutboxTick, Rows
    <2>5. \A n \in Msgs : rows[n].due \in Int /\ rows'[n].due >= rows[n].due - 1
      <3>1. SUFFICES ASSUME NEW n \in Msgs
                     PROVE  rows[n].due \in Int /\ rows'[n].due >= rows[n].due - 1
        OBVIOUS
      <3>2. rows[n] \in Rows /\ rows[n].due \in Int
        BY <1>y DEF Rows
      <3>3. rows'[n].due \in {rows[n].due, Before(rows[n].due)}
        BY <1>9, <3>2 DEF OutboxTick, Rows
      <3> QED
        BY <3>2, <3>3 DEF Before
    <2>6. \A r \in Reconcilers : tick'[r].stage # "idle" => tick'[r].left > 0
      BY <2>1, <2>2 DEF WindowInv
    <2>7. ASSUME NEW r \in Reconcilers, NEW n \in Claimed(tick'[r])
          PROVE  rows'[n].status = "pending" /\ rows'[n].due >= tick'[r].left
      <3>1. n \in Claimed(tick[r]) /\ n \in Msgs /\ rows[n].status = "pending"
        BY <1>m, <2>3, <2>7
      <3>2. rows[n].due >= tick[r].left /\ tick[r].left > 0
        <4>1. tick[r].stage # "idle"
          <5>1. TickInv(tick[r]) /\ tick[r] \in Ticks
            BY <1>y DEF OutboxInv
          <5> QED
            BY <3>1, <5>1 DEF TickInv, Claimed, Ticks
        <4> QED
          BY <3>1, <4>1 DEF WindowInv
      <3>3. rows'[n] \in Rows /\ rows'[n].due \in Int
        BY <1>y, <3>1 DEF Rows
      <3> QED
        BY <2>1, <2>2, <2>4, <2>5, <3>1, <3>2, <3>3
    <2>8. \A r \in Reconcilers : Saw(tick[r])'
      <3>1. \A r \in Reconcilers : tick[r].stage = "write" => tick[r].at \in Msgs
        BY DEF OutboxInv, TickInv
      <3> QED
        BY <2>1, <2>4, <3>1 DEF WindowInv, Saw
    <2>9. bodyless' = bodyless
      BY <1>9 DEF OutboxTick
    <2> QED
      BY <1>w, <2>3, <2>4, <2>6, <2>7, <2>8, <2>9 DEF WindowInv
  <1>10. CASE UNCHANGED outboxVars
    BY <1>10, <1>u DEF outboxVars
  <1> QED
    BY <1>1, <1>2, <1>3, <1>4, <1>5, <1>6, <1>7, <1>8, <1>9, <1>10
       DEF OutboxNext, ReconcilerStep

\* While no batch overruns its claim window, the window of a row covers every tick
\* that still works on it, so no peer is given the row meanwhile (_claim_due).
THEOREM WindowsHold == OutboxSpec => [](~Lapses => WindowInv)
  <1>1. OutboxInit => WindowInv
    <2>1. SUFFICES ASSUME OutboxInit PROVE WindowInv
      OBVIOUS
    <2>2. /\ \A r \in Reconcilers : tick[r] = Idle
          /\ \A m \in Msgs : rows[m].status = "absent"
      BY <2>1 DEF OutboxInit, Absent
    <2> QED
      BY <2>2, IdleHoldsNothing DEF WindowInv, Saw
  <1>2. /\ ~Lapses => WindowInv
        /\ OutboxInv /\ OutboxInv' /\ [OutboxNext]_outboxVars
        => (~Lapses => WindowInv)'
    BY WindowStep
  <1> QED
    BY <1>1, <1>2, OutboxInvariant, PTL DEF OutboxSpec

\* As long as no batch outlasts the window its claim hides it for, no two reconcilers
\* work on one row (_claim_due).
THEOREM BacklogIsDivided == OutboxSpec => []PeersDivideTheBacklog
  <1>1. (~Lapses => WindowInv) => PeersDivideTheBacklog
    BY DEF WindowInv, PeersDivideTheBacklog, Held, Claimed
  <1> QED
    BY <1>1, WindowsHold, PTL

\* A message with a body is given up only when its row had all its attempts, except that
\* a batch that outlasted its window can bring down a row an operator had put back
\* (_record_attempt).
THEOREM NothingIsGivenUpEarly == OutboxSpec => []GivenUpWhenSpent
  <1>1. OutboxInv /\ (~Lapses => WindowInv) => GivenUpWhenSpent
    <2>1. SUFFICES ASSUME OutboxInv, ~Lapses => WindowInv, NEW m \in Msgs \ bodyless,
                          rows[m].status = "dead", rows[m].attempts < OutboxAttempts
                   PROVE  Lapses /\ m \in requeued
      BY DEF GivenUpWhenSpent
    <2>2. m \in requeued
      BY <2>1 DEF OutboxInv, RowInv
    <2>3. rows[m].attempts \in Nat /\ OutboxAttempts \in Nat
      BY <2>1, OutboxAssumption DEF OutboxInv, OutboxTypeOK, Rows
    <2> QED
      BY <2>1, <2>2, <2>3 DEF WindowInv
  <1> QED
    BY <1>1, OutboxInvariant, WindowsHold, PTL
=============================================================================
