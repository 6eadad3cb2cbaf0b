------------------------- MODULE EventFanOutProofs --------------------------
(***************************************************************************)
(* Theorems about the way of an event from the outbox to the delivery rows *)
(* of its subscribers: the composition implements each of its two parts,   *)
(* and no event falls between them.                                        *)
(***************************************************************************)
EXTENDS EventFanOut, NatsOutboxProofs

-----------------------------------------------------------------------------
(* The outbox, as a part. *)

\* The composition implements the outbox: what the fan-out worker, the dispatchers
\* and the operators of the queue do leaves it alone.  Every theorem about the
\* outbox holds of the composition (nats_outbox.py beside webhooks.py).
THEOREM OutboxIsAPart == FanOutSpec => OutboxSpec
  <1>1. FanOutInit => OutboxInit
    BY DEF FanOutInit
  <1>2. [FanOutNext]_fanOutVars => [OutboxNext]_outboxVars
    BY DEF FanOutNext, fanOutVars
  <1> QED
    BY <1>1, <1>2, PTL DEF FanOutSpec, OutboxSpec

-----------------------------------------------------------------------------
(* The queue, as a part. *)

\* A message that is outside its duplicate window may still be taken.
RoomInv == \A m \in Msgs : m \notin recent => stream[m] < MaxCopies

\* What a publish does to the stream: nothing, or one copy more of its message.
LEMMA OneCopyMore ==
    ASSUME OutboxTypeOK, RoomInv, NEW m \in Msgs, NEW ok \in BOOLEAN, Published(m, ok)
    PROVE  /\ \/ stream' = stream
              \/ stream[m] < MaxCopies /\ stream' = [stream EXCEPT ![m] = @ + 1]
           /\ RoomInv'
  <1>1. stream \in [Msgs -> Nat] /\ recent \subseteq Msgs
    BY DEF OutboxTypeOK
  <1>2. CASE UNCHANGED <<stream, recent>>
    BY <1>2 DEF RoomInv
  <1>3. CASE Take(m) /\ m \in recent
    <2>1. stream' = stream /\ recent' = recent \cup {m}
      BY <1>1, <1>3 DEF Take
    <2> QED
      BY <2>1 DEF RoomInv
  <1>4. CASE Take(m) /\ m \notin recent
    <2>1. stream' = [stream EXCEPT ![m] = @ + 1] /\ recent' = recent \cup {m}
      BY <1>4 DEF Take
    <2> QED
      BY <1>1, <1>4, <2>1 DEF RoomInv
  <1> QED
    BY <1>2, <1>3, <1>4 DEF Published

\* What any step of the outbox does to the stream.
LEMMA StreamMoves ==
    ASSUME OutboxTypeOK, RoomInv, [OutboxNext]_outboxVars
    PROVE  /\ \/ stream' = stream
              \/ \E m \in Msgs : /\ stream[m] < MaxCopies
                                 /\ stream' = [stream EXCEPT ![m] = @ + 1]
           /\ RoomInv'
  <1>1. ASSUME UNCHANGED bus
        PROVE  stream' = stream /\ RoomInv'
    BY <1>1 DEF bus, RoomInv
  <1>2. ASSUME NEW m \in Msgs, MessageStep(m)
        PROVE  \/ UNCHANGED bus
               \/ \E ok \in BOOLEAN : Published(m, ok)
               \/ WindowEnds(m)
    BY <1>2 DEF MessageStep, AttemptStep, Publish, Deliver, Record, RecordFails, DiscardDead
  <1>3. ASSUME NEW r \in Reconcilers, ReconcilerStep(r) \/ TickDies(r)
        PROVE  \/ UNCHANGED bus
               \/ \E m \in Msgs, ok \in BOOLEAN : Published(m, ok)
    BY <1>3 DEF ReconcilerStep, ClaimDue, Republish, ReadRow, WriteOutcome, TickDies
  <1>4. ASSUME NEW m \in Msgs, WindowEnds(m)
        PROVE  stream' = stream /\ RoomInv'
    <2>1. stream' = stream /\ stream[m] < MaxCopies /\ recent' = recent \ {m}
      BY <1>4 DEF WindowEnds
    <2> QED
      BY <2>1 DEF RoomInv
  <1>5. RequeueDead \/ OutboxTick \/ UNCHANGED outboxVars => UNCHANGED bus
    BY DEF RequeueDead, OutboxTick, outboxVars
  <1>6. ASSUME BrokerTurns
        PROVE  stream' = stream /\ RoomInv'
    BY <1>6 DEF BrokerTurns, RoomInv
  <1>7. ASSUME NEW m \in Msgs, NEW ok \in BOOLEAN, Published(m, ok)
        PROVE  /\ \/ stream' = stream
                  \/ \E n \in Msgs : /\ stream[n] < MaxCopies
                                     /\ stream' = [stream EXCEPT ![n] = @ + 1]
               /\ RoomInv'
    BY <1>7, OneCopyMore
  <1> QED
    BY <1>1, <1>2, <1>3, <1>4, <1>5, <1>6, <1>7 DEF OutboxNext

\* There is room on the stream for whatever is outside its window.
LEMMA RoomInvariant == OutboxSpec => []RoomInv
  <1>1. OutboxInit => RoomInv
    BY OutboxAssumption DEF OutboxInit, RoomInv
  <1>2. OutboxTypeOK /\ RoomInv /\ [OutboxNext]_outboxVars => RoomInv'
    BY StreamMoves
  <1> QED
    BY <1>1, <1>2, OutboxTypeCorrect, PTL DEF OutboxSpec

\* The part of the stream that carries events gains a copy of one event, or stays.
LEMMA EventsArrive ==
    ASSUME OutboxTypeOK, RoomInv, OutboxNext, UNCHANGED queueVars
    PROVE  [Hooks!HookNext]_(Hooks!hookVars)
  <1>1. UNCHANGED <<handled, tries, dropped, subs, active, hook, pass, posts, pages, sinceOff,
                    sinceHeld, turns, aborts>>
    BY DEF queueVars
  <1>2. CASE eventStream' = eventStream
    BY <1>1, <1>2 DEF Hooks!hookVars, Hooks!consumer, Hooks!history
  <1>3. ASSUME NEW e \in Events, stream[e] < MaxCopies, stream' = [stream EXCEPT ![e] = @ + 1]
        PROVE  Hooks!Arrive(e)
    <2>1. stream \in [Msgs -> Nat] /\ Events \subseteq Msgs
      BY DEF OutboxTypeOK, Msgs
    <2>2. eventStream' = [eventStream EXCEPT ![e] = @ + 1] /\ eventStream[e] < MaxCopies
      BY <1>3, <2>1 DEF eventStream
    <2> QED
      BY <1>1, <2>2 DEF Hooks!Arrive, Hooks!consumer, Hooks!history
  <1>4. ASSUME NEW m \in Msgs \ Events, stream' = [stream EXCEPT ![m] = @ + 1]
        PROVE  eventStream' = eventStream
    <2>1. stream \in [Msgs -> Nat] /\ Events \subseteq Msgs
      BY DEF OutboxTypeOK, Msgs
    <2> QED
      BY <1>4, <2>1 DEF eventStream
  <1>5. stream' = stream => eventStream' = eventStream
    BY DEF eventStream
  <1> QED
    BY <1>2, <1>3, <1>4, <1>5, StreamMoves DEF Hooks!HookNext

\* The composition implements the webhook queue: the outbox, seen from there, is a
\* stream on which copies of events arrive in any order and at any time.  Every
\* theorem about the queue holds of the composition (webhook_worker.py on the
\* stream that nats_outbox.py feeds).
THEOREM QueueIsAPart == FanOutSpec => Hooks!HookSpec
  <1>1. FanOutInit => Hooks!HookInit
    BY DEF FanOutInit
  <1>2. ASSUME OutboxTypeOK, RoomInv, [FanOutNext]_fanOutVars
        PROVE  [Hooks!HookNext]_(Hooks!hookVars)
    <2>1. CASE OutboxNext /\ UNCHANGED queueVars
      BY <1>2, <2>1, EventsArrive
    <2>2. CASE UNCHANGED outboxVars /\ Hooks!QueueNext
      BY <2>2 DEF Hooks!HookNext
    <2>3. CASE UNCHANGED fanOutVars
      BY <2>3 DEF fanOutVars, outboxVars, bus, queueVars, eventStream, Hooks!hookVars,
                  Hooks!consumer, Hooks!history
    <2> QED
      BY <1>2, <2>1, <2>2, <2>3 DEF FanOutNext
  <1>3. OutboxSpec => [](OutboxTypeOK /\ RoomInv)
    BY OutboxTypeCorrect, RoomInvariant, PTL
  <1> QED
    BY <1>1, <1>2, <1>3, OutboxIsAPart, PTL DEF FanOutSpec, Hooks!HookSpec

-----------------------------------------------------------------------------
(* No event falls between the parts. *)

\* A delivery row has its three columns.
Row(h) == h = [status |-> h.status, attempts |-> h.attempts, due |-> h.due]

Shaped ==
    /\ hook = [k \in Subs \X Events |-> hook[k]]
    /\ \A k \in Subs \X Events : Row(hook[k])

\* Every subscriber's row is there for an event the worker is through with.
Served(e) == \A s \in Subs : hook[<<s, e>>].status # "absent"

\* As long as no operator and no retention had a turn, every subscription is on and
\* whatever was acknowledged has its rows.
ServedInv ==
    /\ turns \in Nat /\ handled \in [Events -> Nat] /\ Shaped
    /\ turns = 0 =>
          /\ \A s \in Subs : subs[s] = "on"
          /\ \A e \in Events : handled[e] > 0 /\ e \notin dropped => Served(e)

\* A dispatcher that releases or records a row keeps it.
LEMMA RowsStay ==
    ASSUME NEW h, Row(h)
    PROVE  /\ Row(Hooks!Released(h)) /\ Hooks!Released(h).status = h.status
           /\ \A seen, result :
                 LET g == Hooks!Recorded(h, seen, result) IN
                 Row(g) /\ (h.status # "absent" => g.status # "absent")
  <1>1. Row(Hooks!Released(h)) /\ Hooks!Released(h).status = h.status
    <2>1. PICK n : n = IF h.attempts > 0 THEN h.attempts - 1 ELSE 0
      OBVIOUS
    <2>2. Hooks!Released(h) = IF h.status = "pending"
                              THEN [h EXCEPT !.attempts = n, !.due = 0] ELSE h
      BY <2>1 DEF Hooks!Released
    <2> QED
      BY <2>2 DEF Row
  <1>2. ASSUME NEW seen, NEW result
        PROVE  LET g == Hooks!Recorded(h, seen, result) IN
               Row(g) /\ (h.status # "absent" => g.status # "absent")
    <2>1. PICK g : g = Hooks!Recorded(h, seen, result)
      OBVIOUS
    <2>2. PICK v : v = IF seen.status = "dead" THEN h.status ELSE "dead"
      OBVIOUS
    <2>3. \/ g = [h EXCEPT !.status = "delivered", !.due = 0]
          \/ g = h
          \/ g = [h EXCEPT !.status = "pending", !.due = HookBackoff]
          \/ g = [h EXCEPT !.status = v, !.due = 0]
      <3>1. CASE result = "ok"
        BY <2>1, <3>1 DEF Hooks!Recorded
      <3>2. CASE result = "retry" /\ Hooks!TriesLeft(seen)
        BY <2>1, <3>2 DEF Hooks!Recorded
      <3>3. CASE result # "ok" /\ ~(result = "retry" /\ Hooks!TriesLeft(seen))
        BY <2>1, <2>2, <3>3 DEF Hooks!Recorded
      <3> QED
        BY <3>1, <3>2, <3>3
    <2>4. v = h.status \/ v = "dead"
      BY <2>2
    <2>5. Row(g) /\ (h.status # "absent" => g.status # "absent")
      BY <2>3, <2>4 DEF Row
    <2> QED
      BY <2>1, <2>5
  <1> QED
    BY <1>1, <1>2

\* A step of the queue that only dispatchers, retention or time take: rows may
\* change, and none of them goes.
RowsKept ==
    /\ Shaped'
    /\ \A k \in Subs \X Events : hook[k].status # "absent" => hook'[k].status # "absent"

\* Releasing claims keeps the rows.
LEMMA ReleaseKeepsRows ==
    ASSUME Shaped, NEW S, hook' = Hooks!ReleasedAll(S)
    PROVE  RowsKept
  <1>1. hook' = [k \in Subs \X Events |->
                    IF k \in S THEN Hooks!Released(hook[k]) ELSE hook[k]]
    BY DEF Hooks!ReleasedAll, Hooks!Keys
  <1>2. ASSUME NEW k \in Subs \X Events
        PROVE  Row(hook'[k]) /\ hook'[k].status = hook[k].status
    <2>1. Row(hook[k])
      BY DEF Shaped
    <2> QED
      BY <1>1, <2>1, RowsStay
  <1>3. hook' = [k \in Subs \X Events |-> hook'[k]]
    BY <1>1
  <1> QED
    BY <1>2, <1>3 DEF RowsKept, Shaped

\* A row that is written over with a row keeps the rows.
LEMMA WriteKeepsRows ==
    ASSUME Shaped, NEW j, NEW g, hook' = [hook EXCEPT ![j] = g],
           j \in Subs \X Events => Row(g) /\ g.status # "absent"
    PROVE  RowsKept
  <1>1. ASSUME NEW k \in Subs \X Events
        PROVE  Row(hook'[k]) /\ (hook[k].status # "absent" => hook'[k].status # "absent")
    BY DEF Shaped
  <1>2. hook' = [k \in Subs \X Events |-> hook'[k]]
    BY DEF Shaped
  <1> QED
    BY <1>1, <1>2 DEF RowsKept, Shaped

\* No step of a dispatcher removes a row.
LEMMA DispatchKeepsRows ==
    ASSUME Shaped, NEW d \in Dispatchers,
           Hooks!DispatchStep(d) \/ Hooks!AbortBatch(d) \/ Hooks!DispatcherDies(d)
    PROVE  RowsKept
  <1>0. hook' = hook => RowsKept
    BY DEF RowsKept, Shaped
  <1>1. ASSUME NEW batch \in SUBSET Hooks!DueDeliveries, Hooks!ClaimDeliveries(d, batch)
        PROVE  RowsKept
    <2>1. PICK w : hook' = [k \in Hooks!Keys |->
                               IF k \in batch
                               THEN [hook[k] EXCEPT !.attempts = @ + 1, !.due = w]
                               ELSE hook[k]]
      BY <1>1, Zenon DEF Hooks!ClaimDeliveries
    <2>2. hook' = [k \in Subs \X Events |->
                      IF k \in batch
                      THEN [hook[k] EXCEPT !.attempts = @ + 1, !.due = w]
                      ELSE hook[k]]
      BY <2>1, Zenon DEF Hooks!Keys
    <2>3. ASSUME NEW k \in Subs \X Events
          PROVE  Row(hook'[k]) /\ hook'[k].status = hook[k].status
      <3>1. PICK n : n = hook[k].attempts + 1
        OBVIOUS
      <3>2. hook'[k] = hook[k] \/ hook'[k] = [hook[k] EXCEPT !.attempts = n, !.due = w]
        BY <2>2, <3>1
      <3>3. Row(hook[k])
        BY DEF Shaped
      <3> QED
        BY <3>2, <3>3 DEF Row
    <2>4. hook' = [k \in Subs \X Events |-> hook'[k]]
      BY <2>2
    <2> QED
      BY <2>3, <2>4 DEF RowsKept, Shaped
  <1>2. ASSUME NEW k \in Hooks!Keys, Hooks!Check(d, k)
        PROVE  RowsKept
    <2>1. hook' = Hooks!ReleasedAll({k}) \/ hook' = hook
      BY <1>2 DEF Hooks!Check
    <2> QED
      BY <1>0, <2>1, ReleaseKeepsRows
  <1>3. ASSUME Hooks!WriteDelivery(d)
        PROVE  RowsKept
    <2>1. \/ hook' = Hooks!ReleasedAll(pass[d].work)
          \/ /\ hook[pass[d].at].status # "absent"
             /\ hook' = [hook EXCEPT ![pass[d].at] =
                            Hooks!Recorded(hook[pass[d].at], pass[d].seen, pass[d].result)]
      BY <1>3 DEF Hooks!WriteDelivery
    <2>2. CASE hook' = Hooks!ReleasedAll(pass[d].work)
      BY <2>2, ReleaseKeepsRows
    <2>3. CASE /\ hook[pass[d].at].status # "absent"
               /\ hook' = [hook EXCEPT ![pass[d].at] =
                              Hooks!Recorded(hook[pass[d].at], pass[d].seen, pass[d].result)]
      <3>1. PICK g : g = Hooks!Recorded(hook[pass[d].at], pass[d].seen, pass[d].result)
        OBVIOUS
      <3>2. pass[d].at \in Subs \X Events => Row(g) /\ g.status # "absent"
        BY <2>3, <3>1, RowsStay DEF Shaped
      <3> QED
        BY <2>3, <3>1, <3>2, WriteKeepsRows
    <2> QED
      BY <2>1, <2>2, <2>3
  <1>4. ASSUME Hooks!AbortBatch(d)
        PROVE  RowsKept
    BY <1>4, ReleaseKeepsRows DEF Hooks!AbortBatch
  <1>5. ASSUME NEW result, Hooks!Send(d, result)
        PROVE  hook' = hook
    BY <1>5 DEF Hooks!Send
  <1>6. Hooks!ReadDelivery(d) \/ Hooks!DispatcherDies(d) => hook' = hook
    BY DEF Hooks!ReadDelivery, Hooks!DispatcherDies
  <1> QED
    BY <1>0, <1>1, <1>2, <1>3, <1>4, <1>5, <1>6 DEF Hooks!DispatchStep

\* Time removes no row.
LEMMA TimeKeepsRows ==
    ASSUME Shaped, Hooks!HookTick
    PROVE  RowsKept
  <1>1. hook' = [k \in Subs \X Events |->
                    [hook[k] EXCEPT !.due = IF hook[k].due > 0 THEN hook[k].due - 1 ELSE 0]]
    BY Zenon DEF Hooks!HookTick, Hooks!Keys
  <1>2. ASSUME NEW k \in Subs \X Events
        PROVE  Row(hook'[k]) /\ hook'[k].status = hook[k].status
    <2>1. PICK n : n = IF hook[k].due > 0 THEN hook[k].due - 1 ELSE 0
      OBVIOUS
    <2>2. hook'[k] = [hook[k] EXCEPT !.due = n] /\ Row(hook[k])
      BY <1>1, <2>1 DEF Shaped
    <2> QED
      BY <2>2 DEF Row
  <1>3. hook' = [k \in Subs \X Events |-> hook'[k]]
    BY <1>1
  <1> QED
    BY <1>2, <1>3 DEF RowsKept, Shaped

\* Every turn of an operator is counted, and leaves rows with their columns.
LEMMA TurnsCount ==
    ASSUME ServedInv, Hooks!OperatorStep
    PROVE  turns' = turns + 1 /\ handled' = handled /\ Shaped'
  <1>0. Shaped
    BY DEF ServedInv
  <1>1. ASSUME hook' = hook PROVE Shaped'
    BY <1>0, <1>1 DEF Shaped
  <1>2. ASSUME NEW j, NEW g, hook' = [hook EXCEPT ![j] = g], Row(g) PROVE Shaped'
    <2>1. \A k \in Subs \X Events : Row(hook'[k])
      BY <1>0, <1>2 DEF Shaped
    <2>2. hook' = [k \in Subs \X Events |-> hook'[k]]
      BY <1>0, <1>2 DEF Shaped
    <2> QED
      BY <2>1, <2>2 DEF Shaped
  <1>3. Row(Hooks!Queued) /\ Row(Hooks!NoDelivery)
    BY DEF Row, Hooks!Queued, Hooks!NoDelivery
  <1>4. ASSUME NEW k \in Hooks!Keys, Hooks!RequeueDelivery(k)
        PROVE  turns' = turns + 1 /\ handled' = handled /\ Shaped'
    <2>1. turns' = turns + 1 /\ handled' = handled /\ hook' = [hook EXCEPT ![k] = Hooks!Queued]
      BY <1>4 DEF Hooks!RequeueDelivery, Hooks!Turn, Hooks!consumer
    <2> QED
      BY <1>2, <1>3, <2>1
  <1>5. ASSUME NEW k \in Hooks!Keys, Hooks!PruneDelivery(k)
        PROVE  turns' = turns + 1 /\ handled' = handled /\ Shaped'
    <2>1. turns' = turns + 1 /\ handled' = handled
          /\ hook' = [hook EXCEPT ![k] = Hooks!NoDelivery]
      BY <1>5 DEF Hooks!PruneDelivery, Hooks!Turn, Hooks!consumer
    <2> QED
      BY <1>2, <1>3, <2>1
  <1>6. ASSUME NEW s \in Subs, Hooks!SwitchSubscription(s)
        PROVE  turns' = turns + 1 /\ handled' = handled /\ Shaped'
    BY <1>1, <1>6 DEF Hooks!SwitchSubscription, Hooks!Turn, Hooks!consumer
  <1>7. ASSUME NEW s \in Subs, Hooks!DeleteSubscription(s)
        PROVE  turns' = turns + 1 /\ handled' = handled /\ Shaped'
    <2>1. /\ turns' = turns + 1 /\ handled' = handled
          /\ hook' = [k \in Subs \X Events |-> IF k[1] = s THEN Hooks!NoDelivery ELSE hook[k]]
      BY <1>7 DEF Hooks!DeleteSubscription, Hooks!Turn, Hooks!consumer, Hooks!Keys
    <2>2. \A k \in Subs \X Events : Row(hook'[k])
      BY <1>0, <1>3, <2>1 DEF Shaped
    <2>3. hook' = [k \in Subs \X Events |-> hook'[k]]
      BY <2>1
    <2> QED
      BY <2>1, <2>2, <2>3 DEF Shaped
  <1>8. ASSUME Hooks!SwitchTenant
        PROVE  turns' = turns + 1 /\ handled' = handled /\ Shaped'
    BY <1>1, <1>8 DEF Hooks!SwitchTenant, Hooks!Turn, Hooks!consumer
  <1> QED
    BY <1>4, <1>5, <1>6, <1>7, <1>8 DEF Hooks!OperatorStep

\* The worker acknowledges an event when its rows are there; it gives up one that
\* is on record.
LEMMA AckIsEarned ==
    ASSUME ServedInv, NEW e \in Events, Hooks!FanOutStep(e)
    PROVE  ServedInv'
  <1>0. turns \in Nat /\ handled \in [Events -> Nat] /\ Shaped
    BY DEF ServedInv
  <1>1. ASSUME Hooks!Acked(e) \/ Hooks!Unacked(e)
        PROVE  /\ handled' \in [Events -> Nat]
               /\ \A f \in Events : f # e => handled'[f] = handled[f]
               /\ Hooks!Unacked(e) => handled' = handled
    BY <1>0, <1>1 DEF Hooks!Acked, Hooks!Unacked
  <1>2. CASE Hooks!EnqueueEvent(e)
    <2>1. /\ hook' = [k \in Subs \X Events |->
                         IF Hooks!WantsRow(k, e) THEN Hooks!Queued ELSE hook[k]]
          /\ Hooks!Acked(e) \/ Hooks!Unacked(e)
          /\ turns' = turns /\ subs' = subs /\ dropped' = dropped
      BY <1>2 DEF Hooks!EnqueueEvent, Hooks!Keys
    <2>2. Row(Hooks!Queued) /\ Hooks!Queued.status = "pending"
      BY DEF Row, Hooks!Queued
    <2>3. ASSUME NEW k \in Subs \X Events
          PROVE  Row(hook'[k]) /\ (hook[k].status # "absent" => hook'[k].status # "absent")
      BY <1>0, <2>1, <2>2 DEF Shaped
    <2>4. Shaped'
      <3>1. hook' = [k \in Subs \X Events |-> hook'[k]]
        BY <2>1
      <3> QED
        BY <2>3, <3>1 DEF Shaped
    <2>5. ASSUME turns = 0, NEW s \in Subs
          PROVE  hook'[<<s, e>>].status # "absent"
      <3>1. <<s, e>> \in Subs \X Events /\ <<s, e>>[1] = s /\ <<s, e>>[2] = e
        OBVIOUS
      <3>2. subs[s] = "on"
        BY <2>5 DEF ServedInv
      <3>3. hook[<<s, e>>].status = "absent" => Hooks!WantsRow(<<s, e>>, e)
        BY <3>1, <3>2 DEF Hooks!WantsRow
      <3> QED
        BY <2>1, <2>2, <2>3, <3>1, <3>3
    <2>6. ASSUME turns = 0, NEW f \in Events, handled'[f] > 0, f \notin dropped
          PROVE  Served(f)'
      <3>1. CASE f = e
        BY <2>5, <2>6, <3>1 DEF Served
      <3>2. CASE f # e
        <4>1. Served(f)
          BY <1>1, <2>1, <2>6, <3>2 DEF ServedInv
        <4>2. \A s \in Subs : <<s, f>> \in Subs \X Events
          OBVIOUS
        <4> QED
          BY <2>3, <4>1, <4>2 DEF Served
      <3> QED
        BY <3>1, <3>2
    <2> QED
      BY <1>0, <1>1, <2>1, <2>4, <2>6 DEF ServedInv
  <1>3. CASE Hooks!EnqueueFails(e)
    <2>1. handled' = handled /\ hook' = hook /\ turns' = turns /\ subs' = subs
          /\ dropped' = dropped
      BY <1>3 DEF Hooks!EnqueueFails, Hooks!Unacked
    <2> QED
      BY <2>1 DEF ServedInv, Served, Shaped
  <1>4. CASE Hooks!StopsRedelivering(e)
    <2>1. /\ Hooks!Acked(e) /\ hook' = hook /\ turns' = turns /\ subs' = subs
          /\ dropped' = dropped \cup {e}
      BY <1>4 DEF Hooks!StopsRedelivering
    <2>2. ASSUME turns = 0, NEW f \in Events, handled'[f] > 0, f \notin dropped'
          PROVE  Served(f)'
      BY <1>1, <2>1, <2>2 DEF ServedInv, Served
    <2>3. Shaped'
      BY <1>0, <2>1 DEF Shaped
    <2> QED
      BY <1>0, <1>1, <2>1, <2>2, <2>3 DEF ServedInv
  <1> QED
    BY <1>2, <1>3, <1>4 DEF Hooks!FanOutStep

\* A step that keeps the rows and the consumer's records keeps the invariant.
LEMMA ServedStays ==
    ASSUME ServedInv, RowsKept,
           UNCHANGED <<handled, dropped, subs, turns>>
    PROVE  ServedInv'
  <1>1. ASSUME NEW e \in Events, Served(e)
        PROVE  Served(e)'
    <2>1. \A s \in Subs : <<s, e>> \in Subs \X Events
      BY SMTT(30)
    <2> QED
      BY <1>1, <2>1 DEF RowsKept, Served
  <1> QED
    BY <1>1 DEF ServedInv, RowsKept

\* The steps of dispatchers and of time leave the consumer, the subscriptions and
\* the count of turns alone.
LEMMA DispatchLeavesTheConsumer ==
    ASSUME \/ Hooks!HookTick
           \/ \E d \in Dispatchers :
                 Hooks!DispatchStep(d) \/ Hooks!AbortBatch(d) \/ Hooks!DispatcherDies(d)
    PROVE  UNCHANGED <<handled, dropped, subs, turns>>
  BY ZenonT(40) DEF Hooks!HookTick, Hooks!DispatchStep, Hooks!AbortBatch, Hooks!DispatcherDies,
         Hooks!ClaimDeliveries, Hooks!Check, Hooks!Send, Hooks!ReadDelivery, Hooks!WriteDelivery,
         Hooks!consumer

\* Every step of the composition keeps the invariant.
LEMMA ServedStep ==
    ASSUME ServedInv, [FanOutNext]_fanOutVars
    PROVE  ServedInv'
  <1>1. CASE UNCHANGED queueVars
    <2>1. RowsKept /\ UNCHANGED <<handled, dropped, subs, turns>>
      BY <1>1 DEF queueVars, RowsKept, ServedInv, Shaped
    <2> QED
      BY <2>1, ServedStays
  <1>2. CASE Hooks!QueueNext
    <2>1. Shaped
      BY DEF ServedInv
    <2>2. ASSUME NEW d \in Dispatchers,
                 Hooks!DispatchStep(d) \/ Hooks!AbortBatch(d) \/ Hooks!DispatcherDies(d)
          PROVE  ServedInv'
      BY <2>1, <2>2, DispatchKeepsRows, DispatchLeavesTheConsumer, ServedStays
    <2>3. ASSUME Hooks!HookTick
          PROVE  ServedInv'
      BY <2>1, <2>3, TimeKeepsRows, DispatchLeavesTheConsumer, ServedStays
    <2>4. ASSUME Hooks!OperatorStep
          PROVE  ServedInv'
      <3>1. turns' = turns + 1 /\ handled' = handled /\ Shaped'
        BY <2>4, TurnsCount
      <3>2. turns \in Nat /\ handled \in [Events -> Nat]
        BY DEF ServedInv
      <3>3. turns' \in Nat /\ turns' # 0
        BY <3>1, <3>2
      <3> QED
        BY <3>1, <3>2, <3>3 DEF ServedInv
    <2> QED
      BY <1>2, <2>2, <2>3, <2>4, AckIsEarned DEF Hooks!QueueNext
  <1> QED
    BY <1>1, <1>2 DEF FanOutNext, fanOutVars

\* What the worker acknowledged has its rows (WebhookFanoutWorker, enqueue_event),
\* through every step of the composition.
THEOREM AcknowledgedIsServed == FanOutSpec => []ServedInv
  <1>1. ASSUME FanOutInit
        PROVE  ServedInv
    <2>1. /\ handled = [e \in Events |-> 0] /\ subs = [s \in Subs |-> "on"] /\ turns = 0
          /\ hook = [k \in Subs \X Events |-> Hooks!NoDelivery]
      BY <1>1 DEF FanOutInit, Hooks!HookInit, Hooks!Keys
    <2>2. Shaped
      BY <2>1 DEF Shaped, Row, Hooks!NoDelivery
    <2> QED
      BY <2>1, <2>2 DEF ServedInv
  <1>2. ServedInv /\ [FanOutNext]_fanOutVars => ServedInv'
    BY ServedStep
  <1> QED
    BY <1>1, <1>2, PTL DEF FanOutSpec

\* An event an attempt is through with is in the outbox, on the stream for the
\* worker, or queued for each subscriber; or its end is on record (publish_events,
\* reconcile_once, _handle_msg).
THEOREM EventsAreAccountedFor == FanOutSpec => []EventIsAccountedFor
  <1>1. ASSUME OutboxTypeOK, NothingGoesSilently, ServedInv
        PROVE  EventIsAccountedFor
    <2>1. ASSUME NEW e \in Events, e \in Through,
                 rows[e].status = "absent", ~(handled[e] < stream[e]),
                 e \notin discarded \cup lost \cup dropped, ~(turns > 0)
          PROVE  \A s \in Subs : hook[<<s, e>>].status # "absent"
      <3>1. e \in Msgs /\ stream[e] \in Nat /\ handled[e] \in Nat /\ turns = 0
        BY <1>1, <2>1 DEF OutboxTypeOK, Msgs, ServedInv
      <3>2. stream[e] > 0
        BY <1>1, <2>1, <3>1 DEF NothingGoesSilently
      <3>3. handled[e] > 0
        BY <2>1, <3>1, <3>2
      <3> QED
        BY <1>1, <2>1, <3>1, <3>3 DEF ServedInv, Served
    <2> QED
      BY <2>1 DEF EventIsAccountedFor
  <1> QED
    BY <1>1, OutboxIsAPart, OutboxTypeCorrect, NothingIsLostSilently, AcknowledgedIsServed, PTL

=============================================================================
