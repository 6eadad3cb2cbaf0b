---------------------------- MODULE WebhookQueue ----------------------------
(***************************************************************************)
(* Events to receivers: api/services/integrations/webhooks.py,             *)
(* secure_webhooks.py and webhook_worker.py.                               *)
(*                                                                         *)
(* The fan-out worker turns each event of the stream into one              *)
(* webhook_deliveries row per subscription that wants it; the dispatcher   *)
(* of every replica claims the due rows in batches, POSTs them one after   *)
(* the other outside any transaction and writes each outcome back.  The    *)
(* kill switch (a disabled or deleted subscription, a suspended tenant) is *)
(* consulted at the claim and, for the subscription, once more before the  *)
(* POST.  One tenant is modelled; every subscription wants every event.    *)
(*                                                                         *)
(* due is what is left until next_attempt_at, in ticks.                    *)
(*                                                                         *)
(* Name_Word is a mutated form of Name, the bug Word names; nothing in the *)
(* specification uses it.                                                  *)
(***************************************************************************)
EXTENDS Integers, FiniteSets

CONSTANTS
    Events,        \* asset events, by event_id
    Subs,          \* webhook subscriptions of the tenant
    NoKey,         \* no delivery
    Dispatchers,   \* the webhook dispatchers of the replicas
    HookAttempts,  \* webhook_max_attempts
    HookBatch,     \* webhook_dispatch_batch_size
    HookTimeout,   \* webhook_timeout_seconds
    HookBackoff,   \* backoff_seconds
    MaxDeliver,    \* max_deliver of the fan-out consumer
    Overrun,       \* may a batch take longer than BatchTime?
    MaxCopies,     \* bound: copies of an event on the stream
    MaxTurns       \* bound: operator turns and failed ticks, together

ASSUME HookAssumption ==
    /\ IsFiniteSet(Events) /\ IsFiniteSet(Subs) /\ IsFiniteSet(Dispatchers)
    /\ NoKey \notin Subs \X Events
    /\ HookAttempts \in Nat \ {0}
    /\ HookBatch \in Nat \ {0}
    /\ HookTimeout \in Nat \ {0}
    /\ HookBackoff \in Nat \ {0}
    /\ MaxDeliver \in Nat \ {0}
    /\ Overrun \in BOOLEAN
    /\ MaxCopies \in Nat
    /\ MaxTurns \in Nat

VARIABLES
    stream,     \* copies of each event the stream has taken
    handled,    \* copies the consumer is done with
    tries,      \* deliveries of the current copy that ended without an ack
    dropped,    \* events the stream stopped redelivering
    subs,       \* each subscription: on, off or deleted
    active,     \* is the tenant active?
    hook,       \* the webhook_deliveries row of each subscription and event
    pass,       \* the tick each dispatcher is in
    posts,      \* POSTs of each delivery since it was queued or requeued
    pages,      \* POSTs its receiver took, less those that may be repeated
    sinceOff,   \* POSTs of each dispatcher to each subscription since it was off
    sinceHeld,  \* POSTs of each dispatcher since the tenant was suspended
    turns,      \* operator turns so far
    aborts      \* ticks that died or were aborted so far

consumer == <<handled, tries, dropped>>

history == <<posts, pages, sinceOff, sinceHeld>>

hookVars == <<stream, consumer, subs, active, hook, pass, history, turns, aborts>>

-----------------------------------------------------------------------------
(* Data. *)

Keys == Subs \X Events

Deliveries == [status : {"absent", "pending", "delivered", "dead"}, attempts : Nat, due : Nat]

NoDelivery == [status |-> "absent", attempts |-> 0, due |-> 0]

Queued == [status |-> "pending", attempts |-> 0, due |-> 0]

\* What a POST came to: taken, worth another try, or refused for good.
Results == {"ok", "retry", "refused"}

\* A tick: the rows of its batch it has not reached, the one it is at, the
\* result of its POST, its row as _record_result read it, and how much longer the
\* batch may take.
Passes ==
    [stage : {"idle", "check", "send", "read", "write"}, work : SUBSET Keys,
     at : Keys \cup {NoKey}, result : Results, seen : Deliveries, left : Nat]

Resting ==
    [stage |-> "idle", work |-> {}, at |-> NoKey, result |-> "retry", seen |-> NoDelivery,
     left |-> 0]

HookTypeOK ==
    /\ stream \in [Events -> Nat]
    /\ handled \in [Events -> Nat]
    /\ tries \in [Events -> Nat]
    /\ dropped \subseteq Events
    /\ subs \in [Subs -> {"on", "off", "deleted"}]
    /\ active \in BOOLEAN
    /\ hook \in [Keys -> Deliveries]
    /\ pass \in [Dispatchers -> Passes]
    /\ posts \in [Keys -> Nat]
    /\ pages \in [Keys -> Int]
    /\ sinceOff \in [Dispatchers \X Subs -> Nat]
    /\ sinceHeld \in [Dispatchers -> Nat]
    /\ turns \in Nat
    /\ aborts \in Nat

HookInit ==
    /\ stream = [e \in Events |-> 0]
    /\ handled = [e \in Events |-> 0]
    /\ tries = [e \in Events |-> 0]
    /\ dropped = {}
    /\ subs = [s \in Subs |-> "on"]
    /\ active = TRUE
    /\ hook = [k \in Keys |-> NoDelivery]
    /\ pass = [d \in Dispatchers |-> Resting]
    /\ posts = [k \in Keys |-> 0]
    /\ pages = [k \in Keys |-> 0]
    /\ sinceOff = [o \in Dispatchers \X Subs |-> 0]
    /\ sinceHeld = [d \in Dispatchers |-> 0]
    /\ turns = 0
    /\ aborts = 0

\* The deliveries a tick has claimed and not finished with.
Claimed(d) == (pass[d].work \cup {pass[d].at}) \ {NoKey}

-----------------------------------------------------------------------------
(* The fan-out worker: WebhookFanoutWorker, enqueue_event. *)

\* The stream takes a copy of an event.
Arrive(e) ==
    /\ stream[e] < MaxCopies
    /\ stream' = [stream EXCEPT ![e] = @ + 1]
    /\ UNCHANGED <<consumer, subs, active, hook, pass, history, turns, aborts>>

\* Is there a copy of e the consumer may be given?
Deliverable(e) == handled[e] < stream[e] /\ tries[e] < MaxDeliver

\* The consumer is through with a copy, or is to be given it again.
Acked(e) ==
    /\ handled' = [handled EXCEPT ![e] = @ + 1]
    /\ tries' = [tries EXCEPT ![e] = 0]

Unacked(e) ==
    /\ tries' = [tries EXCEPT ![e] = @ + 1]
    /\ UNCHANGED handled

\* A row for every enabled subscription that has none for this event_id.
WantsRow(k, e) == k[2] = e /\ subs[k[1]] = "on" /\ hook[k].status = "absent"

\* enqueue_event commits; the ack after it may be lost, or the worker die first.
EnqueueEvent(e) ==
    /\ Deliverable(e)
    /\ hook' = [k \in Keys |-> IF WantsRow(k, e) THEN Queued ELSE hook[k]]
    /\ Acked(e) \/ Unacked(e)
    /\ UNCHANGED <<stream, dropped, subs, active, pass, history, turns, aborts>>

EnqueueFails_Acks(e) ==
    /\ Deliverable(e)
    /\ Acked(e)
    /\ UNCHANGED <<stream, dropped, subs, active, hook, pass, history, turns, aborts>>

\* The database fails: nak.
EnqueueFails(e) ==
    /\ Deliverable(e)
    /\ Unacked(e)
    /\ UNCHANGED <<stream, dropped, subs, active, hook, pass, history, turns, aborts>>

\* After max_deliver deliveries the stream gives the copy to nobody.
StopsRedelivering(e) ==
    /\ tries[e] = MaxDeliver
    /\ Acked(e)
    /\ dropped' = dropped \cup {e}
    /\ UNCHANGED <<stream, subs, active, hook, pass, history, turns, aborts>>

-----------------------------------------------------------------------------
(* The dispatcher: dispatch_once. *)

DueDeliveries_AnyTenant ==
    {k \in Keys : hook[k].status = "pending" /\ hook[k].due = 0 /\ subs[k[1]] = "on"}

\* What _claim_due may take: due, of an enabled subscription of an active tenant.
DueDeliveries ==
    {k \in Keys : /\ hook[k].status = "pending" /\ hook[k].due = 0
                  /\ subs[k[1]] = "on" /\ active}

Window_Flat(n) == HookTimeout * 3

\* claim_visibility_seconds: a timeout for each row of the batch, and two to spare.
Window(n) == HookTimeout * (n + 2)

\* What n POSTs, with the database work around them, are allowed to take.
BatchTime(n) == HookTimeout * (n + 2)

ClaimDeliveries(d, batch) ==
    /\ pass[d].stage = "idle"
    /\ batch # {}
    /\ Cardinality(batch) <= HookBatch
    /\ Cardinality(batch) < HookBatch => batch = DueDeliveries
    /\ hook' = [k \in Keys |->
                   IF k \in batch
                   THEN [hook[k] EXCEPT !.attempts = @ + 1, !.due = Window(Cardinality(batch))]
                   ELSE hook[k]]
    /\ pass' = [pass EXCEPT ![d] = [Resting EXCEPT !.stage = "check", !.work = batch,
                                                  !.left = BatchTime(Cardinality(batch))]]
    /\ UNCHANGED <<stream, consumer, subs, active, history, turns, aborts>>

\* _release_claim: a claim that did not reach the wire costs nothing.
Released(row) ==
    IF row.status = "pending"
    THEN [row EXCEPT !.attempts = IF @ > 0 THEN @ - 1 ELSE 0, !.due = 0] ELSE row

ReleasedAll(keys) == [k \in Keys |-> IF k \in keys THEN Released(hook[k]) ELSE hook[k]]

\* The loop goes on with what is left of the batch.
Onward(d, rest) ==
    pass' = [pass EXCEPT ![d] = IF rest = {} THEN Resting
                                ELSE [Resting EXCEPT !.stage = "check", !.work = rest,
                                                     !.left = pass[d].left]]

SwitchedOff_NotAsked(k) == FALSE

\* The kill switch, asked again right before the POST.
SwitchedOff(k) == subs[k[1]] # "on"

\* What follows the switch, with the result that stands until a POST replaces it:
\* the POST, or nothing is sent because the credentials do not decrypt (refused) or
\* the asset a ticket is routed by cannot be read (worth another try).
Prepared == {<<"send", "refused">>, <<"read", "refused">>, <<"read", "retry">>}

\* _subscription_snapshot and _subscription_is_enabled: the claim is released, or
\* the delivery goes on.
Check(d, k) ==
    /\ pass[d].stage = "check"
    /\ k \in pass[d].work
    /\ \/ /\ SwitchedOff(k)
          /\ hook' = ReleasedAll({k})
          /\ Onward(d, pass[d].work \ {k})
       \/ /\ ~SwitchedOff(k)
          /\ \E next \in Prepared :
                pass' = [pass EXCEPT ![d] = [stage |-> next[1], work |-> @.work \ {k}, at |-> k,
                                             result |-> next[2], seen |-> NoDelivery,
                                             left |-> @.left]]
          /\ UNCHANGED hook
    /\ UNCHANGED <<stream, consumer, subs, active, history, turns, aborts>>

\* The POST.  One that is taken while its answer is lost ends in "retry" and may
\* be repeated.
Send(d, result) ==
    LET k == pass[d].at
    IN  /\ pass[d].stage = "send"
        /\ pass' = [pass EXCEPT ![d].stage = "read", ![d].result = result]
        /\ posts' = [posts EXCEPT ![k] = @ + 1]
        /\ pages' = [pages EXCEPT ![k] = IF result = "ok" THEN @ + 1 ELSE @]
        /\ sinceOff' = [sinceOff EXCEPT ![<<d, k[1]>>] = IF subs[k[1]] = "on" THEN @ ELSE @ + 1]
        /\ sinceHeld' = [sinceHeld EXCEPT ![d] = IF active THEN @ ELSE @ + 1]
        /\ UNCHANGED <<stream, consumer, subs, active, hook, turns, aborts>>

\* _record_result, its read: nothing to do for a row that is gone or delivered.
ReadDelivery(d) ==
    LET row == hook[pass[d].at]
    IN  /\ pass[d].stage = "read"
        /\ \/ row.status \in {"absent", "delivered"} /\ Onward(d, pass[d].work)
           \/ /\ row.status \in {"pending", "dead"}
              /\ pass' = [pass EXCEPT ![d].stage = "write", ![d].seen = row]
        /\ UNCHANGED <<stream, consumer, subs, active, hook, history, turns, aborts>>

TriesLeft_OneMore(seen) == seen.attempts <= HookAttempts

TriesLeft(seen) == seen.attempts < HookAttempts

\* The row after a result is written to it: the columns the session changed
\* against what it read.  Only the due time of a pending row is ever looked at.
Recorded(row, seen, result) ==
    CASE result = "ok" -> [row EXCEPT !.status = "delivered", !.due = 0]
      [] result = "retry" /\ TriesLeft(seen) ->
            IF seen.status = "pending" /\ row.status # "pending" THEN row
            ELSE [row EXCEPT !.status = "pending", !.due = HookBackoff]
      [] OTHER -> [row EXCEPT !.status = IF seen.status = "dead" THEN @ ELSE "dead", !.due = 0]

\* _record_result, its write.  A row deleted in between raises, and the rest of
\* the batch is released.
WriteDelivery(d) ==
    LET k == pass[d].at
    IN  /\ pass[d].stage = "write"
        /\ \/ /\ hook[k].status # "absent"
              /\ hook' = [hook EXCEPT ![k] = Recorded(@, pass[d].seen, pass[d].result)]
              /\ Onward(d, pass[d].work)
           \/ /\ hook[k].status = "absent"
              /\ hook' = ReleasedAll(pass[d].work)
              /\ pass' = [pass EXCEPT ![d] = Resting]
        /\ UNCHANGED <<stream, consumer, subs, active, history, turns, aborts>>

\* A POST whose outcome is never recorded is one the receiver may be sent again.
Unrecorded(d) ==
    pages' = IF pass[d].stage \in {"read", "write"} /\ pass[d].result = "ok"
             THEN [pages EXCEPT ![pass[d].at] = @ - 1] ELSE pages

\* Recording an outcome raises (the database, a metric, the ticket link): the row
\* stays claimed, what the tick had not reached is released.
AbortBatch(d) ==
    /\ pass[d].stage \in {"read", "write"}
    /\ turns + aborts < MaxTurns
    /\ hook' = ReleasedAll(pass[d].work)
    /\ pass' = [pass EXCEPT ![d] = Resting]
    /\ Unrecorded(d)
    /\ aborts' = aborts + 1
    /\ UNCHANGED <<stream, consumer, subs, active, posts, sinceOff, sinceHeld, turns>>

\* The replica dies: everything it had claimed waits for its window to pass.
DispatcherDies(d) ==
    /\ pass[d].stage # "idle"
    /\ turns + aborts < MaxTurns
    /\ pass' = [pass EXCEPT ![d] = Resting]
    /\ Unrecorded(d)
    /\ aborts' = aborts + 1
    /\ UNCHANGED <<stream, consumer, subs, active, hook, posts, sinceOff, sinceHeld, turns>>

-----------------------------------------------------------------------------
(* Operators and retention. *)

Turn == turns + aborts < MaxTurns /\ turns' = turns + 1

Requeueable_Any(k) == hook[k].status \in {"dead", "delivered"}

\* requeue_delivery replays dead letters only.
Requeueable(k) == hook[k].status = "dead"

RequeueDelivery(k) ==
    /\ Turn
    /\ Requeueable(k)
    /\ hook' = [hook EXCEPT ![k] = Queued]
    /\ posts' = [posts EXCEPT ![k] = 0]
    /\ UNCHANGED <<stream, consumer, subs, active, pass, pages, sinceOff, sinceHeld, aborts>>

\* prune_deliveries: delivered or dead, and older by days than any claim.  A later
\* copy of the event is then a new one.
PruneDelivery(k) ==
    /\ Turn
    /\ \A d \in Dispatchers : k \notin Claimed(d)
    /\ hook[k].status \in {"delivered", "dead"}
    /\ hook' = [hook EXCEPT ![k] = NoDelivery]
    /\ posts' = [posts EXCEPT ![k] = 0]
    /\ pages' = [pages EXCEPT ![k] = IF hook[k].status = "delivered" THEN @ - 1 ELSE @]
    /\ UNCHANGED <<stream, consumer, subs, active, pass, sinceOff, sinceHeld, aborts>>

\* The POSTs to a subscription are counted from here.
Afresh(s) == [o \in Dispatchers \X Subs |-> IF o[2] = s THEN 0 ELSE sinceOff[o]]

\* update_subscription, the enabled field.
SwitchSubscription(s) ==
    /\ Turn
    /\ subs[s] \in {"on", "off"}
    /\ subs' = [subs EXCEPT ![s] = IF @ = "on" THEN "off" ELSE "on"]
    /\ sinceOff' = Afresh(s)
    /\ UNCHANGED <<stream, consumer, active, hook, pass, posts, pages, sinceHeld, aborts>>

\* delete_subscription takes the deliveries with it.
DeleteSubscription(s) ==
    /\ Turn
    /\ subs[s] # "deleted"
    /\ subs' = [subs EXCEPT ![s] = "deleted"]
    /\ sinceOff' = IF subs[s] = "on" THEN Afresh(s) ELSE sinceOff
    /\ hook' = [k \in Keys |-> IF k[1] = s THEN NoDelivery ELSE hook[k]]
    /\ UNCHANGED <<stream, consumer, active, pass, posts, pages, sinceHeld, aborts>>

\* The tenant is suspended, or resumed.
SwitchTenant ==
    /\ Turn
    /\ active' = ~active
    /\ sinceHeld' = [d \in Dispatchers |-> 0]
    /\ UNCHANGED <<stream, consumer, subs, hook, pass, posts, pages, sinceOff, aborts>>

-----------------------------------------------------------------------------
(* Time. *)

\* Time passes: without Overrun not beyond what a batch at work may take.
HookTick ==
    /\ Overrun \/ \A d \in Dispatchers : pass[d].left # 1
    /\ (\E k \in Keys : hook[k].due > 0) \/ (\E d \in Dispatchers : pass[d].left > 0)
    /\ hook' = [k \in Keys |-> [hook[k] EXCEPT !.due = IF @ > 0 THEN @ - 1 ELSE 0]]
    /\ pass' = [d \in Dispatchers |-> [pass[d] EXCEPT !.left = IF @ > 0 THEN @ - 1 ELSE 0]]
    /\ UNCHANGED <<stream, consumer, subs, active, history, turns, aborts>>

-----------------------------------------------------------------------------

FanOutStep(e) == EnqueueEvent(e) \/ EnqueueFails(e) \/ StopsRedelivering(e)

DispatchStep(d) ==
    \/ \E batch \in SUBSET DueDeliveries : ClaimDeliveries(d, batch)
    \/ \E k \in Keys : Check(d, k)
    \/ \E result \in Results : Send(d, result)
    \/ ReadDelivery(d)
    \/ WriteDelivery(d)

OperatorStep ==
    \/ \E k \in Keys : RequeueDelivery(k) \/ PruneDelivery(k)
    \/ \E s \in Subs : SwitchSubscription(s) \/ DeleteSubscription(s)
    \/ SwitchTenant

\* Everything but the arrival of events.
QueueNext ==
    \/ \E e \in Events : FanOutStep(e)
    \/ \E d \in Dispatchers : DispatchStep(d) \/ AbortBatch(d) \/ DispatcherDies(d)
    \/ OperatorStep
    \/ HookTick

HookNext == QueueNext \/ \E e \in Events : Arrive(e)

HookSpec == HookInit /\ [][HookNext]_hookVars

-----------------------------------------------------------------------------
(* Safety. *)

\* A receiver pages once per event: it takes an event a second time only when an
\* answer was lost, a tick died with the outcome in hand, a batch overran its
\* window, or retention removed the record of the first time (enqueue_event,
\* _claim_due, _record_result).
OnePagePerEvent == ~Overrun => \A k \in Keys : pages[k] <= 1

\* A delivery that its receiver took is never dead-lettered or retried: its row
\* stays delivered until retention or the deletion of the subscription removes it,
\* as long as no batch overruns its window (_record_result, requeue_delivery).
DeliveredIsFinal ==
    [][\A k \in Keys : (hook[k].status = "delivered" /\ ~Overrun) =>
          hook'[k].status \in {"delivered", "absent"}]_hookVars

\* The same of duplicate claims, as _record_result has it: "A late POST from a
\* duplicate claim must not un-deliver a row the receiver already accepted (#152)."
\* Its check and its write are two steps, and the row is not locked between them.
LateResultUndeliversNothing ==
    [][\A k \in Keys : hook[k].status = "delivered" =>
          hook'[k].status \in {"delivered", "absent"}]_hookVars

\* The kill switch: once a subscription is off, a dispatcher makes at most the POST
\* it was about to make (dispatch_once).
KillSwitchHolds == \A o \in Dispatchers \X Subs : sinceOff[o] <= 1

\* A suspended tenant's backlog is held at the claim only, so a dispatcher still
\* sends what it had already claimed, and no more (_claim_due).
SuspensionHolds == \A d \in Dispatchers : sinceHeld[d] <= HookBatch

\* The retry ladder is finite: a delivery is POSTed webhook_max_attempts times at
\* most, and once more for every tick that did not live to record its POST
\* (_claim_due, _record_result, _release_claim).
PostsBounded == ~Overrun => \A k \in Keys : posts[k] <= HookAttempts + aborts
=============================================================================
