---------------------------- MODULE EventFanOut ----------------------------
(***************************************************************************)
(* The way of an asset event from an accepted run to the delivery rows of  *)
(* its subscribers: the broker's stream, which the outbox of NatsOutbox    *)
(* feeds late, is what the fan-out worker of WebhookQueue reads.           *)
(***************************************************************************)
EXTENDS NatsOutbox

CONSTANTS
    Subs, NoKey, Dispatchers, HookAttempts, HookBatch, HookTimeout, HookBackoff,
    MaxDeliver, Overrun, MaxTurns

VARIABLES
    handled, tries, dropped, subs, active, hook, pass, posts, pages, sinceOff,
    sinceHeld, turns, aborts

\* The queue reads the part of the stream that carries events.
eventStream == [e \in Events |-> stream[e]]

Hooks == INSTANCE WebhookQueue WITH stream <- eventStream

queueVars ==
    <<handled, tries, dropped, subs, active, hook, pass, posts, pages, sinceOff,
      sinceHeld, turns, aborts>>

fanOutVars == <<outboxVars, queueVars>>

FanOutInit == OutboxInit /\ Hooks!HookInit

FanOutNext ==
    \/ OutboxNext /\ UNCHANGED queueVars
    \/ UNCHANGED outboxVars /\ Hooks!QueueNext

FanOutSpec == FanOutInit /\ [][FanOutNext]_fanOutVars

-----------------------------------------------------------------------------

\* An event an attempt is through with is always somewhere: in the outbox, on
\* the stream for the fan-out worker, or queued for each subscriber; or its end is
\* on record: discarded by an operator, counted as lost with the database, or given
\* up by the stream after max_deliver (publish_events, reconcile_once,
\* _handle_msg).  No part sees the whole of this.
EventIsAccountedFor ==
    \A e \in Events \cap Through :
        \/ rows[e].status # "absent"
        \/ handled[e] < stream[e]
        \/ e \in discarded \cup lost \cup dropped
        \/ \A s \in Subs : hook[<<s, e>>].status # "absent"
        \/ turns > 0

\* An event that had to wait in the outbox reaches its subscribers' queues when the
\* broker is back for good and the loops run, unless an operator, the attempts of
\* its row or max_deliver ended it.
EventReachesTheQueue ==
    (/\ ReconcilerFairness
     /\ \A e \in Events : WF_fanOutVars(UNCHANGED outboxVars /\ Hooks!FanOutStep(e))
     /\ <>[]broker) =>
        \A e \in Events :
            rows[e].status = "pending" ~>
                \/ \A s \in Subs : hook[<<s, e>>].status # "absent"
                \/ rows[e].status = "dead"
                \/ e \in discarded \cup dropped
                \/ turns > 0
=============================================================================
