----------------------------- MODULE JobOutcome -----------------------------
(***************************************************************************)
(* What the job queue promises, with no leases, ingests, uploads, clocks,  *)
(* heartbeats or sweeps in it: a scan is handed out a bounded number of    *)
(* times, to one agent at a time; its outcome is decided once; and the run *)
(* that is kept is the one of the agent and the hand-out that decided it.  *)
(*                                                                         *)
(* JobQueue implements this specification; see Promise there.              *)
(***************************************************************************)
EXTENDS Naturals, JobStates

CONSTANTS Jobs, Agents, NoAgent, MaxAttempts

VARIABLES
    outcome,   \* "open", "stopping", or how the scan ended
    holder,    \* the agent the scan is or was last handed to
    handouts,  \* how often it was handed out
    runs       \* the runs kept: [job, agent, handout]

outcomeVars == <<outcome, holder, handouts, runs>>

Init ==
    /\ outcome = [j \in Jobs |-> "open"]
    /\ holder = [j \in Jobs |-> NoAgent]
    /\ handouts = [j \in Jobs |-> 0]
    /\ runs = {}

RunOf(j) == [job |-> j, agent |-> holder[j], handout |-> handouts[j]]

HandOut(j, a) ==
    /\ outcome[j] = "open"
    /\ holder[j] = NoAgent
    /\ handouts[j] < MaxAttempts
    /\ holder' = [holder EXCEPT ![j] = a]
    /\ handouts' = [handouts EXCEPT ![j] = @ + 1]
    /\ UNCHANGED <<outcome, runs>>

\* Only while another hand-out is left, and never of a scan that is stopping.
TakeBack(j) ==
    /\ outcome[j] = "open"
    /\ holder[j] # NoAgent
    /\ handouts[j] < MaxAttempts
    /\ holder' = [holder EXCEPT ![j] = NoAgent]
    /\ UNCHANGED <<outcome, handouts, runs>>

Stop(j) ==
    /\ outcome[j] = "open"
    /\ holder[j] # NoAgent
    /\ outcome' = [outcome EXCEPT ![j] = "stopping"]
    /\ UNCHANGED <<holder, handouts, runs>>

\* Success comes with the holder's run; any other end may or may not.  Without
\* a holder the only end is being taken off the queue.
Decide(j, end) ==
    /\ outcome[j] \in {"open", "stopping"}
    /\ holder[j] = NoAgent => end = CANCELLED
    /\ end = CANCELLED => outcome[j] = "stopping" \/ holder[j] = NoAgent
    /\ outcome' = [outcome EXCEPT ![j] = end]
    /\ \/ runs' = runs \cup {RunOf(j)} /\ holder[j] # NoAgent
       \/ runs' = runs /\ end # SUCCEEDED
    /\ UNCHANGED <<holder, handouts>>

\* The partial run of a stopped scan may be kept after the verdict, once.
KeepLateArchive(j) ==
    /\ outcome[j] = CANCELLED
    /\ holder[j] # NoAgent
    /\ \A r \in runs : r.job # j
    /\ runs' = runs \cup {RunOf(j)}
    /\ UNCHANGED <<outcome, holder, handouts>>

Next ==
    \E j \in Jobs :
        \/ \E a \in Agents : HandOut(j, a)
        \/ TakeBack(j)
        \/ Stop(j)
        \/ \E end \in TERMINAL : Decide(j, end)
        \/ KeepLateArchive(j)

Spec == Init /\ [][Next]_outcomeVars
=============================================================================
