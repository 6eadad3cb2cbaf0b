----------------------------- MODULE JobStates -----------------------------
(***************************************************************************)
(* The lifecycle table of a scan job: api/services/job_states.py.          *)
(*                                                                         *)
(* Every writer of jobs.status asks this table before it moves a job; the  *)
(* components built on it (JobQueue, LocalScans) EXTEND this module.       *)
(***************************************************************************)

QUEUED == "queued"
CLAIMED == "claimed"
RUNNING == "running"
SUCCEEDED == "succeeded"
FAILED == "failed"
CANCELLED == "cancelled"
CANCELLING == "cancelling"

Statuses ==
    {QUEUED, CLAIMED, RUNNING, SUCCEEDED, FAILED, CANCELLED, CANCELLING}

\* No transition leaves these.
TERMINAL == {SUCCEEDED, FAILED, CANCELLED}

\* An executor holds the job and must keep renewing its lease.
IN_FLIGHT == {CLAIMED, RUNNING}

\* job_states.TRANSITIONS.
TRANSITIONS ==
    [s \in Statuses |->
        CASE s = QUEUED     -> {CLAIMED, RUNNING, FAILED, CANCELLED}
          [] s = CLAIMED    -> {RUNNING, SUCCEEDED, FAILED, QUEUED, CANCELLING}
          [] s = RUNNING    -> {SUCCEEDED, FAILED, QUEUED, CANCELLING}
          [] s = CANCELLING -> {CANCELLED, SUCCEEDED, FAILED}
          [] OTHER          -> {}]

\* A mutated form of the next definition: the table is not consulted.
CanTransition_Unchecked(current, target) == current # target

\* can_transition / check_transition: the guard every status write passes.
CanTransition(current, target) == target \in TRANSITIONS[current]
=============================================================================
