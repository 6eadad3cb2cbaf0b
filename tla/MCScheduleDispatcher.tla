------------------------ MODULE MCScheduleDispatcher ------------------------
(* Small instances of ScheduleDispatcher for TLC. *)
EXTENDS ScheduleDispatcher
=============================================================================
