--------------------------- MODULE MCEventFanOut ---------------------------
(* A small instance of EventFanOut for TLC. *)
EXTENDS EventFanOut
=============================================================================
