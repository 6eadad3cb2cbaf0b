---------------------------- MODULE MCLocalScans ----------------------------
(* The instances of LocalScans that TLC checks. *)
EXTENDS LocalScans, TLC

CONSTANT r1

\* Both jobs were accepted by one replica.
OneReplica == 1 :> r1 @@ 2 :> r1
=============================================================================
