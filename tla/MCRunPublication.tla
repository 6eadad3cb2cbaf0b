-------------------------- MODULE MCRunPublication --------------------------
(* The instances of RunPublication that TLC checks. *)
EXTENDS RunPublication
=============================================================================
