----------------------------- MODULE MCJobQueue -----------------------------
(* The instances of JobQueue that TLC checks. *)
EXTENDS JobQueue, TLC

\* Agents of one kind, and jobs, are interchangeable.
IdSymmetry == Permutations(Agents \ Legacy) \cup Permutations(Jobs)
=============================================================================
