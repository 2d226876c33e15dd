---------------------------- MODULE MCJobManager ----------------------------
(* TLC instance of JobManager: interchangeable job ids. *)
EXTENDS JobManager, TLC

Symmetry == Permutations(Job)
=============================================================================
