------------------------------- MODULE MCJobs -------------------------------
(* Model values for the job supervisor, with its abstract specification and  *)
(* its inductive invariant.                                                  *)
EXTENDS JobsRefinement, JobsInvariant

CONSTANTS t1, t2
=============================================================================
