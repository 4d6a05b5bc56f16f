----------------------------- MODULE MCJobPage -----------------------------
(* Model values for the page and the job lifecycle. *)
EXTENDS JobPage

CONSTANTS c1, c2
=============================================================================
