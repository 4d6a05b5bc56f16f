--------------------------- MODULE JobsRefinement ---------------------------
(***************************************************************************)
(* The supervisor implements the lifecycle it promises the page.           *)
(***************************************************************************)
EXTENDS Jobs

\* The phase of an id is a function of the table, the kind it was started with
\* and the exit events sent.
PhaseOf(i) ==
  IF i >= nextId THEN "new"
  ELSE IF kindOf[i] = "none" THEN "refused"
  ELSE IF i \in jobs THEN "live"
  ELSE IF reports[i] > 0 THEN "told" ELSE "over"

Lifecycle == INSTANCE JobLifecycle WITH
  phase     <- [i \in Ids |-> PhaseOf(i)],
  requested <- stopping,
  verdict   <- outcome

\* Every step of every thread, retry, stop and process is a step of the lifecycle
\* or invisible in it, and every end is told: a retry never looks like an exit,
\* a failed kill like a withdrawn request, a late stop call like nothing.
ImplementsLifecycle == Lifecycle!Spec
=============================================================================
