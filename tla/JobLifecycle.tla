---------------------------- MODULE JobLifecycle ----------------------------
(***************************************************************************)
(* What the job supervisor promises the page, without threads, processes,  *)
(* retries or files: process ids are handed out in order, one job lives at *)
(* a time, a stop may be requested or its request withdrawn while the job  *)
(* lives, and the end of every job is told once, with the verdict fixed    *)
(* when it left the table.  Jobs implements this specification; the page   *)
(* is checked against it.                                                  *)
(***************************************************************************)
EXTENDS Naturals

CONSTANT MaxJobs   \* bound: process ids issued

ASSUME IdsAssumption == MaxJobs \in Nat

Ids == 1..MaxJobs

VARIABLES
  nextId,     \* the process id the next start gets
  phase,      \* of each id: new, refused (its spawn failed), live, over, told
  requested,  \* ids with a stop request in force
  verdict,    \* of each id once over: stopped or ended
  announced   \* ids whose start was told

lifeVars == <<nextId, phase, requested, verdict, announced>>

Init ==
  /\ nextId = 1
  /\ phase = [i \in Ids |-> "new"]
  /\ requested = {}
  /\ verdict = [i \in Ids |-> "none"]
  /\ announced = {}

Live == {i \in Ids : phase[i] = "live"}

\* A start is accepted only while no job is live.
Start(i) ==
  /\ i = nextId
  /\ Live = {}
  /\ nextId' = i + 1
  /\ phase' = [phase EXCEPT ![i] = "live"]
  /\ UNCHANGED <<requested, verdict, announced>>

Refuse(i) ==
  /\ i = nextId
  /\ Live = {}
  /\ nextId' = i + 1
  /\ phase' = [phase EXCEPT ![i] = "refused"]
  /\ UNCHANGED <<requested, verdict, announced>>

\* Its start event is sent.
Announce(i) ==
  /\ i \in Live
  /\ announced' = announced \cup {i}
  /\ UNCHANGED <<nextId, phase, requested, verdict>>

Request(i) ==
  /\ i \in Live
  /\ requested' = requested \cup {i}
  /\ UNCHANGED <<nextId, phase, verdict, announced>>

\* The kill of a stop was refused: the job goes on as if nobody had asked.
Withdraw(i) ==
  /\ i \in requested
  /\ requested' = requested \ {i}
  /\ UNCHANGED <<nextId, phase, verdict, announced>>

\* The job leaves the table.
Finish(i) ==
  /\ i \in Live \cap announced
  /\ phase' = [phase EXCEPT ![i] = "over"]
  /\ verdict' = [verdict EXCEPT ![i] = IF i \in requested THEN "stopped" ELSE "ended"]
  /\ requested' = requested \ {i}
  /\ UNCHANGED <<nextId, announced>>

\* Its exit event is sent.
Tell(i) ==
  /\ phase[i] = "over"
  /\ phase' = [phase EXCEPT ![i] = "told"]
  /\ UNCHANGED <<nextId, requested, verdict, announced>>

Next ==
  \E i \in Ids : \/ Start(i) \/ Refuse(i) \/ Announce(i) \/ Request(i)
                \/ Withdraw(i) \/ Finish(i) \/ Tell(i)

Spec == Init /\ [][Next]_lifeVars /\ \A i \in Ids : WF_lifeVars(Tell(i))
=============================================================================
