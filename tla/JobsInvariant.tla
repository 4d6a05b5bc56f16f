---------------------------- MODULE JobsInvariant ----------------------------
(***************************************************************************)
(* Why the supervisor keeps its promises: an invariant of Jobs that every  *)
(* single step preserves, in parts named after the state they speak of.    *)
(* The runs check it on small instances, JobsProofs proves it.             *)
(***************************************************************************)
EXTENDS Jobs

Issued == {i \in Ids : i < nextId}

\* At most one job; it has an id already issued, a kind and a process; only jobs
\* in the table are marked as being stopped.
TableInv ==
  /\ \A i, j \in jobs : i = j
  /\ \A i \in jobs : i \in Issued /\ kindOf[i] \in Kinds /\ pid[i] \in {1, 2}
  /\ stopping \subseteq jobs

\* Nothing has happened yet to an id that was not issued.
FreshInv ==
  /\ \A i \in Ids \ Issued : /\ pid[i] = 0 /\ wav[i] = "none" /\ reports[i] = 0
                             /\ i \notin announced /\ i \notin asked /\ i \notin confirmed
  /\ \A p \in Pids : p[1] \notin Issued => proc[p] = "none" /\ waiter[p] = "none"

\* A live process is the current process of a job in the table; a second
\* attempt exists only once it is the current one.
ProcInv ==
  /\ NoOrphan
  /\ \A p \in Pids : p[2] = 2 /\ proc[p] # "none" => pid[p[1]] = 2

\* Until it removes the job, a waiter watches its current process; once the
\* child was waited for, that process is gone.  The second waiter is created
\* when the first is done, so one waiter at most reports.
WaiterInv ==
  /\ \A p \in Pids :
       /\ waiter[p] # "none" => p[1] \in Issued /\ p[1] \in announced
       /\ waiter[p] \in {"wait", "retry", "repair", "remove"} =>
            p[1] \in jobs /\ pid[p[1]] = p[2]
       /\ waiter[p] \in {"retry", "repair", "remove"} => ~Alive(p)
       /\ waiter[p] = "retry" => p[2] = 1
       /\ waiter[p] = "handoff" => p[2] = 1 /\ p[1] \in jobs /\ pid[p[1]] = 2
       /\ waiter[p] = "report" => p[1] \notin jobs
       /\ reports[p[1]] > 0 => waiter[p] \in {"none", "done"}
  /\ \A p, q \in Pids :
       p[1] = q[1] /\ p[2] = 1 /\ q[2] = 2 /\ waiter[q] # "none" => waiter[p] = "done"

\* Exits told, and the job gone before.
ReportInv ==
  \A i \in Ids : /\ reports[i] \in {0, 1}
                 /\ reports[i] = 1 => i \in Issued /\ i \in announced /\ i \notin jobs

\* While run() announces a job, the job is in the table on its first attempt and
\* has no waiter yet.
LaunchInv ==
  launch.step # "idle" =>
    /\ launch.id \in jobs
    /\ pid[launch.id] = 1
    /\ \A p \in Pids : p[1] = launch.id => waiter[p] = "none"
    /\ launch.step = "watch" => launch.id \in announced

\* A stop call under way is about an issued id it marked.  While the job lives,
\* a leading call is the only one, its mark is set and its pid is current.
StopInv ==
  /\ \A s \in Stoppers :
       sPc[s] # "idle" => sId[s] \in Issued /\ sPid[s] \in {1, 2} /\ sId[s] \in asked
  /\ \A s \in Stoppers :
       Leading(s) => IF sId[s] \in jobs
                     THEN sId[s] \in stopping /\ sPid[s] = pid[sId[s]]
                     ELSE outcome[sId[s]] = "stopped"
  /\ \A s, t \in Stoppers :
       Leading(s) /\ Leading(t) /\ sId[s] = sId[t] /\ sId[s] \in jobs => s = t

\* A confirmed stop is in force, and no call is left that could withdraw it.
ConfirmInv ==
  /\ ConfirmedIsStopped
  /\ confirmed \subseteq Issued
  /\ \A s \in Stoppers : Leading(s) /\ sId[s] \in jobs => sId[s] \notin confirmed

\* A WAV whose repair was reached is not open any more, and nobody reopens it.
RepairedInv ==
  \A p \in Pids :
    waiter[p] \in {"remove", "report"} /\ AnnouncesRecording(kindOf[p[1]]) => wav[p[1]] # "open"

\* The input of a file job exists and was looked at before the job was accepted.
InputInv ==
  \A i \in jobs : input[i] # NoId => wav[input[i]] \notin {"none", "open"}

IInv ==
  /\ TypeOK
  /\ TableInv
  /\ FreshInv
  /\ ProcInv
  /\ WaiterInv
  /\ ReportInv
  /\ LaunchInv
  /\ StopInv
  /\ ConfirmInv
  /\ StopFileMeansAsked
  /\ RepairedInv
  /\ ReportedWavClosed
  /\ InputInv
=============================================================================
