-------------------------------- MODULE Jobs --------------------------------
(***************************************************************************)
(* The job supervisor of the desktop app: desktop/src-tauri/src/jobs.rs.   *)
(*                                                                         *)
(* One mutex guards the table of jobs and the set of jobs being stopped.   *)
(* Four kinds of thread take it: the main thread (run), one waiter thread  *)
(* per started process (watch), and any number of stop calls               *)
(* (stop_blocking).  One TLA+ action is one critical section, or one step  *)
(* between two critical sections that another thread can observe: a spawn, *)
(* a write of the stop file, a kill, an event sent to the page.            *)
(*                                                                         *)
(* A process is <<id, n>>: the n-th attempt of job id.  Attempt 1 runs uv  *)
(* offline for some kinds; attempt 2 is its online rerun.  "Process" means *)
(* the whole tree: cmd, uv, Python and the model server.  The waiter gets  *)
(* past child.wait() and both reader joins only when the tree is gone.     *)
(***************************************************************************)
EXTENDS Naturals, FiniteSets

CONSTANTS
  Kinds,      \* the kinds of job the page starts; a subset of AllKinds
  MaxJobs,    \* bound: how many process ids one run of the app issues
  Stoppers,   \* the threads that call stop_blocking
  Faults      \* the environment's failures a run allows; a subset of AllFaults

(***************************************************************************)
(* One representative per class that the predicates of commands.rs tell    *)
(* apart: two live capture kinds, the record kinds, the file kinds.        *)
(***************************************************************************)
AllKinds  == {"live-cpp-turbo-gpu", "live-sensevoice-cpu", "record-timed", "sensevoice-cpu"}
AllFaults == {"spawn", "stopfile", "kill", "repair"}

ASSUME KindsAssumption   == Kinds \subseteq AllKinds
ASSUME MaxJobsAssumption == MaxJobs \in Nat
ASSUME FaultsAssumption  == Faults \subseteq AllFaults

IsCooperative(k)   == k \in {"live-cpp-turbo-gpu", "live-sensevoice-cpu", "record-timed"}
PrefersOffline(k)  == k \in {"live-sensevoice-cpu", "sensevoice-cpu"}
ReadsInputAudio(k) == k = "sensevoice-cpu"
\* Only the live scripts print the "Recording:" line the waiter repairs from;
\* record_audio.py prints "Writing:".
AnnouncesRecording(k) == k \in {"live-cpp-turbo-gpu", "live-sensevoice-cpu"}

Ids  == 1..MaxJobs
NoId == 0
Pids == Ids \X {1, 2}

VARIABLES
  nextId,     \* State.next_id
  jobs,       \* the ids in State.jobs
  pid,        \* Job.pid of an id, as the number of its attempt; 0 before the spawn
  stopping,   \* State.stopping
  stopFile,   \* the ids whose stop-request file exists on disk
  kindOf,     \* the kind each id was started with
  input,      \* the job whose recording a file job transcribes
  proc,       \* what each process is doing, or how it ended
  wav,        \* the WAV each job writes: absent, open (sizes unset), closed, broken
  launch,     \* where the main thread is inside run()
  waiter,     \* where the waiter thread of each process is
  announced,  \* ids whose "start" event was sent
  outcome,    \* the `stopped` value taken when the job was removed
  reports,    \* how many "exit" events were sent for an id
  sPc, sId, sPid, answer,  \* each stop call: place, process_id, copied pid, last result
  asked,      \* history: ids some stop call marked
  confirmed   \* history: ids whose leading stop call returned Ok(true)

tableVars  == <<nextId, jobs, pid, kindOf, input>>
toldVars   == <<announced, outcome, reports>>
stopVars   == <<sPc, sId, sPid, answer, asked, confirmed>>
vars == <<tableVars, stopping, stopFile, proc, wav, launch, waiter, toldVars, stopVars>>

Alive(p)      == proc[p] \in {"setup", "script"}
IsRunning(id) == id \in jobs
\* The stop calls that own the stop of a job, as opposed to those that wait for it.
Leading(s)    == sPc[s] \in {"write", "wait", "check", "kill", "failed", "unmark"}
LedBy(s, id)  == Leading(s) /\ sId[s] = id

Init ==
  /\ nextId = 1
  /\ jobs = {}
  /\ pid = [i \in Ids |-> 0]
  /\ stopping = {}
  \* An earlier run of the app under the same process number may have left files.
  /\ stopFile \in SUBSET Ids
  /\ kindOf = [i \in Ids |-> "none"]
  /\ input = [i \in Ids |-> NoId]
  /\ proc = [p \in Pids |-> "none"]
  /\ wav = [i \in Ids |-> "none"]
  /\ launch = [id |-> NoId, step |-> "idle"]
  /\ waiter = [p \in Pids |-> "none"]
  /\ announced = {}
  /\ outcome = [i \in Ids |-> "none"]
  /\ reports = [i \in Ids |-> 0]
  /\ sPc = [s \in Stoppers |-> "idle"]
  /\ sId = [s \in Stoppers |-> NoId]
  /\ sPid = [s \in Stoppers |-> 0]
  /\ answer = [s \in Stoppers |-> "none"]
  /\ asked = {}
  /\ confirmed = {}

-----------------------------------------------------------------------------
(* run(), on the main thread: a synchronous command, so one call at a time. *)

\* "No job in the table"; a mutated form that overlooks a job being stopped.
SlotFreeOfUnstopped == jobs \subseteq stopping
SlotFree == jobs = {}

\* fs::remove_file on the stop file of the new id, whose result is ignored: it is assumed
\* to succeed on a file that is there.  A mutated form without it.
KeepsStopFile(k) == stopFile
RemovesStopFile(k) == IF IsCooperative(k) THEN stopFile \ {nextId} ELSE stopFile

\* repair_pcm_header on the input of a file job; a failure is ignored.
\* A mutated form relies on the waiter having done it.
RepairsNothing(k, audio) == wav' = wav
RepairInput(k, audio) ==
  IF ReadsInputAudio(k) /\ audio # NoId /\ wav[audio] \in {"open", "broken"}
  THEN \/ wav' = [wav EXCEPT ![audio] = "closed"]
       \/ "repair" \in Faults /\ wav' = [wav EXCEPT ![audio] = "broken"]
  ELSE wav' = wav

\* The checks of run() and the repair, which come before anything can fail.
RunAccepts(k, audio) ==
  /\ launch.step = "idle"
  /\ SlotFree
  /\ nextId \in Ids
  /\ audio # NoId => ReadsInputAudio(k) /\ wav[audio] # "none"
  /\ RepairInput(k, audio)

RunSpawns(k, audio) ==
  /\ RunAccepts(k, audio)
  /\ nextId' = nextId + 1
  /\ stopFile' = RemovesStopFile(k)
  /\ jobs' = jobs \cup {nextId}
  /\ kindOf' = [kindOf EXCEPT ![nextId] = k]
  /\ input' = [input EXCEPT ![nextId] = audio]
  /\ pid' = [pid EXCEPT ![nextId] = 1]
  /\ proc' = [proc EXCEPT ![<<nextId, 1>>] = "setup"]
  /\ launch' = [id |-> nextId, step |-> "announce"]
  /\ UNCHANGED <<stopping, waiter, toldVars, stopVars>>

\* commands::build fails before an id is taken; create_dir_all or the spawn fails
\* after it, before or after the stop file was removed.
RunFails(k, audio) ==
  /\ "spawn" \in Faults
  /\ RunAccepts(k, audio)
  /\ \/ nextId' = nextId /\ stopFile' = stopFile
     \/ nextId' = nextId + 1 /\ stopFile' \in {stopFile, RemovesStopFile(k)}
  /\ UNCHANGED <<jobs, kindOf, input, pid, proc, launch, stopping, waiter, toldVars, stopVars>>

\* The lock is released: the start event is sent, then the waiter is created.
RunAnnounces ==
  /\ launch.step = "announce"
  /\ announced' = announced \cup {launch.id}
  /\ launch' = [launch EXCEPT !.step = "watch"]
  /\ UNCHANGED <<tableVars, stopping, stopFile, proc, wav, waiter, outcome, reports, stopVars>>

RunWatches ==
  /\ launch.step = "watch"
  /\ waiter' = [waiter EXCEPT ![<<launch.id, 1>>] = "wait"]
  /\ launch' = [id |-> NoId, step |-> "idle"]
  /\ UNCHANGED <<tableVars, stopping, stopFile, proc, wav, toldVars, stopVars>>

-----------------------------------------------------------------------------
(* The child process. *)

\* uv has an environment and starts the script.
ProcStarts(p) ==
  /\ proc[p] = "setup"
  /\ proc' = [proc EXCEPT ![p] = "script"]
  /\ UNCHANGED <<tableVars, stopping, stopFile, wav, launch, waiter, toldVars, stopVars>>

\* uv itself fails because UV_OFFLINE kept it from the package index.
ProcFailsOffline(p) ==
  /\ proc[p] = "setup"
  /\ p[2] = 1
  /\ PrefersOffline(kindOf[p[1]])
  /\ proc' = [proc EXCEPT ![p] = "offline"]
  /\ UNCHANGED <<tableVars, stopping, stopFile, wav, launch, waiter, toldVars, stopVars>>

\* A capture script prints the path of its WAV and opens it.
ProcOpensWav(p) ==
  /\ proc[p] = "script"
  /\ IsCooperative(kindOf[p[1]])
  /\ wav[p[1]] = "none"
  /\ wav' = [wav EXCEPT ![p[1]] = "open"]
  /\ UNCHANGED <<tableVars, stopping, stopFile, proc, launch, waiter, toldVars, stopVars>>

\* The process ends by itself.  One that fails may leave its WAV open: a crash,
\* or a capture thread that did not stop within five seconds.
ProcEnds(p) ==
  /\ Alive(p)
  /\ \/ /\ proc[p] = "script"
        /\ proc' = [proc EXCEPT ![p] = "ok"]
        /\ wav' = IF wav[p[1]] = "open" THEN [wav EXCEPT ![p[1]] = "closed"] ELSE wav
     \/ /\ proc' = [proc EXCEPT ![p] = "fail"]
        /\ \/ wav' = wav
           \/ wav[p[1]] = "open" /\ wav' = [wav EXCEPT ![p[1]] = "closed"]
  /\ UNCHANGED <<tableVars, stopping, stopFile, launch, waiter, toldVars, stopVars>>

\* watch_stop_request finds the stop file: the script closes its WAV and exits.
ProcSeesStopFile(p) ==
  /\ proc[p] = "script"
  /\ IsCooperative(kindOf[p[1]])
  /\ p[1] \in stopFile
  /\ proc' = [proc EXCEPT ![p] = "ok"]
  /\ wav' = IF wav[p[1]] = "open" THEN [wav EXCEPT ![p[1]] = "closed"] ELSE wav
  /\ UNCHANGED <<tableVars, stopping, stopFile, launch, waiter, toldVars, stopVars>>

-----------------------------------------------------------------------------
(* The waiter thread of watch(). *)

\* state.stopping.contains(&process_id), and a mutated form without the test.
IgnoresStop(id)  == FALSE
BeingStopped(id) == id \in stopping

\* What the thread does when retry_online returned nothing: go on and report.
\* Mutated: return as if the rerun had been started.
ReturnsAnyway   == "done"
AfterFailedRetry == "repair"

\* `return` after jobs.watch(next, ..); mutated: the return is missing.
FallsThrough  == "repair"
AfterHandover == "done"

\* Which WAVs the waiter repairs; mutated: not those of a job that was stopped.
NeedsRepairUnlessStopped(id) ==
  AnnouncesRecording(kindOf[id]) /\ wav[id] = "open" /\ id \notin stopping
NeedsRepair(id) == AnnouncesRecording(kindOf[id]) /\ wav[id] = "open"

\* The `stopped` of the exit event: was the mark there?  Mutated: was it killed?
StoppedByStatus(id) == \E n \in {1, 2} : proc[<<id, n>>] = "killed"
Stopped(id) == id \in stopping

\* child.wait() and both readers are done.  Only the first attempt of a kind
\* that runs offline carries a retry, and only uv's own offline failure uses it.
WaiterJoins(p) ==
  /\ waiter[p] = "wait"
  /\ proc[p] # "none" /\ ~Alive(p)
  /\ waiter' = [waiter EXCEPT ![p] =
                  IF p[2] = 1 /\ PrefersOffline(kindOf[p[1]]) /\ proc[p] = "offline"
                  THEN "retry" ELSE "repair"]
  /\ UNCHANGED <<tableVars, stopping, stopFile, proc, wav, launch, toldVars, stopVars>>

\* retry_online, under the lock throughout.
WaiterRetries(p) ==
  /\ waiter[p] = "retry"
  /\ ~BeingStopped(p[1])
  /\ p[1] \in jobs
  /\ proc' = [proc EXCEPT ![<<p[1], 2>>] = "setup"]
  /\ pid' = [pid EXCEPT ![p[1]] = 2]
  /\ waiter' = [waiter EXCEPT ![p] = "handoff"]
  /\ UNCHANGED <<nextId, jobs, kindOf, input, stopping, stopFile, wav, launch, toldVars, stopVars>>

\* The job is being stopped, or the spawn fails: the first attempt is reported.
WaiterGivesUp(p) ==
  /\ waiter[p] = "retry"
  /\ BeingStopped(p[1]) \/ p[1] \notin jobs \/ "spawn" \in Faults
  /\ waiter' = [waiter EXCEPT ![p] = AfterFailedRetry]
  /\ UNCHANGED <<tableVars, stopping, stopFile, proc, wav, launch, toldVars, stopVars>>

\* jobs.watch(next, None); return.
WaiterHandsOver(p) ==
  /\ waiter[p] = "handoff"
  /\ waiter' = [waiter EXCEPT ![p] = AfterHandover, ![<<p[1], 2>>] = "wait"]
  /\ UNCHANGED <<tableVars, stopping, stopFile, proc, wav, launch, toldVars, stopVars>>

\* Every WAV announced with "Recording:" gets its header checked.
WaiterRepairs(p) ==
  /\ waiter[p] = "repair"
  /\ waiter' = [waiter EXCEPT ![p] = "remove"]
  /\ IF NeedsRepair(p[1])
     THEN \/ wav' = [wav EXCEPT ![p[1]] = "closed"]
          \/ "repair" \in Faults /\ wav' = [wav EXCEPT ![p[1]] = "broken"]
     ELSE wav' = wav
  /\ UNCHANGED <<tableVars, stopping, stopFile, proc, launch, toldVars, stopVars>>

\* One critical section: the job, its stop file and its stopping mark go.
WaiterRemoves(p) ==
  /\ waiter[p] = "remove"
  /\ waiter' = [waiter EXCEPT ![p] = "report"]
  /\ jobs' = jobs \ {p[1]}
  /\ stopFile' = IF p[1] \in jobs /\ IsCooperative(kindOf[p[1]]) THEN stopFile \ {p[1]} ELSE stopFile
  /\ stopping' = stopping \ {p[1]}
  /\ outcome' = [outcome EXCEPT ![p[1]] = IF Stopped(p[1]) THEN "stopped" ELSE "ended"]
  /\ UNCHANGED <<nextId, pid, kindOf, input, proc, wav, launch, announced, reports, stopVars>>

\* The exit event, after the lock is released.
WaiterReports(p) ==
  /\ waiter[p] = "report"
  /\ waiter' = [waiter EXCEPT ![p] = "done"]
  /\ reports' = [reports EXCEPT ![p[1]] = @ + 1]
  /\ UNCHANGED <<tableVars, stopping, stopFile, proc, wav, launch, announced, outcome, stopVars>>

-----------------------------------------------------------------------------
(* stop_blocking(), one call per stopper at a time. *)

\* The locals of the call are gone; the caller keeps its result.
Return(s, result) ==
  /\ sPc' = [sPc EXCEPT ![s] = "idle"]
  /\ sId' = [sId EXCEPT ![s] = NoId]
  /\ sPid' = [sPid EXCEPT ![s] = 0]
  /\ answer' = [answer EXCEPT ![s] = result]

\* Returning Ok(true) as the call that owns the stop.
Confirm(s) ==
  /\ Return(s, "true")
  /\ confirmed' = confirmed \cup {sId[s]}

Goto(s, place) ==
  /\ sPc' = [sPc EXCEPT ![s] = place]
  /\ UNCHANGED <<sId, sPid, answer, confirmed>>

UnchangedByStop == <<tableVars, proc, wav, launch, waiter, toldVars, asked>>

\* The job is not in the table: Ok(false).
StopFindsNothing(s, id) ==
  /\ sPc[s] = "idle"
  /\ id \notin jobs
  /\ Return(s, "false")
  /\ UNCHANGED <<UnchangedByStop, stopping, stopFile, confirmed>>

\* Under the lock: copy the pid, mark the job; the first to mark it leads.
StopMarks(s, id) ==
  /\ sPc[s] = "idle"
  /\ id \in jobs
  /\ sId' = [sId EXCEPT ![s] = id]
  /\ sPid' = [sPid EXCEPT ![s] = pid[id]]
  /\ stopping' = stopping \cup {id}
  /\ asked' = asked \cup {id}
  /\ answer' = [answer EXCEPT ![s] = "none"]
  /\ sPc' = [sPc EXCEPT ![s] = IF id \in stopping THEN "join"
                               ELSE IF IsCooperative(kindOf[id]) THEN "write"
                               ELSE "check"]
  /\ UNCHANGED <<tableVars, stopFile, proc, wav, launch, waiter, toldVars, confirmed>>

\* Another stop is under way: poll until the job is gone or 15 s have passed.
\* Time: the leader began earlier and has 10 s before it kills, so the 15 s end
\* only when no leading call is still working on the job.
StopJoins(s) ==
  /\ sPc[s] = "join"
  /\ IsRunning(sId[s]) => ~\E t \in Stoppers : LedBy(t, sId[s])
  /\ Return(s, "true")
  /\ UNCHANGED <<UnchangedByStop, stopping, stopFile, confirmed>>

StopWrites(s) ==
  /\ sPc[s] = "write"
  /\ stopFile' = stopFile \cup {sId[s]}
  /\ Goto(s, "wait")
  /\ UNCHANGED <<UnchangedByStop, stopping>>

\* fs::write(..)? returns the error at once and leaves the mark in `stopping`.
StopWriteFails(s) ==
  /\ sPc[s] = "write"
  /\ "stopfile" \in Faults
  /\ Return(s, "error")
  /\ UNCHANGED <<UnchangedByStop, stopping, stopFile, confirmed>>

\* The polling loop ends: the job is gone, or COOPERATIVE_STOP has passed.
\* Mutated: it has no deadline.
OverWhenGone(s) == ~IsRunning(sId[s])
WaitOver(s) == TRUE

StopWaits(s) ==
  /\ sPc[s] = "wait"
  /\ WaitOver(s)
  /\ Goto(s, "check")
  /\ UNCHANGED <<UnchangedByStop, stopping, stopFile>>

StopChecks(s) ==
  /\ sPc[s] = "check"
  /\ IF IsRunning(sId[s]) THEN Goto(s, "kill") ELSE Confirm(s)
  /\ UNCHANGED <<UnchangedByStop, stopping, stopFile>>

\* taskkill on the pid copied when the call began.
StopKills(s) ==
  /\ sPc[s] = "kill"
  /\ Alive(<<sId[s], sPid[s]>>)
  /\ proc' = [proc EXCEPT ![<<sId[s], sPid[s]>>] = "killed"]
  /\ Confirm(s)
  /\ UNCHANGED <<tableVars, stopping, stopFile, wav, launch, waiter, toldVars, asked>>

\* taskkill reports an error: always for a process that is already gone.
StopKillFails(s) ==
  /\ sPc[s] = "kill"
  /\ ~Alive(<<sId[s], sPid[s]>>) \/ "kill" \in Faults
  /\ Goto(s, "failed")
  /\ UNCHANGED <<UnchangedByStop, stopping, stopFile>>

StopChecksAgain(s) ==
  /\ sPc[s] = "failed"
  /\ IF IsRunning(sId[s]) THEN Goto(s, "unmark") ELSE Confirm(s)
  /\ UNCHANGED <<UnchangedByStop, stopping, stopFile>>

StopUnmarks(s) ==
  /\ sPc[s] = "unmark"
  /\ stopping' = stopping \ {sId[s]}
  /\ Return(s, "error")
  /\ UNCHANGED <<UnchangedByStop, stopFile, confirmed>>

-----------------------------------------------------------------------------
Run       == \/ \E k \in Kinds, audio \in Ids \cup {NoId} :
                  RunSpawns(k, audio) \/ RunFails(k, audio)
             \/ RunAnnounces
             \/ RunWatches
Child(p)  == \/ ProcStarts(p) \/ ProcFailsOffline(p) \/ ProcOpensWav(p)
             \/ ProcEnds(p) \/ ProcSeesStopFile(p)
Waiter(p) == \/ WaiterJoins(p) \/ WaiterRetries(p) \/ WaiterGivesUp(p) \/ WaiterHandsOver(p)
             \/ WaiterRepairs(p) \/ WaiterRemoves(p) \/ WaiterReports(p)
StopCall(s) == \E id \in Ids : StopFindsNothing(s, id) \/ StopMarks(s, id)
StopStep(s) == \/ StopJoins(s) \/ StopWrites(s) \/ StopWriteFails(s) \/ StopWaits(s) \/ StopChecks(s)
               \/ StopKills(s) \/ StopKillFails(s) \/ StopChecksAgain(s) \/ StopUnmarks(s)

Next ==
  \/ Run
  \/ \E p \in Pids : Child(p) \/ Waiter(p)
  \/ \E s \in Stoppers : StopCall(s) \/ StopStep(s)

\* Threads that were created run on; processes and people promise nothing.  The
\* 15 seconds of a joined stop pass even if other stops come and go: strong.
Fairness ==
  /\ WF_vars(RunAnnounces) /\ WF_vars(RunWatches)
  /\ \A p \in Pids : WF_vars(Waiter(p))
  /\ \A s \in Stoppers : WF_vars(StopStep(s)) /\ SF_vars(StopJoins(s))

Spec == Init /\ [][Next]_vars /\ Fairness

-----------------------------------------------------------------------------
(* What the supervisor promises. *)

WaiterPlaces == {"none", "wait", "retry", "handoff", "repair", "remove", "report", "done"}
StopPlaces   == {"idle", "join", "write", "wait", "check", "kill", "failed", "unmark"}

TypeOK ==
  /\ nextId \in 1..(MaxJobs + 1)
  /\ jobs \subseteq Ids /\ stopping \subseteq Ids /\ stopFile \subseteq Ids
  /\ pid \in [Ids -> 0..2]
  /\ kindOf \in [Ids -> Kinds \cup {"none"}]
  /\ input \in [Ids -> Ids \cup {NoId}]
  /\ proc \in [Pids -> {"none", "setup", "script", "ok", "fail", "offline", "killed"}]
  /\ wav \in [Ids -> {"none", "open", "closed", "broken"}]
  /\ launch \in [id : Ids \cup {NoId}, step : {"idle", "announce", "watch"}]
  /\ waiter \in [Pids -> WaiterPlaces]
  /\ announced \subseteq Ids
  /\ outcome \in [Ids -> {"none", "stopped", "ended"}]
  /\ reports \in [Ids -> Nat]
  /\ sPc \in [Stoppers -> StopPlaces]
  /\ sId \in [Stoppers -> Ids \cup {NoId}]
  /\ sPid \in [Stoppers -> 0..2]
  /\ answer \in [Stoppers -> {"none", "true", "false", "error"}]
  /\ asked \subseteq Ids /\ confirmed \subseteq Ids

\* "One job at a time" (jobs.rs:1): whatever retries, stops and exits overlap,
\* two process trees never run at once, so two models are never loaded.
OneLiveProcess == \A p, q \in Pids : Alive(p) /\ Alive(q) => p = q

\* No process outlives its entry in the table, and the entry names it: a job
\* whose process still runs can be found and stopped.
NoOrphan == \A p \in Pids : Alive(p) => p[1] \in jobs /\ pid[p[1]] = p[2]

\* A stop file is found only by a job that some stop call asked to stop: a file
\* left by an earlier run of the app never ends a new recording.
StopFileMeansAsked ==
  \A i \in Ids : i \in jobs \cap stopFile /\ IsCooperative(kindOf[i]) => i \in asked

\* A leading stop call kills with the pid it copied before up to ten seconds of
\* waiting.  While the job is registered that is still the pid of its process:
\* the online rerun never replaces a process under a stop (jobs.rs:240-242).
KillsCurrentProcess ==
  \A s \in Stoppers : Leading(s) /\ sId[s] \in jobs => sPid[s] = pid[sId[s]]

\* Once a leading stop call returned Ok(true), the exit event of that job says
\* stopped, whether the script closed by itself or was killed: the page never
\* shows the stop the user asked for as a completed or failed job.
ConfirmedIsStopped ==
  \A i \in confirmed : IF i \in jobs THEN i \in stopping ELSE outcome[i] = "stopped"

\* When the exit event of a live session is sent, the header of its WAV is
\* right or its repair was tried and failed, however the process ended.
ReportedWavClosed ==
  \A i \in Ids : reports[i] > 0 /\ AnnouncesRecording(kindOf[i]) => wav[i] # "open"

\* A file job never reads a WAV whose header nobody tried to complete, also when
\* the recorder was a killed record job, whose WAV its own waiter leaves as is.
InputWavClosed ==
  \A i \in jobs : input[i] # NoId => wav[input[i]] # "open"

\* The exit of a job is told at most once, after its start was, and when its
\* place is free for the next job (jobs.rs:3-6).
ExitToldOnce ==
  \A i \in Ids : /\ reports[i] <= 1
                 /\ reports[i] = 1 => i \in announced /\ i \notin jobs

\* A call that owns a stop either sees the job gone or returns an error: with a
\* script that ignores its stop file the ten seconds end and the tree is killed.
StopEndsJob ==
  \A s \in Stoppers, i \in Ids :
    LedBy(s, i) ~> (i \notin jobs \/ answer[s] = "error")

\* A job whose process is gone is reported or has been started again online;
\* no path of the waiter leaves the table occupied for ever.
ExitIsReported ==
  \A i \in Ids :
    (i \in jobs /\ \A n \in {1, 2} : ~Alive(<<i, n>>)) ~> (reports[i] > 0 \/ Alive(<<i, 2>>))

\* "Another stop is under way: wait for the same outcome." (jobs.rs:422): while
\* a stop call waits for another, another call is working on the stop or has
\* completed it.
JoinedStopIsUnderWay ==
  \A s \in Stoppers :
    sPc[s] = "join" /\ sId[s] \in jobs =>
      sId[s] \in confirmed \/ \E t \in Stoppers : LedBy(t, sId[s])
=============================================================================
