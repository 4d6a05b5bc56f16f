----------------------------- MODULE CloseProofs -----------------------------
(***************************************************************************)
(* Proofs about closing the app, for any jobs, downloads, stops and        *)
(* failures: when nothing is started while a close is under way, the app   *)
(* leaves no process behind that could be stopped, and no WAV without its  *)
(* sizes.                                                                  *)
(*                                                                         *)
(* The argument: at any time a job that was asked to stop is led by a stop *)
(* call, is dead and confirmed, or is noted as failed (AskedInv).  The     *)
(* closing thread asks every job; when its own call has returned, led jobs *)
(* are excluded (JobsClosed).                                              *)
(***************************************************************************)
EXTENDS AppClose, JobsProofs, DownloadProofs

USE DEF vars, tableVars, toldVars, stopVars, UnchangedByStop, Leading, LedBy

-----------------------------------------------------------------------------
(* The invariant. *)

CloserPlaces == {"none", "downloads", "kill", "stops", "settle", "exit"}

CTypes ==
  /\ app \in {"open", "exited"}
  /\ quitting \in BOOLEAN
  /\ closer \in CloserPlaces
  /\ cKill \subseteq DPids
  /\ cStop \subseteq Ids

\* All its processes are excused, or no one of them is left.
Excused(i)  == \A p \in Pids : p[1] = i => p \in failed
Dead(i)     == \A p \in Pids : p[1] = i => ~Alive(p)
Resolved(i) == Excused(i) \/ (i \in confirmed /\ Dead(i))

\* A job is marked only by a stop call, and such a call leads it, has ended it, or
\* has failed.
AskedInv ==
  /\ stopping \subseteq asked
  /\ \A i \in jobs \cap asked : Resolved(i) \/ \E s \in Stoppers : LedBy(s, i)

\* A job in the table is being announced, or its current process has a waiter that
\* will take it off.
WatchedInv ==
  \A i \in jobs :
    \/ launch.id = i /\ launch.step # "idle"
    \/ \E p \in Pids : p[1] = i /\ (waiter[p] \in {"retry", "handoff", "repair", "remove"}
                                    \/ (waiter[p] = "wait" /\ pid[i] = p[2]))

\* A live session leaves the table with its WAV completed.
GoneInv == \A i \in Ids \ jobs : AnnouncesRecording(kindOf[i]) => wav[i] # "open"

\* Nothing starts once a close is under way.
QuietInv ==
  /\ closer # "none" => quitting
  /\ quitting \/ app = "exited" => MainIdle

\* What the closing thread has done to the downloads.
DownloadsClosed ==
  /\ closer = "kill" => \A p \in DPids : DAlive(p) => p \in cKill \cup failed
  /\ closer \in {"stops", "settle", "exit"} \/ app = "exited" =>
       \A p \in DPids : DAlive(p) => p \in failed

\* What it has done to the jobs.
JobsClosed ==
  /\ closer = "stops" =>
       \A i \in jobs : \/ i \in cStop
                       \/ sPc[CloseStopper] # "idle" /\ sId[CloseStopper] = i
                       \/ Resolved(i)
  /\ closer = "settle" => \A i \in jobs : Resolved(i)
  /\ closer = "exit" \/ app = "exited" => \A i \in jobs : Excused(i)

CInv ==
  /\ IInv /\ DInv
  /\ CTypes /\ AskedInv /\ WatchedInv /\ GoneInv
  /\ QuietInv /\ DownloadsClosed /\ JobsClosed
-----------------------------------------------------------------------------
(* Steps of the app are steps of its parts. *)

\* To the supervisor a close is some stop calls.
LEMMA StepOfJobs ==
  ASSUME [CNext]_allVars
  PROVE  [Next]_vars
<1>1. CASE UNCHANGED allVars
  BY <1>1 DEF allVars
<1>2. CASE AppStep
  <2>1. CASE Close
    BY <2>1 DEF Close, CloseWhenIdle, CloseWhenBusy
  <2>2. CASE Closer
    <3>1. ASSUME NEW id \in Ids, CloserCallsStop(id) PROVE Next
      <4>1. StopCall(CloseStopper)
        BY <3>1 DEF CloserCallsStop, StopCall
      <4> QED BY <4>1, CloseStopperAssumption DEF Next
    <3>2. ASSUME NEW p \in DPids, CloserKillsDownload(p) PROVE UNCHANGED vars
      BY <3>2 DEF CloserKillsDownload
    <3>3. CloserReadsDownloads \/ CloserSnapshots \/ CloserJoins \/ CloserSettles \/ CloserExits
            => UNCHANGED vars
      BY DEF CloserReadsDownloads, CloserSnapshots, CloserJoins, CloserSettles, CloserExits
    <3> QED BY <2>2, <3>1, <3>2, <3>3 DEF Closer
  <2>3. CASE JobStep
    <3>1. ASSUME NEW k \in Kinds, RunSpawns(k, NoId) \/ RunFails(k, NoId) PROVE Run
      BY <3>1 DEF Run
    <3>2. RunAnnounces \/ RunWatches => Run
      BY DEF Run
    <3> QED BY <2>3, <3>1, <3>2 DEF JobStep, Next
  <2>4. CASE DownloadStep /\ UNCHANGED <<vars, closeVars>>
    BY <2>4
  <2> QED BY <1>2, <2>1, <2>2, <2>3, <2>4 DEF AppStep
<1>3. CASE ProcessStep
  <2>1. ASSUME NEW p \in Pids, Child(p) PROVE Next
    BY <2>1 DEF Next
  <2> QED BY <1>3, <2>1 DEF ProcessStep
<1> QED BY <1>1, <1>2, <1>3 DEF CNext

\* What the closing thread and the processes do to the downloads keeps their invariant.
LEMMA DownloadsKeep ==
  ASSUME DInv, [CNext]_allVars
  PROVE  DInv'
<1>0. ASSUME UNCHANGED dvars PROVE DInv'
  BY <1>0, DStepKeeps
<1>1. CASE UNCHANGED allVars
  BY <1>0, <1>1 DEF allVars
<1>2. CASE AppStep
  <2>1. CASE Close
    BY <1>0, <2>1 DEF Close, CloseWhenIdle, CloseWhenBusy
  <2>2. CASE Closer
    <3>1. ASSUME NEW id \in Ids, CloserCallsStop(id) PROVE DInv'
      BY <1>0, <3>1 DEF CloserCallsStop
    <3>2. ASSUME NEW p \in DPids, CloserKillsDownload(p) PROVE DInv'
      <4>1. /\ UNCHANGED <<downloads, dCount, dWaiter, dLaunch, dCalls>>
            /\ dProc' = dProc \/ (DAlive(p) /\ dProc' = [dProc EXCEPT ![p] = "killed"])
        BY <3>2 DEF CloserKillsDownload, dPageVars
      <4> QED BY <4>1, DQuietKeeps DEF DInv, DTypes
    <3>3. CloserReadsDownloads \/ CloserSnapshots \/ CloserJoins \/ CloserSettles \/ CloserExits
            => UNCHANGED dvars
      BY DEF CloserReadsDownloads, CloserSnapshots, CloserJoins, CloserSettles, CloserExits
    <3> QED BY <1>0, <2>2, <3>1, <3>2, <3>3 DEF Closer
  <2>3. CASE JobStep /\ UNCHANGED <<dvars, closeVars>>
    BY <1>0, <2>3
  <2>4. CASE DownloadStep
    BY <2>4, DStepKeeps DEF DownloadStep, DNext, DMain, DThread, DPage
  <2> QED BY <1>2, <2>1, <2>2, <2>3, <2>4 DEF AppStep
<1>3. CASE ProcessStep
  <2>1. ASSUME NEW p \in DPids, DChild(p) PROVE DInv'
    BY <2>1, DStepKeeps DEF DNext
  <2> QED BY <1>0, <1>3, <2>1 DEF ProcessStep
<1> QED BY <1>1, <1>2, <1>3 DEF CNext

\* A failed stop excuses the processes of its job, and nothing is ever unexcused.
LEMMA FailuresNoted ==
  ASSUME [CNext]_allVars
  PROVE  /\ failed \subseteq failed'
         /\ AppStep => \A p \in Pids, s \in Stoppers :
              sId[s] = p[1] /\ sPc[s] # "idle" /\ answer'[s] = "error" => p \in failed'
         /\ AppStep => \A p \in cKill \ cKill' : DAlive(p)' => p \in failed'
<1>1. AppStep => /\ failed \subseteq failed'
                 /\ \A p \in Pids : StopFailed(p[1]) => p \in failed'
                 /\ \A p \in cKill \ cKill' : DAlive(p)' => p \in failed'
  BY DEF AppStep, Noted
<1>2. ~AppStep => failed' = failed
  BY DEF CNext, ProcessStep, cvars, allVars
<1> QED BY <1>1, <1>2 DEF StopFailed

\* A stop call that returns an error excuses the processes of its job.
LEMMA ErrorsNoted ==
  ASSUME IInv, [CNext]_allVars, NEW s \in Stoppers, StopStep(s)
  PROVE  \A p \in Pids : sId[s] = p[1] /\ answer'[s] = "error" => p \in failed'
<1>1. sPc[s] # "idle" /\ sPc'[s] # sPc[s]
  <2>1. sPc \in [Stoppers -> StopPlaces]
    BY DEF IInv, TypeOK
  <2> QED BY <2>1 DEF StopStep, StopJoins, StopWrites, StopWriteFails, StopWaits, StopChecks,
            StopKills, StopKillFails, StopChecksAgain, StopUnmarks, Goto, Confirm, Return
<1>2. ProcessStep \/ UNCHANGED allVars => sPc' = sPc
  BY DEF ProcessStep, Child, ProcStarts, ProcFailsOffline, ProcOpensWav, ProcEnds,
         ProcSeesStopFile, allVars
<1> QED BY <1>1, <1>2, FailuresNoted DEF CNext

-----------------------------------------------------------------------------
(* Jobs that were asked to stop. *)

\* No process comes to life in a job that is being stopped.
LEMMA NoneRevived ==
  ASSUME IInv, [Next]_vars, NEW p \in Pids, ~Alive(p), Alive(p)'
  PROVE  p[1] \notin jobs \/ p[1] \notin stopping
<1> USE PidParts, PidMade DEF Alive
<1>0. proc \in [Pids -> {"none", "setup", "script", "ok", "fail", "offline", "killed"}]
  BY DEF IInv, TypeOK
<1>1. ASSUME NEW k \in Kinds, NEW audio \in Ids \cup {NoId}, RunSpawns(k, audio)
      PROVE  p[1] \notin jobs
  BY <1>1, AcceptFacts DEF RunSpawns
<1>2. ASSUME NEW q \in Pids, WaiterRetries(q) PROVE p[1] \notin stopping
  <2>1. <<q[1], 2>> \in Pids /\ proc' = [proc EXCEPT ![<<q[1], 2>>] = "setup"]
    BY <1>2 DEF WaiterRetries
  <2>2. p = <<q[1], 2>>
    BY <1>0, <2>1
  <2>3. p[1] = q[1]
    BY <2>2
  <2> QED BY <1>2, <2>3 DEF WaiterRetries, BeingStopped
<1>3. ASSUME NEW q \in Pids, Child(q) PROVE FALSE
  <2>1. \A r \in Pids : proc'[r] = proc[r] \/ (r = q /\ Alive(q))
    BY <1>0, <1>3 DEF Child, ProcStarts, ProcFailsOffline, ProcOpensWav, ProcEnds, ProcSeesStopFile
  <2> QED BY <2>1
<1>4. ASSUME NEW s \in Stoppers, StopKills(s) PROVE FALSE
  <2> DEFINE x == <<sId[s], sPid[s]>>
  <2>1. proc' = [proc EXCEPT ![x] = "killed"]
    BY <1>4 DEF StopKills
  <2> HIDE DEF x
  <2> QED BY <1>0, <2>1
<1>5. \/ proc' = proc
      \/ \E k \in Kinds, audio \in Ids \cup {NoId} : RunSpawns(k, audio)
      \/ \E q \in Pids : WaiterRetries(q) \/ Child(q)
      \/ \E s \in Stoppers : StopKills(s)
  <2>1. ASSUME NEW k \in Kinds, NEW audio \in Ids \cup {NoId}, RunFails(k, audio) PROVE proc' = proc
    BY <2>1 DEF RunFails
  <2>2. RunAnnounces \/ RunWatches => proc' = proc
    BY DEF RunAnnounces, RunWatches
  <2>3. ASSUME NEW q \in Pids, Waiter(q) PROVE proc' = proc \/ WaiterRetries(q)
    BY <2>3 DEF Waiter, WaiterJoins, WaiterGivesUp, WaiterHandsOver, WaiterRepairs, WaiterRemoves,
                WaiterReports
  <2>4. ASSUME NEW s \in Stoppers, StopStep(s) PROVE proc' = proc \/ StopKills(s)
    BY <2>4 DEF StopStep, StopJoins, StopWrites, StopWriteFails, StopWaits, StopChecks,
                StopKillFails, StopChecksAgain, StopUnmarks
  <2>5. ASSUME NEW s \in Stoppers, StopCall(s) PROVE proc' = proc
    BY <2>5 DEF StopCall, StopFindsNothing, StopMarks
  <2> QED BY <2>1, <2>2, <2>3, <2>4, <2>5 DEF Next, Run
<1> QED BY <1>1, <1>2, <1>3, <1>4, <1>5

\* Calls are confirmed and jobs asked for good; only run() adds to the table, and it
\* finds the table empty.
LEMMA HistoryGrows ==
  ASSUME IInv, [Next]_vars
  PROVE  /\ confirmed \subseteq confirmed' /\ asked \subseteq asked'
         /\ \A i \in jobs' : i \in jobs \/ (i \notin asked' /\ jobs = {})
<1>1. ASSUME NEW k \in Kinds, NEW audio \in Ids \cup {NoId}, RunSpawns(k, audio) \/ RunFails(k, audio)
      PROVE  /\ confirmed' = confirmed /\ asked' = asked
             /\ \A i \in jobs' : i \in jobs \/ (i \notin asked' /\ jobs = {})
  <2>1. RunSpawns(k, audio) => jobs' = jobs \cup {nextId} /\ jobs = {} /\ nextId \notin asked
    BY AcceptFacts DEF RunSpawns, IInv, FreshInv
  <2> QED BY <1>1, <2>1 DEF RunSpawns, RunFails
<1>2. RunAnnounces \/ RunWatches => UNCHANGED <<jobs, confirmed, asked>>
  BY DEF RunAnnounces, RunWatches
<1>3. ASSUME NEW q \in Pids, Child(q) \/ Waiter(q)
      PROVE  UNCHANGED <<confirmed, asked>> /\ jobs' \subseteq jobs
  BY <1>3 DEF Child, ProcStarts, ProcFailsOffline, ProcOpensWav, ProcEnds, ProcSeesStopFile,
              Waiter, WaiterJoins, WaiterRetries, WaiterGivesUp, WaiterHandsOver, WaiterRepairs,
              WaiterRemoves, WaiterReports
<1>4. ASSUME NEW s \in Stoppers, StopCall(s) \/ StopStep(s)
      PROVE  confirmed \subseteq confirmed' /\ asked \subseteq asked' /\ jobs' = jobs
  BY <1>4 DEF StopCall, StopFindsNothing, StopMarks, StopStep, StopJoins, StopWrites,
              StopWriteFails, StopWaits, StopChecks, StopKills, StopKillFails, StopChecksAgain,
              StopUnmarks, Goto, Confirm, Return
<1>5. CASE UNCHANGED vars
  BY <1>5
<1> QED BY <1>1, <1>2, <1>3, <1>4, <1>5 DEF Next, Run

\* What is excused or stopped stays so while the job is in the table.
LEMMA ResolvedStays ==
  ASSUME IInv, [Next]_vars, failed \subseteq failed', NEW i \in jobs
  PROVE  (Excused(i) => Excused(i)') /\ (Resolved(i) => Resolved(i)')
<1>1. Excused(i) => Excused(i)'
  BY DEF Excused
<1>2. ASSUME i \in confirmed, Dead(i) PROVE i \in confirmed' /\ Dead(i)'
  <2>1. i \in stopping
    BY <1>2 DEF IInv, ConfirmInv, ConfirmedIsStopped
  <2> QED BY <1>2, <2>1, HistoryGrows, NoneRevived DEF Dead
<1> QED BY <1>1, <1>2 DEF Resolved

\* A stop call under way is moved by its own steps only.
LEMMA StopIsOwn ==
  ASSUME IInv, [Next]_vars, NEW s \in Stoppers, sPc[s] # "idle", ~StopStep(s)
  PROVE  sPc'[s] = sPc[s] /\ sId'[s] = sId[s]
<1>0. sPc \in [Stoppers -> StopPlaces] /\ sId \in [Stoppers -> Ids \cup {NoId}]
  BY DEF IInv, TypeOK
<1>1. ASSUME NEW t \in Stoppers, StopStep(t) \/ StopCall(t) PROVE sPc'[s] = sPc[s] /\ sId'[s] = sId[s]
  <2>1. t # s
    BY <1>1 DEF StopCall, StopFindsNothing, StopMarks
  <2> QED BY <1>0, <1>1, <2>1 DEF StopCall, StopFindsNothing, StopMarks, StopStep, StopJoins,
            StopWrites, StopWriteFails, StopWaits, StopChecks, StopKills, StopKillFails,
            StopChecksAgain, StopUnmarks, Goto, Confirm, Return
<1>2. Run \/ (\E p \in Pids : Child(p) \/ Waiter(p)) \/ UNCHANGED vars => UNCHANGED <<sPc, sId>>
  BY DEF Run, RunSpawns, RunFails, RunAnnounces, RunWatches, Child, ProcStarts,
         ProcFailsOffline, ProcOpensWav, ProcEnds, ProcSeesStopFile, Waiter, WaiterJoins,
         WaiterRetries, WaiterGivesUp, WaiterHandsOver, WaiterRepairs, WaiterRemoves, WaiterReports
<1> QED BY <1>1, <1>2 DEF Next

\* A leading call goes on leading, ends the job, or fails.
LEMMA LeaderEnds ==
  ASSUME IInv, [Next]_vars, failed \subseteq failed', NEW s \in Stoppers, NEW i \in jobs,
         LedBy(s, i), i \in jobs',
         StopStep(s) => \A p \in Pids : sId[s] = p[1] /\ answer'[s] = "error" => p \in failed'
  PROVE  LedBy(s, i)' \/ Resolved(i)'
<1>0. /\ sPc \in [Stoppers -> StopPlaces] /\ sId \in [Stoppers -> Ids \cup {NoId}]
      /\ answer \in [Stoppers -> {"none", "true", "false", "error"}]
      /\ proc \in [Pids -> {"none", "setup", "script", "ok", "fail", "offline", "killed"}]
      /\ i \in Ids
  BY DEF IInv, TypeOK
<1>1. CASE StopStep(s)
  <2>1. CASE StopWriteFails(s) \/ StopUnmarks(s)
    <3>1. answer'[s] = "error"
      BY <1>0, <2>1 DEF StopWriteFails, StopUnmarks, Return
    <3>2. Excused(i)'
      BY <1>1, <3>1 DEF Excused
    <3> QED BY <3>2 DEF Resolved
  <2>2. CASE StopWrites(s) \/ StopWaits(s) \/ StopKillFails(s)
    BY <1>0, <2>2 DEF StopWrites, StopWaits, StopKillFails, Goto
  <2>3. CASE StopChecks(s) \/ StopChecksAgain(s)
    BY <1>0, <2>3 DEF StopChecks, StopChecksAgain, Goto, IsRunning
  <2>4. CASE StopKills(s)
    <3> DEFINE x == <<i, sPid[s]>>
    <3>1. i \in confirmed'
      BY <2>4 DEF StopKills, Confirm
    <3>2. x \in Pids /\ sPid[s] = pid[i]
      BY <1>0, PidMade DEF IInv, StopInv
    <3>3. proc' = [proc EXCEPT ![x] = "killed"] /\ pid' = pid
      BY <2>4 DEF StopKills
    <3>4. ASSUME NEW p \in Pids, p[1] = i, Alive(p)' PROVE FALSE
      <4>1. pid'[i] = p[2]
        BY <3>4, StepKeeps DEF IInv, ProcInv, NoOrphan
      <4>2. p = x
        BY <3>2, <3>3, <3>4, <4>1, PidParts
      <4> HIDE DEF x
      <4>3. proc'[p] = "killed"
        BY <1>0, <3>3, <4>2
      <4> QED BY <3>4, <4>3 DEF Alive
    <3> QED BY <3>1, <3>4 DEF Resolved, Dead
  <2>5. ~StopJoins(s)
    BY DEF StopJoins
  <2> QED BY <1>1, <2>1, <2>2, <2>3, <2>4, <2>5 DEF StopStep
<1>2. CASE ~StopStep(s)
  BY <1>2, StopIsOwn
<1> QED BY <1>1, <1>2

\* Marks are made by stop calls, and the first of them leads.
LEMMA MarksAreAsked ==
  ASSUME IInv, [Next]_vars, stopping \subseteq asked
  PROVE  /\ stopping' \subseteq asked'
         /\ \A i \in jobs : i \in asked' \ asked => \E s \in Stoppers : LedBy(s, i)'
<1>0. sPc \in [Stoppers -> StopPlaces] /\ sId \in [Stoppers -> Ids \cup {NoId}]
  BY DEF IInv, TypeOK
<1>1. ASSUME NEW s \in Stoppers, NEW id \in Ids, StopMarks(s, id)
      PROVE  /\ stopping' \subseteq asked'
             /\ \A i \in jobs : i \in asked' \ asked => LedBy(s, i)'
  BY <1>0, <1>1 DEF StopMarks
<1>2. ASSUME NEW s \in Stoppers, StopStep(s) \/ \E id \in Ids : StopFindsNothing(s, id)
      PROVE  stopping' \subseteq stopping /\ asked' = asked
  BY <1>2 DEF StopFindsNothing, StopStep, StopJoins, StopWrites, StopWriteFails, StopWaits,
              StopChecks, StopKills, StopKillFails, StopChecksAgain, StopUnmarks, Goto
<1>3. Run \/ (\E p \in Pids : Child(p) \/ Waiter(p)) \/ UNCHANGED vars
        => stopping' \subseteq stopping /\ asked' = asked
  BY DEF Run, RunSpawns, RunFails, RunAnnounces, RunWatches, Child, ProcStarts,
         ProcFailsOffline, ProcOpensWav, ProcEnds, ProcSeesStopFile, Waiter, WaiterJoins,
         WaiterRetries, WaiterGivesUp, WaiterHandsOver, WaiterRepairs, WaiterRemoves, WaiterReports
<1> QED BY <1>1, <1>2, <1>3 DEF Next, StopCall

\* A call that returned was about a job that another call leads or that is resolved.
LEMMA AskedKeeps ==
  ASSUME IInv, AskedInv, [Next]_vars, failed \subseteq failed',
         \A s \in Stoppers : StopStep(s) =>
           \A p \in Pids : sId[s] = p[1] /\ answer'[s] = "error" => p \in failed'
  PROVE  AskedInv'
<1>1. stopping' \subseteq asked'
  BY MarksAreAsked DEF AskedInv
<1>2. ASSUME NEW i \in jobs', i \in asked' PROVE Resolved(i)' \/ \E s \in Stoppers : LedBy(s, i)'
  <2>1. i \in jobs
    BY <1>2, HistoryGrows
  <2>2. CASE i \in asked
    <3>1. CASE Resolved(i)
      BY <2>1, <3>1, ResolvedStays
    <3>2. ASSUME NEW s \in Stoppers, LedBy(s, i) PROVE LedBy(s, i)' \/ Resolved(i)'
      BY <1>2, <2>1, <3>2, LeaderEnds
    <3> QED BY <2>1, <2>2, <3>1, <3>2 DEF AskedInv
  <2>3. CASE i \notin asked
    BY <1>2, <2>1, <2>3, MarksAreAsked DEF AskedInv
  <2> QED BY <2>2, <2>3
<1> QED BY <1>1, <1>2 DEF AskedInv

-----------------------------------------------------------------------------
(* Waiters and WAVs. *)

\* A job that is in the table before and after a step keeps its waiter or gets one.
LEMMA WatchedKeeps ==
  ASSUME IInv, WatchedInv, [Next]_vars
  PROVE  WatchedInv'
<1> USE PidParts, PidMade
<1>0. /\ waiter \in [Pids -> WaiterPlaces] /\ pid \in [Ids -> 0..2] /\ jobs \subseteq Ids
      /\ \A i, j \in jobs : i = j
      /\ launch \in [id : Ids \cup {NoId}, step : {"idle", "announce", "watch"}]
  BY DEF IInv, TypeOK, TableInv
<1>1. ASSUME NEW k \in Kinds, NEW audio \in Ids \cup {NoId}, RunSpawns(k, audio) \/ RunFails(k, audio)
      PROVE  WatchedInv'
  <2>1. jobs = {}
    BY <1>1, AcceptFacts DEF RunSpawns, RunFails
  <2> QED BY <1>1, <2>1 DEF RunSpawns, RunFails, WatchedInv
<1>2. CASE RunAnnounces
  <2>1. launch'.id = launch.id /\ launch'.step = "watch" /\ UNCHANGED <<jobs, pid, waiter>>
    BY <1>0, <1>2 DEF RunAnnounces
  <2> QED BY <1>0, <2>1 DEF WatchedInv
<1>3. CASE RunWatches
  <2>1. launch.id \in jobs /\ pid[launch.id] = 1
    BY <1>3 DEF RunWatches, IInv, LaunchInv
  <2>2. /\ <<launch.id, 1>> \in Pids /\ waiter'[<<launch.id, 1>>] = "wait"
        /\ UNCHANGED <<jobs, pid>>
    BY <1>0, <1>3, <2>1 DEF RunWatches
  <2> QED BY <1>0, <2>1, <2>2 DEF WatchedInv
<1>4. ASSUME NEW q \in Pids, Child(q) PROVE WatchedInv'
  <2>1. UNCHANGED <<jobs, pid, waiter, launch>>
    BY <1>4 DEF Child, ProcStarts, ProcFailsOffline, ProcOpensWav, ProcEnds, ProcSeesStopFile
  <2> QED BY <2>1 DEF WatchedInv
<1>5. ASSUME NEW q \in Pids, Waiter(q) PROVE WatchedInv'
  <2>1. CASE WaiterJoins(q) \/ WaiterGivesUp(q) \/ WaiterRepairs(q)
    <3>1. /\ waiter'[q] \in {"retry", "repair", "remove"}
          /\ \A p \in Pids : p # q => waiter'[p] = waiter[p]
          /\ UNCHANGED <<jobs, pid, launch>>
      BY <1>0, <2>1 DEF WaiterJoins, WaiterGivesUp, WaiterRepairs, AfterFailedRetry
    <3> QED BY <3>1 DEF WatchedInv
  <2>2. CASE WaiterRetries(q)
    <3>1. /\ q[1] \in jobs /\ waiter'[q] = "handoff" /\ UNCHANGED jobs
      BY <1>0, <2>2 DEF WaiterRetries
    <3> QED BY <1>0, <3>1 DEF WatchedInv
  <2>3. CASE WaiterHandsOver(q)
    <3> DEFINE next == <<q[1], 2>>
    <3>1. q[1] \in jobs /\ pid[q[1]] = 2
      BY <2>3 DEF WaiterHandsOver, IInv, WaiterInv
    <3>2. /\ next \in Pids /\ next[1] = q[1] /\ next[2] = 2 /\ waiter'[next] = "wait"
          /\ UNCHANGED <<jobs, pid>>
      BY <1>0, <2>3 DEF WaiterHandsOver
    <3> QED BY <1>0, <3>1, <3>2 DEF WatchedInv
  <2>4. CASE WaiterRemoves(q)
    <3>1. jobs' = {}
      BY <1>0, <2>4 DEF WaiterRemoves, IInv, WaiterInv
    <3> QED BY <3>1 DEF WatchedInv
  <2>5. CASE WaiterReports(q)
    <3>1. /\ waiter[q] = "report" /\ \A p \in Pids : p # q => waiter'[p] = waiter[p]
          /\ UNCHANGED <<jobs, pid, launch>>
      BY <1>0, <2>5 DEF WaiterReports
    <3> QED BY <3>1 DEF WatchedInv
  <2> QED BY <1>5, <2>1, <2>2, <2>3, <2>4, <2>5 DEF Waiter
<1>6. ASSUME NEW s \in Stoppers, StopCall(s) \/ StopStep(s) PROVE WatchedInv'
  <2>1. UNCHANGED <<jobs, pid, waiter, launch>>
    BY <1>6 DEF StopCall, StopFindsNothing, StopMarks, StopStep, StopJoins, StopWrites,
                StopWriteFails, StopWaits, StopChecks, StopKills, StopKillFails, StopChecksAgain,
                StopUnmarks
  <2> QED BY <2>1 DEF WatchedInv
<1>7. CASE UNCHANGED vars
  BY <1>7 DEF WatchedInv
<1> QED BY <1>1, <1>2, <1>3, <1>4, <1>5, <1>6, <1>7 DEF Next, Run

\* A WAV is opened by a live process, whose job is in the table, and completed by the
\* waiter before it takes the job off.
LEMMA GoneKeeps ==
  ASSUME IInv, GoneInv, [Next]_vars
  PROVE  GoneInv'
<1> USE PidParts
<1>0. /\ wav \in [Ids -> WavStates] /\ kindOf \in [Ids -> Kinds \cup {"none"}] /\ jobs \subseteq Ids
  BY DEF IInv, TypeOK, WavStates
<1>1. ASSUME NEW k \in Kinds, NEW audio \in Ids \cup {NoId}, RunSpawns(k, audio) \/ RunFails(k, audio)
      PROVE  GoneInv'
  <2>1. /\ nextId \in Ids
        /\ \A i \in Ids : wav'[i] = wav[i] \/ wav'[i] \in {"closed", "broken"}
    BY <1>1, AcceptFacts DEF RunSpawns, RunFails
  <2>2. RunSpawns(k, audio) => jobs' = jobs \cup {nextId} /\ kindOf' = [kindOf EXCEPT ![nextId] = k]
    BY DEF RunSpawns
  <2>3. RunFails(k, audio) => UNCHANGED <<jobs, kindOf>>
    BY DEF RunFails
  <2> QED BY <1>0, <1>1, <2>1, <2>2, <2>3 DEF GoneInv
<1>2. CASE RunAnnounces \/ RunWatches \/ UNCHANGED vars
  <2>1. UNCHANGED <<jobs, kindOf, wav>>
    BY <1>2 DEF RunAnnounces, RunWatches
  <2> QED BY <2>1 DEF GoneInv
<1>3. ASSUME NEW q \in Pids, Child(q) PROVE GoneInv'
  <2>1. /\ Alive(q) /\ UNCHANGED <<jobs, kindOf>>
        /\ \A i \in Ids : wav'[i] = wav[i] \/ i = q[1]
    BY <1>0, <1>3 DEF Child, ProcStarts, ProcFailsOffline, ProcOpensWav, ProcEnds,
                      ProcSeesStopFile, Alive
  <2>2. q[1] \in jobs
    BY <2>1 DEF IInv, ProcInv, NoOrphan
  <2> QED BY <2>1, <2>2 DEF GoneInv
<1>4. ASSUME NEW q \in Pids, Waiter(q) PROVE GoneInv'
  <2>1. CASE WaiterRemoves(q)
    <3>1. /\ jobs' = jobs \ {q[1]} /\ UNCHANGED <<kindOf, wav>>
          /\ AnnouncesRecording(kindOf[q[1]]) => wav[q[1]] # "open"
      BY <2>1 DEF WaiterRemoves, IInv, RepairedInv
    <3> QED BY <3>1 DEF GoneInv
  <2>2. CASE ~WaiterRemoves(q)
    <3>1. /\ UNCHANGED <<jobs, kindOf>>
          /\ \A i \in Ids : wav'[i] = wav[i] \/ wav'[i] \in {"closed", "broken"}
      BY <1>0, <1>4, <2>2 DEF Waiter, WaiterJoins, WaiterRetries, WaiterGivesUp, WaiterHandsOver,
                             WaiterRepairs, WaiterReports
    <3> QED BY <3>1 DEF GoneInv
  <2> QED BY <2>1, <2>2
<1>5. ASSUME NEW s \in Stoppers, StopCall(s) \/ StopStep(s) PROVE GoneInv'
  <2>1. UNCHANGED <<jobs, kindOf, wav>>
    BY <1>5 DEF StopCall, StopFindsNothing, StopMarks, StopStep, StopJoins, StopWrites,
                StopWriteFails, StopWaits, StopChecks, StopKills, StopKillFails, StopChecksAgain,
                StopUnmarks
  <2> QED BY <2>1 DEF GoneInv
<1> QED BY <1>1, <1>2, <1>3, <1>4, <1>5 DEF Next, Run

-----------------------------------------------------------------------------
(* The closing thread. *)

\* Types of what belongs to the close.
LEMMA CTypesKeep ==
  ASSUME IInv, CTypes, [CNext]_allVars
  PROVE  CTypes'
<1>0. jobs \subseteq Ids
  BY DEF IInv, TypeOK
<1>1. ASSUME NEW p \in DPids, CloserKillsDownload(p) PROVE CTypes'
  BY <1>1 DEF CloserKillsDownload, CTypes
<1>2. ASSUME NEW id \in Ids, CloserCallsStop(id) PROVE CTypes'
  BY <1>2 DEF CloserCallsStop, CTypes
<1>3. CASE Close \/ CloserReadsDownloads \/ CloserSnapshots \/ CloserJoins \/ CloserSettles \/ CloserExits
  BY <1>0, <1>3 DEF Close, CloseWhenIdle, CloseWhenBusy, CloserReadsDownloads, CloserSnapshots,
                    CloserJoins, CloserSettles, CloserExits, CTypes, CloserPlaces
<1>4. CASE UNCHANGED closeVars
  BY <1>4 DEF closeVars, CTypes
<1>5. ProcessStep \/ UNCHANGED allVars => UNCHANGED closeVars
  BY DEF ProcessStep, cvars, allVars, closeVars
<1> QED BY <1>1, <1>2, <1>3, <1>4, <1>5 DEF CNext, AppStep, Closer

\* Without starts during a close the main thread stays idle from its beginning on.
LEMMA QuietKeeps ==
  ASSUME QuietInv, ~StartsWhileClosing, [CNext]_allVars
  PROVE  QuietInv'
<1>1. CASE app = "open" /\ AppStep
  <2>1. CASE Close
    BY <2>1 DEF Close, CloseWhenIdle, CloseWhenBusy, QuietInv, MainIdle, dvars, dSupVars
  <2>2. CASE Closer
    <3>1. ASSUME NEW id \in Ids, CloserCallsStop(id) PROVE QuietInv'
      BY <3>1 DEF CloserCallsStop, StopFindsNothing, StopMarks, QuietInv, MainIdle, dvars, dSupVars
    <3>2. ASSUME NEW p \in DPids, CloserKillsDownload(p) PROVE QuietInv'
      BY <3>2 DEF CloserKillsDownload, QuietInv, MainIdle
    <3>3. CASE CloserReadsDownloads \/ CloserSnapshots \/ CloserJoins \/ CloserSettles \/ CloserExits
      BY <3>3 DEF CloserReadsDownloads, CloserSnapshots, CloserJoins, CloserSettles, CloserExits,
                  QuietInv, MainIdle, dvars, dSupVars
    <3> QED BY <2>2, <3>1, <3>2, <3>3 DEF Closer
  <2>3. CASE JobStep /\ UNCHANGED <<dvars, closeVars>>
    <3>1. UNCHANGED <<dLaunch, app, quitting, closer>>
      BY <2>3 DEF closeVars, dvars, dSupVars
    <3>2. ASSUME NEW p \in Pids, Waiter(p) PROVE launch' = launch
      BY <3>2 DEF Waiter, WaiterJoins, WaiterRetries, WaiterGivesUp, WaiterHandsOver,
                  WaiterRepairs, WaiterRemoves, WaiterReports
    <3>3. ASSUME NEW s \in Stoppers, StopCall(s) \/ StopStep(s) PROVE launch' = launch
      BY <3>3 DEF StopCall, StopFindsNothing, StopMarks, StopStep, StopJoins, StopWrites,
                  StopWriteFails, StopWaits, StopChecks, StopKills, StopKillFails,
                  StopChecksAgain, StopUnmarks
    <3>4. ASSUME quitting PROVE launch' = launch /\ MainIdle
      BY <2>3, <3>2, <3>3, <3>4 DEF JobStep, MayStart, QuietInv, MainIdle, RunAnnounces, RunWatches
    <3> QED BY <1>1, <3>1, <3>4 DEF QuietInv, MainIdle
  <2>4. CASE DownloadStep /\ UNCHANGED <<vars, closeVars>>
    <3>1. UNCHANGED <<launch, app, quitting, closer>>
      BY <2>4 DEF closeVars
    <3>2. ASSUME quitting PROVE dLaunch' = dLaunch
      BY <2>4, <3>2 DEF DownloadStep, MayStart, QuietInv, MainIdle, DCallAnnounces, DWaiterRemoves,
                  DWaiterReports, PageAsksStart, dSupVars
    <3> QED BY <1>1, <3>1, <3>2 DEF QuietInv, MainIdle
  <2> QED BY <1>1, <2>1, <2>2, <2>3, <2>4 DEF AppStep
<1>2. CASE ProcessStep \/ UNCHANGED allVars
  <2>1. ASSUME NEW p \in Pids, Child(p) PROVE launch' = launch
    BY <2>1 DEF Child, ProcStarts, ProcFailsOffline, ProcOpensWav, ProcEnds, ProcSeesStopFile
  <2>2. ASSUME NEW p \in DPids, DChild(p) PROVE dLaunch' = dLaunch
    BY <2>2 DEF DChild, DProcEnds
  <2>3. UNCHANGED <<launch, dLaunch, app, quitting, closer>>
    BY <1>2, <2>1, <2>2 DEF ProcessStep, allVars, cvars, dvars, dSupVars
  <2> QED BY <2>3 DEF QuietInv, MainIdle
<1> QED BY <1>1, <1>2 DEF CNext

\* Each download there was when the closing thread looked is killed, has ended or is
\* noted; none is started meanwhile.
LEMMA DownloadsClosedKeeps ==
  ASSUME DInv, CTypes, QuietInv, DownloadsClosed, ~StartsWhileClosing, [CNext]_allVars
  PROVE  DownloadsClosed'
<1>0. /\ dProc \in [DPids -> {"none", "run", "ok", "fail", "killed"}]
      /\ failed \subseteq failed'
  BY FailuresNoted DEF DInv, DTypes
<1>1. ASSUME \A p \in DPids : DAlive(p)' => DAlive(p), UNCHANGED <<app, closer, cKill>>
      PROVE  DownloadsClosed'
  BY <1>0, <1>1 DEF DownloadsClosed
<1>2. CASE app = "open" /\ AppStep
  <2>1. CASE Close
    <3>1. UNCHANGED dProc /\ (closer' = closer \/ closer' = "downloads")
      BY <2>1 DEF Close, CloseWhenIdle, CloseWhenBusy, dvars, dSupVars
    <3>2. CASE CloseWhenIdle
      <4>1. ~Busy /\ UNCHANGED <<closer, cKill>>
        BY <3>2 DEF CloseWhenIdle
      <4>2. \A p \in DPids : ~DAlive(p)
        BY <4>1, DPidFacts DEF Busy, DInv, DOwnerInv, Owned
      <4> QED BY <3>1, <4>1, <4>2 DEF DownloadsClosed, DAlive
    <3>3. CASE CloseWhenBusy
      <4>1. closer' = "downloads" /\ app' = app
        BY <3>3 DEF CloseWhenBusy
      <4> QED BY <1>2, <4>1 DEF DownloadsClosed
    <3> QED BY <2>1, <3>2, <3>3 DEF Close
  <2>2. CASE CloserReadsDownloads
    <3>1. closer' = "kill" /\ UNCHANGED <<app, dProc>> /\ cKill' = {p \in DPids : downloads[p[1]] = p[2]}
      BY <2>2 DEF CloserReadsDownloads, dvars, dSupVars
    <3>2. \A p \in DPids : DAlive(p) => p \in cKill'
      BY <3>1 DEF DInv, DOwnerInv, Owned
    <3> QED BY <1>2, <3>1, <3>2 DEF DownloadsClosed, DAlive
  <2>3. ASSUME NEW p \in DPids, CloserKillsDownload(p) PROVE DownloadsClosed'
    <3>1. /\ closer = "kill" /\ p \in cKill /\ cKill' = cKill \ {p} /\ UNCHANGED <<app, closer>>
          /\ dProc' = dProc \/ dProc' = [dProc EXCEPT ![p] = "killed"]
      BY <2>3 DEF CloserKillsDownload
    <3>2. DAlive(p)' => p \in failed'
      BY <1>2, <3>1, FailuresNoted
    <3>3. \A q \in DPids : DAlive(q)' => DAlive(q)
      BY <1>0, <3>1 DEF DAlive
    <3>4. \A q \in DPids : DAlive(q)' => q \in cKill' \cup failed'
      BY <1>0, <3>1, <3>2, <3>3 DEF DownloadsClosed
    <3> QED BY <1>2, <3>1, <3>4 DEF DownloadsClosed
  <2>4. CASE CloserSnapshots
    <3>1. closer = "kill" /\ cKill = {} /\ UNCHANGED <<app, dProc>> /\ closer' = "stops"
      BY <2>4 DEF CloserSnapshots, dvars, dSupVars
    <3> QED BY <1>0, <1>2, <3>1 DEF DownloadsClosed, DAlive
  <2>5. CASE CloserJoins \/ CloserSettles \/ CloserExits
    <3>1. /\ closer \in {"stops", "settle", "exit"} /\ UNCHANGED dProc
          /\ closer' # "kill"
      BY <2>5 DEF CloserJoins, CloserSettles, CloserExits, dvars, dSupVars
    <3> QED BY <1>0, <3>1 DEF DownloadsClosed, DAlive
  <2>6. ASSUME NEW id \in Ids, CloserCallsStop(id) PROVE DownloadsClosed'
    BY <1>1, <2>6 DEF CloserCallsStop, dvars, dSupVars, DAlive
  <2>7. CASE JobStep /\ UNCHANGED <<dvars, closeVars>>
    BY <1>1, <2>7 DEF closeVars, dvars, dSupVars, DAlive
  <2>8. CASE DownloadStep /\ UNCHANGED <<vars, closeVars>>
    <3>1. ASSUME quitting PROVE dProc' = dProc
      BY <2>8, <3>1 DEF DownloadStep, MayStart, DCallAnnounces, DWaiterRemoves, DWaiterReports,
                        PageAsksStart, dSupVars
    <3>2. closer # "none" => quitting
      BY DEF QuietInv
    <3> QED BY <1>1, <1>2, <2>8, <3>1, <3>2 DEF closeVars, DAlive, DownloadsClosed
  <2> QED BY <1>2, <2>1, <2>2, <2>3, <2>4, <2>5, <2>6, <2>7, <2>8 DEF AppStep, Closer
<1>3. CASE ProcessStep
  <2>1. ASSUME NEW p \in DPids, DChild(p) PROVE \A q \in DPids : DAlive(q)' => DAlive(q)
    BY <1>0, <2>1 DEF DChild, DProcEnds, DAlive
  <2>2. UNCHANGED dvars => \A q \in DPids : DAlive(q)' => DAlive(q)
    BY DEF dvars, dSupVars, DAlive
  <2> QED BY <1>1, <1>3, <2>1, <2>2 DEF ProcessStep, cvars
<1>4. CASE UNCHANGED allVars
  BY <1>1, <1>4 DEF allVars, cvars, dvars, dSupVars, DAlive
<1> QED BY <1>2, <1>3, <1>4 DEF CNext

\* When the closing thread's own stop call returns, its job is resolved or gone.
LEMMA CloserCallEnds ==
  ASSUME IInv, AskedInv, [CNext]_allVars, NEW i \in jobs, i \in jobs',
         sPc[CloseStopper] # "idle", sId[CloseStopper] = i
  PROVE  (sPc'[CloseStopper] # "idle" /\ sId'[CloseStopper] = i) \/ Resolved(i)'
<1> DEFINE c == CloseStopper
<1>0. /\ c \in Stoppers /\ [Next]_vars /\ failed \subseteq failed'
  BY CloseStopperAssumption, StepOfJobs, FailuresNoted
<1>1. CASE sPc'[c] = sPc[c] /\ sId'[c] = sId[c]
  BY <1>1
<1>2. CASE sPc[c] = "join" /\ StopJoins(c)
  <2>1. ~\E t \in Stoppers : LedBy(t, i)
    BY <1>2 DEF StopJoins, IsRunning
  <2>2. i \in asked
    BY <1>0 DEF IInv, StopInv
  <2> QED BY <1>0, <2>1, <2>2, ResolvedStays DEF AskedInv
<1>3. CASE sPc[c] # "join"
  <2>1. LedBy(c, i)
    BY <1>0, <1>3 DEF IInv, TypeOK, StopPlaces
  <2>2. LedBy(c, i)' \/ Resolved(i)'
    BY <1>0, <2>1, ErrorsNoted, LeaderEnds
  <2> QED BY <2>2
<1>4. StopStep(c) /\ sPc[c] = "join" => StopJoins(c)
  BY DEF StopStep, StopWrites, StopWriteFails, StopWaits, StopChecks, StopKills, StopKillFails,
         StopChecksAgain, StopUnmarks
<1> QED BY <1>0, <1>1, <1>2, <1>3, <1>4, StopIsOwn

\* While a close is under way the table only shrinks.
LEMMA NoneAdded ==
  ASSUME IInv, QuietInv, ~StartsWhileClosing, [CNext]_allVars, quitting \/ app = "exited"
  PROVE  jobs' \subseteq jobs
<1>1. ASSUME NEW q \in Pids, Child(q) \/ Waiter(q) PROVE jobs' \subseteq jobs
  BY <1>1 DEF Child, ProcStarts, ProcFailsOffline, ProcOpensWav, ProcEnds, ProcSeesStopFile,
              Waiter, WaiterJoins, WaiterRetries, WaiterGivesUp, WaiterHandsOver, WaiterRepairs,
              WaiterRemoves, WaiterReports
<1>2. ASSUME NEW s \in Stoppers, StopCall(s) \/ StopStep(s) PROVE jobs' = jobs
  BY <1>2 DEF StopCall, StopFindsNothing, StopMarks, StopStep, StopJoins, StopWrites,
              StopWriteFails, StopWaits, StopChecks, StopKills, StopKillFails, StopChecksAgain,
              StopUnmarks
<1>3. RunAnnounces \/ RunWatches => jobs' = jobs
  BY DEF RunAnnounces, RunWatches
<1>4. ASSUME app = "open", Closer PROVE jobs' = jobs
  <2>1. ASSUME NEW id \in Ids, CloserCallsStop(id) PROVE jobs' = jobs
    BY <2>1 DEF CloserCallsStop, StopFindsNothing, StopMarks
  <2>2. ASSUME NEW p \in DPids, CloserKillsDownload(p) PROVE jobs' = jobs
    BY <2>2 DEF CloserKillsDownload
  <2> QED BY <1>4, <2>1, <2>2 DEF Closer, CloserReadsDownloads, CloserSnapshots, CloserJoins,
            CloserSettles, CloserExits
<1>5. Close => jobs' = jobs
  BY DEF Close, CloseWhenIdle, CloseWhenBusy
<1>6. ASSUME app = "open", JobStep PROVE jobs' \subseteq jobs
  BY <1>1, <1>2, <1>3, <1>6 DEF JobStep, MayStart
<1>7. UNCHANGED vars => jobs' = jobs
  OBVIOUS
<1> QED BY <1>1, <1>4, <1>5, <1>6, <1>7 DEF CNext, AppStep, ProcessStep, allVars

\* Each job there was when the closing thread looked is asked to stop, and the app
\* exits when its stop is over and its waiter has nothing left to do.
LEMMA JobsClosedKeeps ==
  ASSUME IInv, CTypes, AskedInv, WatchedInv, QuietInv, JobsClosed, ~StartsWhileClosing,
         [CNext]_allVars
  PROVE  JobsClosed'
<1>0. /\ [Next]_vars /\ failed \subseteq failed' /\ CloseStopper \in Stoppers
      /\ jobs \subseteq Ids
      /\ sPc \in [Stoppers -> StopPlaces] /\ sId \in [Stoppers -> Ids \cup {NoId}]
  BY StepOfJobs, FailuresNoted, CloseStopperAssumption DEF IInv, TypeOK
<1>1. ASSUME NEW i \in jobs PROVE (Excused(i) => Excused(i)') /\ (Resolved(i) => Resolved(i)')
  BY <1>0, ResolvedStays
<1>2. quitting \/ app = "exited" => jobs' \subseteq jobs
  BY NoneAdded
<1>3. closer # "none" => quitting
  BY DEF QuietInv
<1>4. ASSUME UNCHANGED <<app, closer, cStop>> PROVE JobsClosed'
  <2>1. ASSUME closer = "stops", NEW i \in jobs'
        PROVE  i \in cStop' \/ (sPc'[CloseStopper] # "idle" /\ sId'[CloseStopper] = i) \/ Resolved(i)'
    <3>1. i \in jobs
      BY <1>2, <1>3, <2>1
    <3>2. CASE sPc[CloseStopper] # "idle" /\ sId[CloseStopper] = i
      BY <2>1, <3>1, <3>2, CloserCallEnds
    <3> QED BY <1>1, <1>4, <2>1, <3>1, <3>2 DEF JobsClosed
  <2>2. ASSUME closer = "settle", NEW i \in jobs' PROVE Resolved(i)'
    BY <1>1, <1>2, <1>3, <2>2 DEF JobsClosed
  <2>3. ASSUME closer = "exit" \/ app = "exited", NEW i \in jobs' PROVE Excused(i)'
    BY <1>1, <1>2, <1>3, <2>3 DEF JobsClosed
  <2> QED BY <1>4, <2>1, <2>2, <2>3 DEF JobsClosed
<1>5. CASE app = "open" /\ AppStep
  <2>1. CASE CloseWhenIdle
    <3>1. jobs' = {}
      BY <2>1 DEF CloseWhenIdle, Busy
    <3> QED BY <3>1 DEF JobsClosed
  <2>2. CASE CloseWhenBusy \/ CloserReadsDownloads
    <3>1. closer' \in {"downloads", "kill"} /\ app' = "open"
      BY <1>5, <2>2 DEF CloseWhenBusy, CloserReadsDownloads
    <3> QED BY <3>1 DEF JobsClosed
  <2>3. ASSUME NEW p \in DPids, CloserKillsDownload(p) PROVE JobsClosed'
    BY <1>4, <2>3 DEF CloserKillsDownload
  <2>4. CASE CloserSnapshots
    <3>1. closer' = "stops" /\ app' = "open" /\ cStop' = jobs /\ jobs' = jobs
      BY <1>5, <2>4 DEF CloserSnapshots
    <3> QED BY <3>1 DEF JobsClosed
  <2>5. ASSUME NEW id \in Ids, CloserCallsStop(id) PROVE JobsClosed'
    <3>1. /\ closer = "stops" /\ sPc[CloseStopper] = "idle" /\ jobs' = jobs
          /\ cStop' = cStop \ {id} /\ UNCHANGED <<app, closer>>
      BY <2>5 DEF CloserCallsStop, StopFindsNothing, StopMarks
    <3>2. id \in jobs => sPc'[CloseStopper] # "idle" /\ sId'[CloseStopper] = id
      BY <1>0, <2>5 DEF CloserCallsStop, StopFindsNothing, StopMarks
    <3> QED BY <1>1, <1>5, <3>1, <3>2 DEF JobsClosed
  <2>6. CASE CloserJoins
    <3>1. closer = "stops" /\ closer' = "settle" /\ Joined /\ UNCHANGED <<app, jobs>>
      BY <2>6 DEF CloserJoins
    <3> QED BY <1>1, <1>5, <3>1 DEF JobsClosed, Joined
  <2>7. CASE CloserSettles
    <3>1. closer = "settle" /\ closer' = "exit" /\ Settled /\ UNCHANGED <<app, jobs>>
      BY <2>7 DEF CloserSettles
    <3>2. ASSUME NEW i \in jobs PROVE Excused(i)
      <4>1. WaitersSettled
        BY <3>1, <3>2 DEF Settled, Busy
      <4>2. PICK p \in Pids : p[1] = i /\ waiter[p] \in {"retry", "handoff", "repair", "remove", "wait"}
        BY <3>2, <4>1 DEF WatchedInv, WaitersSettled
      <4>3. Alive(p)
        BY <4>1, <4>2 DEF WaitersSettled
      <4> QED BY <3>1, <3>2, <4>2, <4>3 DEF JobsClosed, Resolved, Dead
    <3> QED BY <1>1, <1>5, <3>1, <3>2 DEF JobsClosed
  <2>8. CASE CloserExits
    <3>1. closer = "exit" /\ closer' = "none" /\ jobs' = jobs
      BY <2>8 DEF CloserExits
    <3> QED BY <1>1, <3>1 DEF JobsClosed
  <2>9. CASE UNCHANGED closeVars
    BY <1>4, <2>9 DEF closeVars
  <2> QED BY <1>5, <2>1, <2>2, <2>3, <2>4, <2>5, <2>6, <2>7, <2>8, <2>9 DEF AppStep, Close, Closer
<1>6. CASE ProcessStep \/ UNCHANGED allVars
  BY <1>4, <1>6 DEF ProcessStep, cvars, allVars
<1> QED BY <1>5, <1>6 DEF CNext

-----------------------------------------------------------------------------
(* Theorems. *)

\* At the start nothing runs and nothing is closed.
LEMMA CInitHolds == CInit => CInv
<1> SUFFICES ASSUME CInit PROVE CInv
  OBVIOUS
<1>1. IInv /\ DInv
  BY InitHolds, DInitHolds DEF CInit
<1>2. /\ CTypes /\ AskedInv /\ WatchedInv /\ QuietInv /\ JobsClosed
  BY DEF CInit, Init, CTypes, CloserPlaces, AskedInv, WatchedInv, QuietInv, JobsClosed
<1>3. GoneInv /\ DownloadsClosed
  BY DEF CInit, Init, GoneInv, DownloadsClosed
<1> QED BY <1>1, <1>2, <1>3 DEF CInv

\* Every step of the close, the jobs, the downloads and the processes.
LEMMA CStepKeeps ==
  ASSUME CInv, ~StartsWhileClosing, [CNext]_allVars
  PROVE  CInv'
<1>1. [Next]_vars /\ IInv' /\ DInv' /\ CTypes'
  BY StepOfJobs, StepKeeps, DownloadsKeep, CTypesKeep DEF CInv
<1>2. AskedInv'
  BY <1>1, AskedKeeps, FailuresNoted, ErrorsNoted DEF CInv
<1>3. WatchedInv' /\ GoneInv'
  BY <1>1, WatchedKeeps, GoneKeeps DEF CInv
<1>4. QuietInv' /\ DownloadsClosed' /\ JobsClosed'
  BY QuietKeeps, DownloadsClosedKeeps, JobsClosedKeeps DEF CInv
<1> QED BY <1>1, <1>2, <1>3, <1>4 DEF CInv

\* The close keeps the invariant, whatever stops, ends and fails in between, as long
\* as nothing is started while it is under way (otherwise AppCloseOrphan).
THEOREM CloseKeepsInvariant ==
  ASSUME ~StartsWhileClosing
  PROVE  CSpec => []CInv
<1>1. CInv /\ [CNext]_allVars => CInv'
  BY CStepKeeps
<1> QED BY <1>1, CInitHolds, PTL DEF CSpec

\* Once the app is gone, no process of it runs but one a stop or a kill of which failed.
THEOREM NoChildLeftBehindHolds ==
  ASSUME ~StartsWhileClosing
  PROVE  CSpec => []NoChildLeftBehind
<1>1. CInv => NoChildLeftBehind
  BY DEF CInv, IInv, ProcInv, NoOrphan, JobsClosed, DownloadsClosed, Excused, NoChildLeftBehind
<1> QED BY <1>1, CloseKeepsInvariant, PTL

\* And no live session's WAV is left without its sizes, but of such a process.
THEOREM WavClosedAtExitHolds ==
  ASSUME ~StartsWhileClosing
  PROVE  CSpec => []WavClosedAtExit
<1>1. ASSUME CInv, app = "exited", NEW p \in Pids \ failed, AnnouncesRecording(kindOf[p[1]])
      PROVE  wav[p[1]] # "open"
  <2>1. p[1] \notin jobs
    BY <1>1 DEF CInv, JobsClosed, Excused
  <2> QED BY <1>1, <2>1, PidParts DEF CInv, GoneInv
<1>2. CInv => WavClosedAtExit
  BY <1>1 DEF WavClosedAtExit
<1> QED BY <1>2, CloseKeepsInvariant, PTL
=============================================================================
