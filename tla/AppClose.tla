------------------------------ MODULE AppClose ------------------------------
(***************************************************************************)
(* Closing the window: the close handler of desktop/src-tauri/src/main.rs  *)
(* and stop_all_blocking of jobs.rs, composed with the job supervisor      *)
(* (Jobs) and the downloads (Downloads) they stop.                         *)
(*                                                                         *)
(* The close handler, run_command and start_asset_download all run on the  *)
(* main thread.  The closing thread stops downloads, then jobs, waits for  *)
(* the waiters and exits the app; every thread of the app ends with it,    *)
(* child processes do not.                                                 *)
(***************************************************************************)
EXTENDS Jobs, Downloads

CONSTANTS
  CloseStopper,        \* the thread stop_all_blocking spawns for the one job
  StartsWhileClosing   \* does the page start anything once a close is under way?

ASSUME CloseStopperAssumption == CloseStopper \in Stoppers
ASSUME StartsAssumption == StartsWhileClosing \in BOOLEAN

VARIABLES
  app,       \* open or exited
  quitting,  \* the AtomicBool of main()
  closer,    \* the closing thread: none, downloads, kill, stops, settle, exit
  cKill,     \* download processes it has still to kill
  cStop,     \* jobs whose stop thread has not begun
  failed     \* history: processes a stop or a kill of which failed

closeVars == <<app, quitting, closer, cKill, cStop>>
cvars == <<app, quitting, closer, cKill, cStop, failed>>
allVars == <<vars, dvars, cvars>>

Busy == jobs # {} \/ \E a \in Assets : downloads[a] # 0

CInit ==
  /\ Init /\ DInit
  /\ app = "open"
  /\ quitting = FALSE
  /\ closer = "none"
  /\ cKill = {}
  /\ cStop = {}
  /\ failed = {}

-----------------------------------------------------------------------------
\* Nothing runs: the window closes and the app ends.
CloseWhenIdle ==
  /\ launch.step = "idle" /\ dLaunch = NoAsset
  /\ ~Busy
  /\ app' = "exited"
  /\ UNCHANGED <<vars, dvars, quitting, closer, cKill, cStop>>

\* Something runs: the close is prevented; the first one starts the closing thread.
CloseWhenBusy ==
  /\ launch.step = "idle" /\ dLaunch = NoAsset
  /\ Busy
  /\ ~quitting
  /\ quitting' = TRUE
  /\ closer' = "downloads"
  /\ UNCHANGED <<vars, dvars, app, cKill, cStop>>

CloserReadsDownloads ==
  /\ closer = "downloads"
  /\ cKill' = {p \in DPids : downloads[p[1]] = p[2]}
  /\ closer' = "kill"
  /\ UNCHANGED <<vars, dvars, app, quitting, cStop>>

\* let _ = kill_tree(pid): an error is ignored.
CloserKillsDownload(p) ==
  /\ closer = "kill"
  /\ p \in cKill
  /\ cKill' = cKill \ {p}
  /\ \/ DAlive(p) /\ dProc' = [dProc EXCEPT ![p] = "killed"]
     \/ (~DAlive(p) \/ "kill" \in DFaults) /\ dProc' = dProc
  /\ UNCHANGED <<vars, downloads, dCount, dWaiter, dLaunch, printed, dAskVars, dPageVars, chan>>
  /\ UNCHANGED <<app, quitting, closer, cStop>>

\* running_ids(): one thread per job in the table now.
CloserSnapshots ==
  /\ closer = "kill"
  /\ cKill = {}
  /\ cStop' = jobs
  /\ closer' = "stops"
  /\ UNCHANGED <<vars, dvars, app, quitting, cKill>>

CloserCallsStop(id) ==
  /\ closer = "stops"
  /\ id \in cStop
  /\ StopFindsNothing(CloseStopper, id) \/ StopMarks(CloseStopper, id)
  /\ cStop' = cStop \ {id}
  /\ UNCHANGED <<dvars, app, quitting, closer, cKill>>

\* Every stop thread was spawned and has ended; mutated: the handles are dropped.
NotJoined == TRUE
Joined    == cStop = {} /\ sPc[CloseStopper] = "idle"

CloserJoins ==
  /\ closer = "stops"
  /\ Joined
  /\ closer' = "settle"
  /\ UNCHANGED <<vars, dvars, app, quitting, cKill, cStop>>

\* Five seconds are enough for a start under way and for a waiter whose process
\* is gone, so they pass only while neither has anything to do.
WaitersSettled ==
  /\ launch.step = "idle" /\ dLaunch = NoAsset
  /\ \A p \in Pids  : waiter[p] \in {"none", "done", "report"} \/ (waiter[p] = "wait" /\ Alive(p))
  /\ \A p \in DPids : dWaiter[p] \in {"none", "done", "report"} \/ (dWaiter[p] = "wait" /\ DAlive(p))

\* The last wait of stop_all_blocking; mutated: the app exits right after the stops.
NoSettling == TRUE
Settled == ~Busy \/ WaitersSettled

CloserSettles ==
  /\ closer = "settle"
  /\ Settled
  /\ closer' = "exit"
  /\ UNCHANGED <<vars, dvars, app, quitting, cKill, cStop>>

CloserExits ==
  /\ closer = "exit"
  /\ app' = "exited"
  /\ closer' = "none"
  /\ UNCHANGED <<vars, dvars, quitting, cKill, cStop>>

-----------------------------------------------------------------------------
Close  == CloseWhenIdle \/ CloseWhenBusy
Closer == \/ CloserReadsDownloads \/ CloserSnapshots \/ CloserJoins \/ CloserSettles \/ CloserExits
          \/ \E p \in DPids : CloserKillsDownload(p)
          \/ \E id \in Ids : CloserCallsStop(id)

MainIdle == launch.step = "idle" /\ dLaunch = NoAsset
MayStart == MainIdle /\ (StartsWhileClosing \/ ~quitting)

JobStep ==
  \/ MayStart /\ \E k \in Kinds : RunSpawns(k, NoId) \/ RunFails(k, NoId)
  \/ RunAnnounces \/ RunWatches
  \/ \E p \in Pids : Waiter(p)
  \/ \E s \in Stoppers \ {CloseStopper} : StopCall(s)
  \/ \E s \in Stoppers : StopStep(s)

\* The page's side of the downloads is left out but for the starts: no event, line of
\* output or stop of a download changes what the close waits for.
DownloadStep ==
  \/ MayStart /\ (DCallRefused \/ DCallSpawns)
  \/ DCallAnnounces
  \/ \E p \in DPids : DWaiterRemoves(p) \/ DWaiterReports(p)
  \/ \E a \in Assets : PageAsksStart(a)

\* The processes of a job whose stop returned an error, and a download not killed.
StopFailed(id) == \E s \in Stoppers : sId[s] = id /\ sPc[s] # "idle" /\ answer'[s] = "error"
Noted ==
  failed' = failed \cup {p \in Pids : StopFailed(p[1])}
                   \cup {p \in cKill \ cKill' : DAlive(p)'}

AppStep ==
  /\ \/ Close \/ Closer
     \/ JobStep /\ UNCHANGED <<dvars, closeVars>>
     \/ DownloadStep /\ UNCHANGED <<vars, closeVars>>
  /\ Noted

ProcessStep ==
  /\ \/ \E p \in Pids : Child(p) /\ UNCHANGED dvars
     \/ \E p \in DPids : DChild(p) /\ UNCHANGED vars
  /\ UNCHANGED cvars

CNext == (app = "open" /\ AppStep) \/ ProcessStep

SupervisorStep ==
  \/ (RunAnnounces \/ RunWatches \/ \E p \in Pids : Waiter(p)) /\ UNCHANGED <<dvars, closeVars>>
  \/ /\ DCallAnnounces \/ \E p \in DPids : DWaiterRemoves(p) \/ DWaiterReports(p)
     /\ UNCHANGED <<vars, closeVars>>

\* Threads run on while the app is open; the user and the processes owe nothing.  The
\* waiters have finitely many steps to do, so none is passed over for ever.
CFairness ==
  /\ WF_allVars(app = "open" /\ Closer /\ Noted)
  /\ WF_allVars(app = "open" /\ SupervisorStep /\ Noted)
  /\ \A s \in Stoppers :
       WF_allVars(app = "open" /\ StopStep(s) /\ UNCHANGED <<dvars, closeVars>> /\ Noted)
  /\ \A s \in Stoppers :
       SF_allVars(app = "open" /\ StopJoins(s) /\ UNCHANGED <<dvars, closeVars>> /\ Noted)

CSpec == CInit /\ [][CNext]_allVars /\ CFairness

-----------------------------------------------------------------------------
\* "Closing the app also waits for cleanup" (README.md:183): once the app is gone,
\* no process it started is left behind but one that could not be stopped, whichever
\* of the page's stops, the closing thread's stops and the processes' own exits
\* came first.
NoChildLeftBehind ==
  app = "exited" => /\ \A p \in Pids : Alive(p) => p \in failed
                    /\ \A p \in DPids : DAlive(p) => p \in failed

\* "Recordings must close their WAV and release the model first." (main.rs:232):
\* the app never exits before the waiter of a killed live session completed the
\* header of its WAV.
WavClosedAtExit ==
  app = "exited" =>
    \A p \in Pids \ failed : AnnouncesRecording(kindOf[p[1]]) => wav[p[1]] # "open"

\* A close that was accepted ends the app, whatever fails: a stop that cannot
\* write its file, a kill that is refused, a process that ignores everything.
CloseEnds == quitting ~> app = "exited"
=============================================================================
