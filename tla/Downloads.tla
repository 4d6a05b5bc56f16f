------------------------------ MODULE Downloads ------------------------------
(***************************************************************************)
(* Model downloads: start_download, stop_download and their waiter threads *)
(* (desktop/src-tauri/src/jobs.rs), with the part of the page that starts, *)
(* stops and shows them (desktop/ui/app.js).                               *)
(*                                                                         *)
(* start_asset_download is a synchronous command: calls run one at a time  *)
(* on the main thread, in the order the page made them.  A stop runs on a  *)
(* thread of its own.  All events travel to the page in one ordered        *)
(* channel.  A process is <<asset, n>>, the n-th download of that asset.   *)
(***************************************************************************)
EXTENDS Naturals, Sequences, SequencesExt

CONSTANTS
  Assets,        \* ids of the assets the page can download
  MaxDownloads,  \* bound: downloads started per asset
  MaxCalls,      \* bound: start calls the page has under way
  Askers,        \* threads that run stop_download
  DFaults        \* failures of the environment: "spawn", "kill"

NoAsset == "no asset"

ASSUME DownloadBounds    == MaxDownloads \in Nat /\ MaxCalls \in Nat
ASSUME DFaultsAssumption == DFaults \subseteq {"spawn", "kill"}
ASSUME AssetsAssumption  == NoAsset \notin Assets

DPids == Assets \X (1..MaxDownloads)

VARIABLES
  downloads,  \* State.downloads: asset -> number of its process, 0 without one
  dCount,     \* downloads started so far
  dProc,      \* each process: none, run, ok, fail, killed
  dWaiter,    \* its waiter thread: none, wait, report, done
  dLaunch,    \* the asset start_download is announcing on the main thread
  dCalls,     \* start_asset_download calls the main thread has not taken yet
  dPc, dAsset, dPid,  \* each stop_download call: place, asset, the pid it read
  chan,       \* "asset-download-event"s on their way to the page
  printed,    \* processes whose reader has sent a progress line
  view        \* state.downloads[..].running of the page: unset, yes, no

dSupVars == <<downloads, dCount, dProc, dWaiter, dLaunch, printed>>
dAskVars == <<dPc, dAsset, dPid>>
dPageVars == <<dCalls, view>>
dvars == <<dSupVars, dAskVars, dPageVars, chan>>

DAlive(p) == dProc[p] = "run"
Event(type, a) == [type |-> type, asset |-> a]

DInit ==
  /\ downloads = [a \in Assets |-> 0]
  /\ dCount = [a \in Assets |-> 0]
  /\ dProc = [p \in DPids |-> "none"]
  /\ dWaiter = [p \in DPids |-> "none"]
  /\ dLaunch = NoAsset
  /\ dCalls = <<>>
  /\ dPc = [s \in Askers |-> "idle"]
  /\ dAsset = [s \in Askers |-> NoAsset]
  /\ dPid = [s \in Askers |-> 0]
  /\ chan = <<>>
  /\ printed = {}
  /\ view = [a \in Assets |-> "unset"]

-----------------------------------------------------------------------------
(* start_download, on the main thread. *)

\* The call at the head of the queue finds the asset in the table, or its spawn
\* fails: nothing changes.
DCallRefused ==
  /\ dLaunch = NoAsset
  /\ dCalls # <<>>
  /\ downloads[Head(dCalls)] # 0 \/ "spawn" \in DFaults
  /\ dCalls' = Tail(dCalls)
  /\ UNCHANGED <<dSupVars, dAskVars, view, chan>>

DCallSpawns ==
  /\ dLaunch = NoAsset
  /\ dCalls # <<>>
  /\ LET a == Head(dCalls)
         n == dCount[a] + 1
     IN  /\ downloads[a] = 0
         /\ n <= MaxDownloads
         /\ downloads' = [downloads EXCEPT ![a] = n]
         /\ dCount' = [dCount EXCEPT ![a] = n]
         /\ dProc' = [dProc EXCEPT ![<<a, n>>] = "run"]
         /\ dLaunch' = a
  /\ dCalls' = Tail(dCalls)
  /\ UNCHANGED <<dWaiter, printed, dAskVars, view, chan>>

\* The lock is released: start, progress 1 %, then the readers and the waiter.
DCallAnnounces ==
  /\ dLaunch # NoAsset
  /\ chan' = chan \o <<Event("start", dLaunch), Event("progress", dLaunch)>>
  /\ dWaiter' = [dWaiter EXCEPT ![<<dLaunch, dCount[dLaunch]>>] = "wait"]
  /\ dLaunch' = NoAsset
  /\ UNCHANGED <<downloads, dCount, dProc, printed, dAskVars, dPageVars>>

-----------------------------------------------------------------------------
(* The process, its reader and its waiter. *)

DProcEnds(p) ==
  /\ DAlive(p)
  /\ \E how \in {"ok", "fail"} : dProc' = [dProc EXCEPT ![p] = how]
  /\ UNCHANGED <<downloads, dCount, dWaiter, dLaunch, printed, dAskVars, dPageVars, chan>>

\* The reader may lag behind the process, never behind the join of the waiter.
DReaderSends(p) ==
  /\ dWaiter[p] = "wait"
  /\ p \notin printed
  /\ printed' = printed \cup {p}
  /\ chan' = Append(chan, Event("progress", p[1]))
  /\ UNCHANGED <<downloads, dCount, dProc, dWaiter, dLaunch, dAskVars, dPageVars>>

\* When the waiter takes the asset off the table; mutated: before the process is gone.
DGoneEarly(p) == TRUE
DGone(p) == dProc[p] # "none" /\ ~DAlive(p)

DWaiterRemoves(p) ==
  /\ dWaiter[p] = "wait"
  /\ DGone(p)
  /\ downloads' = [downloads EXCEPT ![p[1]] = 0]
  /\ dWaiter' = [dWaiter EXCEPT ![p] = "report"]
  /\ UNCHANGED <<dCount, dProc, dLaunch, printed, dAskVars, dPageVars, chan>>

DWaiterReports(p) ==
  /\ dWaiter[p] = "report"
  /\ dWaiter' = [dWaiter EXCEPT ![p] = "done"]
  /\ chan' = chan \o IF dProc[p] = "ok"
                     THEN <<Event("progress", p[1]), Event("exit", p[1])>>
                     ELSE <<Event("exit", p[1])>>
  /\ UNCHANGED <<downloads, dCount, dProc, dLaunch, printed, dAskVars, dPageVars>>

-----------------------------------------------------------------------------
(* stop_download: the pid is read under the lock, the kill comes after it. *)

Known(a) == downloads[a] # 0

DStopReads(s) ==
  /\ dPc[s] = "read"
  /\ IF Known(dAsset[s])
     THEN /\ dPc' = [dPc EXCEPT ![s] = "kill"]
          /\ dPid' = [dPid EXCEPT ![s] = downloads[dAsset[s]]]
          /\ UNCHANGED dAsset
     ELSE /\ dPc' = [dPc EXCEPT ![s] = "idle"]
          /\ dAsset' = [dAsset EXCEPT ![s] = NoAsset]
          /\ UNCHANGED dPid
  /\ UNCHANGED <<dSupVars, dPageVars, chan>>

DStopKills(s) ==
  /\ dPc[s] = "kill"
  /\ DAlive(<<dAsset[s], dPid[s]>>)
  /\ dProc' = [dProc EXCEPT ![<<dAsset[s], dPid[s]>>] = "killed"]
  /\ dPc' = [dPc EXCEPT ![s] = "pause"]
  /\ UNCHANGED <<downloads, dCount, dWaiter, dLaunch, printed, dAsset, dPid, dPageVars, chan>>

\* taskkill fails, always when the process is already gone: the error is returned.
DStopFails(s) ==
  /\ dPc[s] = "kill"
  /\ ~DAlive(<<dAsset[s], dPid[s]>>) \/ "kill" \in DFaults
  /\ dPc' = [dPc EXCEPT ![s] = "idle"]
  /\ dAsset' = [dAsset EXCEPT ![s] = NoAsset]
  /\ dPid' = [dPid EXCEPT ![s] = 0]
  /\ UNCHANGED <<dSupVars, dPageVars, chan>>

DStopPauses(s) ==
  /\ dPc[s] = "pause"
  /\ chan' = Append(chan, Event("progress", dAsset[s]))
  /\ dPc' = [dPc EXCEPT ![s] = "idle"]
  /\ dAsset' = [dAsset EXCEPT ![s] = NoAsset]
  /\ dPid' = [dPid EXCEPT ![s] = 0]
  /\ UNCHANGED <<dSupVars, dPageVars>>

-----------------------------------------------------------------------------
(* The page: toggleDownload, downloadMissing and onAssetEvent. *)

PageAsksStart(a) ==
  /\ view[a] # "yes"
  /\ Len(dCalls) < MaxCalls
  /\ dCalls' = Append(dCalls, a)
  /\ UNCHANGED <<dSupVars, dAskVars, view, chan>>

PageAsksStop(s, a) ==
  /\ view[a] = "yes"
  /\ dPc[s] = "idle"
  /\ dPc' = [dPc EXCEPT ![s] = "read"]
  /\ dAsset' = [dAsset EXCEPT ![s] = a]
  /\ UNCHANGED <<dSupVars, dPid, dPageVars, chan>>

\* `current.running ?? true`; mutated: every progress line shows it running.
AlwaysRunning(running)  == "yes"
RunningAfterProgress(running) == IF running = "unset" THEN "yes" ELSE running

ViewAfter(running, event) ==
  CASE event.type = "start"    -> "yes"
    [] event.type = "progress" -> RunningAfterProgress(running)
    [] event.type = "exit"     -> "no"

PageReceives ==
  /\ chan # <<>>
  /\ chan' = Tail(chan)
  /\ view' = [view EXCEPT ![Head(chan).asset] = ViewAfter(@, Head(chan))]
  /\ UNCHANGED <<dSupVars, dAskVars, dCalls>>

-----------------------------------------------------------------------------
DMain      == DCallRefused \/ DCallSpawns \/ DCallAnnounces
DChild(p)  == DProcEnds(p)
DThread(p) == DReaderSends(p) \/ DWaiterRemoves(p) \/ DWaiterReports(p)
DStop(s)   == DStopReads(s) \/ DStopKills(s) \/ DStopFails(s) \/ DStopPauses(s)
DPage      == \/ \E a \in Assets : PageAsksStart(a) \/ \E s \in Askers : PageAsksStop(s, a)
              \/ PageReceives

DNext ==
  \/ DMain
  \/ \E p \in DPids : DChild(p) \/ DThread(p)
  \/ \E s \in Askers : DStop(s)
  \/ DPage

DFairness ==
  /\ WF_dvars(DMain) /\ WF_dvars(PageReceives)
  /\ \A p \in DPids : WF_dvars(DThread(p))
  /\ \A s \in Askers : WF_dvars(DStop(s))

DSpec == DInit /\ [][DNext]_dvars /\ DFairness

-----------------------------------------------------------------------------
\* The types; a stop that goes on to kill has a real process to kill.
DTypeOK ==
  /\ downloads \in [Assets -> 0..MaxDownloads]
  /\ dCount \in [Assets -> 0..MaxDownloads]
  /\ dProc \in [DPids -> {"none", "run", "ok", "fail", "killed"}]
  /\ dWaiter \in [DPids -> {"none", "wait", "report", "done"}]
  /\ dLaunch \in Assets \cup {NoAsset}
  /\ dCalls \in Seq(Assets)
  /\ dPc \in [Askers -> {"idle", "read", "kill", "pause"}]
  /\ dAsset \in [Askers -> Assets \cup {NoAsset}]
  /\ dPid \in [Askers -> 0..MaxDownloads]
  /\ \A s \in Askers : dPc[s] = "kill" => <<dAsset[s], dPid[s]>> \in DPids
  /\ printed \subseteq DPids
  /\ view \in [Assets -> {"unset", "yes", "no"}]

\* Two download processes of one asset would write the same .part file: whatever
\* the order of clicks, kills and exits, at most one runs.
OneWriterPerAsset ==
  \A p, q \in DPids : DAlive(p) /\ DAlive(q) /\ p[1] = q[1] => p = q

\* A download that is over stops being shown as running, unless another starts: late
\* events do not bring it back, and the "Paused" line of a stop may arrive after the
\* exit of the process it killed.
EndIsShown ==
  \A a \in Assets :
    (\A n \in 1..MaxDownloads : ~DAlive(<<a, n>>))
      ~> (view[a] # "yes" \/ \E n \in 1..MaxDownloads : DAlive(<<a, n>>))
=============================================================================
