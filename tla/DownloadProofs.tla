--------------------------- MODULE DownloadProofs ---------------------------
(***************************************************************************)
(* Proofs about model downloads, for any assets and any number of          *)
(* downloads and stops: one process writes an asset at a time.  AssetProofs *)
(* and CloseProofs go on from here.                                        *)
(***************************************************************************)
EXTENDS Downloads, TLAPS

DTypes ==
  /\ downloads \in [Assets -> 0..MaxDownloads]
  /\ dCount \in [Assets -> 0..MaxDownloads]
  /\ dProc \in [DPids -> {"none", "run", "ok", "fail", "killed"}]
  /\ dWaiter \in [DPids -> {"none", "wait", "report", "done"}]
  /\ dLaunch \in Assets \cup {NoAsset}
  /\ dCalls \in Seq(Assets)

\* The table names the process that runs and the one whose waiter has it to remove.
Owned(p) == downloads[p[1]] = p[2]
DOwnerInv ==
  \A p \in DPids : DAlive(p) \/ dWaiter[p] = "wait" => Owned(p)

\* A download that is being announced is in the table and has no waiter yet.
DLaunchInv ==
  dLaunch # NoAsset =>
    /\ downloads[dLaunch] = dCount[dLaunch]
    /\ \A p \in DPids : p[1] = dLaunch /\ p[2] = dCount[dLaunch] => dWaiter[p] = "none"

\* Nothing is there of downloads not started yet.
DFreshInv == \A p \in DPids : p[2] > dCount[p[1]] => dProc[p] = "none" /\ dWaiter[p] = "none"

DInv == DTypes /\ DOwnerInv /\ DLaunchInv /\ DFreshInv

\* A download is its asset and its number.
LEMMA DPidFacts ==
  /\ \A p \in DPids : p[1] \in Assets /\ p[2] \in 1..MaxDownloads /\ p = <<p[1], p[2]>>
  /\ \A p, q \in DPids : p[1] = q[1] /\ p[2] = q[2] => p = q
BY DEF DPids

\* Nothing has been started.
LEMMA DInitHolds == DInit => DInv
<1> SUFFICES ASSUME DInit PROVE DInv
  OBVIOUS
<1>1. DTypes
  BY DownloadBounds DEF DInit, DTypes
<1>2. DOwnerInv /\ DLaunchInv /\ DFreshInv
  BY DEF DInit, DOwnerInv, DLaunchInv, DFreshInv, DAlive
<1> QED BY <1>1, <1>2 DEF DInv

\* A call of start_download that finds no entry makes one for a new number.
LEMMA DSpawnKeeps == DInv /\ DCallSpawns => DInv'
<1> SUFFICES ASSUME DInv, DCallSpawns PROVE DInv'
  OBVIOUS
<1> USE DEF DInv
<1> DEFINE a == Head(dCalls)
           n == dCount[a] + 1
<1>1. a \in Assets
  BY DEF DCallSpawns, DTypes
<1>2. /\ downloads[a] = 0 /\ n \in 1..MaxDownloads
      /\ downloads' = [downloads EXCEPT ![a] = n]
      /\ dCount' = [dCount EXCEPT ![a] = n]
      /\ dProc' = [dProc EXCEPT ![<<a, n>>] = "run"]
      /\ dLaunch' = a /\ dLaunch = NoAsset
      /\ dCalls' = Tail(dCalls) /\ dCalls # <<>>
      /\ dWaiter' = dWaiter
  BY <1>1, DownloadBounds DEF DCallSpawns, DTypes
<1> HIDE DEF a, n
<1>3. DTypes'
  <2>1. dCalls' \in Seq(Assets)
    BY <1>2 DEF DTypes
  <2>2. n \in 0..MaxDownloads
    BY <1>2, DownloadBounds
  <2>3. downloads' \in [Assets -> 0..MaxDownloads] /\ dCount' \in [Assets -> 0..MaxDownloads]
    BY <1>2, <2>2 DEF DTypes
  <2>4. dProc' \in [DPids -> {"none", "run", "ok", "fail", "killed"}]
    BY <1>2 DEF DTypes
  <2> QED BY <1>1, <1>2, <2>1, <2>3, <2>4 DEF DTypes
<1>4. DOwnerInv'
  <2> SUFFICES ASSUME NEW p \in DPids, DAlive(p)' \/ dWaiter'[p] = "wait" PROVE Owned(p)'
    BY DEF DOwnerInv
  <2>1. CASE p = <<a, n>>
    BY <1>1, <1>2, <2>1 DEF Owned, DTypes
  <2>2. CASE p # <<a, n>>
    <3>1. DAlive(p) \/ dWaiter[p] = "wait"
      BY <1>2, <2>2 DEF DAlive, DTypes
    <3>2. downloads[p[1]] = p[2]
      BY <3>1 DEF DOwnerInv, Owned
    <3>3. p[1] # a
      BY <1>2, <3>2, DPidFacts
    <3> QED BY <1>2, <3>2, <3>3, DPidFacts DEF Owned, DTypes
  <2> QED BY <2>1, <2>2
<1>5. DLaunchInv'
  <2>1. downloads'[a] = n /\ dCount'[a] = n
    BY <1>1, <1>2 DEF DTypes
  <2>2. ASSUME NEW p \in DPids, p[1] = a, p[2] = n PROVE dWaiter[p] = "none"
    <3>1. dCount[a] \in Nat
      BY <1>1, DownloadBounds DEF DTypes
    <3>2. p[2] > dCount[p[1]]
      BY <2>2, <3>1 DEF n
    <3> QED BY <3>2 DEF DFreshInv
  <2> QED BY <1>2, <2>1, <2>2 DEF DLaunchInv
<1>6. DFreshInv'
  <2> SUFFICES ASSUME NEW p \in DPids, p[2] > dCount'[p[1]]
               PROVE  dProc'[p] = "none" /\ dWaiter'[p] = "none"
    BY DEF DFreshInv
  <2>1. CASE p[1] = a
    <3>1. p[2] > n /\ dCount[a] \in Nat
      BY <1>1, <1>2, <2>1, DownloadBounds DEF DTypes
    <3>2. p[2] > dCount[p[1]] /\ p # <<a, n>>
      BY <2>1, <3>1, DPidFacts DEF n
    <3> QED BY <1>2, <3>2 DEF DFreshInv, DTypes
  <2>2. CASE p[1] # a
    <3>1. dCount'[p[1]] = dCount[p[1]] /\ p # <<a, n>>
      BY <1>2, <2>2, DPidFacts DEF DTypes
    <3> QED BY <1>2, <3>1 DEF DFreshInv, DTypes
  <2> QED BY <2>1, <2>2
<1> QED BY <1>3, <1>4, <1>5, <1>6

\* The call announces the process and starts its waiter.
LEMMA DAnnounceKeeps == DInv /\ DCallAnnounces => DInv'
<1> SUFFICES ASSUME DInv, DCallAnnounces PROVE DInv'
  OBVIOUS
<1> USE DEF DInv
<1> DEFINE w == <<dLaunch, dCount[dLaunch]>>
<1>1. /\ dLaunch # NoAsset /\ dLaunch' = NoAsset
      /\ dWaiter' = [dWaiter EXCEPT ![w] = "wait"]
      /\ UNCHANGED <<downloads, dCount, dProc, dCalls>>
  BY DEF DCallAnnounces, dPageVars
<1>2. DTypes'
  BY <1>1 DEF DTypes
<1>3. DOwnerInv'
  <2> SUFFICES ASSUME NEW p \in DPids, DAlive(p)' \/ dWaiter'[p] = "wait" PROVE Owned(p)'
    BY DEF DOwnerInv
  <2>1. CASE p = w
    BY <1>1, <2>1 DEF Owned, DLaunchInv
  <2>2. CASE p # w
    BY <1>1, <2>2 DEF Owned, DOwnerInv, DAlive, DTypes
  <2> QED BY <2>1, <2>2
<1>4. DLaunchInv'
  BY <1>1 DEF DLaunchInv
<1>5. DFreshInv'
  <2> SUFFICES ASSUME NEW p \in DPids, p[2] > dCount'[p[1]]
               PROVE  dProc'[p] = "none" /\ dWaiter'[p] = "none"
    BY DEF DFreshInv
  <2>1. dCount[p[1]] \in Nat
    BY DPidFacts, DownloadBounds DEF DTypes
  <2>2. p # w
    BY <1>1, <2>1, DPidFacts
  <2> QED BY <1>1, <2>2 DEF DFreshInv, DTypes
<1> QED BY <1>2, <1>3, <1>4, <1>5

\* A waiter whose process is gone takes its asset off the table: by DOwnerInv its own.
LEMMA DRemoveKeeps ==
  ASSUME NEW p \in DPids, DInv, DWaiterRemoves(p)
  PROVE  DInv'
<1> USE DEF DInv
<1>1. /\ dWaiter[p] = "wait" /\ ~DAlive(p)
      /\ downloads' = [downloads EXCEPT ![p[1]] = 0]
      /\ dWaiter' = [dWaiter EXCEPT ![p] = "report"]
      /\ UNCHANGED <<dCount, dProc, dLaunch, dCalls>>
  BY DEF DWaiterRemoves, DGone, dPageVars
<1>2. downloads[p[1]] = p[2]
  BY <1>1 DEF DOwnerInv, Owned
<1>3. DTypes'
  <2>1. 0 \in 0..MaxDownloads
    BY DownloadBounds
  <2>2. downloads' \in [Assets -> 0..MaxDownloads]
    BY <1>1, <2>1 DEF DTypes
  <2>3. dWaiter' \in [DPids -> {"none", "wait", "report", "done"}]
    BY <1>1 DEF DTypes
  <2> QED BY <1>1, <2>2, <2>3 DEF DTypes
<1>4. DOwnerInv'
  <2> SUFFICES ASSUME NEW q \in DPids, DAlive(q)' \/ dWaiter'[q] = "wait" PROVE Owned(q)'
    BY DEF DOwnerInv
  <2>1. q # p
    BY <1>1 DEF DAlive, DTypes
  <2>2. downloads[q[1]] = q[2]
    BY <1>1, <2>1 DEF DOwnerInv, Owned, DAlive, DTypes
  <2>3. q[1] # p[1]
    BY <1>2, <2>1, <2>2, DPidFacts
  <2> QED BY <1>1, <2>2, <2>3, DPidFacts DEF Owned, DTypes
<1>5. DLaunchInv'
  <2> SUFFICES ASSUME dLaunch # NoAsset PROVE DLaunchInv'
    BY <1>1 DEF DLaunchInv
  <2>1. p[1] # dLaunch
    BY <1>1, <1>2 DEF DLaunchInv
  <2>2. dLaunch \in Assets
    BY DEF DTypes
  <2>3. downloads'[dLaunch] = downloads[dLaunch]
    BY <1>1, <2>1, <2>2, DPidFacts DEF DTypes
  <2>4. \A q \in DPids : q[1] = dLaunch => dWaiter'[q] = dWaiter[q]
    BY <1>1, <2>1 DEF DTypes
  <2> QED BY <1>1, <2>3, <2>4 DEF DLaunchInv
<1>6. DFreshInv'
  BY <1>1 DEF DFreshInv, DTypes
<1> QED BY <1>3, <1>4, <1>5, <1>6

\* Steps that start nothing and take nothing off the table.
LEMMA DQuietKeeps ==
  ASSUME DInv,
         UNCHANGED <<downloads, dCount, dLaunch>>, dCalls' \in Seq(Assets),
         dProc' \in [DPids -> {"none", "run", "ok", "fail", "killed"}],
         \A p \in DPids : dProc'[p] = dProc[p] \/ (DAlive(p) /\ dProc'[p] # "run"),
         dWaiter' \in [DPids -> {"none", "wait", "report", "done"}],
         \A p \in DPids : dWaiter'[p] = dWaiter[p] \/ (dWaiter[p] = "report" /\ dWaiter'[p] = "done")
  PROVE  DInv'
<1> USE DEF DInv
<1>1. DTypes'
  BY DEF DTypes
<1>2. DOwnerInv'
  BY DEF DOwnerInv, Owned, DAlive
<1>3. DLaunchInv'
  <2>1. \A p \in DPids : dWaiter[p] = "none" => dWaiter'[p] = "none"
    OBVIOUS
  <2> QED BY <2>1 DEF DLaunchInv
<1>4. DFreshInv'
  <2>1. \A p \in DPids : dWaiter[p] = "none" => dWaiter'[p] = "none"
    OBVIOUS
  <2>2. \A p \in DPids : dProc[p] = "none" => dProc'[p] = "none"
    BY DEF DAlive
  <2> QED BY <2>1, <2>2 DEF DFreshInv
<1> QED BY <1>1, <1>2, <1>3, <1>4

\* Every step of the app, the page and the processes.
LEMMA DStepKeeps == DInv /\ [DNext]_dvars => DInv'
<1> SUFFICES ASSUME DInv, [DNext]_dvars PROVE DInv'
  OBVIOUS
<1> DEFINE Same == UNCHANGED <<downloads, dCount, dProc, dWaiter, dLaunch>>
<1>0. ASSUME Same, dCalls' \in Seq(Assets) PROVE DInv'
  BY <1>0, DQuietKeeps DEF DInv, DTypes
<1>1. CASE DCallRefused
  <2>1. Same /\ dCalls' = Tail(dCalls) /\ dCalls # <<>>
    BY <1>1 DEF DCallRefused, dSupVars
  <2>2. dCalls' \in Seq(Assets)
    BY <2>1 DEF DInv, DTypes
  <2> QED BY <1>0, <2>1, <2>2
<1>2. CASE DCallSpawns
  BY <1>2, DSpawnKeeps
<1>3. CASE DCallAnnounces
  BY <1>3, DAnnounceKeeps
<1>4. ASSUME NEW p \in DPids, DProcEnds(p) PROVE DInv'
  <2>1. PICK how \in {"ok", "fail"} : DAlive(p) /\ dProc' = [dProc EXCEPT ![p] = how]
    BY <1>4 DEF DProcEnds
  <2>2. UNCHANGED <<downloads, dCount, dWaiter, dLaunch, dCalls>>
    BY <1>4 DEF DProcEnds, dPageVars
  <2> QED BY <2>1, <2>2, DQuietKeeps DEF DInv, DTypes
<1>5. ASSUME NEW p \in DPids, DThread(p) PROVE DInv'
  <2>1. CASE DReaderSends(p)
    <3>1. Same /\ dCalls' = dCalls
      BY <2>1 DEF DReaderSends, dPageVars
    <3> QED BY <1>0, <3>1 DEF DInv, DTypes
  <2>2. CASE DWaiterRemoves(p)
    BY <2>2, DRemoveKeeps
  <2>3. CASE DWaiterReports(p)
    <3>1. /\ UNCHANGED <<downloads, dCount, dProc, dLaunch, dCalls>>
          /\ dWaiter[p] = "report" /\ dWaiter' = [dWaiter EXCEPT ![p] = "done"]
      BY <2>3 DEF DWaiterReports, dPageVars
    <3> QED BY <3>1, DQuietKeeps DEF DInv, DTypes
  <2> QED BY <1>5, <2>1, <2>2, <2>3 DEF DThread
<1>6. ASSUME NEW s \in Askers, DStop(s) PROVE DInv'
  <2>1. CASE DStopReads(s) \/ DStopFails(s) \/ DStopPauses(s)
    <3>1. Same /\ dCalls' = dCalls
      BY <2>1 DEF DStopReads, DStopFails, DStopPauses, dSupVars, dPageVars
    <3> QED BY <1>0, <3>1 DEF DInv, DTypes
  <2>2. CASE DStopKills(s)
    <3> DEFINE x == <<dAsset[s], dPid[s]>>
    <3>1. /\ DAlive(x) /\ dProc' = [dProc EXCEPT ![x] = "killed"]
          /\ UNCHANGED <<downloads, dCount, dWaiter, dLaunch, dCalls>>
      BY <2>2 DEF DStopKills, dPageVars
    <3> HIDE DEF x
    <3> QED BY <3>1, DQuietKeeps DEF DInv, DTypes, DAlive
  <2> QED BY <1>6, <2>1, <2>2 DEF DStop
<1>7. CASE DPage
  <2>1. ASSUME NEW a \in Assets, PageAsksStart(a) PROVE DInv'
    <3>1. Same /\ dCalls' = Append(dCalls, a)
      BY <2>1 DEF PageAsksStart, dSupVars
    <3>2. dCalls' \in Seq(Assets)
      BY <3>1 DEF DInv, DTypes
    <3> QED BY <1>0, <3>1, <3>2
  <2>2. ASSUME NEW s \in Askers, NEW a \in Assets, PageAsksStop(s, a) PROVE DInv'
    <3>1. Same /\ dCalls' = dCalls
      BY <2>2 DEF PageAsksStop, dSupVars, dPageVars
    <3> QED BY <1>0, <3>1 DEF DInv, DTypes
  <2>3. CASE PageReceives
    <3>1. Same /\ dCalls' = dCalls
      BY <2>3 DEF PageReceives, dSupVars
    <3> QED BY <1>0, <3>1 DEF DInv, DTypes
  <2> QED BY <1>7, <2>1, <2>2, <2>3 DEF DPage
<1>8. CASE UNCHANGED dvars
  <2>1. Same /\ dCalls' = dCalls
    BY <1>8 DEF dvars, dSupVars, dPageVars
  <2> QED BY <1>0, <2>1 DEF DInv, DTypes
<1> QED BY <1>1, <1>2, <1>3, <1>4, <1>5, <1>6, <1>7, <1>8 DEF DNext, DMain, DChild

\* Two processes of one asset both have the number in the table.
LEMMA OwnersAlone == DInv => OneWriterPerAsset
<1> SUFFICES ASSUME DInv, NEW p \in DPids, NEW q \in DPids, DAlive(p), DAlive(q), p[1] = q[1]
             PROVE  p = q
  BY DEF OneWriterPerAsset
<1>1. downloads[p[1]] = p[2] /\ downloads[q[1]] = q[2]
  BY DEF DInv, DOwnerInv, Owned
<1> QED BY <1>1, DPidFacts

=============================================================================
