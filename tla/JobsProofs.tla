----------------------------- MODULE JobsProofs -----------------------------
(***************************************************************************)
(* Proofs about the job supervisor, for every number of jobs, any set of   *)
(* kinds, of stop calls and of environment failures.                       *)
(*                                                                         *)
(* The argument: IInv (JobsInvariant) holds at the start, InitHolds; each  *)
(* action keeps it, one lemma per action or per group of actions with the  *)
(* same effect; the promises of Jobs follow from it.                       *)
(***************************************************************************)
EXTENDS JobsInvariant, JobsRefinement, TLAPS

WavStates == {"none", "open", "closed", "broken"}

\* What a step of stop call s leaves alone.
OthersKept(s) ==
  \A t \in Stoppers : t # s => sPc'[t] = sPc[t] /\ sId'[t] = sId[t] /\ sPid'[t] = sPid[t]

USE DEF vars, tableVars, toldVars, stopVars, UnchangedByStop

-----------------------------------------------------------------------------
(* Processes and ids. *)

\* A process is a job id and an attempt.
LEMMA PidParts ==
  ASSUME NEW p \in Pids
  PROVE  p = <<p[1], p[2]>> /\ p[1] \in Ids /\ p[2] \in {1, 2}
BY DEF Pids

\* An id and an attempt make a process.
LEMMA PidMade ==
  ASSUME NEW i \in Ids, NEW n \in {1, 2}
  PROVE  <<i, n>> \in Pids /\ <<i, n>>[1] = i /\ <<i, n>>[2] = n
BY DEF Pids

\* Ids are positive numbers up to the bound.
LEMMA IdsAreNat == \A i \in Ids : i \in Nat /\ i > 0 /\ i <= MaxJobs /\ i # NoId
BY MaxJobsAssumption DEF Ids, NoId

\* The table is empty, no process or thread exists, any stop file may be left over.
LEMMA InitHolds == Init => IInv
<1> SUFFICES ASSUME Init PROVE IInv
  OBVIOUS
<1> USE IdsAreNat, PidParts DEF Init
<1>1. TypeOK BY MaxJobsAssumption DEF TypeOK, StopPlaces, WaiterPlaces
<1>2. TableInv /\ FreshInv /\ ProcInv /\ WaiterInv /\ ReportInv /\ LaunchInv
  BY DEF TableInv, FreshInv, ProcInv, NoOrphan, Alive, WaiterInv, ReportInv, LaunchInv
<1>3. StopInv /\ ConfirmInv BY DEF StopInv, Leading, ConfirmInv, ConfirmedIsStopped
<1>4. StopFileMeansAsked /\ RepairedInv /\ ReportedWavClosed /\ InputInv
  BY DEF StopFileMeansAsked, RepairedInv, ReportedWavClosed, InputInv
<1> QED BY <1>1, <1>2, <1>3, <1>4 DEF IInv

-----------------------------------------------------------------------------
(* run(), on the main thread. *)

\* The repair of an input leaves no header of that input open and creates no file.
LEMMA RepairFacts ==
  ASSUME wav \in [Ids -> WavStates], NEW k \in Kinds, NEW audio \in Ids \cup {NoId},
         audio # NoId => ReadsInputAudio(k) /\ wav[audio] # "none", RepairInput(k, audio)
  PROVE  /\ wav' \in [Ids -> WavStates]
         /\ \A i \in Ids : wav'[i] = wav[i] \/ (wav[i] # "none" /\ wav'[i] \in {"closed", "broken"})
         /\ audio # NoId => wav'[audio] \notin {"none", "open"}
BY DEF RepairInput, WavStates

\* What run() knows once its checks have passed.
LEMMA AcceptFacts ==
  ASSUME IInv, NEW k \in Kinds, NEW audio \in Ids \cup {NoId}, RunAccepts(k, audio)
  PROVE  /\ nextId \in Ids /\ nextId \notin Issued /\ jobs = {} /\ launch.step = "idle"
         /\ wav' \in [Ids -> WavStates]
         /\ \A i \in Ids : wav'[i] = wav[i] \/ (wav[i] # "none" /\ wav'[i] \in {"closed", "broken"})
         /\ audio # NoId => wav'[audio] \notin {"none", "open"}
         /\ RemovesStopFile(k) \subseteq Ids
         /\ nextId + 1 \in 1..(MaxJobs + 1)
<1>1. wav \in [Ids -> WavStates] BY DEF IInv, TypeOK, WavStates
<1>2. /\ nextId \in Ids /\ jobs = {} /\ launch.step = "idle"
      /\ audio # NoId => ReadsInputAudio(k) /\ wav[audio] # "none"
      /\ RepairInput(k, audio)
  BY DEF RunAccepts, SlotFree
<1>3. nextId \notin Issued /\ nextId + 1 \in 1..(MaxJobs + 1)
  BY <1>2, MaxJobsAssumption DEF Issued, Ids
<1>4. RemovesStopFile(k) \subseteq Ids BY DEF RemovesStopFile, IInv, TypeOK
<1> QED BY <1>1, <1>2, <1>3, <1>4, RepairFacts

\* A new job enters an empty table under an id nothing has touched.
LEMMA RunSpawnsKeeps ==
  ASSUME IInv, NEW k \in Kinds, NEW audio \in Ids \cup {NoId}, RunSpawns(k, audio)
  PROVE  IInv'
<1> USE IdsAreNat, PidParts, PidMade DEF RunSpawns
<1>1. /\ nextId \in Ids /\ nextId \notin Issued /\ jobs = {} /\ launch.step = "idle"
      /\ wav' \in [Ids -> WavStates]
      /\ \A i \in Ids : wav'[i] = wav[i] \/ (wav[i] # "none" /\ wav'[i] \in {"closed", "broken"})
      /\ audio # NoId => wav'[audio] \notin {"none", "open"}
      /\ nextId' \in 1..(MaxJobs + 1) /\ stopFile' \subseteq Ids
  BY AcceptFacts
<1>2. Issued' = Issued \cup {nextId}
  <2>1. nextId \in Nat /\ nextId' = nextId + 1 BY <1>1
  <2>2. ASSUME NEW i \in Ids PROVE i < nextId + 1 <=> i < nextId \/ i = nextId
    BY <2>1
  <2> QED BY <1>1, <2>1, <2>2 DEF Issued
<1>3. /\ proc' = [proc EXCEPT ![<<nextId, 1>>] = "setup"] /\ <<nextId, 1>> \in Pids
      /\ \A p \in Pids : p[1] = nextId => proc[p] = "none" /\ waiter[p] = "none"
  BY <1>1 DEF IInv, FreshInv
<1>4. \A i \in Ids : i = nextId \/ (pid'[i] = pid[i] /\ kindOf'[i] = kindOf[i] /\ input'[i] = input[i])
  BY <1>1 DEF IInv, TypeOK
<1>5. TypeOK'
  <2>1. TypeOK BY DEF IInv
  <2>2. /\ pid' \in [Ids -> 0..2] /\ kindOf' \in [Ids -> Kinds \cup {"none"}]
        /\ input' \in [Ids -> Ids \cup {NoId}]
    BY <1>1, <2>1 DEF TypeOK
  <2>3. /\ proc' \in [Pids -> {"none", "setup", "script", "ok", "fail", "offline", "killed"}]
        /\ launch' \in [id : Ids \cup {NoId}, step : {"idle", "announce", "watch"}]
    BY <1>1, <1>3, <2>1 DEF TypeOK
  <2> QED BY <1>1, <2>1, <2>2, <2>3 DEF TypeOK, WavStates
<1>6. TableInv' BY <1>1, <1>2 DEF IInv, TypeOK, TableInv
<1>7. FreshInv' BY <1>1, <1>2, <1>3, <1>4 DEF IInv, TypeOK, FreshInv
<1>8. ProcInv' BY <1>1, <1>3 DEF IInv, TypeOK, ProcInv, NoOrphan, Alive
<1>9. WaiterInv'
  <2>1. \A p \in Pids : p[1] # nextId => proc'[p] = proc[p] /\ pid'[p[1]] = pid[p[1]]
    BY <1>3, <1>4 DEF IInv, TypeOK
  <2>2. WaiterInv BY DEF IInv
  <2> QED BY <1>1, <1>2, <1>3, <2>1, <2>2 DEF WaiterInv, Alive
<1>10. ReportInv' BY <1>1, <1>2 DEF IInv, TypeOK, ReportInv, FreshInv
<1>11. LaunchInv' BY <1>1, <1>3 DEF IInv, TypeOK, LaunchInv
<1>12. StopInv' BY <1>1, <1>2, <1>4 DEF IInv, TypeOK, StopInv, Leading
<1>13. ConfirmInv' BY <1>1, <1>2 DEF IInv, TypeOK, ConfirmInv, ConfirmedIsStopped, StopInv, Leading
<1>14. StopFileMeansAsked' BY <1>1, <1>4 DEF IInv, TypeOK, StopFileMeansAsked, RemovesStopFile
<1>15. RepairedInv' BY <1>1, <1>3, <1>4 DEF IInv, RepairedInv
<1>16. ReportedWavClosed'
  <2>1. \A i \in Ids : reports[i] > 0 => i # nextId BY <1>1 DEF IInv, TypeOK, ReportInv
  <2> QED BY <1>1, <1>4, <2>1 DEF IInv, ReportedWavClosed
<1>17. InputInv' BY <1>1 DEF IInv, TypeOK, InputInv
<1> QED BY <1>5, <1>6, <1>7, <1>8, <1>9, <1>10, <1>11, <1>12, <1>13, <1>14, <1>15, <1>16, <1>17 DEF IInv

\* A failed start may burn an id, repair an input or remove a stale stop file.
LEMMA RunFailsKeeps ==
  ASSUME IInv, NEW k \in Kinds, NEW audio \in Ids \cup {NoId}, RunFails(k, audio)
  PROVE  IInv'
<1> USE IdsAreNat, PidParts DEF RunFails
<1>1. /\ nextId \in Ids /\ nextId \notin Issued /\ jobs = {} /\ launch.step = "idle"
      /\ wav' \in [Ids -> WavStates]
      /\ \A i \in Ids : wav'[i] = wav[i] \/ (wav[i] # "none" /\ wav'[i] \in {"closed", "broken"})
      /\ nextId' \in 1..(MaxJobs + 1) /\ stopFile' \subseteq Ids
  BY AcceptFacts DEF IInv, TypeOK
<1>2. Issued \subseteq Issued' /\ Issued' \subseteq Ids
  BY <1>1 DEF Issued, IInv, TypeOK
<1>3. TypeOK' BY <1>1 DEF IInv, TypeOK, WavStates
<1>4. TableInv' /\ ReportInv' /\ LaunchInv' BY <1>1, <1>2 DEF IInv, TableInv, ReportInv, LaunchInv
<1>5. FreshInv' BY <1>1, <1>2 DEF IInv, FreshInv
<1>6. ProcInv' BY DEF IInv, ProcInv, NoOrphan, Alive
<1>7. WaiterInv' BY <1>2 DEF IInv, WaiterInv, Alive
<1>8. StopInv' BY <1>2 DEF IInv, StopInv, Leading
<1>9. ConfirmInv' BY <1>2 DEF IInv, ConfirmInv, ConfirmedIsStopped, Leading
<1>10. StopFileMeansAsked' /\ InputInv' BY <1>1 DEF IInv, StopFileMeansAsked, InputInv
<1>11. RepairedInv' /\ ReportedWavClosed' BY <1>1 DEF IInv, RepairedInv, ReportedWavClosed
<1> QED BY <1>3, <1>4, <1>5, <1>6, <1>7, <1>8, <1>9, <1>10, <1>11 DEF IInv

\* The start event is sent while the job still has no waiter.
LEMMA RunAnnouncesKeeps ==
  ASSUME IInv, RunAnnounces
  PROVE  IInv'
<1> USE IdsAreNat, PidParts, PidMade DEF RunAnnounces
<1>1. launch.id \in jobs /\ launch.id \in Ids /\ launch \in [id : Ids \cup {NoId}, step : {"idle", "announce", "watch"}]
  BY DEF IInv, LaunchInv, TypeOK
<1>2. TypeOK' BY <1>1 DEF IInv, TypeOK
<1>3. TableInv' /\ FreshInv' /\ ProcInv' /\ WaiterInv'
  BY <1>1 DEF IInv, TableInv, Issued, FreshInv, ProcInv, NoOrphan, Alive, WaiterInv
<1>4. ReportInv' BY DEF IInv, ReportInv, Issued
<1>5. LaunchInv' BY <1>1 DEF IInv, LaunchInv
<1>6. StopInv' /\ ConfirmInv' BY DEF IInv, StopInv, Leading, Issued, ConfirmInv, ConfirmedIsStopped
<1>7. StopFileMeansAsked' /\ RepairedInv' /\ ReportedWavClosed' /\ InputInv'
  BY DEF IInv, StopFileMeansAsked, RepairedInv, ReportedWavClosed, InputInv
<1> QED BY <1>2, <1>3, <1>4, <1>5, <1>6, <1>7 DEF IInv

\* The waiter is created for the first attempt.
LEMMA RunWatchesKeeps ==
  ASSUME IInv, RunWatches
  PROVE  IInv'
<1> USE IdsAreNat, PidParts, PidMade DEF RunWatches
<1>1. /\ launch.id \in jobs /\ launch.id \in Ids /\ pid[launch.id] = 1 /\ launch.id \in announced
      /\ launch.id \in Issued
      /\ \A q \in Pids : q[1] = launch.id => waiter[q] = "none"
      /\ reports[launch.id] = 0
  BY DEF IInv, LaunchInv, TypeOK, TableInv, ReportInv
<1>2. TypeOK' BY <1>1 DEF IInv, TypeOK, WaiterPlaces
<1>3. TableInv' /\ ProcInv' /\ ReportInv' /\ LaunchInv'
  BY <1>1 DEF IInv, TableInv, Issued, ProcInv, NoOrphan, Alive, ReportInv, LaunchInv
<1>4. FreshInv' BY <1>1 DEF IInv, TypeOK, Issued, FreshInv
<1>5. WaiterInv'
  <2>1. \A q \in Pids : waiter'[q] = IF q = <<launch.id, 1>> THEN "wait" ELSE waiter[q]
    BY <1>1 DEF IInv, TypeOK
  <2>2. \A q \in Pids : q[1] = launch.id => waiter[q] = "none"
    BY <1>1
  <2>3. proc' = proc /\ pid' = pid /\ jobs' = jobs /\ reports' = reports /\ announced' = announced /\ Issued' = Issued
    BY DEF Issued
  <2>4. WaiterInv BY DEF IInv
  <2> QED BY <1>1, <2>1, <2>2, <2>3, <2>4 DEF WaiterInv, Alive
<1>6. StopInv' BY DEF IInv, StopInv, Leading, Issued
<1>9. ConfirmInv' BY DEF IInv, Leading, Issued, ConfirmInv, ConfirmedIsStopped
<1>7. StopFileMeansAsked' /\ ReportedWavClosed' /\ InputInv'
  BY DEF IInv, StopFileMeansAsked, ReportedWavClosed, InputInv
<1>8. RepairedInv' BY <1>1 DEF IInv, TypeOK, RepairedInv
<1> QED BY <1>2, <1>3, <1>4, <1>5, <1>6, <1>7, <1>8, <1>9 DEF IInv

-----------------------------------------------------------------------------
(* The child process. *)

\* A process only acts while it is the current process of the job in the table.
LEMMA ChildKeeps ==
  ASSUME IInv, NEW p \in Pids, Child(p)
  PROVE  IInv'
<1> USE IdsAreNat, PidParts, PidMade
<1>1. /\ Alive(p)
      /\ UNCHANGED <<tableVars, stopping, stopFile, launch, waiter, toldVars, stopVars>>
  BY DEF Child, ProcStarts, ProcFailsOffline, ProcOpensWav, ProcEnds, ProcSeesStopFile, Alive
<1>2. /\ proc' \in [Pids -> {"none", "setup", "script", "ok", "fail", "offline", "killed"}]
      /\ \A q \in Pids : /\ Alive(q)' => Alive(q)
                         /\ proc'[q] = "none" <=> proc[q] = "none"
  BY DEF Child, ProcStarts, ProcFailsOffline, ProcOpensWav, ProcEnds, ProcSeesStopFile, Alive, IInv, TypeOK
<1>3. /\ wav' \in [Ids -> WavStates]
      /\ \A i \in Ids : /\ wav[i] # "none" => wav'[i] # "none"
                        /\ wav'[i] = "open" => wav[i] = "open" \/ (wav[i] = "none" /\ i = p[1])
                        /\ wav'[i] # wav[i] => i = p[1]
  <2>1. wav \in [Ids -> WavStates] /\ p[1] \in Ids BY DEF IInv, TypeOK, WavStates
  <2>2. \/ wav' = wav
        \/ wav[p[1]] = "none" /\ wav' = [wav EXCEPT ![p[1]] = "open"]
        \/ wav[p[1]] = "open" /\ wav' = [wav EXCEPT ![p[1]] = "closed"]
    BY DEF Child, ProcStarts, ProcFailsOffline, ProcOpensWav, ProcEnds, ProcSeesStopFile
  <2> QED BY <2>1, <2>2 DEF WavStates
<1>4. /\ p[1] \in jobs /\ pid[p[1]] = p[2] /\ p[1] \in Issued
  BY <1>1 DEF IInv, ProcInv, NoOrphan, TableInv
<1>5. TypeOK' BY <1>1, <1>2, <1>3 DEF IInv, TypeOK, WavStates
<1>6. TableInv' /\ ReportInv' /\ LaunchInv' /\ StopFileMeansAsked'
  BY <1>1 DEF IInv, TableInv, Issued, ReportInv, LaunchInv, StopFileMeansAsked
<1>7. StopInv' BY <1>1 DEF IInv, StopInv, Leading, Issued
<1>14. ConfirmInv' BY <1>1 DEF IInv, Leading, Issued, ConfirmInv, ConfirmedIsStopped
<1>8. FreshInv' BY <1>1, <1>2, <1>3, <1>4 DEF IInv, FreshInv, Issued
<1>9. ProcInv' BY <1>1, <1>2 DEF IInv, ProcInv, NoOrphan
<1>10. WaiterInv' BY <1>1, <1>2 DEF IInv, WaiterInv, Issued
<1>11. RepairedInv'
  <2>1. ASSUME NEW q \in Pids, waiter[q] \in {"remove", "report"} PROVE q[1] # p[1]
    BY <1>1, <1>4, <2>1 DEF IInv, WaiterInv, Alive
  <2> QED BY <1>1, <1>3, <2>1 DEF IInv, RepairedInv
<1>12. ReportedWavClosed' BY <1>1, <1>3, <1>4 DEF IInv, TypeOK, ReportedWavClosed, ReportInv
<1>13. InputInv' BY <1>1, <1>3 DEF IInv, TypeOK, InputInv
<1> QED BY <1>5, <1>6, <1>7, <1>8, <1>9, <1>10, <1>11, <1>12, <1>13, <1>14 DEF IInv

-----------------------------------------------------------------------------
(* The waiter thread. *)

\* A step that moves one waiter on and touches nothing else but a WAV header.
LEMMA WaiterMoves ==
  ASSUME IInv, NEW p \in Pids, NEW w \in {"retry", "repair", "remove"},
         waiter[p] \in {"wait", "retry", "repair"}, ~Alive(p),
         w = "retry" => p[2] = 1,
         waiter' = [waiter EXCEPT ![p] = w],
         wav' \in [Ids -> WavStates],
         \A i \in Ids : wav'[i] = wav[i] \/ (wav[i] # "none" /\ wav'[i] \in {"closed", "broken"}),
         w = "remove" => (AnnouncesRecording(kindOf[p[1]]) => wav'[p[1]] # "open"),
         UNCHANGED <<tableVars, stopping, stopFile, proc, launch, toldVars, stopVars>>
  PROVE  IInv'
<1> USE IdsAreNat, PidParts
<1>1. \A q \in Pids : waiter'[q] = IF q = p THEN w ELSE waiter[q]
  BY DEF IInv, TypeOK
<1>2. waiter[p] # "none" /\ p[1] \in jobs /\ pid[p[1]] = p[2] /\ p[1] \in Issued /\ p[1] \in announced
  BY DEF IInv, WaiterInv
<1>3. Issued' = Issued BY DEF Issued
<1>4. TypeOK' BY DEF IInv, TypeOK, WaiterPlaces, WavStates
<1>5. TableInv' /\ ReportInv' BY <1>3 DEF IInv, TableInv, ReportInv
<1>6. FreshInv' BY <1>1, <1>2, <1>3 DEF IInv, FreshInv
<1>7. ProcInv' BY DEF IInv, ProcInv, NoOrphan, Alive
<1>8. WaiterInv'
  <2>1. reports[p[1]] = 0 BY <1>2 DEF IInv, ReportInv
  <2>2. WaiterInv BY DEF IInv
  <2>3. ASSUME NEW q \in Pids
        PROVE  /\ waiter'[q] # "none" => q[1] \in Issued /\ q[1] \in announced
               /\ waiter'[q] \in {"wait", "retry", "repair", "remove"} =>
                    q[1] \in jobs /\ pid[q[1]] = q[2]
               /\ waiter'[q] \in {"retry", "repair", "remove"} => ~Alive(q)
               /\ waiter'[q] = "retry" => q[2] = 1
               /\ waiter'[q] = "handoff" => q[2] = 1 /\ q[1] \in jobs /\ pid[q[1]] = 2
               /\ waiter'[q] = "report" => q[1] \notin jobs
               /\ reports[q[1]] > 0 => waiter'[q] \in {"none", "done"}
    <3>1. CASE q = p BY <1>1, <1>2, <2>1, <3>1
    <3>2. CASE q # p BY <1>1, <2>2, <3>2 DEF WaiterInv
    <3> QED BY <3>1, <3>2
  <2>4. ASSUME NEW q \in Pids, NEW r \in Pids, q[1] = r[1], q[2] = 1, r[2] = 2, waiter'[r] # "none"
        PROVE  waiter'[q] = "done"
    <3>1. waiter[r] # "none" BY <1>1, <1>2, <2>4
    <3>2. waiter[q] = "done" BY <2>2, <2>4, <3>1 DEF WaiterInv
    <3> QED BY <1>1, <3>2
  <2> QED BY <1>3, <2>3, <2>4 DEF WaiterInv, Alive
<1>9. LaunchInv' BY <1>1, <1>2 DEF IInv, LaunchInv
<1>10. StopInv' BY <1>3 DEF IInv, StopInv, Leading
<1>11. ConfirmInv' BY <1>3 DEF IInv, ConfirmInv, ConfirmedIsStopped, Leading
<1>12. StopFileMeansAsked' BY DEF IInv, StopFileMeansAsked
<1>13. InputInv' BY DEF IInv, TypeOK, InputInv
<1>14. RepairedInv' BY <1>1 DEF IInv, RepairedInv
<1>15. ReportedWavClosed' BY DEF IInv, ReportedWavClosed
<1> QED BY <1>4, <1>5, <1>6, <1>7, <1>8, <1>9, <1>10, <1>11, <1>12, <1>13, <1>14, <1>15 DEF IInv

\* The waiter gets past child.wait() and the reader joins.
LEMMA WaiterJoinsKeeps ==
  ASSUME IInv, NEW p \in Pids, WaiterJoins(p)
  PROVE  IInv'
<1>1. PICK w \in {"retry", "repair"} : waiter' = [waiter EXCEPT ![p] = w] /\ (w = "retry" => p[2] = 1)
  BY DEF WaiterJoins
<1>2. wav' \in [Ids -> WavStates] /\ wav' = wav
  BY DEF WaiterJoins, IInv, TypeOK, WavStates
<1> QED BY <1>1, <1>2, WaiterMoves DEF WaiterJoins

\* retry_online returned nothing.
LEMMA WaiterGivesUpKeeps ==
  ASSUME IInv, NEW p \in Pids, WaiterGivesUp(p)
  PROVE  IInv'
<1>1. wav' \in [Ids -> WavStates] /\ wav' = wav /\ ~Alive(p)
  BY DEF WaiterGivesUp, IInv, TypeOK, WavStates, WaiterInv
<1> QED BY <1>1, WaiterMoves DEF WaiterGivesUp, AfterFailedRetry

\* After the repair no announced WAV is open.
LEMMA WaiterRepairsKeeps ==
  ASSUME IInv, NEW p \in Pids, WaiterRepairs(p)
  PROVE  IInv'
<1> USE PidParts
<1>1. ~Alive(p) BY DEF WaiterRepairs, IInv, WaiterInv
<1>2. wav \in [Ids -> WavStates] BY DEF IInv, TypeOK, WavStates
<1>3. /\ wav' \in [Ids -> WavStates]
      /\ \A i \in Ids : wav'[i] = wav[i] \/ (wav[i] # "none" /\ wav'[i] \in {"closed", "broken"})
      /\ AnnouncesRecording(kindOf[p[1]]) => wav'[p[1]] # "open"
  BY <1>2 DEF WaiterRepairs, NeedsRepair, WavStates
<1> QED BY <1>1, <1>3, WaiterMoves DEF WaiterRepairs

\* The pid changes only while nobody stops the job, so no call holds the old one.
LEMMA WaiterRetriesKeeps ==
  ASSUME IInv, NEW p \in Pids, WaiterRetries(p)
  PROVE  IInv'
<1> USE IdsAreNat, PidParts, PidMade DEF WaiterRetries
<1> DEFINE next == <<p[1], 2>>
<1>1. /\ p[2] = 1 /\ p[1] \in jobs /\ p[1] \in Ids /\ p[1] \notin stopping /\ ~Alive(p)
      /\ p[1] \in Issued /\ p[1] \in announced /\ pid[p[1]] = 1 /\ reports[p[1]] = 0
      /\ next \in Pids /\ next # p
  BY DEF IInv, WaiterInv, ReportInv, BeingStopped
<1>2. \A q \in Pids : waiter'[q] = IF q = p THEN "handoff" ELSE waiter[q]
  BY DEF IInv, TypeOK
<1>3. \A q \in Pids : proc'[q] = IF q = next THEN "setup" ELSE proc[q]
  BY <1>1 DEF IInv, TypeOK
<1>4. \A i \in Ids : pid'[i] = IF i = p[1] THEN 2 ELSE pid[i]
  BY <1>1 DEF IInv, TypeOK
<1>5. Issued' = Issued BY DEF Issued
<1>6. \A q \in Pids : q[1] = p[1] /\ q # p => q[2] = 2 /\ waiter[q] = "none" /\ ~Alive(q)
  BY <1>1 DEF IInv, WaiterInv, ProcInv, NoOrphan
<1>7. TypeOK'
  <2>1. TypeOK BY DEF IInv
  <2>2. /\ proc' \in [Pids -> {"none", "setup", "script", "ok", "fail", "offline", "killed"}]
        /\ pid' \in [Ids -> 0..2] /\ waiter' \in [Pids -> WaiterPlaces]
    BY <1>1, <2>1 DEF TypeOK, WaiterPlaces
  <2> QED BY <2>1, <2>2 DEF TypeOK
<1>8. TableInv' /\ ReportInv' BY <1>4, <1>5 DEF IInv, TypeOK, TableInv, ReportInv
<1>9. FreshInv' BY <1>1, <1>2, <1>3, <1>4, <1>5 DEF IInv, FreshInv
<1>10. ProcInv' BY <1>1, <1>3, <1>4, <1>6 DEF IInv, ProcInv, NoOrphan, Alive
<1>11. WaiterInv'
  <2>1. WaiterInv BY DEF IInv
  <2>2. ASSUME NEW q \in Pids, q[1] # p[1]
        PROVE  waiter'[q] = waiter[q] /\ pid'[q[1]] = pid[q[1]] /\ (Alive(q)' <=> Alive(q))
    BY <1>1, <1>2, <1>3, <1>4, <2>2 DEF Alive
  <2> QED BY <1>1, <1>2, <1>4, <1>5, <1>6, <2>1, <2>2 DEF WaiterInv
<1>12. LaunchInv' BY <1>1, <1>2, <1>4 DEF IInv, TypeOK, LaunchInv
<1>13. StopInv' BY <1>1, <1>4, <1>5 DEF IInv, TypeOK, StopInv, Leading
<1>14. ConfirmInv' BY <1>5 DEF IInv, ConfirmInv, ConfirmedIsStopped, Leading
<1>15. StopFileMeansAsked' /\ ReportedWavClosed' /\ InputInv'
  BY DEF IInv, StopFileMeansAsked, ReportedWavClosed, InputInv
<1>16. RepairedInv' BY <1>2 DEF IInv, RepairedInv
<1> QED BY <1>7, <1>8, <1>9, <1>10, <1>11, <1>12, <1>13, <1>14, <1>15, <1>16 DEF IInv

\* The second waiter begins as the first ends.
LEMMA WaiterHandsOverKeeps ==
  ASSUME IInv, NEW p \in Pids, WaiterHandsOver(p)
  PROVE  IInv'
<1> USE IdsAreNat, PidParts, PidMade DEF WaiterHandsOver
<1> DEFINE next == <<p[1], 2>>
<1>1. /\ p[2] = 1 /\ p[1] \in jobs /\ p[1] \in Issued /\ p[1] \in announced
      /\ pid[p[1]] = 2 /\ reports[p[1]] = 0
      /\ next \in Pids /\ next # p /\ next[1] = p[1] /\ next[2] = 2
      /\ waiter[next] = "none"
  BY DEF IInv, WaiterInv, ReportInv
<1>2. \A q \in Pids : waiter'[q] = IF q = p THEN "done" ELSE IF q = next THEN "wait" ELSE waiter[q]
  BY <1>1 DEF IInv, TypeOK, AfterHandover
<1>3. \A q \in Pids : q = p \/ q = next \/ q[1] # p[1]
  BY <1>1
<1>4. Issued' = Issued BY DEF Issued
<1>5. TypeOK' BY <1>1 DEF IInv, TypeOK, WaiterPlaces, AfterHandover
<1>6. TableInv' /\ ReportInv' BY <1>4 DEF IInv, TableInv, ReportInv
<1>7. FreshInv'
  <2>1. FreshInv /\ UNCHANGED <<pid, wav, reports, announced, asked, confirmed, proc>>
    BY DEF IInv
  <2>2. \A q \in Pids : q[1] \notin Issued => q # p /\ q # next
    BY <1>1
  <2>3. ASSUME NEW q \in Pids, q[1] \notin Issued
        PROVE  proc'[q] = "none" /\ waiter'[q] = "none"
    <3>1. waiter'[q] = waiter[q]
      BY <1>2, <2>2, <2>3
    <3> QED BY <2>1, <2>3, <3>1 DEF FreshInv
  <2> QED BY <1>4, <2>1, <2>3 DEF FreshInv
<1>8. ProcInv' BY DEF IInv, ProcInv, NoOrphan, Alive
<1>9. WaiterInv'
  <2>1. WaiterInv BY DEF IInv
  <2>2. /\ waiter'[p] = "done" /\ waiter'[next] = "wait"
        /\ \A q \in Pids : q[1] # p[1] => waiter'[q] = waiter[q]
    BY <1>1, <1>2
  <2>3. ASSUME NEW q \in Pids
        PROVE  /\ waiter'[q] # "none" => q[1] \in Issued /\ q[1] \in announced
               /\ waiter'[q] \in {"wait", "retry", "repair", "remove"} =>
                    q[1] \in jobs /\ pid[q[1]] = q[2]
               /\ waiter'[q] \in {"retry", "repair", "remove"} => ~Alive(q)
               /\ waiter'[q] = "retry" => q[2] = 1
               /\ waiter'[q] = "handoff" => q[2] = 1 /\ q[1] \in jobs /\ pid[q[1]] = 2
               /\ waiter'[q] = "report" => q[1] \notin jobs
               /\ reports[q[1]] > 0 => waiter'[q] \in {"none", "done"}
    <3>1. CASE q = p BY <1>1, <2>2, <3>1
    <3>2. CASE q = next
      <4>1. q[1] = p[1] /\ q[2] = 2 /\ waiter'[q] = "wait" BY <1>1, <2>2, <3>2
      <4> QED BY <1>1, <4>1
    <3>3. CASE q[1] # p[1]
      <4>1. waiter'[q] = waiter[q] BY <2>2, <3>3
      <4> QED BY <2>1, <4>1 DEF WaiterInv
    <3> QED BY <1>3, <3>1, <3>2, <3>3
  <2>4. ASSUME NEW q \in Pids, NEW r \in Pids, q[1] = r[1], q[2] = 1, r[2] = 2, waiter'[r] # "none"
        PROVE  waiter'[q] = "done"
    <3>1. CASE q[1] = p[1] BY <1>1, <2>2, <2>4, <3>1
    <3>2. CASE q[1] # p[1]
      <4>1. waiter'[q] = waiter[q] /\ waiter'[r] = waiter[r] BY <2>2, <2>4, <3>2
      <4> QED BY <2>1, <2>4, <4>1 DEF WaiterInv
    <3> QED BY <3>1, <3>2
  <2> QED BY <1>4, <2>3, <2>4 DEF WaiterInv, Alive
<1>10. LaunchInv'
  <2>1. LaunchInv /\ UNCHANGED <<launch, jobs, pid, announced>>
    BY DEF IInv
  <2>2. launch.step # "idle" => launch.id # p[1] BY DEF IInv, LaunchInv
  <2>3. ASSUME launch.step # "idle", NEW q \in Pids, q[1] = launch.id PROVE waiter'[q] = waiter[q]
    BY <1>1, <1>2, <2>2, <2>3
  <2> QED BY <2>1, <2>3 DEF LaunchInv
<1>11. StopInv' BY <1>4 DEF IInv, StopInv, Leading
<1>12. ConfirmInv' BY <1>4 DEF IInv, ConfirmInv, ConfirmedIsStopped, Leading
<1>13. StopFileMeansAsked' /\ ReportedWavClosed' /\ InputInv'
  BY DEF IInv, StopFileMeansAsked, ReportedWavClosed, InputInv
<1>14. RepairedInv' BY <1>2 DEF IInv, RepairedInv
<1> QED BY <1>5, <1>6, <1>7, <1>8, <1>9, <1>10, <1>11, <1>12, <1>13, <1>14 DEF IInv

\* The job, its mark and its file go together; the verdict keeps the mark.
LEMMA WaiterRemovesKeeps ==
  ASSUME IInv, NEW p \in Pids, WaiterRemoves(p)
  PROVE  IInv'
<1> USE IdsAreNat, PidParts DEF WaiterRemoves
<1>1. /\ p[1] \in jobs /\ p[1] \in Issued /\ p[1] \in announced /\ pid[p[1]] = p[2]
      /\ ~Alive(p) /\ reports[p[1]] = 0 /\ waiter[p] = "remove"
  BY DEF IInv, WaiterInv, ReportInv
<1>2. jobs' = {} /\ stopping' = {}
  BY <1>1 DEF IInv, TableInv
<1>3. \A q \in Pids : waiter'[q] = IF q = p THEN "report" ELSE waiter[q]
  BY DEF IInv, TypeOK
<1>4. \A q \in Pids : q # p => waiter[q] \notin {"wait", "retry", "repair", "remove", "handoff"}
  BY <1>1 DEF IInv, WaiterInv, TableInv
<1>5. \A i \in Ids : outcome'[i] = IF i = p[1] THEN (IF p[1] \in stopping THEN "stopped" ELSE "ended")
                                               ELSE outcome[i]
  BY DEF IInv, TypeOK, Stopped
<1>6. Issued' = Issued BY DEF Issued
<1>7. TypeOK'
  <2>1. TypeOK BY DEF IInv
  <2>2. waiter' \in [Pids -> WaiterPlaces] /\ outcome' \in [Ids -> {"none", "stopped", "ended"}]
    BY <2>1 DEF TypeOK, WaiterPlaces
  <2>3. stopFile' \subseteq Ids BY <2>1 DEF TypeOK
  <2> QED BY <1>2, <2>1, <2>2, <2>3 DEF TypeOK
<1>8. TableInv' BY <1>2 DEF TableInv
<1>9. FreshInv' BY <1>1, <1>3, <1>6 DEF IInv, FreshInv
<1>10. ProcInv' BY <1>1 DEF IInv, ProcInv, NoOrphan, TableInv, Alive
<1>11. WaiterInv'
  <2>1. WaiterInv BY DEF IInv
  <2> QED BY <1>1, <1>2, <1>3, <1>4, <1>6, <2>1 DEF WaiterInv, Alive
<1>12. ReportInv' BY <1>2, <1>6 DEF IInv, ReportInv
<1>13. LaunchInv' BY <1>1 DEF IInv, LaunchInv, TableInv
<1>14. StopInv'
  <2>1. ASSUME NEW s \in Stoppers, Leading(s) PROVE outcome'[sId[s]] = "stopped"
    <3>1. sId[s] \in Issued BY <2>1 DEF IInv, StopInv, Leading
    <3>2. CASE sId[s] \in jobs BY <1>1, <1>5, <2>1, <3>1, <3>2 DEF IInv, StopInv, TableInv, Issued
    <3>3. CASE sId[s] \notin jobs BY <1>1, <1>5, <2>1, <3>1, <3>3 DEF IInv, StopInv, Issued
    <3> QED BY <3>2, <3>3
  <2> QED BY <1>2, <1>6, <2>1 DEF IInv, StopInv, Leading
<1>15. ConfirmInv'
  <2>1. ASSUME NEW i \in confirmed PROVE outcome'[i] = "stopped"
    BY <1>1, <1>5, <2>1 DEF IInv, TypeOK, ConfirmInv, ConfirmedIsStopped, TableInv
  <2> QED BY <1>2, <1>6, <2>1 DEF IInv, ConfirmInv, ConfirmedIsStopped, Leading
<1>16. StopFileMeansAsked' /\ InputInv' BY <1>2 DEF StopFileMeansAsked, InputInv
<1>17. ReportedWavClosed' BY DEF IInv, ReportedWavClosed
<1>18. RepairedInv' BY <1>1, <1>3 DEF IInv, RepairedInv
<1> QED BY <1>7, <1>8, <1>9, <1>10, <1>11, <1>12, <1>13, <1>14, <1>15, <1>16, <1>17, <1>18 DEF IInv

\* The other waiter of the job cannot report as well.
LEMMA WaiterReportsKeeps ==
  ASSUME IInv, NEW p \in Pids, WaiterReports(p)
  PROVE  IInv'
<1> USE IdsAreNat, PidParts DEF WaiterReports
<1>1. /\ p[1] \notin jobs /\ p[1] \in Issued /\ p[1] \in announced /\ reports[p[1]] = 0
      /\ waiter[p] = "report"
  BY DEF IInv, WaiterInv, ReportInv
<1>2. \A q \in Pids : waiter'[q] = IF q = p THEN "done" ELSE waiter[q]
  BY DEF IInv, TypeOK
<1>3. \A i \in Ids : reports'[i] = IF i = p[1] THEN 1 ELSE reports[i]
  BY <1>1 DEF IInv, TypeOK
<1>4. \A q \in Pids : q # p /\ q[1] = p[1] => waiter[q] \in {"none", "done"}
  BY <1>1 DEF IInv, WaiterInv
<1>5. Issued' = Issued BY DEF Issued
<1>6. TypeOK'
  <2>1. TypeOK BY DEF IInv
  <2>2. waiter' \in [Pids -> WaiterPlaces] /\ reports' \in [Ids -> Nat]
    BY <2>1 DEF TypeOK, WaiterPlaces
  <2> QED BY <2>1, <2>2 DEF TypeOK
<1>7. TableInv' BY <1>5 DEF IInv, TableInv
<1>8. FreshInv' BY <1>1, <1>2, <1>3, <1>5 DEF IInv, FreshInv
<1>9. ProcInv' BY DEF IInv, ProcInv, NoOrphan, Alive
<1>10. WaiterInv'
  <2>1. WaiterInv BY DEF IInv
  <2> QED BY <1>1, <1>2, <1>3, <1>4, <1>5, <2>1 DEF WaiterInv, Alive
<1>11. ReportInv' BY <1>1, <1>3, <1>5 DEF IInv, ReportInv
<1>12. LaunchInv' BY <1>1, <1>2 DEF IInv, LaunchInv
<1>13. StopInv' BY <1>5 DEF IInv, StopInv, Leading
<1>14. ConfirmInv' BY <1>5 DEF IInv, ConfirmInv, ConfirmedIsStopped, Leading
<1>15. StopFileMeansAsked' /\ InputInv' BY DEF IInv, StopFileMeansAsked, InputInv
<1>16. RepairedInv' BY <1>2 DEF IInv, RepairedInv
<1>17. ReportedWavClosed'
  <2>1. AnnouncesRecording(kindOf[p[1]]) => wav[p[1]] # "open" BY <1>1 DEF IInv, RepairedInv
  <2> QED BY <1>3, <2>1 DEF IInv, ReportedWavClosed
<1> QED BY <1>6, <1>7, <1>8, <1>9, <1>10, <1>11, <1>12, <1>13, <1>14, <1>15, <1>16, <1>17 DEF IInv

-----------------------------------------------------------------------------
(* Stop calls. *)

\* A step that ends stop call s, or moves it to another place about the same job,
\* and touches no process, waiter or table.
LEMMA StopMoves ==
  ASSUME IInv, NEW s \in Stoppers,
         sPc' \in [Stoppers -> StopPlaces], sId' \in [Stoppers -> Ids \cup {NoId}],
         sPid' \in [Stoppers -> 0..2],
         answer' \in [Stoppers -> {"none", "true", "false", "error"}],
         OthersKept(s),
         \/ sPc'[s] = "idle"
         \/ /\ sPc[s] # "idle" /\ sId'[s] = sId[s] /\ sPid'[s] = sPid[s]
            /\ Leading(s)' => Leading(s),
         stopFile' = stopFile \/ (stopFile' = stopFile \cup {sId[s]} /\ sPc[s] # "idle"),
         stopping' = stopping \/ (Leading(s) /\ sPc'[s] = "idle" /\ stopping' = stopping \ {sId[s]}),
         confirmed' = confirmed \/ (/\ Leading(s) /\ sPc'[s] = "idle" /\ stopping' = stopping
                                   /\ confirmed' = confirmed \cup {sId[s]}),
         \/ proc' = proc
         \/ \E p \in Pids : Alive(p) /\ proc' = [proc EXCEPT ![p] = "killed"],
         UNCHANGED <<tableVars, wav, launch, waiter, toldVars, asked>>
  PROVE  IInv'
<1> USE IdsAreNat, PidParts
<1>1. sPc[s] # "idle" => sId[s] \in Issued /\ sPid[s] \in {1, 2} /\ sId[s] \in asked
  BY DEF IInv, StopInv
<1>2. Issued' = Issued /\ Issued \subseteq Ids BY DEF Issued
<1>3. Leading(s) => sPc[s] # "idle" BY DEF Leading
<1>4. /\ proc' \in [Pids -> {"none", "setup", "script", "ok", "fail", "offline", "killed"}]
      /\ \A q \in Pids : (Alive(q)' => Alive(q)) /\ (proc'[q] = "none" <=> proc[q] = "none")
  BY DEF IInv, TypeOK, Alive
<1>5. TypeOK' BY <1>1, <1>2, <1>3, <1>4 DEF IInv, TypeOK
<1>6. TableInv' BY <1>2 DEF IInv, TableInv
<1>7. ReportInv' /\ LaunchInv' BY <1>2 DEF IInv, ReportInv, LaunchInv
<1>8. FreshInv' BY <1>1, <1>2, <1>3, <1>4 DEF IInv, FreshInv
<1>9. ProcInv' BY <1>4 DEF IInv, ProcInv, NoOrphan
<1>10. WaiterInv' BY <1>2, <1>4 DEF IInv, WaiterInv
<1>11. ASSUME NEW t \in Stoppers, Leading(t)'
       PROVE  Leading(t) /\ sId'[t] = sId[t] /\ sPid'[t] = sPid[t]
  <2>1. CASE t = s BY <1>11, <2>1 DEF Leading
  <2>2. CASE t # s BY <1>11, <2>2 DEF Leading, OthersKept
  <2> QED BY <2>1, <2>2
<1>12. ASSUME NEW t \in Stoppers, Leading(t)', sId[t] \in jobs
       PROVE  sId[t] \in stopping' /\ sId[t] \notin confirmed'
  <2>1. Leading(t) BY <1>11, <1>12
  <2>2. sId[t] \in stopping /\ sId[t] \notin confirmed
    BY <1>12, <2>1 DEF IInv, StopInv, ConfirmInv
  <2>3. Leading(s) /\ sPc'[s] = "idle" => sId[s] # sId[t]
    BY <1>12, <2>1 DEF IInv, StopInv, Leading
  <2> QED BY <2>2, <2>3
<1>13. StopInv'
  <2>1. StopInv BY DEF IInv
  <2>2. ASSUME NEW t \in Stoppers, sPc'[t] # "idle"
        PROVE  sId'[t] \in Issued /\ sPid'[t] \in {1, 2} /\ sId'[t] \in asked
    <3>1. CASE t = s BY <1>1, <2>2, <3>1
    <3>2. CASE t # s BY <2>1, <2>2, <3>2 DEF StopInv, OthersKept
    <3> QED BY <3>1, <3>2
  <2>3. ASSUME NEW t \in Stoppers, Leading(t)'
        PROVE  IF sId'[t] \in jobs THEN sId'[t] \in stopping' /\ sPid'[t] = pid[sId'[t]]
               ELSE outcome[sId'[t]] = "stopped"
    BY <1>11, <1>12, <2>1, <2>3 DEF StopInv
  <2>4. ASSUME NEW t \in Stoppers, NEW u \in Stoppers, Leading(t)', Leading(u)',
               sId'[t] = sId'[u], sId'[t] \in jobs
        PROVE  t = u
    BY <1>11, <2>1, <2>4 DEF StopInv
  <2> QED BY <1>2, <2>2, <2>3, <2>4 DEF StopInv
<1>14. ConfirmInv'
  <2>1. ConfirmInv /\ StopInv BY DEF IInv
  <2>2. ASSUME NEW i \in confirmed'
        PROVE  i \in Issued /\ IF i \in jobs THEN i \in stopping' ELSE outcome[i] = "stopped"
    <3>1. CASE i \in confirmed
      <4>1. i \in jobs /\ Leading(s) => i # sId[s] BY <2>1, <3>1 DEF ConfirmInv
      <4> QED BY <2>1, <3>1, <4>1 DEF ConfirmInv, ConfirmedIsStopped
    <3>2. CASE i \notin confirmed
      <4>1. i = sId[s] /\ Leading(s) /\ stopping' = stopping BY <2>2, <3>2
      <4> QED BY <1>1, <1>3, <2>1, <4>1 DEF StopInv
    <3> QED BY <3>1, <3>2
  <2>3. ASSUME NEW t \in Stoppers, Leading(t)', sId'[t] \in jobs PROVE sId'[t] \notin confirmed'
    BY <1>11, <1>12, <2>3
  <2> QED BY <1>2, <2>2, <2>3 DEF ConfirmInv, ConfirmedIsStopped
<1>15. StopFileMeansAsked' BY <1>1 DEF IInv, StopFileMeansAsked
<1>16. RepairedInv' /\ ReportedWavClosed' /\ InputInv'
  BY DEF IInv, RepairedInv, ReportedWavClosed, InputInv
<1> QED BY <1>5, <1>6, <1>7, <1>8, <1>9, <1>10, <1>13, <1>14, <1>15, <1>16 DEF IInv

\* Marking a job makes the call its leader exactly when nobody stops it yet.
LEMMA StopMarksKeeps ==
  ASSUME IInv, NEW s \in Stoppers, NEW id \in Ids, StopMarks(s, id)
  PROVE  IInv'
<1> USE IdsAreNat, PidParts DEF StopMarks
<1>1. id \in jobs /\ id \in Issued /\ pid[id] \in {1, 2}
  BY DEF IInv, TableInv
<1>2. Issued' = Issued /\ Issued \subseteq Ids BY DEF Issued
<1>3. TypeOK BY DEF IInv
<1>4. /\ sId'[s] = id /\ sPid'[s] = pid[id]
      /\ Leading(s)' => id \notin stopping
      /\ OthersKept(s)
  BY <1>3 DEF TypeOK, OthersKept, Leading
<1>5. TypeOK'
  <2>1. sPc' \in [Stoppers -> StopPlaces] BY <1>3 DEF TypeOK, StopPlaces
  <2>2. sId' \in [Stoppers -> Ids \cup {NoId}] /\ sPid' \in [Stoppers -> 0..2] BY <1>1, <1>3 DEF TypeOK
  <2> QED BY <1>3, <2>1, <2>2 DEF TypeOK
<1>6. TableInv' BY <1>1, <1>2 DEF IInv, TableInv
<1>7. ReportInv' /\ LaunchInv' BY <1>2 DEF IInv, ReportInv, LaunchInv
<1>8. FreshInv' BY <1>1, <1>2 DEF IInv, FreshInv
<1>9. ProcInv' BY DEF IInv, ProcInv, NoOrphan, Alive
<1>10. WaiterInv' BY <1>2 DEF IInv, WaiterInv, Alive
<1>11. ASSUME NEW t \in Stoppers, t # s
       PROVE  (Leading(t)' <=> Leading(t)) /\ sId'[t] = sId[t] /\ sPid'[t] = sPid[t] /\ sPc'[t] = sPc[t]
  BY <1>4, <1>11 DEF OthersKept, Leading
<1>12. ASSUME NEW t \in Stoppers, t # s, Leading(t), sId[t] = id PROVE id \in stopping
  BY <1>1, <1>12 DEF IInv, StopInv
<1>13. StopInv'
  <2>1. StopInv BY DEF IInv
  <2>2. ASSUME NEW t \in Stoppers, sPc'[t] # "idle"
        PROVE  sId'[t] \in Issued /\ sPid'[t] \in {1, 2} /\ sId'[t] \in asked'
    <3>1. CASE t = s BY <1>1, <1>4, <3>1
    <3>2. CASE t # s BY <1>11, <2>1, <2>2, <3>2 DEF StopInv
    <3> QED BY <3>1, <3>2
  <2>3. ASSUME NEW t \in Stoppers, Leading(t)'
        PROVE  IF sId'[t] \in jobs THEN sId'[t] \in stopping' /\ sPid'[t] = pid[sId'[t]]
               ELSE outcome[sId'[t]] = "stopped"
    <3>1. CASE t = s BY <1>1, <1>4, <3>1
    <3>2. CASE t # s BY <1>11, <2>1, <2>3, <3>2 DEF StopInv
    <3> QED BY <3>1, <3>2
  <2>4. ASSUME NEW t \in Stoppers, NEW u \in Stoppers, Leading(t)', Leading(u)',
               sId'[t] = sId'[u], sId'[t] \in jobs
        PROVE  t = u
    <3>1. CASE t # s /\ u # s BY <1>11, <2>1, <2>4, <3>1 DEF StopInv
    <3>2. CASE t = s /\ u # s BY <1>4, <1>11, <1>12, <2>4, <3>2
    <3>3. CASE t # s /\ u = s BY <1>4, <1>11, <1>12, <2>4, <3>3
    <3> QED BY <3>1, <3>2, <3>3
  <2> QED BY <1>2, <2>2, <2>3, <2>4 DEF StopInv
<1>14. ConfirmInv'
  <2>1. ConfirmInv BY DEF IInv
  <2>2. id \in confirmed => id \in stopping BY <1>1, <2>1 DEF ConfirmInv, ConfirmedIsStopped
  <2>3. ASSUME NEW t \in Stoppers, Leading(t)', sId'[t] \in jobs PROVE sId'[t] \notin confirmed
    <3>1. CASE t = s BY <1>4, <2>2, <2>3, <3>1
    <3>2. CASE t # s BY <1>11, <2>1, <2>3, <3>2 DEF ConfirmInv
    <3> QED BY <3>1, <3>2
  <2> QED BY <1>2, <2>1, <2>3 DEF ConfirmInv, ConfirmedIsStopped
<1>15. StopFileMeansAsked' BY DEF IInv, StopFileMeansAsked
<1>16. RepairedInv' /\ ReportedWavClosed' /\ InputInv'
  BY DEF IInv, RepairedInv, ReportedWavClosed, InputInv
<1> QED BY <1>5, <1>6, <1>7, <1>8, <1>9, <1>10, <1>13, <1>14, <1>15, <1>16 DEF IInv

\* Every step of a stop call but the mark moves the call on as StopMoves says.
LEMMA StopStepKeeps ==
  ASSUME IInv, NEW s \in Stoppers,
         StopStep(s) \/ \E id \in Ids : StopFindsNothing(s, id)
  PROVE  IInv'
<1> USE DEF Return, Confirm, Goto, OthersKept, Leading
<1>1. /\ sPc \in [Stoppers -> StopPlaces] /\ sId \in [Stoppers -> Ids \cup {NoId}]
      /\ sPid \in [Stoppers -> 0..2] /\ answer \in [Stoppers -> {"none", "true", "false", "error"}]
  BY DEF IInv, TypeOK
<1>2. NoId \in Ids \cup {NoId} /\ 0 \in 0..2 /\ StopPlaces =
        {"idle", "join", "write", "wait", "check", "kill", "failed", "unmark"}
  BY DEF StopPlaces
<1>3. CASE \E id \in Ids : StopFindsNothing(s, id) BY <1>1, <1>2, <1>3, StopMoves DEF StopFindsNothing
<1>4. CASE StopJoins(s) BY <1>1, <1>2, <1>4, StopMoves DEF StopJoins
<1>5. CASE StopWrites(s) BY <1>1, <1>2, <1>5, StopMoves DEF StopWrites
<1>6. CASE StopWriteFails(s) BY <1>1, <1>2, <1>6, StopMoves DEF StopWriteFails
<1>7. CASE StopWaits(s) BY <1>1, <1>2, <1>7, StopMoves DEF StopWaits
<1>8. CASE StopChecks(s) BY <1>1, <1>2, <1>8, StopMoves DEF StopChecks
<1>9. CASE StopKills(s)
  <2>1. Alive(<<sId[s], sPid[s]>>) /\ <<sId[s], sPid[s]>> \in Pids
    BY <1>9 DEF StopKills, IInv, StopInv, Issued, Pids
  <2> QED BY <1>1, <1>2, <1>9, <2>1, StopMoves DEF StopKills
<1>10. CASE StopKillFails(s) BY <1>1, <1>2, <1>10, StopMoves DEF StopKillFails
<1>11. CASE StopChecksAgain(s) BY <1>1, <1>2, <1>11, StopMoves DEF StopChecksAgain
<1>12. CASE StopUnmarks(s) BY <1>1, <1>2, <1>12, StopMoves DEF StopUnmarks
<1> QED BY <1>3, <1>4, <1>5, <1>6, <1>7, <1>8, <1>9, <1>10, <1>11, <1>12 DEF StopStep

-----------------------------------------------------------------------------
(* The invariant and what follows from it. *)

\* Every step of every thread keeps the invariant.
LEMMA StepKeeps == IInv /\ [Next]_vars => IInv'
<1> SUFFICES ASSUME IInv, [Next]_vars PROVE IInv'
  OBVIOUS
<1>1. CASE Run
  BY <1>1, RunSpawnsKeeps, RunFailsKeeps, RunAnnouncesKeeps, RunWatchesKeeps DEF Run
<1>2. ASSUME NEW p \in Pids, Child(p) PROVE IInv' BY <1>2, ChildKeeps
<1>3. ASSUME NEW p \in Pids, Waiter(p) PROVE IInv'
  BY <1>3, WaiterJoinsKeeps, WaiterRetriesKeeps, WaiterGivesUpKeeps, WaiterHandsOverKeeps,
     WaiterRepairsKeeps, WaiterRemovesKeeps, WaiterReportsKeeps DEF Waiter
<1>4. ASSUME NEW s \in Stoppers, StopCall(s) \/ StopStep(s) PROVE IInv'
  BY <1>4, StopMarksKeeps, StopStepKeeps DEF StopCall
<1>5. CASE UNCHANGED vars
  BY <1>5 DEF IInv, TypeOK, TableInv, FreshInv, ProcInv, NoOrphan, Alive, WaiterInv, ReportInv,
     LaunchInv, StopInv, Leading, ConfirmInv, ConfirmedIsStopped, StopFileMeansAsked, RepairedInv,
     ReportedWavClosed, InputInv, Issued
<1> QED BY <1>1, <1>2, <1>3, <1>4, <1>5 DEF Next

\* The invariant behind every promise below holds in every reachable state.
THEOREM Inductive == Spec => []IInv
BY InitHolds, StepKeeps, PTL DEF Spec

\* Every variable keeps its type through every step of every thread.
THEOREM TypeCorrect == Spec => []TypeOK
<1>1. IInv => TypeOK BY DEF IInv
<1> QED BY <1>1, Inductive, PTL

\* A process that runs is in the table, under its pid: it can be found and stopped.
THEOREM NoOrphanHolds == Spec => []NoOrphan
<1>1. IInv => NoOrphan BY DEF IInv, ProcInv
<1> QED BY <1>1, Inductive, PTL

\* Two process trees never run at once: the table holds one job, the job one pid.
THEOREM OneLiveProcessHolds == Spec => []OneLiveProcess
<1>1. IInv => OneLiveProcess
  <2> SUFFICES ASSUME IInv, NEW p \in Pids, NEW q \in Pids, Alive(p), Alive(q) PROVE p = q
    BY DEF OneLiveProcess
  <2>1. p[1] = q[1] /\ p[2] = q[2] BY DEF IInv, ProcInv, NoOrphan, TableInv
  <2> QED BY <2>1, PidParts
<1> QED BY <1>1, Inductive, PTL

\* A stop file acts only on a job that somebody asked to stop.
THEOREM StopFileMeansAskedHolds == Spec => []StopFileMeansAsked
<1>1. IInv => StopFileMeansAsked BY DEF IInv
<1> QED BY <1>1, Inductive, PTL

\* The pid a stop call copied stays right across its ten seconds of waiting.
THEOREM KillsCurrentProcessHolds == Spec => []KillsCurrentProcess
<1>1. IInv => KillsCurrentProcess BY DEF IInv, StopInv, KillsCurrentProcess
<1> QED BY <1>1, Inductive, PTL

\* A stop that was confirmed is what the exit event says.
THEOREM ConfirmedIsStoppedHolds == Spec => []ConfirmedIsStopped
<1>1. IInv => ConfirmedIsStopped BY DEF IInv, ConfirmInv
<1> QED BY <1>1, Inductive, PTL

\* No exit event of a live session before its WAV was completed or its repair failed.
THEOREM ReportedWavClosedHolds == Spec => []ReportedWavClosed
<1>1. IInv => ReportedWavClosed BY DEF IInv
<1> QED BY <1>1, Inductive, PTL

\* A file job never reads a WAV nobody tried to complete.
THEOREM InputWavClosedHolds == Spec => []InputWavClosed
<1>1. IInv => InputWavClosed BY DEF IInv, InputInv, InputWavClosed
<1> QED BY <1>1, Inductive, PTL

\* One exit at most per job, after its start and its removal.
THEOREM ExitToldOnceHolds == Spec => []ExitToldOnce
<1>1. IInv => ExitToldOnce BY DEF IInv, ReportInv, ExitToldOnce
<1> QED BY <1>1, Inductive, PTL

-----------------------------------------------------------------------------
(* The supervisor implements the lifecycle it promises the page: the safety half  *)
(* of ImplementsLifecycle.                                                          *)

\* What the phases need beyond IInv: an id has a kind from its start on, and only a
\* job that was started has a waiter.
KindInv ==
  /\ \A i \in Ids : i >= nextId => kindOf[i] = "none"
  /\ \A p \in Pids : waiter[p] # "none" => kindOf[p[1]] # "none"

RInv == IInv /\ KindInv

Phases == [i \in Ids |-> PhaseOf(i)]

-----------------------------------------------------------------------------
\* No id has a kind and no thread exists.
LEMMA RInitHolds == Init => RInv /\ Lifecycle!Init
<1> SUFFICES ASSUME Init PROVE RInv /\ Lifecycle!Init
  OBVIOUS
<1>1. IInv
  BY InitHolds
<1>2. KindInv
  BY PidParts DEF Init, KindInv
<1>3. \A i \in Ids : PhaseOf(i) = "new"
  BY IdsAreNat DEF Init, PhaseOf
<1>4. Lifecycle!Ids = Ids
  BY DEF Ids, Lifecycle!Ids
<1> QED BY <1>1, <1>2, <1>3, <1>4 DEF RInv, Lifecycle!Init, Init

\* What IInv says of the ids, for the phases.
LEMMA PhaseFacts ==
  ASSUME RInv
  PROVE  /\ nextId \in Nat
         /\ \A i \in jobs : i \in Ids /\ i < nextId /\ kindOf[i] # "none" /\ PhaseOf(i) = "live"
         /\ \A i \in Ids : PhaseOf(i) = "live" => i \in jobs
         /\ \A i \in Ids : reports[i] \in {0, 1}
<1>1. /\ nextId \in 1..(MaxJobs + 1) /\ jobs \subseteq Ids
      /\ \A i \in jobs : i \in Issued /\ kindOf[i] \in Kinds
      /\ \A i \in Ids : reports[i] \in {0, 1}
  BY DEF RInv, IInv, TypeOK, TableInv, ReportInv
<1>2. "none" \notin Kinds
  BY KindsAssumption DEF AllKinds
<1>3. \A i \in jobs : i \in Ids /\ i < nextId /\ kindOf[i] # "none"
  BY <1>1, <1>2 DEF Issued
<1>4. nextId \in Nat
  BY <1>1, MaxJobsAssumption
<1>5. ASSUME NEW i \in jobs PROVE PhaseOf(i) = "live"
  <2>1. ~(i >= nextId)
    BY <1>3, <1>4, IdsAreNat
  <2> QED BY <1>3, <2>1 DEF PhaseOf
<1>6. \A i \in Ids : PhaseOf(i) = "live" => i \in jobs
  BY DEF PhaseOf
<1> QED BY <1>1, <1>3, <1>4, <1>5, <1>6

\* A step that touches nothing the phases are made of is invisible.
LEMMA Invisible ==
  ASSUME RInv,
         UNCHANGED <<nextId, kindOf, jobs, reports, stopping, outcome, announced>>,
         \A p \in Pids : waiter'[p] # "none" => waiter[p] # "none" \/ p[1] \in jobs \/ waiter[<<p[1], 1>>] # "none"
  PROVE  KindInv' /\ UNCHANGED Lifecycle!lifeVars
<1>1. \A i \in Ids : PhaseOf(i)' = PhaseOf(i)
  BY DEF PhaseOf
<1>2. UNCHANGED Phases
  BY <1>1 DEF Phases
<1>3. KindInv'
  <2>1. ASSUME NEW p \in Pids, waiter'[p] # "none" PROVE kindOf[p[1]] # "none"
    <3>1. CASE waiter[p] # "none"
      BY <3>1 DEF RInv, KindInv
    <3>2. CASE p[1] \in jobs
      BY <3>2, PhaseFacts
    <3>3. CASE waiter[<<p[1], 1>>] # "none"
      BY <3>3, PidParts, PidMade DEF RInv, KindInv
    <3> QED BY <2>1, <3>1, <3>2, <3>3
  <2> QED BY <2>1 DEF RInv, KindInv
<1> QED BY <1>2, <1>3 DEF Lifecycle!lifeVars, Phases

-----------------------------------------------------------------------------
\* A spawn is a start; a spawn that fails refuses the id it took, or takes none.
LEMMA RunImplements ==
  ASSUME RInv, NEW k \in Kinds, NEW audio \in Ids \cup {NoId},
         RunSpawns(k, audio) \/ RunFails(k, audio)
  PROVE  KindInv' /\ [Lifecycle!Next]_Lifecycle!lifeVars
<1>1. /\ nextId \in Ids /\ nextId \in Nat /\ jobs = {} /\ k # "none"
      /\ kindOf \in [Ids -> Kinds \cup {"none"}]
  <2>1. nextId \in Ids /\ jobs = {}
    BY DEF RunSpawns, RunFails, RunAccepts, SlotFree
  <2> QED BY <2>1, PhaseFacts, KindsAssumption DEF AllKinds, RInv, IInv, TypeOK
<1>2. Lifecycle!Ids = Ids /\ Lifecycle!Live = {}
  <2>1. Lifecycle!Ids = Ids
    BY DEF Ids, Lifecycle!Ids
  <2> QED BY <1>1, <2>1, PhaseFacts DEF Lifecycle!Live
<1> PICK n \in Ids : n = nextId
  BY <1>1
<1>3. \A i \in Ids : i # n => (i >= nextId + 1 <=> i >= nextId)
  BY <1>1, IdsAreNat
<1>4. CASE RunSpawns(k, audio)
  <2>1. /\ nextId' = nextId + 1 /\ jobs' = {n} /\ kindOf' = [kindOf EXCEPT ![n] = k]
        /\ UNCHANGED <<reports, stopping, outcome, announced, waiter>>
    BY <1>1, <1>4 DEF RunSpawns
  <2>2. PhaseOf(n)' = "live"
    BY <1>1, <2>1 DEF PhaseOf
  <2>3. \A i \in Ids : i # n => PhaseOf(i)' = PhaseOf(i)
    BY <1>1, <1>3, <2>1 DEF PhaseOf
  <2>4. [i \in Ids |-> PhaseOf(i)]' = [[i \in Ids |-> PhaseOf(i)] EXCEPT ![n] = "live"]
    BY <2>2, <2>3
  <2>5. Lifecycle!Start(n)
    BY <1>2, <2>1, <2>4 DEF Lifecycle!Start
  <2>6. KindInv'
    BY <1>1, <1>3, <2>1, PidParts DEF RInv, KindInv
  <2> QED BY <1>1, <1>2, <2>5, <2>6 DEF Lifecycle!Next
<1>5. CASE RunFails(k, audio)
  <2>1. UNCHANGED <<jobs, kindOf, reports, stopping, outcome, announced, waiter>>
    BY <1>5 DEF RunFails
  <2>2. CASE nextId' = nextId
    BY <2>1, <2>2, Invisible
  <2>3. CASE nextId' = nextId + 1
    <3>1. PhaseOf(n)' = "refused"
      <4>1. kindOf[n] = "none"
        BY <1>1 DEF RInv, KindInv
      <4> QED BY <1>1, <2>1, <2>3, <4>1 DEF PhaseOf
    <3>2. \A i \in Ids : i # n => PhaseOf(i)' = PhaseOf(i)
      BY <1>1, <1>3, <2>1, <2>3 DEF PhaseOf
    <3>3. [i \in Ids |-> PhaseOf(i)]' = [[i \in Ids |-> PhaseOf(i)] EXCEPT ![n] = "refused"]
      BY <3>1, <3>2
    <3>4. Lifecycle!Refuse(n)
      BY <1>2, <2>1, <2>3, <3>3 DEF Lifecycle!Refuse
    <3>5. KindInv'
      BY <1>1, <1>3, <2>1, <2>3, IdsAreNat DEF RInv, KindInv
    <3> QED BY <1>1, <1>2, <3>4, <3>5 DEF Lifecycle!Next
  <2> QED BY <1>5, <2>2, <2>3 DEF RunFails
<1> QED BY <1>4, <1>5

\* The start event announces the job, which is in the table.
LEMMA AnnounceImplements ==
  ASSUME RInv, RunAnnounces
  PROVE  KindInv' /\ [Lifecycle!Next]_Lifecycle!lifeVars
<1>1. /\ launch.id \in jobs /\ announced' = announced \cup {launch.id}
      /\ UNCHANGED <<nextId, kindOf, jobs, reports, stopping, outcome, waiter>>
  BY DEF RunAnnounces, RInv, IInv, LaunchInv
<1>2. Lifecycle!Ids = Ids /\ launch.id \in Lifecycle!Live
  <2>1. Lifecycle!Ids = Ids
    BY DEF Ids, Lifecycle!Ids
  <2> QED BY <1>1, <2>1, PhaseFacts DEF Lifecycle!Live
<1>3. [i \in Ids |-> PhaseOf(i)]' = [i \in Ids |-> PhaseOf(i)]
  BY <1>1 DEF PhaseOf
<1>4. Lifecycle!Announce(launch.id)
  BY <1>1, <1>2, <1>3 DEF Lifecycle!Announce
<1>5. KindInv'
  BY <1>1 DEF RInv, KindInv
<1> QED BY <1>1, <1>2, <1>4, <1>5, PhaseFacts DEF Lifecycle!Next

\* A job leaves the table with the verdict that the mark says, and is told of once.
LEMMA WaiterEndImplements ==
  ASSUME RInv, NEW p \in Pids, WaiterRemoves(p) \/ WaiterReports(p)
  PROVE  KindInv' /\ [Lifecycle!Next]_Lifecycle!lifeVars
<1> DEFINE i == p[1]
<1>1. /\ i \in Ids /\ i < nextId /\ i \in announced /\ kindOf[i] # "none"
      /\ waiter[p] = "remove" => i \in jobs
      /\ waiter[p] = "report" => i \notin jobs
      /\ reports[i] = 0 /\ reports \in [Ids -> Nat] /\ outcome \in [Ids -> {"none", "stopped", "ended"}]
      /\ waiter \in [Pids -> WaiterPlaces] /\ nextId \in Nat
  <2>1. waiter[p] \in {"remove", "report"}
    BY DEF WaiterRemoves, WaiterReports
  <2>2. reports[i] = 0
    BY <2>1, PhaseFacts, PidParts DEF RInv, IInv, WaiterInv
  <2> QED BY <2>1, <2>2, PidParts, PhaseFacts DEF RInv, IInv, TypeOK, WaiterInv, KindInv, Issued
<1>2. ~(i >= nextId) /\ \A j \in Ids : (j >= nextId) \in BOOLEAN
  BY <1>1, IdsAreNat
<1>3. Lifecycle!Ids = Ids
  BY DEF Ids, Lifecycle!Ids
<1>4. CASE WaiterRemoves(p)
  <2>1. /\ i \in jobs /\ jobs' = jobs \ {i} /\ stopping' = stopping \ {i}
        /\ outcome' = [outcome EXCEPT ![i] = IF i \in stopping THEN "stopped" ELSE "ended"]
        /\ UNCHANGED <<nextId, kindOf, reports, announced>>
        /\ waiter' = [waiter EXCEPT ![p] = "report"]
    BY <1>1, <1>4 DEF WaiterRemoves, Stopped
  <2>2. PhaseOf(i)' = "over"
    BY <1>1, <1>2, <2>1 DEF PhaseOf
  <2>3. \A j \in Ids : j # i => PhaseOf(j)' = PhaseOf(j)
    BY <2>1 DEF PhaseOf
  <2>4. [j \in Ids |-> PhaseOf(j)]' = [[j \in Ids |-> PhaseOf(j)] EXCEPT ![i] = "over"]
    BY <2>2, <2>3
  <2>5. i \in Lifecycle!Live \cap announced
    BY <1>1, <1>3, <2>1, PhaseFacts DEF Lifecycle!Live
  <2>6. Lifecycle!Finish(i)
    BY <2>1, <2>4, <2>5 DEF Lifecycle!Finish
  <2>7. KindInv'
    BY <1>1, <2>1 DEF RInv, KindInv
  <2> QED BY <1>1, <1>3, <2>6, <2>7 DEF Lifecycle!Next
<1>5. CASE WaiterReports(p)
  <2>1. /\ i \notin jobs /\ reports' = [reports EXCEPT ![i] = 1]
        /\ UNCHANGED <<nextId, kindOf, jobs, stopping, outcome, announced>>
        /\ waiter' = [waiter EXCEPT ![p] = "done"]
    BY <1>1, <1>5 DEF WaiterReports
  <2>2. PhaseOf(i) = "over" /\ PhaseOf(i)' = "told"
    BY <1>1, <1>2, <2>1 DEF PhaseOf
  <2>3. \A j \in Ids : j # i => PhaseOf(j)' = PhaseOf(j)
    BY <1>1, <2>1 DEF PhaseOf
  <2>4. [j \in Ids |-> PhaseOf(j)]' = [[j \in Ids |-> PhaseOf(j)] EXCEPT ![i] = "told"]
    BY <2>2, <2>3
  <2>5. Lifecycle!Tell(i)
    BY <1>1, <2>1, <2>2, <2>4 DEF Lifecycle!Tell
  <2>6. KindInv'
    BY <1>1, <2>1 DEF RInv, KindInv
  <2> QED BY <1>1, <1>3, <2>5, <2>6 DEF Lifecycle!Next
<1> QED BY <1>4, <1>5

\* A waiter on its way there is not seen, nor a rerun.
LEMMA WaiterImplements ==
  ASSUME RInv, NEW p \in Pids, Waiter(p)
  PROVE  KindInv' /\ [Lifecycle!Next]_Lifecycle!lifeVars
<1>1. waiter \in [Pids -> WaiterPlaces] /\ p[1] \in Ids
  BY PidParts DEF RInv, IInv, TypeOK
<1>2. CASE WaiterJoins(p) \/ WaiterRetries(p) \/ WaiterGivesUp(p) \/ WaiterRepairs(p)
  <2>1. /\ waiter[p] # "none" /\ \A q \in Pids : q # p => waiter'[q] = waiter[q]
        /\ UNCHANGED <<nextId, kindOf, jobs, reports, stopping, outcome, announced>>
    BY <1>1, <1>2 DEF WaiterJoins, WaiterRetries, WaiterGivesUp, WaiterRepairs
  <2> QED BY <2>1, Invisible
<1>3. CASE WaiterHandsOver(p)
  <2>1. /\ waiter[p] = "handoff"
        /\ \A q \in Pids : q # p /\ q # <<p[1], 2>> => waiter'[q] = waiter[q]
        /\ UNCHANGED <<nextId, kindOf, jobs, reports, stopping, outcome, announced>>
    BY <1>1, <1>3 DEF WaiterHandsOver
  <2>2. p[1] \in jobs
    BY <2>1 DEF RInv, IInv, WaiterInv
  <2>3. \A q \in Pids : waiter'[q] # "none" => waiter[q] # "none" \/ q[1] \in jobs
    BY <2>1, <2>2
  <2> QED BY <2>1, <2>3, Invisible
<1>4. CASE WaiterRemoves(p) \/ WaiterReports(p)
  BY <1>4, WaiterEndImplements
<1> QED BY <1>2, <1>3, <1>4 DEF Waiter

\* A mark is a request, an unmark withdraws it; nothing else of a stop is seen.
LEMMA StopImplements ==
  ASSUME RInv, NEW s \in Stoppers, StopCall(s) \/ StopStep(s)
  PROVE  KindInv' /\ [Lifecycle!Next]_Lifecycle!lifeVars
<1> USE DEF Return, Confirm, Goto
<1>1. UNCHANGED <<nextId, kindOf, jobs, reports, outcome, announced, waiter>>
  BY DEF StopCall, StopStep, StopFindsNothing, StopMarks, StopJoins, StopWrites, StopWriteFails,
         StopWaits, StopChecks, StopKills, StopKillFails, StopChecksAgain, StopUnmarks
<1>2. KindInv'
  BY <1>1 DEF RInv, KindInv
<1>3. [i \in Ids |-> PhaseOf(i)]' = [i \in Ids |-> PhaseOf(i)] /\ Lifecycle!Ids = Ids
  BY <1>1 DEF PhaseOf, Ids, Lifecycle!Ids
<1>4. CASE stopping' = stopping
  BY <1>1, <1>2, <1>3, <1>4 DEF Lifecycle!lifeVars
<1>5. ASSUME NEW id \in Ids, StopMarks(s, id) PROVE Lifecycle!Next
  <2>1. id \in jobs /\ stopping' = stopping \cup {id}
    BY <1>5 DEF StopMarks
  <2>2. id \in Lifecycle!Live
    BY <1>3, <2>1, PhaseFacts DEF Lifecycle!Live
  <2>3. Lifecycle!Request(id)
    BY <1>1, <1>3, <2>1, <2>2 DEF Lifecycle!Request
  <2> QED BY <1>3, <2>3 DEF Lifecycle!Next
<1>6. CASE StopUnmarks(s)
  <2>1. stopping' = stopping \ {sId[s]}
    BY <1>6 DEF StopUnmarks
  <2>2. CASE sId[s] \in stopping
    <3>1. sId[s] \in Ids
      BY <2>2 DEF RInv, IInv, TypeOK
    <3>2. Lifecycle!Withdraw(sId[s])
      BY <1>1, <1>3, <2>1, <2>2 DEF Lifecycle!Withdraw
    <3> QED BY <1>2, <1>3, <3>1, <3>2 DEF Lifecycle!Next
  <2>3. CASE sId[s] \notin stopping
    BY <1>4, <2>1, <2>3
  <2> QED BY <2>2, <2>3
<1>7. CASE StopFindsNothing(s, sId[s]) \/ \E id \in Ids : StopFindsNothing(s, id)
  BY <1>4, <1>7 DEF StopFindsNothing
<1>8. CASE StopStep(s) /\ ~StopUnmarks(s)
  BY <1>4, <1>8 DEF StopStep, StopJoins, StopWrites, StopWriteFails, StopWaits, StopChecks,
                    StopKills, StopKillFails, StopChecksAgain
<1> QED BY <1>2, <1>5, <1>6, <1>7, <1>8 DEF StopCall

\* Every step of every thread and process is a step of the lifecycle or invisible in it.
LEMMA StepImplements == RInv /\ [Next]_vars => RInv' /\ [Lifecycle!Next]_Lifecycle!lifeVars
<1> SUFFICES ASSUME RInv, [Next]_vars PROVE KindInv' /\ [Lifecycle!Next]_Lifecycle!lifeVars
  BY StepKeeps DEF RInv
<1>1. ASSUME NEW k \in Kinds, NEW audio \in Ids \cup {NoId}, RunSpawns(k, audio) \/ RunFails(k, audio)
      PROVE  KindInv' /\ [Lifecycle!Next]_Lifecycle!lifeVars
  BY <1>1, RunImplements
<1>2. CASE RunAnnounces
  BY <1>2, AnnounceImplements
<1>3. CASE RunWatches
  <2>1. /\ launch.id \in jobs /\ waiter' = [waiter EXCEPT ![<<launch.id, 1>>] = "wait"]
        /\ UNCHANGED <<nextId, kindOf, jobs, reports, stopping, outcome, announced>>
    BY <1>3 DEF RunWatches, RInv, IInv, LaunchInv
  <2>2. \A q \in Pids : waiter'[q] # "none" => waiter[q] # "none" \/ q[1] \in jobs
    BY <2>1 DEF RInv, IInv, TypeOK
  <2> QED BY <2>1, <2>2, Invisible
<1>4. ASSUME NEW p \in Pids, Child(p) PROVE KindInv' /\ [Lifecycle!Next]_Lifecycle!lifeVars
  <2>1. UNCHANGED <<nextId, kindOf, jobs, reports, stopping, outcome, announced, waiter>>
    BY <1>4 DEF Child, ProcStarts, ProcFailsOffline, ProcOpensWav, ProcEnds, ProcSeesStopFile
  <2> QED BY <2>1, Invisible
<1>5. ASSUME NEW p \in Pids, Waiter(p) PROVE KindInv' /\ [Lifecycle!Next]_Lifecycle!lifeVars
  BY <1>5, WaiterImplements
<1>6. ASSUME NEW s \in Stoppers, StopCall(s) \/ StopStep(s)
      PROVE  KindInv' /\ [Lifecycle!Next]_Lifecycle!lifeVars
  BY <1>6, StopImplements
<1>7. CASE UNCHANGED vars
  BY <1>7, Invisible
<1> QED BY <1>1, <1>2, <1>3, <1>4, <1>5, <1>6, <1>7 DEF Next, Run

-----------------------------------------------------------------------------
\* The table with its threads, retries and stops does what the lifecycle says and
\* nothing else; that every end is told at last is left to the runs.
THEOREM SupervisorImplements == Spec => Lifecycle!Init /\ [][Lifecycle!Next]_Lifecycle!lifeVars
BY RInitHolds, StepImplements, PTL DEF Spec
=============================================================================
