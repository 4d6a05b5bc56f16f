----------------------------- MODULE AssetProofs -----------------------------
(***************************************************************************)
(* Proofs about the download script, for any assets, any number of         *)
(* downloads, stops and parts, and any network: the script on disk         *)
(* implements the process that Downloads knows, and what is reported done  *)
(* is whole.                                                               *)
(***************************************************************************)
EXTENDS AssetFiles, DownloadProofs, SequenceTheorems

-----------------------------------------------------------------------------
(* The script is a process of Downloads. *)

ATypes ==
  /\ kind \in [Assets -> AssetKinds]
  /\ place \in [DPids -> {"begin", "wb", "ab", "verify", "reverify", "archive", "unpack", "fetch"}]
  /\ version \in [Assets -> {1, 2}]
  /\ part \in [Assets -> Seq({1, 2})]
  /\ file \in [Assets -> Seq({0, 1, 2})]
  /\ pieces \in [Assets -> SUBSET Pieces]
  /\ half \in [Assets -> Pieces \cup {NoPiece}]
  /\ harmed \in SUBSET Assets /\ torn \in SUBSET Assets /\ offline \in SUBSET DPids

\* What a step of the script does to its process: it goes on, or it ends.
Proceeds(p) ==
  \/ /\ UNCHANGED dProc
     /\ \E s \in {"begin", "wb", "ab", "verify", "reverify", "archive", "unpack", "fetch"} :
          place' = [place EXCEPT ![p] = s]
  \/ \E how \in {"ok", "fail"} : Exits(p, how)

\* After the file is there, the script of each kind of asset goes on or ends.
LEMMA AfterFileProceeds ==
  ASSUME NEW p \in DPids, NEW existed \in BOOLEAN, IsUrl(p[1]), AfterFile(p, existed)
  PROVE  Proceeds(p)
<1>1. CASE kind[p[1]] = "file"
  BY <1>1 DEF AfterFile, Proceeds
<1>2. CASE kind[p[1]] = "checked"
  BY <1>2 DEF AfterFile, Proceeds, Goes
<1>3. CASE kind[p[1]] = "zip"
  BY <1>3 DEF AfterFile, Proceeds, Goes
<1> QED BY <1>1, <1>2, <1>3 DEF IsUrl

\* A step of the script is the step of a process that runs.
LEMMA ScriptProceeds ==
  ASSUME ATypes, NEW p \in DPids, Script(p),
         place[p] \in {"wb", "ab"} => IsUrl(p[1])
  PROVE  DAlive(p) /\ Proceeds(p) /\ ScriptKeeps
<1> DEFINE Stays == UNCHANGED <<dProc, place>>
<1>0. Stays => Proceeds(p)
  BY DEF Proceeds, ATypes
<1>1. CASE ScriptSkips(p)
  BY <1>1, AfterFileProceeds DEF ScriptSkips, At
<1>2. CASE ScriptBegins(p) \/ ScriptResumes(p) \/ ScriptRestarts(p)
  BY <1>2 DEF ScriptBegins, ScriptResumes, ScriptRestarts, Connects, Goes, At, Proceeds
<1>3. CASE ScriptRefused(p)
  BY <1>3 DEF ScriptRefused, At, Proceeds
<1>4. CASE ScriptReads(p)
  BY <1>0, <1>4 DEF ScriptReads, Reading, At
<1>5. CASE ScriptRenames(p)
  BY <1>5, AfterFileProceeds DEF ScriptRenames, Reading, At
<1>6. CASE ScriptVerifies(p)
  BY <1>6 DEF ScriptVerifies, At, Proceeds
<1>7. CASE ScriptFindsUnpacked(p)
  BY <1>7 DEF ScriptFindsUnpacked, At, Proceeds
<1>8. CASE ScriptOpensArchive(p)
  BY <1>8 DEF ScriptOpensArchive, At, Goes, Proceeds
<1>9. CASE ScriptUnpacks(p)
  BY <1>0, <1>9 DEF ScriptUnpacks, WritesPiece, At
<1>10. CASE ScriptFetches(p)
  BY <1>0, <1>10 DEF ScriptFetches, WritesPiece, At
<1>11. CASE ScriptHasAll(p)
  BY <1>11 DEF ScriptHasAll, At, Proceeds
<1>12. CASE ScriptLosesServer(p)
  BY <1>12 DEF ScriptLosesServer, Reading, At, Proceeds
<1>13. CASE ScriptLists(p)
  BY <1>13 DEF ScriptLists, At, Goes, Proceeds
<1>14. CASE ScriptTakesFolder(p)
  BY <1>14 DEF ScriptTakesFolder, At, Proceeds
<1>15. CASE ScriptCannotWrite(p)
  BY <1>15 DEF ScriptCannotWrite, Reading, At, Proceeds
<1> QED BY <1>1, <1>2, <1>3, <1>4, <1>5, <1>6, <1>7, <1>8, <1>9, <1>10, <1>11, <1>12, <1>13,
           <1>14, <1>15 DEF Script

\* So it is a step of Downloads, or none.
LEMMA ScriptImplements ==
  ASSUME ATypes, NEW p \in DPids, Script(p), place[p] \in {"wb", "ab"} => IsUrl(p[1])
  PROVE  [DNext]_dvars
<1>1. DAlive(p) /\ Proceeds(p) /\ ScriptKeeps
  BY ScriptProceeds
<1>2. CASE UNCHANGED dProc
  BY <1>1, <1>2 DEF ScriptKeeps, dvars, dSupVars, dAskVars, dPageVars
<1>3. ASSUME NEW how \in {"ok", "fail"}, Exits(p, how) PROVE DNext
  <2>1. DProcEnds(p)
    BY <1>1, <1>3 DEF DProcEnds, Exits, ScriptKeeps, dAskVars, dPageVars
  <2> QED BY <2>1 DEF DNext, DChild
<1> QED BY <1>1, <1>2, <1>3 DEF Proceeds

-----------------------------------------------------------------------------
(* What is on disk. *)

\* What a script knows where it is.
PlacedWell(p) ==
  /\ place[p] # "begin" => DAlive(p)
  /\ place[p] \in {"wb", "ab"} =>
       /\ IsUrl(p[1]) /\ file[p[1]] = NoFile
       /\ p[1] \notin harmed => \A i \in 1..Len(part[p[1]]) : part[p[1]][i] = version[p[1]]
  /\ place[p] \in {"verify", "reverify"} => kind[p[1]] = "checked" /\ file[p[1]] # NoFile
  /\ place[p] \in {"archive", "unpack"}  => kind[p[1]] = "zip" /\ file[p[1]] # NoFile
  /\ place[p] = "unpack" => Whole(file[p[1]])
  /\ place[p] = "fetch"  => kind[p[1]] = "snapshot"

Unpacking(a) == \E p \in DPids : p[1] = a /\ place[p] = "unpack"

\* No .part file is too long.  Unless an asset was harmed, its .part file is of one
\* version and its file whole; unless an archive was torn, it is wholly unpacked or just
\* being unpacked.
KeptWell(a) ==
  /\ Len(part[a]) <= FileSize
  /\ a \notin harmed => \A i \in 1..Len(part[a]) : part[a][i] = part[a][1]
  /\ a \notin harmed /\ file[a] # NoFile => Whole(file[a])
  /\ half[a] # NoPiece => half[a] \in Pieces \ pieces[a]
  /\ kind[a] = "zip" /\ a \notin torn /\ InFolder(a) =>
       /\ file[a] # NoFile /\ Whole(file[a])
       /\ pieces[a] = Pieces \/ Unpacking(a)

Finished(a) == Complete(a) /\ Installed(a) /\ (IsUrl(a) => file[a] # NoFile)
Excused(p)  ==
  \/ kind[p[1]] = "file" /\ p[1] \in harmed
  \/ kind[p[1]] = "zip" /\ p[1] \in torn
  \/ kind[p[1]] = "snapshot" /\ p \in offline
DoneWell(p) == dProc[p] = "ok" => Finished(p[1]) \/ Excused(p)

AInv ==
  /\ DInv /\ ATypes
  /\ \A p \in DPids : PlacedWell(p) /\ DoneWell(p)
  /\ \A a \in Assets : KeptWell(a)

\* Nothing is on disk.
LEMMA AInitHolds == AInit => AInv
<1> SUFFICES ASSUME AInit PROVE AInv
  OBVIOUS
<1>1. DInv
  BY DInitHolds DEF AInit
<1>2. ATypes
  BY DEF AInit, ATypes, NoFile
<1>3. ASSUME NEW p \in DPids PROVE PlacedWell(p) /\ DoneWell(p)
  BY <1>3 DEF AInit, DInit, PlacedWell, DoneWell
<1>4. ASSUME NEW a \in Assets PROVE KeptWell(a)
  BY <1>4, FileSizeAssumption DEF AInit, KeptWell, InFolder
<1> QED BY <1>1, <1>2, <1>3, <1>4 DEF AInv

\* A step of process p touches only p and its asset.
Local(p) ==
  /\ ATypes'
  /\ UNCHANGED <<kind, version>>
  /\ \A q \in DPids : q # p => dProc'[q] = dProc[q] /\ place'[q] = place[q]
  /\ \A b \in Assets : b # p[1] =>
       /\ part'[b] = part[b] /\ file'[b] = file[b] /\ pieces'[b] = pieces[b] /\ half'[b] = half[b]
       /\ (b \in harmed' <=> b \in harmed) /\ (b \in torn' <=> b \in torn)
  /\ harmed \subseteq harmed' /\ torn \subseteq torn' /\ offline \subseteq offline'

\* As p is the only process of its asset, it is enough to look at p and that asset.
LEMMA LocalKeeps ==
  ASSUME AInv, NEW p \in DPids, DAlive(p), Local(p), DInv',
         PlacedWell(p)', KeptWell(p[1])', DoneWell(p)', Finished(p[1]) => Finished(p[1])'
  PROVE  AInv'
<1>1. ASSUME NEW q \in DPids, q # p PROVE PlacedWell(q)' /\ DoneWell(q)'
  <2>1. q[1] = p[1] => ~DAlive(q)
    BY <1>1, OwnersAlone DEF AInv, OneWriterPerAsset
  <2>2. PlacedWell(q) /\ DoneWell(q)
    BY DEF AInv
  <2>3. dProc'[q] = dProc[q] /\ place'[q] = place[q]
    BY <1>1 DEF Local
  <2>4. CASE q[1] = p[1]
    <3>1. PlacedWell(q)'
      BY <2>1, <2>2, <2>3, <2>4 DEF PlacedWell, DAlive
    <3>2. Excused(q) => Excused(q)'
      BY DEF Local, Excused
    <3> QED BY <2>2, <2>3, <2>4, <3>1, <3>2 DEF DoneWell
  <2>5. CASE q[1] # p[1]
    <3>1. q[1] \in Assets
      BY DPidFacts
    <3>2. /\ part'[q[1]] = part[q[1]] /\ file'[q[1]] = file[q[1]] /\ pieces'[q[1]] = pieces[q[1]]
          /\ half'[q[1]] = half[q[1]] /\ (q[1] \in harmed' <=> q[1] \in harmed)
          /\ torn \subseteq torn' /\ offline \subseteq offline'
          /\ UNCHANGED <<kind, version>>
      BY <2>5, <3>1 DEF Local
    <3>3. PlacedWell(q)'
      BY <2>2, <2>3, <3>2 DEF PlacedWell, DAlive, IsUrl, Whole
    <3>4. DoneWell(q)'
      BY <2>2, <2>3, <3>2 DEF DoneWell, Finished, Excused, Complete, Installed, InFolder, IsUrl, Whole
    <3> QED BY <3>3, <3>4
  <2> QED BY <2>4, <2>5
<1>2. ASSUME NEW b \in Assets, b # p[1] PROVE KeptWell(b)'
  <2>1. KeptWell(b)
    BY DEF AInv
  <2>2. /\ part'[b] = part[b] /\ file'[b] = file[b] /\ pieces'[b] = pieces[b]
        /\ half'[b] = half[b] /\ (b \in harmed' <=> b \in harmed) /\ (b \in torn' <=> b \in torn)
        /\ kind' = kind
    BY <1>2 DEF Local
  <2>3. Unpacking(b) => Unpacking(b)'
    BY <1>2 DEF Unpacking, Local
  <2> QED BY <2>1, <2>2, <2>3 DEF KeptWell, InFolder, Whole
<1>3. p[1] \in Assets
  BY DPidFacts
<1>4. \A q \in DPids : PlacedWell(q)' /\ DoneWell(q)'
  BY <1>1
<1>5. \A b \in Assets : KeptWell(b)'
  BY <1>2
<1> QED BY <1>4, <1>5 DEF AInv, Local

\* Steps that leave the disk alone.
LEMMA DiskAlone ==
  ASSUME AInv, NEW p \in DPids, DAlive(p), DInv', ScriptKeeps, Proceeds(p),
         UNCHANGED <<diskVars, histVars>>,
         PlacedWell(p)', DoneWell(p)', place[p] # "unpack"
  PROVE  AInv'
<1>1. Local(p)
  <2>1. /\ ATypes /\ DTypes
        /\ UNCHANGED <<kind, version, part, file, pieces, half, harmed, torn, offline>>
    BY DEF AInv, DInv, ScriptKeeps, diskVars, histVars
  <2>2. place' \in [DPids -> {"begin", "wb", "ab", "verify", "reverify", "archive", "unpack", "fetch"}]
    BY <2>1 DEF Proceeds, Exits, ATypes
  <2>3. ATypes'
    BY <2>1, <2>2 DEF ATypes
  <2>4. \A q \in DPids : q # p => dProc'[q] = dProc[q] /\ place'[q] = place[q]
    BY <2>1 DEF Proceeds, Exits, ATypes, DTypes
  <2> QED BY <2>1, <2>3, <2>4 DEF Local
<1>2. KeptWell(p[1])'
  <2>1. KeptWell(p[1])
    BY DPidFacts DEF AInv
  <2>2. Unpacking(p[1]) => Unpacking(p[1])'
    BY <1>1 DEF Unpacking, Local
  <2> QED BY <2>1, <2>2 DEF KeptWell, InFolder, Whole, diskVars, histVars, ScriptKeeps
<1>3. Finished(p[1]) => Finished(p[1])'
  BY DEF Finished, Complete, Installed, InFolder, IsUrl, Whole, diskVars, histVars, ScriptKeeps
<1> QED BY <1>1, <1>2, <1>3, LocalKeeps

\* What a step of the script may rely on.
LEMMA ScriptFacts ==
  ASSUME AInv, NEW p \in DPids, Script(p)
  PROVE  /\ DAlive(p) /\ Proceeds(p) /\ ScriptKeeps /\ [DNext]_dvars /\ DInv'
         /\ ATypes /\ DTypes /\ p[1] \in Assets
         /\ PlacedWell(p) /\ DoneWell(p) /\ KeptWell(p[1])
<1>1. ATypes /\ DInv /\ DTypes /\ p[1] \in Assets /\ PlacedWell(p) /\ DoneWell(p) /\ KeptWell(p[1])
  BY DPidFacts DEF AInv, DInv
<1>2. place[p] \in {"wb", "ab"} => IsUrl(p[1])
  BY <1>1 DEF PlacedWell
<1>3. DAlive(p) /\ Proceeds(p) /\ ScriptKeeps /\ [DNext]_dvars
  BY <1>1, <1>2, ScriptProceeds, ScriptImplements
<1>4. DInv'
  BY <1>1, <1>3, DStepKeeps
<1> QED BY <1>1, <1>3, <1>4

\* A file without a checksum is finished by being there, unless it was harmed.
LEMMA FileFinished ==
  ASSUME AInv, NEW a \in Assets, kind[a] = "file", file[a] # NoFile
  PROVE  Finished(a) \/ a \in harmed
<1>1. KeptWell(a)
  BY DEF AInv
<1> QED BY <1>1 DEF KeptWell, Finished, Complete, Installed, InFolder, IsUrl

\* "Already exists": a file is done, one with a checksum is verified, an archive unpacked.
LEMMA SkipsKeeps ==
  ASSUME AInv, NEW p \in DPids, Script(p), ScriptSkips(p)
  PROVE  AInv'
<1>1. /\ DAlive(p) /\ Proceeds(p) /\ ScriptKeeps /\ DInv' /\ ATypes /\ DTypes /\ p[1] \in Assets
  BY ScriptFacts
<1>2. /\ place[p] = "begin" /\ IsUrl(p[1]) /\ file[p[1]] # NoFile /\ AfterFile(p, TRUE)
      /\ UNCHANGED <<part, file, pieces, half, harmed, torn, offline, kind, version>>
  BY DEF ScriptSkips, At, diskVars, histVars, ScriptKeeps
<1>3. PlacedWell(p)' /\ DoneWell(p)'
  <2>1. CASE kind[p[1]] = "file"
    <3>1. dProc'[p] = "ok" /\ place'[p] = "begin"
      BY <1>1, <1>2, <2>1 DEF AfterFile, Exits, ATypes, DTypes
    <3>2. Finished(p[1]) \/ Excused(p)
      BY <1>1, <1>2, <2>1, FileFinished DEF Excused
    <3>3. (Finished(p[1]) \/ Excused(p))'
      BY <1>2, <3>2 DEF Finished, Excused, Complete, Installed, InFolder, IsUrl, Whole
    <3> QED BY <3>1, <3>3 DEF PlacedWell, DoneWell
  <2>2. CASE kind[p[1]] = "checked"
    <3>1. dProc'[p] = "run" /\ place'[p] = "reverify"
      BY <1>1, <1>2, <2>2 DEF AfterFile, Goes, ATypes, DTypes, DAlive
    <3> QED BY <1>2, <2>2, <3>1 DEF PlacedWell, DoneWell, DAlive
  <2>3. CASE kind[p[1]] = "zip"
    <3>1. dProc'[p] = "run" /\ place'[p] = "archive"
      BY <1>1, <1>2, <2>3 DEF AfterFile, Goes, ATypes, DTypes, DAlive
    <3> QED BY <1>2, <2>3, <3>1 DEF PlacedWell, DoneWell, DAlive
  <2> QED BY <1>2, <2>1, <2>2, <2>3 DEF IsUrl
<1>4. place[p] # "unpack" /\ UNCHANGED <<diskVars, histVars>>
  BY <1>2 DEF diskVars, histVars
<1> QED BY <1>1, <1>3, <1>4, DiskAlone

\* A script that fails before it has changed anything.
LEMMA FailureKeeps ==
  ASSUME AInv, NEW p \in DPids, Script(p), ScriptRefused(p) \/ ScriptLosesServer(p)
  PROVE  AInv'
<1>1. /\ DAlive(p) /\ Proceeds(p) /\ ScriptKeeps /\ DInv' /\ ATypes /\ DTypes
  BY ScriptFacts
<1>2. /\ place[p] \in {"begin", "wb", "ab", "fetch"} /\ Exits(p, "fail")
      /\ UNCHANGED <<diskVars, histVars>>
  BY DEF ScriptRefused, ScriptLosesServer, Reading, At
<1>3. dProc'[p] = "fail" /\ place'[p] = "begin"
  BY <1>1, <1>2 DEF Exits, ATypes, DTypes
<1>4. PlacedWell(p)' /\ DoneWell(p)' /\ place[p] # "unpack"
  BY <1>2, <1>3 DEF PlacedWell, DoneWell
<1> QED BY <1>1, <1>2, <1>4, DiskAlone

\* "Already extracted": unless an unpacking broke off, all of it is there, as nobody
\* else is unpacking it.
LEMMA FindsUnpackedKeeps ==
  ASSUME AInv, NEW p \in DPids, Script(p), ScriptFindsUnpacked(p)
  PROVE  AInv'
<1>1. /\ DAlive(p) /\ Proceeds(p) /\ ScriptKeeps /\ DInv' /\ ATypes /\ DTypes /\ p[1] \in Assets
      /\ PlacedWell(p) /\ KeptWell(p[1])
  BY ScriptFacts
<1>2. /\ place[p] = "archive" /\ InFolder(p[1]) /\ Exits(p, "ok")
      /\ UNCHANGED <<diskVars, histVars, kind, version>>
  BY DEF ScriptFindsUnpacked, At, ScriptKeeps
<1>3. kind[p[1]] = "zip" /\ file[p[1]] # NoFile
  BY <1>1, <1>2 DEF PlacedWell
<1>4. ~Unpacking(p[1])
  <2> SUFFICES ASSUME NEW q \in DPids, q[1] = p[1], place[q] = "unpack" PROVE FALSE
    BY DEF Unpacking
  <2>1. DAlive(q)
    BY DEF AInv, PlacedWell
  <2>2. q = p
    BY <1>1, <2>1, OwnersAlone DEF AInv, OneWriterPerAsset
  <2> QED BY <1>2, <2>2
<1>5. Finished(p[1]) \/ Excused(p)
  <2>1. CASE p[1] \in torn
    BY <1>3, <2>1 DEF Excused
  <2>2. CASE p[1] \notin torn
    <3>1. Whole(file[p[1]]) /\ pieces[p[1]] = Pieces
      BY <1>1, <1>2, <1>3, <1>4, <2>2 DEF KeptWell
    <3>2. half[p[1]] = NoPiece
      BY <1>1, <3>1 DEF KeptWell
    <3> QED BY <1>3, <3>1, <3>2, NeededAssumption DEF Finished, Complete, Installed, InFolder, IsUrl
  <2> QED BY <2>1, <2>2
<1>6. dProc'[p] = "ok" /\ place'[p] = "begin"
  BY <1>1, <1>2 DEF Exits, ATypes, DTypes
<1>7. PlacedWell(p)' /\ DoneWell(p)'
  <2>1. (Finished(p[1]) \/ Excused(p))'
    BY <1>2, <1>5 DEF Finished, Excused, Complete, Installed, InFolder, IsUrl, Whole, diskVars, histVars
  <2> QED BY <1>6, <2>1 DEF PlacedWell, DoneWell
<1> QED BY <1>1, <1>2, <1>7, DiskAlone

\* An archive that opens is whole.
LEMMA OpensArchiveKeeps ==
  ASSUME AInv, NEW p \in DPids, Script(p), ScriptOpensArchive(p)
  PROVE  AInv'
<1>1. /\ DAlive(p) /\ Proceeds(p) /\ ScriptKeeps /\ DInv' /\ ATypes /\ DTypes /\ PlacedWell(p)
  BY ScriptFacts
<1>2. /\ place[p] = "archive" /\ UNCHANGED <<diskVars, histVars, kind, version>>
      /\ (Whole(file[p[1]]) /\ Goes(p, "unpack")) \/ Exits(p, "fail")
  BY DEF ScriptOpensArchive, At, ScriptKeeps
<1>3. CASE Whole(file[p[1]]) /\ Goes(p, "unpack")
  <2>1. dProc'[p] = "run" /\ place'[p] = "unpack"
    BY <1>1, <1>3 DEF Goes, ATypes, DTypes, DAlive
  <2>2. PlacedWell(p)' /\ DoneWell(p)'
    BY <1>1, <1>2, <1>3, <2>1 DEF PlacedWell, DoneWell, DAlive, Whole, diskVars, histVars
  <2> QED BY <1>1, <1>2, <2>2, DiskAlone
<1>4. CASE Exits(p, "fail")
  <2>1. dProc'[p] = "fail" /\ place'[p] = "begin"
    BY <1>1, <1>4 DEF Exits, ATypes, DTypes
  <2>2. PlacedWell(p)' /\ DoneWell(p)'
    BY <2>1 DEF PlacedWell, DoneWell
  <2> QED BY <1>1, <1>2, <2>2, DiskAlone
<1> QED BY <1>2, <1>3, <1>4

\* The disk of one asset changes, and the process that changed it.
DiskTypes ==
  /\ part \in [Assets -> Seq({1, 2})] /\ file \in [Assets -> Seq({0, 1, 2})]
  /\ pieces \in [Assets -> SUBSET Pieces] /\ half \in [Assets -> Pieces \cup {NoPiece}]
  /\ harmed \in SUBSET Assets /\ torn \in SUBSET Assets /\ offline \in SUBSET DPids
Others(a) ==
  /\ \A b \in Assets : b # a =>
       /\ part'[b] = part[b] /\ file'[b] = file[b] /\ pieces'[b] = pieces[b] /\ half'[b] = half[b]
       /\ (b \in harmed' <=> b \in harmed) /\ (b \in torn' <=> b \in torn)
  /\ harmed \subseteq harmed' /\ torn \subseteq torn' /\ offline \subseteq offline'

\* What is left of such a step is the script's own.
LEMMA LocalDisk ==
  ASSUME ATypes, DTypes, NEW p \in DPids, Proceeds(p), ScriptKeeps, DiskTypes', Others(p[1])
  PROVE  Local(p)
<1>1. place' \in [DPids -> {"begin", "wb", "ab", "verify", "reverify", "archive", "unpack", "fetch"}]
  BY DEF Proceeds, Exits, ATypes
<1>2. ATypes'
  BY <1>1 DEF ATypes, DiskTypes, ScriptKeeps
<1>3. \A q \in DPids : q # p => dProc'[q] = dProc[q] /\ place'[q] = place[q]
  BY DEF Proceeds, Exits, ATypes, DTypes
<1> QED BY <1>2, <1>3 DEF Local, Others, ScriptKeeps

\* A transfer begins with nothing, or with a .part file of the version it goes on with,
\* or the asset is harmed.
LEMMA ConnectsKeeps ==
  ASSUME AInv, NEW p \in DPids, Script(p),
         NEW c \in {<<>>, part[p[1]]}, NEW mode \in {"wb", "ab"}, Connects(p, c, mode)
  PROVE  AInv'
<1> DEFINE a    == p[1]
           harm == {b \in {a} : c # <<>> /\ c[1] # version[b]}
<1>1. /\ DAlive(p) /\ Proceeds(p) /\ ScriptKeeps /\ DInv' /\ ATypes /\ DTypes /\ a \in Assets
      /\ KeptWell(a)
  BY ScriptFacts
<1>2. /\ IsUrl(a) /\ file[a] = NoFile /\ Goes(p, mode)
      /\ UNCHANGED <<file, pieces, half, torn, offline>>
      /\ part' = [part EXCEPT ![a] = c] /\ harmed' = harmed \cup harm
  BY DEF Connects
<1>3. Local(p) /\ part'[a] = c
  <2>1. c \in Seq({1, 2})
    <3>1. part[a] \in Seq({1, 2}) /\ <<>> \in Seq({1, 2})
      BY <1>1 DEF ATypes
    <3> QED BY <3>1
  <2>2. DiskTypes' /\ Others(a)
    BY <1>1, <1>2, <2>1 DEF DiskTypes, Others, ATypes
  <2>3. Local(p)
    BY <1>1, <2>2, LocalDisk
  <2> QED BY <1>1, <1>2, <2>3 DEF ATypes
<1>4. dProc'[p] = "run" /\ place'[p] = mode /\ kind' = kind /\ version' = version
  BY <1>1, <1>2 DEF Goes, ATypes, DTypes, DAlive, ScriptKeeps
<1>5. a \notin harmed' => a \notin harmed /\ \A i \in 1..Len(c) : c[i] = version[a]
  <2> SUFFICES ASSUME a \notin harmed', NEW i \in 1..Len(c) PROVE c[i] = version[a]
    BY <1>2
  <2>1. c # <<>>
    OBVIOUS
  <2>2. c[1] = version[a] /\ c[i] = c[1]
    BY <1>1, <1>2, <2>1 DEF KeptWell
  <2> QED BY <2>2
<1>6. PlacedWell(p)' /\ DoneWell(p)'
  BY <1>2, <1>3, <1>4, <1>5 DEF PlacedWell, DoneWell, DAlive, IsUrl
<1>7. KeptWell(a)'
  <2>1. ASSUME a \notin harmed', NEW i \in 1..Len(c) PROVE c[i] = c[1]
    <3>1. c = part[a]
      OBVIOUS
    <3> QED BY <1>1, <1>5, <2>1, <3>1 DEF KeptWell
  <2>2. Len(part'[a]) <= FileSize
    BY <1>1, <1>3, FileSizeAssumption DEF KeptWell
  <2> QED BY <1>1, <1>2, <1>3, <1>4, <1>5, <2>1, <2>2 DEF KeptWell, InFolder
<1>8. ~Finished(a)
  BY <1>2 DEF Finished
<1> QED BY <1>1, <1>3, <1>6, <1>7, <1>8, LocalKeeps

\* A .part file grows by a part of the version its transfer began with.
LEMMA ReadsKeeps ==
  ASSUME AInv, NEW p \in DPids, Script(p), ScriptReads(p)
  PROVE  AInv'
<1> DEFINE a == p[1]
           c == Append(part[a], version[a])
<1>1. /\ DAlive(p) /\ Proceeds(p) /\ ScriptKeeps /\ DInv' /\ ATypes /\ DTypes /\ a \in Assets
      /\ KeptWell(a) /\ PlacedWell(p) /\ DoneWell(p)
  BY ScriptFacts
<1>2. /\ place[p] \in {"wb", "ab"} /\ part' = [part EXCEPT ![a] = c]
      /\ UNCHANGED <<dProc, place, file, pieces, half, harmed, torn, offline, kind, version>>
  BY DEF ScriptReads, Reading, At, ScriptKeeps, histVars
<1>3. /\ part[a] \in Seq({1, 2}) /\ version[a] \in {1, 2} /\ c \in Seq({1, 2})
      /\ Len(c) = Len(part[a]) + 1
      /\ \A i \in 1..Len(c) : c[i] = IF i <= Len(part[a]) THEN part[a][i] ELSE version[a]
  BY <1>1 DEF ATypes
<1>4. Local(p) /\ part'[a] = c
  <2>1. DiskTypes' /\ Others(a)
    BY <1>1, <1>2, <1>3 DEF DiskTypes, Others, ATypes
  <2>2. Local(p)
    BY <1>1, <2>1, LocalDisk
  <2> QED BY <1>1, <1>2, <2>2 DEF ATypes
<1>5. /\ IsUrl(a) /\ file[a] = NoFile
      /\ a \notin harmed => \A i \in 1..Len(c) : c[i] = version[a]
  BY <1>1, <1>2, <1>3 DEF PlacedWell
<1>6. PlacedWell(p)' /\ DoneWell(p)'
  BY <1>1, <1>2, <1>4, <1>5 DEF PlacedWell, DoneWell, DAlive, IsUrl
<1>7. KeptWell(a)'
  <2>1. a \notin harmed' => \A i \in 1..Len(part'[a]) : part'[a][i] = part'[a][1]
    BY <1>2, <1>3, <1>4, <1>5
  <2>2. Len(part'[a]) <= FileSize
    BY <1>3, <1>4, FileSizeAssumption DEF ScriptReads
  <2> QED BY <1>1, <1>2, <1>5, <2>1, <2>2 DEF KeptWell, InFolder
<1>8. ~Finished(a)
  BY <1>5 DEF Finished
<1> QED BY <1>1, <1>4, <1>6, <1>7, <1>8, LocalKeeps

\* A .part file gets its name: whole, or cut short and the asset harmed.
LEMMA RenamesKeeps ==
  ASSUME AInv, NEW p \in DPids, Script(p), ScriptRenames(p)
  PROVE  AInv'
<1> DEFINE a == p[1]
<1>1. /\ DAlive(p) /\ Proceeds(p) /\ ScriptKeeps /\ DInv' /\ ATypes /\ DTypes /\ a \in Assets
      /\ KeptWell(a) /\ PlacedWell(p)
  BY ScriptFacts
<1>2. /\ place[p] \in {"wb", "ab"} /\ AfterFile(p, FALSE)
      /\ harmed' = harmed \cup {b \in {a} : Len(part[b]) < FileSize}
      /\ file' = [file EXCEPT ![a] = part[a]] /\ part' = [part EXCEPT ![a] = <<>>]
      /\ UNCHANGED <<pieces, half, torn, offline, kind, version>>
  BY DEF ScriptRenames, Reading, At, ScriptKeeps
<1>3. IsUrl(a) /\ file[a] = NoFile
  BY <1>1, <1>2 DEF PlacedWell
<1>4. part[a] \in Seq({1, 2}) /\ part[a] \in Seq({0, 1, 2}) /\ part[a] # NoFile
  <2>1. part[a] \in Seq({1, 2})
    BY <1>1 DEF ATypes
  <2>2. part[a] # NoFile
    <3> SUFFICES ASSUME part[a] = NoFile PROVE FALSE
      OBVIOUS
    <3>1. Len(part[a]) = 1 /\ part[a][1] = 0
      BY DEF NoFile
    <3>2. \A i \in 1..Len(part[a]) : part[a][i] \in {1, 2}
      BY <2>1, ElementOfSeq
    <3> QED BY <3>1, <3>2
  <2> QED BY <2>1, <2>2
<1>5. Local(p) /\ part'[a] = <<>> /\ file'[a] = part[a]
  <2>1. part' \in [Assets -> Seq({1, 2})]
    <3>1. <<>> \in Seq({1, 2})
      OBVIOUS
    <3> QED BY <1>1, <1>2, <3>1 DEF ATypes
  <2>2. file' \in [Assets -> Seq({0, 1, 2})]
    BY <1>1, <1>2, <1>4 DEF ATypes
  <2>3. DiskTypes' /\ Others(a)
    BY <1>1, <1>2, <2>1, <2>2 DEF DiskTypes, Others, ATypes
  <2>4. Local(p)
    BY <1>1, <2>3, LocalDisk
  <2> QED BY <1>1, <1>2, <2>4 DEF ATypes
<1>6. a \notin harmed' => a \notin harmed /\ Whole(part[a])
  <2> SUFFICES ASSUME a \notin harmed' PROVE Whole(part[a])
    BY <1>2
  <2>1. Len(part[a]) = FileSize
    <3>1. ~(Len(part[a]) < FileSize) /\ Len(part[a]) <= FileSize /\ Len(part[a]) \in Nat
      BY <1>1, <1>2, <1>4 DEF KeptWell
    <3> QED BY <3>1, FileSizeAssumption
  <2>2. \A i \in 1..Len(part[a]) : part[a][i] = part[a][1]
    BY <1>1, <1>2 DEF KeptWell
  <2> QED BY <2>1, <2>2 DEF Whole
<1>7. PlacedWell(p)' /\ DoneWell(p)'
  <2>1. CASE kind[a] = "file"
    <3>1. dProc'[p] = "ok" /\ place'[p] = "begin"
      BY <1>1, <1>2, <2>1 DEF AfterFile, Exits, ATypes, DTypes
    <3>2. (Finished(a) \/ Excused(p))'
      BY <1>2, <1>4, <1>5, <1>6, <2>1 DEF Finished, Excused, Complete, Installed, InFolder, IsUrl
    <3> QED BY <3>1, <3>2 DEF PlacedWell, DoneWell
  <2>2. CASE kind[a] = "checked"
    <3>1. dProc'[p] = "run" /\ place'[p] = "verify"
      BY <1>1, <1>2, <2>2 DEF AfterFile, Goes, ATypes, DTypes, DAlive
    <3> QED BY <1>2, <1>4, <1>5, <2>2, <3>1 DEF PlacedWell, DoneWell, DAlive
  <2>3. CASE kind[a] = "zip"
    <3>1. dProc'[p] = "run" /\ place'[p] = "archive"
      BY <1>1, <1>2, <2>3 DEF AfterFile, Goes, ATypes, DTypes, DAlive
    <3> QED BY <1>2, <1>4, <1>5, <2>3, <3>1 DEF PlacedWell, DoneWell, DAlive
  <2> QED BY <1>3, <2>1, <2>2, <2>3 DEF IsUrl
<1>8. KeptWell(a)'
  <2>1. Len(part'[a]) <= FileSize /\ \A i \in 1..Len(part'[a]) : part'[a][i] = part'[a][1]
    BY <1>5, FileSizeAssumption
  <2>2. a \notin harmed' /\ file'[a] # NoFile => Whole(file'[a])
    BY <1>5, <1>6
  <2>3. ~(kind[a] = "zip" /\ a \notin torn /\ InFolder(a))
    BY <1>1, <1>3 DEF KeptWell
  <2> QED BY <1>1, <1>2, <2>1, <2>2, <2>3 DEF KeptWell, InFolder, Whole
<1>9. ~Finished(a)
  BY <1>3 DEF Finished
<1> QED BY <1>1, <1>5, <1>7, <1>8, <1>9, LocalKeeps

\* The checksum is right, or wrong and a file that was just fetched goes.
LEMMA VerifiesKeeps ==
  ASSUME AInv, NEW p \in DPids, Script(p), ScriptVerifies(p)
  PROVE  AInv'
<1> DEFINE a == p[1]
<1>1. /\ DAlive(p) /\ Proceeds(p) /\ ScriptKeeps /\ DInv' /\ ATypes /\ DTypes /\ a \in Assets
      /\ KeptWell(a) /\ PlacedWell(p)
  BY ScriptFacts
<1>2. /\ place[p] \in {"verify", "reverify"}
      /\ Exits(p, IF Whole(file[a]) THEN "ok" ELSE "fail")
      /\ file' = IF ~Whole(file[a]) /\ place[p] = "verify" THEN [file EXCEPT ![a] = NoFile] ELSE file
      /\ UNCHANGED <<part, pieces, half, harmed, torn, offline, kind, version>>
  BY DEF ScriptVerifies, Verified, At, ScriptKeeps, histVars
<1>3. kind[a] = "checked" /\ file[a] # NoFile
  BY <1>1, <1>2 DEF PlacedWell
<1>4. place'[p] = "begin" /\ dProc'[p] = IF Whole(file[a]) THEN "ok" ELSE "fail"
  BY <1>1, <1>2 DEF Exits, ATypes, DTypes
<1>5. CASE Whole(file[a])
  <2>1. Finished(a)
    BY <1>3, <1>5 DEF Finished, Complete, Installed, InFolder, IsUrl
  <2>2. Finished(a)'
    BY <1>2, <1>5, <2>1 DEF Finished, Complete, Installed, InFolder, IsUrl, Whole
  <2>3. PlacedWell(p)' /\ DoneWell(p)' /\ UNCHANGED <<diskVars, histVars>> /\ place[p] # "unpack"
    BY <1>2, <1>4, <1>5, <2>2 DEF PlacedWell, DoneWell, diskVars, histVars
  <2> QED BY <1>1, <2>3, DiskAlone
<1>6. CASE ~Whole(file[a])
  <2>1. PlacedWell(p)' /\ DoneWell(p)'
    BY <1>4, <1>6 DEF PlacedWell, DoneWell
  <2>2. CASE place[p] = "verify"
    <3>1. DiskTypes' /\ Others(a) /\ file'[a] = NoFile
      BY <1>1, <1>2, <1>6, <2>2 DEF DiskTypes, Others, ATypes, NoFile
    <3>2. Local(p)
      BY <1>1, <3>1, LocalDisk
    <3>3. KeptWell(a)'
      BY <1>1, <1>2, <1>3, <3>1 DEF KeptWell
    <3>4. ~Finished(a)
      BY <1>3, <1>6 DEF Finished, Complete, IsUrl
    <3> QED BY <1>1, <2>1, <3>2, <3>3, <3>4, LocalKeeps
  <2>3. CASE place[p] = "reverify"
    <3>1. UNCHANGED <<diskVars, histVars>> /\ place[p] # "unpack"
      BY <1>2, <2>3 DEF diskVars, histVars
    <3> QED BY <1>1, <2>1, <3>1, DiskAlone
  <2> QED BY <1>2, <2>2, <2>3
<1> QED BY <1>5, <1>6

\* A piece is begun, or it is whole: what that does to the folder.
LEMMA WritesPieceFacts ==
  ASSUME ATypes, NEW p \in DPids, WritesPiece(p), p[1] \in Assets, KeptWell(p[1])
  PROVE  /\ DiskTypes' /\ Others(p[1])
         /\ half'[p[1]] # NoPiece => half'[p[1]] \in Pieces \ pieces'[p[1]]
         /\ ~(pieces[p[1]] = Pieces /\ half[p[1]] = NoPiece)
<1> DEFINE a == p[1]
           Goal == /\ DiskTypes' /\ Others(a)
                   /\ half'[a] # NoPiece => half'[a] \in Pieces \ pieces'[a]
                   /\ ~(pieces[a] = Pieces /\ half[a] = NoPiece)
<1>1. UNCHANGED <<part, file, harmed, torn, offline>>
  BY DEF WritesPiece, histVars
<1>2. ASSUME NEW x \in Pieces \ pieces[a], half' = [half EXCEPT ![a] = x], pieces' = pieces
      PROVE  Goal
  BY <1>1, <1>2 DEF DiskTypes, Others, ATypes
<1>3. ASSUME half[a] # NoPiece, half' = [half EXCEPT ![a] = NoPiece],
             pieces' = [pieces EXCEPT ![a] = pieces[a] \cup {half[a]}]
      PROVE  Goal
  <2>1. half[a] \in Pieces
    BY <1>3 DEF KeptWell
  <2> QED BY <1>1, <1>3, <2>1 DEF DiskTypes, Others, ATypes
<1> QED BY <1>2, <1>3 DEF WritesPiece

\* A member is opened, or it is whole.
LEMMA UnpacksKeeps ==
  ASSUME AInv, NEW p \in DPids, Script(p), ScriptUnpacks(p)
  PROVE  AInv'
<1> DEFINE a == p[1]
<1>1. /\ DAlive(p) /\ Proceeds(p) /\ ScriptKeeps /\ DInv' /\ ATypes /\ DTypes /\ a \in Assets
      /\ KeptWell(a) /\ PlacedWell(p)
  BY ScriptFacts
<1>2. place[p] = "unpack" /\ WritesPiece(p)
      /\ UNCHANGED <<dProc, place, part, file, harmed, torn, offline, kind, version>>
  BY DEF ScriptUnpacks, WritesPiece, At, ScriptKeeps, histVars
<1>3. kind[a] = "zip" /\ file[a] # NoFile /\ Whole(file[a])
  BY <1>1, <1>2 DEF PlacedWell
<1>4. DiskTypes' /\ Others(a) /\ (half'[a] # NoPiece => half'[a] \in Pieces \ pieces'[a])
  BY <1>1, <1>2, WritesPieceFacts
<1>5. Local(p)
  BY <1>1, <1>4, LocalDisk
<1>6. dProc'[p] = "run" /\ PlacedWell(p)' /\ DoneWell(p)'
  BY <1>1, <1>2, <1>3 DEF PlacedWell, DoneWell, DAlive, Whole
<1>7. KeptWell(a)'
  <2>1. Unpacking(a)'
    BY <1>2 DEF Unpacking
  <2> QED BY <1>1, <1>2, <1>3, <1>4, <2>1 DEF KeptWell, Whole
<1>8. ~Finished(a)
  BY <1>1, <1>2, <1>3, WritesPieceFacts DEF Finished, Complete
<1> QED BY <1>1, <1>5, <1>6, <1>7, <1>8, LocalKeeps

\* A file of a snapshot is begun, or moved into place.
LEMMA FetchesKeeps ==
  ASSUME AInv, NEW p \in DPids, Script(p), ScriptFetches(p)
  PROVE  AInv'
<1> DEFINE a == p[1]
<1>1. /\ DAlive(p) /\ Proceeds(p) /\ ScriptKeeps /\ DInv' /\ ATypes /\ DTypes /\ a \in Assets
      /\ KeptWell(a) /\ PlacedWell(p)
  BY ScriptFacts
<1>2. place[p] = "fetch" /\ WritesPiece(p)
      /\ UNCHANGED <<dProc, place, part, file, harmed, torn, offline, kind, version>>
  BY DEF ScriptFetches, WritesPiece, At, ScriptKeeps, histVars
<1>3. kind[a] = "snapshot"
  BY <1>1, <1>2 DEF PlacedWell
<1>4. DiskTypes' /\ Others(a) /\ (half'[a] # NoPiece => half'[a] \in Pieces \ pieces'[a])
  BY <1>1, <1>2, WritesPieceFacts
<1>5. Local(p)
  BY <1>1, <1>4, LocalDisk
<1>6. PlacedWell(p)' /\ DoneWell(p)'
  BY <1>1, <1>2, <1>3 DEF PlacedWell, DoneWell, DAlive
<1>7. KeptWell(a)'
  BY <1>1, <1>2, <1>3, <1>4 DEF KeptWell, Whole
<1>8. ~Finished(a)
  BY <1>1, <1>2, <1>3, WritesPieceFacts DEF Finished, Complete
<1> QED BY <1>1, <1>5, <1>6, <1>7, <1>8, LocalKeeps

\* A script that has all pieces is done.
LEMMA HasAllKeeps ==
  ASSUME AInv, NEW p \in DPids, Script(p), ScriptHasAll(p)
  PROVE  AInv'
<1> DEFINE a == p[1]
<1>1. /\ DAlive(p) /\ Proceeds(p) /\ ScriptKeeps /\ DInv' /\ ATypes /\ DTypes /\ a \in Assets
      /\ KeptWell(a) /\ PlacedWell(p)
  BY ScriptFacts
<1>2. /\ place[p] = "unpack" \/ place[p] = "fetch"
      /\ pieces[a] = Pieces /\ Exits(p, "ok")
      /\ UNCHANGED <<part, file, pieces, half, harmed, torn, offline, kind, version>>
  BY DEF ScriptHasAll, At, ScriptKeeps, diskVars, histVars
<1>3. half[a] = NoPiece
  BY <1>1, <1>2 DEF KeptWell
<1>4. Finished(a)
  <2>1. CASE place[p] = "unpack"
    <3>1. kind[a] = "zip" /\ file[a] # NoFile /\ Whole(file[a])
      BY <1>1, <2>1 DEF PlacedWell
    <3> QED BY <1>2, <1>3, <3>1, NeededAssumption DEF Finished, Complete, Installed, InFolder, IsUrl
  <2>2. CASE place[p] = "fetch"
    <3>1. kind[a] = "snapshot"
      BY <1>1, <2>2 DEF PlacedWell
    <3> QED BY <1>2, <1>3, <3>1, NeededAssumption DEF Finished, Complete, Installed, InFolder, IsUrl
  <2> QED BY <1>2, <2>1, <2>2
<1>5. Finished(a)'
  BY <1>2, <1>4 DEF Finished, Complete, Installed, InFolder, IsUrl, Whole
<1>6. dProc'[p] = "ok" /\ place'[p] = "begin"
  BY <1>1, <1>2 DEF Exits, ATypes, DTypes
<1>7. PlacedWell(p)' /\ DoneWell(p)'
  BY <1>5, <1>6 DEF PlacedWell, DoneWell
<1>8. KeptWell(a)'
  BY <1>1, <1>2, <1>3 DEF KeptWell, InFolder, Whole
<1>9. Local(p)
  <2>1. DiskTypes' /\ Others(a)
    BY <1>1, <1>2 DEF DiskTypes, Others, ATypes
  <2> QED BY <1>1, <2>1, LocalDisk
<1> QED BY <1>1, <1>5, <1>7, <1>8, <1>9, LocalKeeps

\* The list of files is there.
LEMMA ListsKeeps ==
  ASSUME AInv, NEW p \in DPids, Script(p), ScriptLists(p)
  PROVE  AInv'
<1>1. /\ DAlive(p) /\ Proceeds(p) /\ ScriptKeeps /\ DInv' /\ ATypes /\ DTypes /\ p[1] \in Assets
  BY ScriptFacts
<1>2. place[p] = "begin" /\ ~IsUrl(p[1]) /\ Goes(p, "fetch") /\ UNCHANGED <<diskVars, histVars, kind>>
  BY DEF ScriptLists, At, ScriptKeeps
<1>3. kind[p[1]] = "snapshot"
  BY <1>1, <1>2, AssetKindsAssumption DEF IsUrl, ATypes
<1>4. dProc'[p] = "run" /\ place'[p] = "fetch"
  BY <1>1, <1>2 DEF Goes, ATypes, DTypes, DAlive
<1>5. PlacedWell(p)' /\ DoneWell(p)'
  BY <1>2, <1>3, <1>4 DEF PlacedWell, DoneWell, DAlive
<1> QED BY <1>1, <1>2, <1>5, DiskAlone

\* Without a server, the folder is taken as it is.
LEMMA TakesFolderKeeps ==
  ASSUME AInv, NEW p \in DPids, Script(p), ScriptTakesFolder(p)
  PROVE  AInv'
<1> DEFINE a == p[1]
<1>1. /\ DAlive(p) /\ Proceeds(p) /\ ScriptKeeps /\ DInv' /\ ATypes /\ DTypes /\ a \in Assets
      /\ KeptWell(a)
  BY ScriptFacts
<1>2. /\ place[p] = "begin" /\ ~IsUrl(a) /\ Exits(p, "ok") /\ offline' = offline \cup {p}
      /\ UNCHANGED <<part, file, pieces, half, harmed, torn, kind, version>>
  BY DEF ScriptTakesFolder, At, ScriptKeeps, diskVars
<1>3. kind[a] = "snapshot"
  BY <1>1, <1>2, AssetKindsAssumption DEF IsUrl, ATypes
<1>4. dProc'[p] = "ok" /\ place'[p] = "begin"
  BY <1>1, <1>2 DEF Exits, ATypes, DTypes
<1>5. PlacedWell(p)' /\ DoneWell(p)'
  BY <1>2, <1>3, <1>4 DEF PlacedWell, DoneWell, Excused
<1>6. KeptWell(a)'
  BY <1>1, <1>2, <1>3 DEF KeptWell, Whole
<1>7. DiskTypes' /\ Others(a)
  BY <1>1, <1>2 DEF DiskTypes, Others, ATypes
<1>8. Local(p)
  BY <1>1, <1>7, LocalDisk
<1>9. Finished(a) => Finished(a)'
  BY <1>2 DEF Finished, Complete, Installed, InFolder, IsUrl, Whole
<1> QED BY <1>1, <1>5, <1>6, <1>8, <1>9, LocalKeeps

\* A write fails: an archive with something unpacked is torn.
LEMMA CannotWriteKeeps ==
  ASSUME AInv, NEW p \in DPids, Script(p), ScriptCannotWrite(p)
  PROVE  AInv'
<1> DEFINE a == p[1]
<1>1. /\ DAlive(p) /\ Proceeds(p) /\ ScriptKeeps /\ DInv' /\ ATypes /\ DTypes /\ a \in Assets
      /\ KeptWell(a)
  BY ScriptFacts
<1>2. /\ place[p] \in {"wb", "ab", "fetch", "unpack"} /\ Exits(p, "fail")
      /\ torn' = torn \cup {b \in {a} : place[p] = "unpack" /\ InFolder(b)}
      /\ UNCHANGED <<part, file, pieces, half, harmed, offline, kind, version>>
  BY DEF ScriptCannotWrite, Reading, At, ScriptKeeps, diskVars
<1>3. dProc'[p] = "fail" /\ place'[p] = "begin"
  BY <1>1, <1>2 DEF Exits, ATypes, DTypes
<1>4. PlacedWell(p)' /\ DoneWell(p)'
  BY <1>3 DEF PlacedWell, DoneWell
<1>5. DiskTypes' /\ Others(a)
  BY <1>1, <1>2 DEF DiskTypes, Others, ATypes
<1>6. Local(p)
  BY <1>1, <1>5, LocalDisk
<1>7. KeptWell(a)'
  <2>1. ASSUME a \notin torn', InFolder(a), Unpacking(a) PROVE Unpacking(a)'
    <3>1. PICK q \in DPids : q[1] = a /\ place[q] = "unpack"
      BY <2>1 DEF Unpacking
    <3>2. q # p
      BY <1>2, <2>1, <3>1
    <3> QED BY <1>6, <3>1, <3>2 DEF Local, Unpacking
  <2> QED BY <1>1, <1>2, <2>1 DEF KeptWell, InFolder, Whole
<1>8. Finished(a) => Finished(a)'
  BY <1>2 DEF Finished, Complete, Installed, InFolder, IsUrl, Whole
<1> QED BY <1>1, <1>4, <1>6, <1>7, <1>8, LocalKeeps

\* Every step of a script.
LEMMA ScriptKeepsInv ==
  ASSUME AInv, NEW p \in DPids, Script(p)
  PROVE  AInv'
<1>1. ASSUME NEW c \in {<<>>, part[p[1]]}, NEW mode \in {"wb", "ab"}, Connects(p, c, mode)
      PROVE  AInv'
  BY <1>1, ConnectsKeeps
<1>2. CASE ScriptBegins(p) \/ ScriptResumes(p) \/ ScriptRestarts(p)
  BY <1>1, <1>2 DEF ScriptBegins, ScriptResumes, ScriptRestarts, Appended
<1> QED BY <1>2, SkipsKeeps, FailureKeeps, ReadsKeeps, RenamesKeeps, VerifiesKeeps,
           FindsUnpackedKeeps, OpensArchiveKeeps, UnpacksKeeps, FetchesKeeps, HasAllKeeps,
           ListsKeeps, TakesFolderKeeps, CannotWriteKeeps
        DEF Script

\* The app and the page do nothing to a process but start it and kill it.
LEMMA AppProcesses ==
  ASSUME DInv, DMain \/ (\E p \in DPids : DThread(p)) \/ (\E s \in Askers : DStop(s)) \/ DPage
  PROVE  \A q \in DPids : \/ dProc'[q] = dProc[q]
                          \/ dProc[q] = "run" /\ dProc'[q] = "killed"
                          \/ dProc[q] = "none" /\ dProc'[q] = "run"
<1> DEFINE Goal == \A q \in DPids : \/ dProc'[q] = dProc[q]
                                    \/ dProc[q] = "run" /\ dProc'[q] = "killed"
                                    \/ dProc[q] = "none" /\ dProc'[q] = "run"
<1>1. CASE DMain
  <2>1. CASE DCallRefused \/ DCallAnnounces
    BY <2>1 DEF DCallRefused, DCallAnnounces, dSupVars
  <2>2. CASE DCallSpawns
    <3> DEFINE a == Head(dCalls)
               n == dCount[a] + 1
    <3>1. /\ a \in Assets /\ dCount[a] \in Nat /\ n <= MaxDownloads
          /\ dProc' = [dProc EXCEPT ![<<a, n>>] = "run"]
      BY <2>2, DownloadBounds DEF DCallSpawns, DInv, DTypes
    <3>2. <<a, n>> \in DPids
      BY <3>1, DownloadBounds DEF DPids
    <3>3. dProc[<<a, n>>] = "none"
      BY <3>1, <3>2 DEF DInv, DFreshInv
    <3> HIDE DEF a, n
    <3> QED BY <3>1, <3>3 DEF DInv, DTypes
  <2> QED BY <1>1, <2>1, <2>2 DEF DMain
<1>2. ASSUME NEW p \in DPids, DThread(p) PROVE Goal
  BY <1>2 DEF DThread, DReaderSends, DWaiterRemoves, DWaiterReports
<1>3. ASSUME NEW s \in Askers, DStop(s) PROVE Goal
  <2>1. CASE DStopReads(s) \/ DStopFails(s) \/ DStopPauses(s)
    BY <2>1 DEF DStopReads, DStopFails, DStopPauses, dSupVars
  <2>2. CASE DStopKills(s)
    <3> DEFINE x == <<dAsset[s], dPid[s]>>
    <3>1. DAlive(x) /\ dProc' = [dProc EXCEPT ![x] = "killed"]
      BY <2>2 DEF DStopKills
    <3> HIDE DEF x
    <3> QED BY <3>1 DEF DAlive, DInv, DTypes
  <2> QED BY <1>3, <2>1, <2>2 DEF DStop
<1>4. CASE DPage
  BY <1>4 DEF DPage, PageAsksStart, PageAsksStop, PageReceives, dSupVars
<1> QED BY <1>1, <1>2, <1>3, <1>4

\* A kill harms an archive that is being unpacked, and nothing else.
LEMMA AppKeeps == AInv /\ AppSteps => AInv' /\ [DNext]_dvars
<1> SUFFICES ASSUME AInv, AppSteps PROVE AInv' /\ DNext
  OBVIOUS
<1>1. /\ DMain \/ (\E p \in DPids : DThread(p)) \/ (\E s \in Askers : DStop(s)) \/ DPage
      /\ torn' = torn \cup {p[1] : p \in {q \in DPids :
                                TornBy(q) /\ dProc[q] = "run" /\ dProc'[q] = "killed"}}
      /\ place' = [p \in DPids |-> IF dProc'[p] = "killed" THEN "begin" ELSE place[p]]
      /\ UNCHANGED <<kind, version, part, file, pieces, half, harmed, offline>>
  BY DEF AppSteps, diskVars, histVars
<1>2. DNext /\ DInv'
  <2>1. DNext
    BY <1>1 DEF DNext
  <2> QED BY <2>1, DStepKeeps DEF AInv
<1>3. \A q \in DPids : \/ dProc'[q] = dProc[q]
                       \/ dProc[q] = "run" /\ dProc'[q] = "killed"
                       \/ dProc[q] = "none" /\ dProc'[q] = "run"
  BY <1>1, AppProcesses DEF AInv
<1>4. ATypes'
  <2>1. torn' \in SUBSET Assets
    BY <1>1, DPidFacts DEF AInv, ATypes
  <2>2. place' \in [DPids -> {"begin", "wb", "ab", "verify", "reverify", "archive", "unpack", "fetch"}]
    BY <1>1 DEF AInv, ATypes
  <2> QED BY <1>1, <2>1, <2>2 DEF AInv, ATypes
<1>5. ASSUME NEW q \in DPids PROVE PlacedWell(q)' /\ DoneWell(q)'
  <2>1. PlacedWell(q) /\ DoneWell(q) /\ torn \subseteq torn'
    BY <1>1 DEF AInv
  <2>2. place'[q] # "begin" => place'[q] = place[q] /\ DAlive(q)'
    BY <1>1, <1>3, <2>1 DEF PlacedWell, DAlive
  <2>3. PlacedWell(q)'
    BY <1>1, <2>1, <2>2 DEF PlacedWell, IsUrl, Whole
  <2>4. dProc'[q] = "ok" => dProc[q] = "ok"
    BY <1>3
  <2>5. Finished(q[1]) => Finished(q[1])'
    BY <1>1 DEF Finished, Complete, Installed, InFolder, IsUrl, Whole
  <2>6. Excused(q) => Excused(q)'
    BY <1>1, <2>1 DEF Excused
  <2> QED BY <2>1, <2>3, <2>4, <2>5, <2>6 DEF DoneWell
<1>6. ASSUME NEW a \in Assets PROVE KeptWell(a)'
  <2>1. KeptWell(a) /\ torn \subseteq torn'
    BY <1>1 DEF AInv
  <2>2. ASSUME a \notin torn', InFolder(a), pieces[a] # Pieces, Unpacking(a) PROVE Unpacking(a)'
    <3>1. PICK q \in DPids : q[1] = a /\ place[q] = "unpack"
      BY <2>2 DEF Unpacking
    <3>2. TornBy(q) /\ dProc[q] = "run"
      BY <2>2, <3>1 DEF TornBy, AInv, PlacedWell, DAlive
    <3>3. dProc'[q] # "killed"
      BY <1>1, <2>2, <3>1, <3>2
    <3> QED BY <1>1, <3>1, <3>3 DEF Unpacking
  <2> QED BY <1>1, <2>1, <2>2 DEF KeptWell, InFolder, Whole
<1> QED BY <1>2, <1>4, <1>5, <1>6 DEF AInv

\* The server changes a file between two downloads of it.
LEMMA ServerKeeps ==
  ASSUME AInv, NEW a \in Assets, ServerChanges(a)
  PROVE  AInv' /\ [DNext]_dvars
<1>1. /\ kind[a] = "file" /\ \A n \in 1..MaxDownloads : ~DAlive(<<a, n>>)
      /\ version' = [version EXCEPT ![a] = 2]
      /\ UNCHANGED <<dvars, kind, place, part, file, pieces, half, harmed, torn, offline>>
  BY DEF ServerChanges, diskVars, histVars
<1>2. UNCHANGED <<downloads, dCount, dProc, dWaiter, dLaunch, dCalls>>
  BY <1>1 DEF dvars, dSupVars, dPageVars
<1>3. DInv'
  BY <1>2, DQuietKeeps DEF AInv, DInv, DTypes
<1>4. ATypes'
  BY <1>1 DEF AInv, ATypes
<1>5. ASSUME NEW q \in DPids PROVE PlacedWell(q)' /\ DoneWell(q)'
  <2>1. PlacedWell(q) /\ DoneWell(q)
    BY DEF AInv
  <2>2. place[q] # "begin" => q[1] # a
    BY <1>1, <2>1, DPidFacts DEF PlacedWell
  <2>3. q[1] # a => version'[q[1]] = version[q[1]]
    BY <1>1, DPidFacts DEF AInv, ATypes
  <2>4. PlacedWell(q)'
    BY <1>1, <1>2, <2>1, <2>2, <2>3 DEF PlacedWell, IsUrl, Whole, DAlive
  <2>5. DoneWell(q)'
    BY <1>1, <1>2, <2>1 DEF DoneWell, Finished, Excused, Complete, Installed, InFolder, IsUrl, Whole
  <2> QED BY <2>4, <2>5
<1>6. ASSUME NEW b \in Assets PROVE KeptWell(b)'
  <2>1. KeptWell(b)
    BY DEF AInv
  <2>2. Unpacking(b) => Unpacking(b)'
    BY <1>1 DEF Unpacking
  <2> QED BY <1>1, <2>1, <2>2 DEF KeptWell, InFolder, Whole
<1> QED BY <1>1, <1>3, <1>4, <1>5, <1>6 DEF AInv

\* No step at all.
LEMMA StutterKeeps == AInv /\ UNCHANGED assetVars => AInv' /\ UNCHANGED dvars
<1> SUFFICES ASSUME AInv, UNCHANGED assetVars PROVE AInv' /\ UNCHANGED dvars
  OBVIOUS
<1>1. /\ UNCHANGED dvars
      /\ UNCHANGED <<downloads, dCount, dProc, dWaiter, dLaunch, dCalls>>
      /\ UNCHANGED <<kind, place, version, part, file, pieces, half, harmed, torn, offline>>
  BY DEF assetVars, fileVars, diskVars, histVars, dvars, dSupVars, dPageVars
<1>2. DInv'
  BY <1>1, DQuietKeeps DEF AInv, DInv, DTypes
<1>3. ATypes'
  BY <1>1 DEF AInv, ATypes
<1>4. ASSUME NEW p \in DPids PROVE PlacedWell(p)' /\ DoneWell(p)'
  <2>1. PlacedWell(p)'
    BY <1>1 DEF AInv, PlacedWell, DAlive, IsUrl, Whole
  <2>2. DoneWell(p)'
    BY <1>1 DEF AInv, DoneWell, Finished, Excused, Complete, Installed, InFolder, IsUrl, Whole
  <2> QED BY <2>1, <2>2
<1>5. \A a \in Assets : KeptWell(a)'
  <2>1. \A a \in Assets : Unpacking(a) => Unpacking(a)'
    BY <1>1 DEF Unpacking
  <2> QED BY <1>1, <2>1 DEF AInv, KeptWell, InFolder, Whole
<1> QED BY <1>1, <1>2, <1>3, <1>4, <1>5 DEF AInv

\* Every step keeps the invariant and is one of Downloads.
LEMMA AStepKeeps == AInv /\ [ANext]_assetVars => AInv' /\ [DNext]_dvars
<1> SUFFICES ASSUME AInv, [ANext]_assetVars PROVE AInv' /\ [DNext]_dvars
  OBVIOUS
<1>1. CASE AppSteps
  BY <1>1, AppKeeps
<1>2. ASSUME NEW p \in DPids, Script(p) PROVE AInv' /\ [DNext]_dvars
  BY <1>2, ScriptFacts, ScriptKeepsInv
<1>3. ASSUME NEW a \in Assets, ServerChanges(a) PROVE AInv' /\ [DNext]_dvars
  BY <1>3, ServerKeeps
<1>4. CASE UNCHANGED assetVars
  BY <1>4, StutterKeeps
<1> QED BY <1>1, <1>2, <1>3, <1>4 DEF ANext

-----------------------------------------------------------------------------
\* What the table, the scripts and the disk say of each other stays true.
THEOREM AssetsKeepInvariant == ASpec => []AInv
<1>1. AInv /\ [ANext]_assetVars => AInv'
  BY AStepKeeps
<1> QED BY <1>1, AInitHolds, PTL DEF ASpec

\* The script, step by step on disk, is the process that Downloads starts and kills:
\* what is true of every behaviour of Downloads is true of the two together.
THEOREM ScriptsImplementDownloads == ASpec => DInit /\ [][DNext]_dvars
<1>1. AInit => DInit
  BY DEF AInit
<1>2. AInv /\ [ANext]_assetVars => AInv' /\ [DNext]_dvars
  BY AStepKeeps
<1> QED BY <1>1, <1>2, AInitHolds, PTL DEF ASpec

\* No two processes write one .part file.
THEOREM OneWriterHolds == ASpec => []OneWriterPerAsset
<1>1. AInv => OneWriterPerAsset
  BY OwnersAlone DEF AInv
<1> QED BY <1>1, AssetsKeepInvariant, PTL

\* What is reported done is whole and found, but for the one exception of each kind of asset.
THEOREM FilesAreWholeHolds == ASpec => []FilesAreWhole
<1>1. AInv => FilesAreWhole
  BY DEF AInv, DoneWell, Finished, Excused, FilesAreWhole
<1> QED BY <1>1, AssetsKeepInvariant, PTL

-----------------------------------------------------------------------------
\* A sequence begins what is appended to it.
LEMMA PrefixFacts ==
  ASSUME NEW S, NEW s \in Seq(S), NEW e \in S
  PROVE  IsPrefix(s, s) /\ IsPrefix(s, Append(s, e))
<1>1. IsPrefix(s, s)
  BY DEF IsPrefix
<1>2. Len(s) <= Len(Append(s, e)) /\ SubSeq(s, 1, Len(s)) = SubSeq(Append(s, e), 1, Len(s))
  OBVIOUS
<1> QED BY <1>1, <1>2 DEF IsPrefix

\* An asset nothing happens to keeps everything.
LEMMA SameKept ==
  ASSUME ATypes, NEW a \in Assets,
         part'[a] = part[a], file'[a] = file[a], pieces'[a] = pieces[a]
  PROVE  Kept(a)
<1>1. part[a] \in Seq({1, 2})
  BY DEF ATypes
<1>2. IsPrefix(part[a], part'[a])
  BY <1>1, PrefixFacts
<1> QED BY <1>2 DEF Kept

\* What a step of the script does to its own asset.
LEMMA ScriptProgress ==
  ASSUME AInv, NEW p \in DPids, Script(p), p[1] \in Assets
  PROVE  Kept(p[1])
<1> DEFINE a == p[1]
<1>1. ATypes /\ DTypes /\ PlacedWell(p) /\ part[a] \in Seq({1, 2}) /\ version[a] \in {1, 2}
  BY ScriptFacts DEF ATypes
<1>2. IsPrefix(part[a], part[a]) /\ IsPrefix(part[a], Append(part[a], version[a]))
  BY <1>1, PrefixFacts
<1>3. CASE UNCHANGED diskVars
  BY <1>1, <1>3, SameKept DEF diskVars, histVars
<1>4. CASE ScriptBegins(p) \/ ScriptRestarts(p)
  <2>1. place[p] = "begin" /\ place'[p] = "wb" /\ UNCHANGED <<file, pieces>>
    BY <1>1, <1>4 DEF ScriptBegins, ScriptRestarts, Connects, At, Goes, ATypes
  <2> QED BY <2>1 DEF Kept
<1>5. CASE ScriptResumes(p)
  <2>1. part' = [part EXCEPT ![a] = part[a]] /\ UNCHANGED <<file, pieces>>
    BY <1>5 DEF ScriptResumes, Connects, Appended
  <2> QED BY <1>1, <2>1, SameKept DEF ATypes
<1>6. CASE ScriptReads(p)
  <2>1. part'[a] = Append(part[a], version[a]) /\ UNCHANGED <<file, pieces>>
    BY <1>1, <1>6 DEF ScriptReads, ATypes
  <2> QED BY <1>2, <2>1 DEF Kept
<1>7. CASE ScriptRenames(p)
  <2>1. /\ part'[a] = <<>> /\ file'[a] = part[a] /\ UNCHANGED pieces
        /\ file[a] = NoFile
    BY <1>1, <1>7 DEF ScriptRenames, Reading, At, PlacedWell, ATypes
  <2> QED BY <2>1 DEF Kept
<1>8. CASE ScriptVerifies(p)
  <2>1. kind[a] = "checked" /\ UNCHANGED <<part, pieces>>
    BY <1>1, <1>8 DEF ScriptVerifies, At, PlacedWell
  <2>2. file'[a] = file[a] \/ ~Whole(file[a])
    BY <1>8 DEF ScriptVerifies, Verified
  <2> QED BY <1>2, <2>1, <2>2 DEF Kept
<1>9. CASE ScriptUnpacks(p) \/ ScriptFetches(p)
  <2>1. pieces[a] \subseteq pieces'[a] /\ UNCHANGED <<part, file>>
    BY <1>1, <1>9 DEF ScriptUnpacks, ScriptFetches, WritesPiece, ATypes
  <2> QED BY <1>2, <2>1 DEF Kept
<1> QED BY <1>3, <1>4, <1>5, <1>6, <1>7, <1>8, <1>9
        DEF Script, ScriptSkips, ScriptRefused, ScriptFindsUnpacked, ScriptOpensArchive,
            ScriptHasAll, ScriptLists, ScriptTakesFolder, ScriptLosesServer, ScriptCannotWrite

\* Whatever is killed, lost or started again, nothing that was downloaded is lost.
THEOREM ProgressKeptHolds == ASpec => ProgressKept
<1>1. ASSUME AInv, [ANext]_assetVars, NEW a \in Assets PROVE Kept(a)
  <2>1. ATypes
    BY <1>1 DEF AInv
  <2>2. CASE UNCHANGED diskVars
    BY <2>1, <2>2, SameKept DEF diskVars, histVars
  <2>3. ASSUME NEW p \in DPids, Script(p) PROVE Kept(a)
    <3>1. p[1] = a => Kept(a)
      BY <1>1, <2>3, ScriptProgress
    <3>2. p[1] # a => part'[a] = part[a] /\ file'[a] = file[a] /\ pieces'[a] = pieces[a]
      BY <2>1, <2>3
         DEF ATypes, Script, ScriptSkips, ScriptBegins, ScriptResumes, ScriptRestarts, Connects,
             ScriptRefused, ScriptReads, ScriptRenames, ScriptVerifies, ScriptFindsUnpacked,
             ScriptOpensArchive, ScriptUnpacks, ScriptFetches, WritesPiece, ScriptHasAll,
             ScriptLists, ScriptTakesFolder, ScriptLosesServer, ScriptCannotWrite, diskVars, histVars
    <3> QED BY <2>1, <3>1, <3>2, SameKept
  <2> QED BY <1>1, <2>2, <2>3 DEF ANext, AppSteps, ServerChanges, assetVars, fileVars
<1>2. AInv /\ [ANext]_assetVars => [\A a \in Assets : Kept(a)]_assetVars
  BY <1>1
<1>3. ASpec => []AInv /\ [][ANext]_assetVars
  BY AssetsKeepInvariant, PTL DEF ASpec
<1> QED BY <1>2, <1>3, PTL DEF ProgressKept
=============================================================================
