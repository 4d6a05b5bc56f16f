----------------------------- MODULE AssetFiles -----------------------------
(***************************************************************************)
(* What model downloads leave on disk: the script                          *)
(* python_backend/download_assets.py as the process of a download of       *)
(* Downloads, which may be killed after any of its steps and is started    *)
(* again without --force, and the page's check of what is installed        *)
(* (desktop/src-tauri/src/assets.rs).                                      *)
(*                                                                         *)
(* A file is read in FileSize parts, each known by the version of the      *)
(* server's file it comes from.  Pieces are the members of an archive or   *)
(* the files of a snapshot, written one after another: the threads of      *)
(* huggingface_hub, which write several at a time, are left out.           *)
(***************************************************************************)
EXTENDS Downloads

CONSTANTS
  AssetKinds,  \* of "file", "checked" (with a sha256), "zip", "snapshot"
  FileSize,    \* parts of a file: what one response.read() returns
  Pieces,      \* members of an archive, files of a snapshot
  Needed,      \* the pieces the page's check asks for: required_files(), two programs
  Mishaps      \* of the network, "lost", "short", "norange", "changed", and the disk, "disk"

ASSUME AssetKindsAssumption == AssetKinds \subseteq {"file", "checked", "zip", "snapshot"}
ASSUME FileSizeAssumption   == FileSize \in Nat \ {0}
ASSUME NeededAssumption     == Needed \subseteq Pieces /\ Pieces # {}
ASSUME MishapsAssumption    == Mishaps \subseteq {"lost", "short", "norange", "changed", "disk"}

NoFile  == <<0>>  \* no content: versions begin with 1
NoPiece == "no piece"

VARIABLES
  kind,    \* how each asset is downloaded
  place,   \* where each script is: begin, wb, ab, reverify, verify, archive, unpack, fetch
  version, \* of the file on the server
  part,    \* the .part file, <<>> also without one
  file,    \* the file under its own name
  pieces,  \* pieces whole under their names
  half,    \* the piece that is being written
  harmed,  \* history: files cut short, or whose server's file changed under a .part file
  torn,    \* history: archives whose unpacking was killed or failed half way
  offline  \* history: scripts that found no server and took the folder that was there

diskVars == <<part, file, pieces, half>>
histVars == <<harmed, torn, offline>>
fileVars == <<kind, place, version, diskVars, histVars>>
assetVars == <<dvars, fileVars>>

AInit ==
  /\ DInit
  /\ kind \in [Assets -> AssetKinds]
  /\ place = [p \in DPids |-> "begin"]
  /\ version = [a \in Assets |-> 1]
  /\ part = [a \in Assets |-> <<>>]
  /\ file = [a \in Assets |-> NoFile]
  /\ pieces = [a \in Assets |-> {}]
  /\ half = [a \in Assets |-> NoPiece]
  /\ harmed = {} /\ torn = {} /\ offline = {}

Whole(content)  == Len(content) = FileSize /\ \A i \in 1..FileSize : content[i] = content[1]
InFolder(a)     == pieces[a] # {} \/ half[a] # NoPiece

-----------------------------------------------------------------------------
At(p, step)    == DAlive(p) /\ place[p] = step
Goes(p, step)  == place' = [place EXCEPT ![p] = step] /\ UNCHANGED dProc
Exits(p, how)  == dProc' = [dProc EXCEPT ![p] = how] /\ place' = [place EXCEPT ![p] = "begin"]
ScriptKeeps    == UNCHANGED <<downloads, dCount, dWaiter, dLaunch, printed, dAskVars, dPageVars,
                              chan, kind, version>>
\* What comes once the file is there.
AfterFile(p, existed) ==
  CASE kind[p[1]] = "file"    -> Exits(p, "ok")
    [] kind[p[1]] = "checked" -> Goes(p, IF existed THEN "reverify" ELSE "verify")
    [] kind[p[1]] = "zip"     -> Goes(p, "archive")

IsUrl(a) == kind[a] \in {"file", "checked", "zip"}

\* download_url: "Already exists".
ScriptSkips(p) ==
  /\ At(p, "begin") /\ IsUrl(p[1]) /\ file[p[1]] # NoFile
  /\ AfterFile(p, TRUE)
  /\ UNCHANGED <<diskVars, histVars>>
  /\ ScriptKeeps

\* Where a 206 goes on from; mutated: the .part file is opened for writing.
Overwritten(content) == <<>>
Appended(content)    == content

\* The open mode: "ab" goes on with the .part file, "wb" begins it anew.
Connects(p, content, mode) ==
  /\ At(p, "begin") /\ IsUrl(p[1]) /\ file[p[1]] = NoFile
  /\ part' = [part EXCEPT ![p[1]] = content]
  /\ harmed' = harmed \cup {a \in {p[1]} : content # <<>> /\ content[1] # version[a]}
  /\ Goes(p, mode)
  /\ UNCHANGED <<file, pieces, half, torn, offline>>
  /\ ScriptKeeps

\* 200 without a .part file, 206 with one.
ScriptBegins(p)  == part[p[1]] = <<>> /\ Connects(p, <<>>, "wb")
ScriptResumes(p) == Len(part[p[1]]) \in 1..(FileSize - 1) /\ Connects(p, Appended(part[p[1]]), "ab")

\* The server ignores Range: the .part file is removed.
ScriptRestarts(p) == part[p[1]] # <<>> /\ "norange" \in Mishaps /\ Connects(p, <<>>, "wb")

\* 416: there is nothing after a .part file that is whole.
ScriptRefused(p) ==
  /\ At(p, "begin") /\ IsUrl(p[1]) /\ file[p[1]] = NoFile
  /\ Len(part[p[1]]) >= FileSize
  /\ Exits(p, "fail")
  /\ UNCHANGED <<diskVars, histVars>>
  /\ ScriptKeeps

Reading(p) == At(p, "wb") \/ At(p, "ab")

ScriptReads(p) ==
  /\ Reading(p) /\ Len(part[p[1]]) < FileSize
  /\ part' = [part EXCEPT ![p[1]] = Append(@, version[p[1]])]
  /\ UNCHANGED <<dProc, place, file, pieces, half, histVars>>
  /\ ScriptKeeps

\* read() returns nothing, the file being whole or the connection closed early: the
\* .part file gets its name.
ScriptRenames(p) ==
  /\ Reading(p)
  /\ Len(part[p[1]]) = FileSize \/ "short" \in Mishaps
  /\ harmed' = harmed \cup {a \in {p[1]} : Len(part[a]) < FileSize}
  /\ file' = [file EXCEPT ![p[1]] = part[p[1]]]
  /\ part' = [part EXCEPT ![p[1]] = <<>>]
  /\ AfterFile(p, FALSE)
  /\ UNCHANGED <<pieces, half, torn, offline>>
  /\ ScriptKeeps

\* The sha256 of the file; mutated: a file that was there is trusted.
TrustsOld(p) == place[p] = "reverify" \/ Whole(file[p[1]])
Verified(p)  == Whole(file[p[1]])

\* A file that was just fetched is removed if it is wrong, an old one left.
ScriptVerifies(p) ==
  /\ At(p, "verify") \/ At(p, "reverify")
  /\ Exits(p, IF Verified(p) THEN "ok" ELSE "fail")
  /\ file' = IF ~Verified(p) /\ place[p] = "verify" THEN [file EXCEPT ![p[1]] = NoFile] ELSE file
  /\ UNCHANGED <<part, pieces, half, histVars>>
  /\ ScriptKeeps

(* extract_zip. *)

\* "Already extracted", whatever is there.
ScriptFindsUnpacked(p) ==
  /\ At(p, "archive") /\ InFolder(p[1])
  /\ Exits(p, "ok")
  /\ UNCHANGED <<diskVars, histVars>>
  /\ ScriptKeeps

\* An archive that was cut short has no directory and cannot be opened.
ScriptOpensArchive(p) ==
  /\ At(p, "archive") /\ ~InFolder(p[1])
  /\ IF Whole(file[p[1]]) THEN Goes(p, "unpack") ELSE Exits(p, "fail")
  /\ UNCHANGED <<diskVars, histVars>>
  /\ ScriptKeeps

\* A piece is begun, or whole under its name.
WritesPiece(p) ==
  /\ \/ /\ half[p[1]] = NoPiece
        /\ \E x \in Pieces \ pieces[p[1]] : half' = [half EXCEPT ![p[1]] = x]
        /\ UNCHANGED pieces
     \/ /\ half[p[1]] # NoPiece
        /\ pieces' = [pieces EXCEPT ![p[1]] = @ \cup {half[p[1]]}]
        /\ half' = [half EXCEPT ![p[1]] = NoPiece]
  /\ UNCHANGED <<dProc, place, part, file, histVars>>
  /\ ScriptKeeps

ScriptUnpacks(p) == At(p, "unpack") /\ WritesPiece(p)

(* snapshot_download, which skips what is there. *)

\* The Hub is asked for the list of files.
ScriptLists(p) ==
  /\ At(p, "begin") /\ ~IsUrl(p[1])
  /\ Goes(p, "fetch")
  /\ UNCHANGED <<diskVars, histVars>>
  /\ ScriptKeeps

\* It cannot be reached: a local_dir with anything in it is returned with a warning, and
\* the script says "Done".
ScriptTakesFolder(p) ==
  /\ "lost" \in Mishaps
  /\ At(p, "begin") /\ ~IsUrl(p[1]) /\ InFolder(p[1])
  /\ offline' = offline \cup {p}
  /\ Exits(p, "ok")
  /\ UNCHANGED <<diskVars, harmed, torn>>
  /\ ScriptKeeps

\* The .incomplete file of a download that broke off goes on.
ScriptFetches(p) == At(p, "fetch") /\ WritesPiece(p)

ScriptHasAll(p) ==
  /\ At(p, "unpack") \/ At(p, "fetch")
  /\ pieces[p[1]] = Pieces
  /\ Exits(p, "ok")
  /\ UNCHANGED <<diskVars, histVars>>
  /\ ScriptKeeps

(* What fails with an error. *)

\* The server cannot be reached, or a transfer breaks off.  The address of an archive is
\* asked for before anything else; a snapshot fails only with an empty folder.
ScriptLosesServer(p) ==
  /\ "lost" \in Mishaps
  /\ \/ Reading(p) \/ At(p, "fetch")
     \/ At(p, "begin") /\ IsUrl(p[1]) /\ (file[p[1]] = NoFile \/ kind[p[1]] = "zip")
     \/ At(p, "begin") /\ ~IsUrl(p[1]) /\ ~InFolder(p[1])
  /\ Exits(p, "fail")
  /\ UNCHANGED <<diskVars, histVars>>
  /\ ScriptKeeps

\* The disk is full or a file locked: what was written before stays.
ScriptCannotWrite(p) ==
  /\ "disk" \in Mishaps
  /\ Reading(p) \/ At(p, "fetch") \/ At(p, "unpack")
  /\ ~Reading(p) => pieces[p[1]] # Pieces
  /\ torn' = torn \cup {a \in {p[1]} : place[p] = "unpack" /\ InFolder(a)}
  /\ Exits(p, "fail")
  /\ UNCHANGED <<diskVars, harmed, offline>>
  /\ ScriptKeeps

Script(p) ==
  \/ ScriptSkips(p) \/ ScriptBegins(p) \/ ScriptResumes(p) \/ ScriptRestarts(p) \/ ScriptRefused(p)
  \/ ScriptReads(p) \/ ScriptRenames(p) \/ ScriptVerifies(p)
  \/ ScriptFindsUnpacked(p) \/ ScriptOpensArchive(p) \/ ScriptUnpacks(p)
  \/ ScriptLists(p) \/ ScriptTakesFolder(p) \/ ScriptFetches(p) \/ ScriptHasAll(p)
  \/ ScriptLosesServer(p) \/ ScriptCannotWrite(p)

\* A file that is not pinned to a revision is replaced on the server.  A reply under
\* way stays what it was, so it matters only between two downloads of it.
ServerChanges(a) ==
  /\ "changed" \in Mishaps /\ kind[a] = "file" /\ version[a] = 1
  /\ part[a] # <<>> /\ \A n \in 1..MaxDownloads : ~DAlive(<<a, n>>)
  /\ version' = [version EXCEPT ![a] = 2]
  /\ UNCHANGED <<dvars, kind, place, diskVars, histVars>>

\* Steps of Downloads leave the disk alone; a kill may leave an archive half unpacked.
TornBy(p) == place[p] = "unpack" /\ InFolder(p[1]) /\ pieces[p[1]] # Pieces
AppSteps ==
  /\ \/ DMain \/ \E p \in DPids : DThread(p)
     \/ \E s \in Askers : DStop(s)
     \/ DPage
  /\ torn' = torn \cup {p[1] : p \in {q \in DPids :
                            TornBy(q) /\ dProc[q] = "run" /\ dProc'[q] = "killed"}}
  /\ place' = [p \in DPids |-> IF dProc'[p] = "killed" THEN "begin" ELSE place[p]]
  /\ UNCHANGED <<kind, version, diskVars, harmed, offline>>

ANext ==
  \/ AppSteps
  \/ \E p \in DPids : Script(p)
  \/ \E a \in Assets : ServerChanges(a)

\* The threads of the app run on; scripts, servers and people promise nothing.
AFairness ==
  /\ WF_assetVars(DMain /\ AppSteps) /\ WF_assetVars(PageReceives /\ AppSteps)
  /\ \A p \in DPids : WF_assetVars(DThread(p) /\ AppSteps)
  /\ \A s \in Askers : WF_assetVars(DStop(s) /\ AppSteps)

ASpec == AInit /\ [][ANext]_assetVars /\ AFairness

-----------------------------------------------------------------------------
\* What the check of the page finds: for an archive and some snapshots certain
\* pieces, however much of them there is, for the others the path alone.
Installed(a) ==
  CASE kind[a] \in {"file", "checked"} -> file[a] # NoFile
    [] kind[a] = "zip"      -> Needed \subseteq pieces[a] \cup {half[a]}
    [] kind[a] = "snapshot" -> InFolder(a) /\ Needed \subseteq pieces[a]

Complete(a) ==
  /\ IsUrl(a) => Whole(file[a])
  /\ kind[a] \notin {"file", "checked"} => pieces[a] = Pieces /\ half[a] = NoPiece

\* A download that reports "Done" left all of it behind and the page finds it, however
\* often it was paused, killed, refused or lost before.  Each kind of asset has its one
\* exception and no other: a file without a checksum whose connection was closed early
\* without an error or whose server's file changed under the .part file; an archive
\* whose unpacking broke off once; a snapshot for which this very script found no
\* server.  A file with a checksum has none.
FilesAreWhole ==
  \A p \in DPids :
    dProc[p] = "ok" =>
      \/ Complete(p[1]) /\ Installed(p[1])
      \/ kind[p[1]] = "file" /\ p[1] \in harmed
      \/ kind[p[1]] = "zip" /\ p[1] \in torn
      \/ kind[p[1]] = "snapshot" /\ p \in offline

\* An existing folder may be a paused download: a snapshot that is reported "Done" has
\* been checked and what was missing fetched.
SnapshotIsChecked ==
  \A p \in DPids : dProc[p] = "ok" /\ kind[p[1]] = "snapshot" => Complete(p[1])

\* "Already extracted" and "Done" are said of an archive all of which is there.
ExtractedIsWhole ==
  \A p \in DPids : dProc[p] = "ok" /\ kind[p[1]] = "zip" => Complete(p[1])

\* Nothing that was downloaded is lost: a .part file only grows until it is renamed or
\* the server refuses to go on from it, and a file or piece in place stays, but for
\* a file just fetched that is not what its checksum says.
Kept(a) ==
  /\ \/ IsPrefix(part[a], part'[a])
     \/ part'[a] = <<>> /\ file'[a] = part[a]
     \/ \E p \in DPids : p[1] = a /\ place[p] = "begin" /\ place'[p] = "wb"
  /\ file[a] # NoFile => file'[a] = file[a] \/ (kind[a] = "checked" /\ ~Whole(file[a]))
  /\ pieces[a] \subseteq pieces'[a]
ProgressKept == [][\A a \in Assets : Kept(a)]_assetVars
=============================================================================
