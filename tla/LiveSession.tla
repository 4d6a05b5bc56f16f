----------------------------- MODULE LiveSession -----------------------------
(***************************************************************************)
(* One live session: the script that a live job runs, either               *)
(* python_backend/live_transcribe.py or whisper_cpp/live_cpp.py.           *)
(*                                                                         *)
(* Three threads share a queue, a stop event and a list of errors: the     *)
(* capture thread records blocks, writes them to the WAV and queues them;  *)
(* the main thread recognizes what it takes from the queue; a watcher sets *)
(* the event when the desktop app creates the stop file.  One action is    *)
(* one operation on what they share.                                       *)
(*                                                                         *)
(* A block of audio is its number.  Streaming sessions queue every block   *)
(* and recognize utterances; the others queue chunks of ChunkBlocks blocks *)
(* in a queue of Backlog places and recognize each chunk.                  *)
(***************************************************************************)
EXTENDS Naturals, Sequences

CONSTANTS
  SessionKinds,  \* the kinds of session a run starts; a subset of AllSessionKinds
  MaxBlocks,     \* bound: blocks recorded before the tail
  ChunkBlocks,   \* blocks of a chunk (--chunk-seconds)
  Backlog,       \* --max-backlog
  SFaults        \* failures of the environment: "missing", "device", "hang", "load", "model"

AllSessionKinds == {"py-stream", "py-fixed", "cpp-stream", "cpp-latest"}

ASSUME SessionKindsAssumption == SessionKinds \subseteq AllSessionKinds
ASSUME SessionBounds == {MaxBlocks, ChunkBlocks, Backlog} \subseteq Nat \ {0}
ASSUME SFaultsAssumption == SFaults \subseteq {"missing", "device", "hang", "load", "model"}

VARIABLES
  kind,      \* the session's kind; it never changes
  stopFile,  \* has the desktop app asked for a stop?
  stopEvent, \* stop_event
  watching,  \* is the thread of watch_stop_request there?
  errors,    \* is capture_errors non-empty?
  device,    \* ok, missing (gone before capture), broken (it raised), hung
  cap,       \* where the capture thread is
  recorded,  \* blocks recorded and, if a WAV is kept, written to it
  wav,       \* off (not kept), none (not yet opened), open, closed
  tailed,    \* is the last block the resampler's tail?
  pending,   \* the blocks not yet queued
  chunks,    \* the queue, of sequences of blocks
  main,      \* where the main thread is
  batch,     \* the blocks it took and has not recognized
  fed,       \* all blocks it recognized
  failing,   \* is an exception on its way out of the try block?
  server,    \* whisper-server: unused, starting, up, dead
  result     \* how the process ended: none, ok, fail

capVars  == <<device, cap, recorded, wav, tailed, pending>>
mainVars == <<main, batch, fed, failing, server, result>>
svars == <<kind, stopFile, stopEvent, watching, errors, capVars, chunks, mainVars>>

Streams    == kind \in {"py-stream", "cpp-stream"}
HasServer  == kind \in {"cpp-stream", "cpp-latest"}
SkipsStale == kind = "cpp-latest"

SInit ==
  /\ kind \in SessionKinds
  /\ stopFile = FALSE
  /\ stopEvent = FALSE
  \* live_cpp.py watches before the server starts, live_transcribe.py once the
  \* model is loaded.
  /\ watching = HasServer
  /\ errors = FALSE
  /\ device = "ok"
  /\ cap = "none"
  /\ recorded = 0
  /\ wav \in {"off", "none"}
  /\ tailed = FALSE
  /\ pending = <<>>
  /\ chunks = <<>>
  /\ main = "load"
  /\ batch = <<>>
  /\ fed = <<>>
  /\ failing = FALSE
  /\ server = IF HasServer THEN "starting" ELSE "unused"
  /\ result = "none"

-----------------------------------------------------------------------------
(* The desktop app and the watcher. *)

AppAsksStop ==
  /\ ~stopFile
  /\ stopFile' = TRUE
  /\ UNCHANGED <<kind, stopEvent, watching, errors, capVars, chunks, mainVars>>

WatcherSees ==
  /\ watching /\ ~stopEvent /\ stopFile
  /\ stopEvent' = TRUE
  /\ UNCHANGED <<kind, stopFile, watching, errors, capVars, chunks, mainVars>>

-----------------------------------------------------------------------------
(* The capture thread: capture_worker around capture_audio. *)

UnchangedByCapture == <<kind, stopFile, watching, mainVars>>
CapGoto(place) == cap' = place /\ UNCHANGED <<device, recorded, wav, tailed, pending>>

\* The devices are looked up again.  One that has gone raises SystemExit, which
\* `except Exception` does not catch: no error is recorded.
CapSelects ==
  /\ cap = "select"
  /\ \/ CapGoto("open")
     \/ /\ "missing" \in SFaults
        /\ device' = "missing"
        /\ cap' = "end"
        /\ UNCHANGED <<recorded, wav, tailed, pending>>
  /\ UNCHANGED <<UnchangedByCapture, stopEvent, errors, chunks>>

CapOpens ==
  /\ cap = "open"
  /\ wav' = IF wav = "none" THEN "open" ELSE wav
  /\ cap' = "check"
  /\ UNCHANGED <<UnchangedByCapture, stopEvent, errors, device, recorded, tailed, pending, chunks>>

\* while not stop_event.is_set()
CapChecks ==
  /\ cap = "check"
  /\ IF stopEvent THEN CapGoto("flush") ELSE recorded < MaxBlocks /\ CapGoto("record")
  /\ UNCHANGED <<UnchangedByCapture, stopEvent, errors, chunks>>

\* A block reaches the WAV before anything else happens to it.  Time: a block lasts
\* a tenth of a second, so no second one ends while the main thread goes from the
\* empty queue to the stop event.
CapRecords ==
  /\ cap = "record"
  /\ device = "ok"
  /\ main = "idle" => chunks = <<>>
  /\ recorded' = recorded + 1
  /\ pending' = Append(pending, recorded + 1)
  /\ cap' = IF Streams \/ Len(pending') >= ChunkBlocks THEN "put" ELSE "check"
  /\ UNCHANGED <<UnchangedByCapture, stopEvent, errors, device, wav, tailed, chunks>>

\* The resampler's tail is written and the WAV closed.
CapFlushes ==
  /\ cap = "flush"
  /\ recorded' = recorded + 1
  /\ pending' = Append(pending, recorded + 1)
  /\ wav' = IF wav = "open" THEN "closed" ELSE wav
  /\ tailed' = TRUE
  /\ cap' = "put"
  /\ UNCHANGED <<UnchangedByCapture, stopEvent, errors, device, chunks>>

\* Queue(maxsize=0) never is full.  Mutated: the streaming queue is bounded too.
AlwaysBounded == Len(chunks) >= Backlog
Full          == ~Streams /\ Len(chunks) >= Backlog

\* What is left in `pending` once it is queued; mutated: it is not emptied.
KeptAfterPut == pending
AfterPut     == <<>>

PutSucceeds ==
  /\ ~Full
  /\ chunks' = Append(chunks, pending)
  /\ pending' = AfterPut
  /\ cap' = IF tailed THEN "end" ELSE "check"
  /\ UNCHANGED <<device, recorded, wav, tailed>>

\* enqueue_chunk: put_nowait, or make room first.
CapPuts ==
  /\ cap = "put"
  /\ PutSucceeds \/ (Full /\ CapGoto("drop") /\ chunks' = chunks)
  /\ UNCHANGED <<UnchangedByCapture, stopEvent, errors>>

\* get_nowait, Empty ignored; mutated: no room is made.
DropsNothing(queue) == queue
DropsOldest(queue)  == IF queue = <<>> THEN queue ELSE Tail(queue)

CapDrops ==
  /\ cap = "drop"
  /\ chunks' = DropsOldest(chunks)
  /\ CapGoto("again")
  /\ UNCHANGED <<UnchangedByCapture, stopEvent, errors>>

\* The second put_nowait has no handler for Full.
CapPutsAgain ==
  /\ cap = "again"
  /\ PutSucceeds \/ (Full /\ CapGoto("raise") /\ chunks' = chunks)
  /\ UNCHANGED <<UnchangedByCapture, stopEvent, errors>>

\* The recorder or the WAV raises: the WAV is closed on the way out.
CapBreaks ==
  /\ "device" \in SFaults
  /\ cap \in {"open", "record"} /\ device = "ok"
  /\ device' = "broken"
  /\ wav' = IF wav = "open" THEN "closed" ELSE wav
  /\ cap' = "raise"
  /\ UNCHANGED <<UnchangedByCapture, stopEvent, errors, recorded, tailed, pending, chunks>>

\* The recorder never returns.
CapHangs ==
  /\ "hang" \in SFaults
  /\ cap = "record" /\ device = "ok"
  /\ device' = "hung"
  /\ UNCHANGED <<UnchangedByCapture, stopEvent, errors, cap, recorded, wav, tailed, pending, chunks>>

\* except Exception: errors.append(exc)
CapRaises ==
  /\ cap = "raise"
  /\ errors' = TRUE
  /\ CapGoto("end")
  /\ UNCHANGED <<UnchangedByCapture, stopEvent, chunks>>

\* finally: stop.set()
CapEnds ==
  /\ cap = "end"
  /\ stopEvent' = TRUE
  /\ CapGoto("done")
  /\ UNCHANGED <<UnchangedByCapture, errors, chunks>>

-----------------------------------------------------------------------------
(* The main thread: run_live with run_streaming or its own loop. *)

UnchangedByMain == <<kind, stopFile, errors, device, recorded, wav, tailed, pending>>
MainGoto(place) == main' = place /\ UNCHANGED <<batch, fed, failing, server, result>>
Fail == main' = "stop" /\ failing' = TRUE /\ UNCHANGED <<batch, fed, server, result>>

\* The model is loaded or the server accepts connections; capture begins.
MainLoads ==
  /\ main = "load"
  /\ server' = IF HasServer THEN "up" ELSE server
  /\ watching' = TRUE
  /\ cap' = "select"
  /\ main' = "get"
  /\ UNCHANGED <<UnchangedByMain, stopEvent, chunks, batch, fed, failing, result>>

\* A server that exits early or does not accept in time is stopped where it was
\* started; mutated: it is left to the caller, who does not know it.
LeftRunning == "up"
CleanedUp   == "dead"

MainLoadFails ==
  /\ main = "load"
  /\ "load" \in SFaults
  /\ IF HasServer
     THEN main' = "stop" /\ server' = CleanedUp /\ UNCHANGED result
     ELSE main' = "end" /\ result' = "fail" /\ UNCHANGED server
  /\ failing' = TRUE
  /\ UNCHANGED <<UnchangedByMain, stopEvent, watching, cap, chunks, batch, fed>>

\* run_streaming looks for errors first and takes what is queued before it leaves;
\* mutated: it leaves on a stop.  next_chunk ends at once on a stop.
BothLeave == stopEvent
Leaves    == ~Streams /\ stopEvent

MainLoops ==
  /\ main = "get"
  /\ \/ ~errors /\ MainGoto(IF ~Leaves THEN "take" ELSE IF Streams THEN "leave" ELSE "stop")
     \/ errors /\ Fail
  /\ UNCHANGED <<UnchangedByMain, stopEvent, watching, cap, chunks>>

MainTakes ==
  /\ main = "take"
  /\ chunks # <<>>
  /\ batch' = Head(chunks)
  /\ chunks' = Tail(chunks)
  /\ main' = IF Streams \/ SkipsStale THEN "drain" ELSE "feed"
  /\ UNCHANGED <<UnchangedByMain, stopEvent, watching, cap, fed, failing, server, result>>

\* chunks.get(timeout=0.1) raises Empty; mutated: get() waits for ever.
WaitsForEver == FALSE
TimesOut     == chunks = <<>>

MainTimesOut ==
  /\ main = "take"
  /\ TimesOut
  /\ MainGoto(IF Streams THEN "idle" ELSE "get")
  /\ UNCHANGED <<UnchangedByMain, stopEvent, watching, cap, chunks>>

MainIdles ==
  /\ main = "idle"
  /\ MainGoto(IF stopEvent THEN "leave" ELSE "get")
  /\ UNCHANGED <<UnchangedByMain, stopEvent, watching, cap, chunks>>

\* get_nowait until Empty: streaming keeps everything, the server's chunk loop
\* only the last chunk.
MainDrains ==
  /\ main = "drain"
  /\ IF chunks = <<>>
     THEN MainGoto("feed") /\ UNCHANGED chunks
     ELSE /\ batch' = IF SkipsStale THEN Head(chunks) ELSE batch \o Head(chunks)
          /\ chunks' = Tail(chunks)
          /\ UNCHANGED <<main, fed, failing, server, result>>
  /\ UNCHANGED <<UnchangedByMain, stopEvent, watching, cap>>

\* segmenter.feed and the recognition of what it yields, or of the chunk.
MainFeeds ==
  /\ main = "feed"
  /\ \/ /\ fed' = fed \o batch
        /\ batch' = <<>>
        /\ main' = "get"
        /\ UNCHANGED <<failing, server, result>>
     \/ "model" \in SFaults /\ Fail
  /\ UNCHANGED <<UnchangedByMain, stopEvent, watching, cap, chunks>>

\* After the loop: errors, then segmenter.finish and its recognitions.
MainLeaves ==
  /\ main = "leave"
  /\ \/ ~errors /\ MainGoto("stop")
     \/ (errors \/ "model" \in SFaults) /\ Fail
  /\ UNCHANGED <<UnchangedByMain, stopEvent, watching, cap, chunks>>

\* finally: stop_event.set()
MainStops ==
  /\ main = "stop"
  /\ stopEvent' = TRUE
  /\ MainGoto("join")
  /\ UNCHANGED <<UnchangedByMain, watching, cap, chunks>>

\* join(timeout=5.0).  Time: five seconds pass only for a device that hangs.
MainJoins ==
  /\ main = "join"
  /\ cap \in {"none", "done"} \/ device = "hung"
  /\ MainGoto("release")
  /\ UNCHANGED <<UnchangedByMain, stopEvent, watching, cap, chunks>>

\* stop_whisper_server: terminate, then kill.  run_live knows a server only when
\* its start returned, and then it has started the capture.
MainReleases ==
  /\ main = "release"
  /\ server' = IF HasServer /\ cap # "none" THEN "dead" ELSE server
  /\ main' = "judge"
  /\ UNCHANGED <<UnchangedByMain, stopEvent, watching, cap, chunks, batch, fed, failing, result>>

\* not capture_thread.is_alive(); mutated: taken for granted after the join.
PresumedGone == TRUE
CaptureGone  == cap \in {"none", "done"}

MainEnds ==
  /\ main = "judge"
  /\ result' = IF CaptureGone /\ ~errors /\ ~failing THEN "ok" ELSE "fail"
  /\ main' = "end"
  /\ UNCHANGED <<UnchangedByMain, stopEvent, watching, cap, chunks, batch, fed, failing, server>>

-----------------------------------------------------------------------------
CaptureWork == \/ CapSelects \/ CapOpens \/ CapChecks \/ CapRecords \/ CapFlushes \/ CapPuts
               \/ CapDrops \/ CapPutsAgain \/ CapRaises \/ CapEnds
Main == \/ MainLoads \/ MainLoadFails \/ MainLoops \/ MainTakes \/ MainTimesOut \/ MainIdles
        \/ MainDrains \/ MainFeeds \/ MainLeaves \/ MainStops \/ MainJoins \/ MainReleases \/ MainEnds

\* The threads are daemons: they end with the process.
SNext == \/ AppAsksStop
         \/ result = "none" /\ (WatcherSees \/ CaptureWork \/ CapBreaks \/ CapHangs \/ Main)

SFairness ==
  /\ WF_svars(WatcherSees /\ result = "none")
  /\ WF_svars(CaptureWork /\ result = "none")
  /\ WF_svars(Main)

SSpec == SInit /\ [][SNext]_svars /\ SFairness

-----------------------------------------------------------------------------
\* "Capture keeps all arriving audio even when inference is busy" (README.md:166-167):
\* in a streaming session every block recorded is recognized, held by the main
\* thread, queued or about to be queued, in the order it was recorded; and one that
\* ends well has worked off its backlog, however long.  What it may leave is a
\* block queued just as the stop came, the block under way then, and the tail.  The
\* queue of a streaming session holds single blocks.
StreamKeepsAll ==
  Streams =>
    /\ \A k \in 1..Len(chunks) : Len(chunks[k]) = 1
    /\ fed \o batch \o [k \in 1..Len(chunks) |-> chunks[k][1]] \o pending
         = [i \in 1..recorded |-> i]
    /\ result = "ok" => recorded - Len(fed) <= 3

\* Whatever is dropped or skipped, no block is recognized twice or out of order.
FedInOrder == \A i, j \in 1..Len(fed) : i < j => fed[i] < fed[j]

\* An overloaded queue never fails the session: "dropped caption chunks" are not
\* errors (docs/backend-review.md:48-49), so capture errors come from the device.
OnlyDevicesFail == errors => device = "broken"

\* "Recording closed" (live_transcribe.py:254, live_cpp.py:456): a session that
\* exits with code 0 has closed a WAV that holds every block and the tail.
OkMeansWavClosed ==
  result = "ok" => wav # "open" /\ cap \in {"none", "done"} /\ (wav = "closed" => tailed)

\* The server ends with the session, however the session ends.
NoServerLeft == result # "none" => server \notin {"starting", "up"}

\* "Both capture implementations propagate device failures" (docs/backend-review.md:49):
\* a session whose device failed does not exit with code 0.
DeviceFailureReported == result = "ok" => device = "ok"

\* A stop request or a failed device ends the session, whatever the main thread
\* is waiting for: it never blocks on an empty queue.
SessionEnds == (stopFile \/ device \in {"missing", "broken"}) ~> result # "none"
=============================================================================
