# Verification of local-meeting-stt

TLA+ models of the desktop app of local-meeting-stt, of the live transcription
scripts, the asset downloader and the loopback program it comes with, checked with
TLC on small instances. The safety of all of these parts, every invariant a passing run
checks, is proved with TLAPS for every value of the constants.

## The system

The app (Tauri: a Rust backend, one HTML page) starts *jobs*: a live transcription,
a recording, or the transcription of a file. A job is a process tree (`cmd`, `uv`,
Python, perhaps `whisper-server`). It also starts *downloads* of models.

| Part | State | Operations | What makes it correct |
| --- | --- | --- | --- |
| Job supervisor, `desktop/src-tauri/src/jobs.rs` | one mutex: the table of jobs, the ids being stopped, the next id; on disk a stop file per job | `run`, `watch` (a waiter and two readers per process), `retry_online`, `stop_blocking` (any number at once) | one job at a time; a stop ends the process that is there now, also across the online retry; each end is told once; a killed session's WAV is repaired first |
| Downloads, same file | table of downloads | `start_download`, its reader and waiter, `stop_download` | one process per asset; the page does not show a finished one as running |
| Closing, `main.rs`, `stop_all_blocking` | `quitting` | the close handler and its thread | nothing is left behind, WAVs are closed, and the app does exit |
| The page, `desktop/ui/app.js` | `phase`, `activeId`, `stoppingId`, `launchPending`, download state | `run`, `stop`, `onProcessEvent`, `onAssetEvent` | agrees with the backend though replies and events travel apart |
| Captions, `captions.rs`, `flushStreams` | lines, unfinished line, first changed line | `ingest_line`, `take_update`; the page patches its own copy | the page's transcript is the app's |
| Live session, `live_transcribe.py`, `live_cpp.py`, `session_control.py`, `live_streaming.py` | a queue, a stop event, a list of errors, the WAV, a server | capture thread, watcher of the stop file, main thread | audio is not lost or reordered, failures are reported, nothing is waited for in vain, the WAV is closed |
| Segmenter, `SpeechSegmenter` | pending audio | `feed`, `finish` | all speech is finalized once |
| Asset script, `download_assets.py`, `assets.rs` | on disk: the `.part` file, the file, the pieces of an archive or snapshot | `download_url`, `download_hf_file`, `extract_zip`, a snapshot; the page's check of what is installed | what is reported done is whole, whenever it was killed before; what was downloaded is kept |
| Loopback stream, `whisper_cpp/src_vulkan_loopback/examples/stream-loopback` | a ring of audio, the last texts printed and committed, a WAV | capture thread, main loop with `get` and `clear`, `suppress_plain_overlap`, `@@PARTIAL` and `@@FINAL` | a read is the newest audio in order; no final text is lost; a preview whose commit prints nothing new was printed before; a kill takes at most a packet from the WAV |

How they interact: the page calls `run_command`, `stop_command`,
`start_asset_download` (synchronous commands run on the main thread, stops on
threads of their own) and hears `process-event` and `asset-download-event` in the order
they were sent. The supervisor and a script share the stop file, the process's
existence, its output and the WAV. A download and the page share the disk; the page
only looks for paths there. The loopback program is no longer offered by the
app (`TECHNICAL.md:210-212`) and is started from the command line.

What is hard: every thread's steps between two critical sections interleave with
all others; the offline attempt of a job may be replaced by an online one while it is
being stopped; kills, spawns and file writes fail; processes ignore the stop file,
end at any time or leave a WAV without sizes in its header; events and replies
overtake each other; queues are bounded and a device may fail, hang or vanish.
`PROJECT.json` lists these hazards at their lines.

## The modules

`Jobs` — the supervisor. One action is one critical section or one step between
two that another thread can observe. `run` is `RunSpawns`/`RunFails`,
`RunAnnounces`, `RunWatches` (place: `launch`); a waiter thread is `waiter[p]`
for the process `p = <<id, attempt>>` and goes through `WaiterJoins`,
`WaiterRetries` or `WaiterGivesUp`, `WaiterHandsOver`, `WaiterRepairs`,
`WaiterRemoves`, `WaiterReports`; a call of `stop_blocking` is `sPc[s]`. A `Proc...`
action is the process tree. `uv`, the script and the model server are one process,
because the waiter gets past `child.wait()` and both reader joins only when the whole
tree is gone. Kinds of job are four representatives of the classes that the
predicates of `commands.rs` tell apart.

`JobsInvariant` — the inductive invariant; `JobsProofs` — its proof and what
follows. `JobLifecycle` — what the page is promised, without threads, processes and
files; `JobsRefinement` maps `Jobs` to it. `JobPage` extends `JobLifecycle`
with the page, so the page is checked against the promise and the promise against
the code.

`Downloads` — the same for downloads with the part of the page that starts and
shows them; what a download process does is `DChild`: it prints and ends.
`AssetFiles` extends it and replaces `DChild` by the script, step by step on disk:
connecting (`ScriptBegins`, `ScriptResumes`, `ScriptRestarts`, `ScriptRefused` for a
200, a 206, an ignored Range, a 416), reading, the rename of the `.part` file, the
checksum, unpacking member by member, snapshots file by file. A kill may come after any of
them, and `Mishaps` says what of the network and the disk may fail: the server is not reached or
breaks off (`ScriptLosesServer`; a snapshot whose folder is not empty is taken as it is instead,
`ScriptTakesFolder`), the disk is full or a file locked (`ScriptCannotWrite`). A file is `FileSize` parts, each known by the version of the server's file it
is from, so a mixed file is told from a whole one. Three history variables say what `FilesAreWhole`
excepts and nothing else does: `harmed` (files cut short or mixed), `torn` (archives whose unpacking broke
off), `offline` (scripts that took a folder without asking the server).

`AppClose` — `Jobs`, `Downloads` and the closing thread, composed by conjoining the
steps of one with UNCHANGED of the others; the app's end stops all its threads and none
of its processes. Of the page's side of the downloads only the starts are there: nothing else
of it changes what a close waits for.

`LiveSession` — the threads of a live script. A block of audio is its number.
`kind` chooses between the streaming sessions (unbounded queue, segmenter) and the
chunked ones (bounded queue, `enqueue_chunk` drops the oldest; `live_cpp.py` skips to the
newest). Two assumptions on time, each at its action: a block lasts longer than
the main thread takes from an empty queue to the stop event, and a join of five
seconds runs out only for a device that hangs.

`Captions` — `Captions` of `captions.rs`. What the text functions decide (empty,
hallucination, repeat, related to one of the last four lines) is an open choice, so
every merge is covered. `mirror` is a history variable: the transcript of an observer
that applied every update. `CaptionView` adds the event channel and the page.

`Segmenter` — `SpeechSegmenter` with a voice detector defined as the one
the code calls is configured: runs of speech joined over short gaps, short runs
dropped, padded. A sample stands for 50–150 ms in the run; only the proportions of the
code's durations are assumed (`Proportions`): 200 ms of padding with 100 ms of margin are
less than the 500 ms of silence, and twice the padding is not more; 150 ms of speech are less
than the 300 ms of pre-roll, and these less than the 20 s of an utterance. The `while`
of `feed` is `Passes`: the state after so many passes, one more than there are samples,
since a pass that goes round again has taken one at least from the pending audio.

`AudioRing` — `audio_async`: slots, the write position, the count of valid
samples; `AppendSamples`, `Clear`, and `Get` with the signed start the code computes.
`NewestSamples` is what it promises, without a buffer.

`LoopbackText` — what `main` of the loopback program does with a text in the modes
`--plain`, `--preview` and `--hybrid`, with and without voice detection, and
`suppress_plain_overlap`. A text is a sequence of words of which none is part of another, so
byte positions are word positions.

`LoopbackStream` — both, with the capture thread, its WAV counted in samples (sizes
wrap at `WavLimit`), the windows of the main loop, kills at any time, and the
app's repair of the header afterwards. What is recognized in a window is open, right or wrong: any
text of at most `MaxText` words. Voice detection, similarity of texts and pauses are open choices too.

The theorems are in `JobsProofs` (the supervisor and its refinement), `PageProofs`,
`DownloadProofs` (lemmas about `Downloads`) and `AssetProofs`, `CloseProofs`, which stands on
`JobsProofs` and `DownloadProofs`, `CaptionProofs` (the way of a caption: the segmenter,
the transcript, the page), `LiveProofs` and `LoopbackProofs` (the ring and the program).
`MC...` modules declare model values.

## The runs

All TLC configurations use the constants below and no constraint. A failure of the
environment is a member of `Faults` and may happen at any time and any number
of times.

| Run | Instance | What it shows |
| --- | --- | --- |
| `JobsStops` | one job that prefers offline (live or file), two stop calls, every failure | no process without an entry (`NoOrphan`), a forced stop has the current pid (`KillsCurrentProcess`), a confirmed stop is reported as stopped (`ConfirmedIsStopped`), no exit told of an open WAV (`ReportedWavClosed`); stops end (`StopEndsJob`) and exits are told (`ExitIsReported`) |
| `JobsSequence` | two jobs (a timed recording, a file), the second may transcribe the first's WAV, stale stop files, one stop call, every failure | `IInv`; `OneLiveProcess`, `StopFileMeansAsked`, `InputWavClosed`, `ExitToldOnce`; `ImplementsLifecycle` |
| `JobsJoin` | one job, two stop calls, a stop file that cannot be written | finding 1 below |
| `AssetFiles` | one asset of each kind (file, file with checksum, archive, snapshot) downloaded twice, a pause, failing spawns and kills, files of two parts, two pieces of which the page looks for one, a server that is not reached, breaks off, closes early, ignores Range or changes the file, a disk that fails | `OneWriterPerAsset`, `FilesAreWhole`, `ProgressKept`; `EndIsShown` |
| `AppClose` | a live job and a download, a page stop under way, failing spawns, kills and stop files, nothing started after the close | `NoChildLeftBehind`, `WavClosedAtExit`; `CloseEnds` |
| `AppCloseOrphan` | the same without failures, with starts during the close | finding 2 |
| `JobPage` | three jobs one after the other, two stop calls | `PageMatchesBackend`; `EndReachesPage` |
| `LiveSession` | all four kinds of session, five blocks and a tail, chunks of two blocks, one queued chunk, failures of device, model and server | `StreamKeepsAll`, `FedInOrder`, `OnlyDevicesFail`, `OkMeansWavClosed`, `NoServerLeft`; `SessionEnds` |
| `LiveDeviceGone` | the device is gone when the model is loaded | finding 3 |
| `CaptionView` | two live jobs, transcripts of up to two lines of two texts, two updates under way | `MirrorInv`, `ViewFollows`; `TranscriptShown` |
| `Segmenter` | every audio of up to 13 samples, fed by 1 or 3 | `SpeechFinalOnce`, `PreviewIsUnfinished`, `PendingBounded` |
| `LoopbackStream` | six modes, six samples in packets of 2 and 4, a ring of 3, steps of 2, three inferences of texts of up to two words, sizes that wrap at 5 samples, failures of device, file, model and inference | `WindowInOrder`, `WavReadable`, `NothingSaidIsLost`, `PreviewIsResolved`, `RingHoldsNewest`; `FailureEnds`, `SilenceCommits` |

Five more configurations are not among the runs of `PROJECT.json`. Each checks one formula that says what a
document or a comment says, and TLC finds it violated in a few seconds:

| Configuration | Module | Instance | Violated formula |
| --- | --- | --- | --- |
| `AssetOffline.cfg` | `MCAssetFiles` | a snapshot, a server that may not be reached | `SnapshotIsChecked`, finding 4 |
| `AssetUnpack.cfg` | `MCAssetFiles` | an archive, a disk that may fail | `ExtractedIsWhole`, finding 5 |
| `SegmenterBacklog.cfg` | `Segmenter` | as `Segmenter` | `FinalsWithinLimit`, finding 6 |
| `LoopbackWrap.cfg` | `MCLoopbackStream` | as `LoopbackStream`, with packets of 1 and 4 | `RecordingKept`, finding 7 |
| `LoopbackPreview.cfg` | `MCLoopbackStream` | `--preview` with the default step, three samples in packets of 1, no failures | `PreviewCommits`, finding 8 |

Why the bounds are enough: the table never holds two jobs, so two jobs cover what
one leaves for the next, and a third adds no pair; a stop call is the leading one
or joins it, so two calls cover both, and a call is used again once it returned;
three jobs let the page mistake an earlier and a later one. Two downloads of one asset
are the old and the new; assets share no state but the channel. Five blocks fill a chunk,
the queue and the chunk being recognized. Two texts tell a replaced line from a
kept one, and two lines tell a rewritten tail from an appended line; merges reach
back four lines in the code, two of them here. Thirteen samples hold two utterances with a
pause, or one that passes the limit with short pauses.
Two parts of a file are the first and the last one, and a third start of a download finds the disk as
the second may; two pieces are the one the page looks for and one it does not. A ring of three with
packets of two and four wraps, overflows and takes a packet longer than itself; three
inferences give two overlaps and a third text cut against an older one (the mutant of
`NothingSaidIsLost` needs all three). In `LoopbackPreview` the counterexample has one inference and then no
more audio, so it ends at no bound but that of the audio, which a computer that plays nothing gives too. Where the
theorems below cover a property, the bounds matter for its liveness companions only.

Every property has a mutant in `PROJECT.json`: a plausible bug in a mapped
definition that breaks it in the same run.

Deadlock is checked in `JobsStops`, `JobsSequence` and `AssetFiles`; the other
specifications really stop (the app has exited, the session ended, all audio is fed,
the page did all it was allowed).

### Fairness

Threads that exist run on: weak fairness of each waiter, stop call, closing thread,
of the two steps of `run` after the spawn, of the reader and of delivery to the page.
`StopJoins` is strongly fair, since its 15 seconds pass whatever other stops do.
In `AppClose` the waiters are fair together: they have finitely many steps to do.
Nothing is assumed of processes (they may run for ever), download scripts and
servers, the user or the speaker. In `LiveSession` the main thread and the watcher
are fair; the capture thread is too unless its device hangs, which disables it.
In `LoopbackStream` the two threads are fair; failures and kills are owed by nobody.

## What is proved

All theorems are for every value of the constants, from the named assumptions on them that
each module states and TLC evaluates. No property below is inductive by itself; each
proof module defines the invariant that is, and has one lemma per action or
group of actions, with one step per part of the invariant that the action can disturb.

**The supervisor** (`JobsProofs`): `IInv`, and from it `TypeOK`, `NoOrphan`,
`OneLiveProcess`, `StopFileMeansAsked`, `KillsCurrentProcess`, `ConfirmedIsStopped`,
`ReportedWavClosed`, `InputWavClosed` and `ExitToldOnce`. `NoOrphan` needs that the second
attempt of a job is started only by the waiter of the first, which has seen its
process end (`WaiterInv`), and that ids are fresh (`FreshInv`). `KillsCurrentProcess` needs
that a leading stop keeps its mark while the job lives and that only one leads
(`StopInv`): the retry looks for the mark in the critical section in which it replaces
the pid. `ConfirmedIsStopped` needs that a call that could still withdraw the
mark is not about a confirmed job (`ConfirmInv`). `ExitToldOnce` needs the hand-over of
waiters (`WaiterInv`, `ReportInv`).

**The supervisor implements the lifecycle** (`JobsProofs`, `SupervisorImplements`):
the safety half of `ImplementsLifecycle`. `IInv` with `KindInv` (only a job that was
started has a kind and a waiter) fixes the phase of every id; spawns, the start event,
marks, withdrawn marks, removals and exit events map to steps, all else to stutters.

**The page** (`PageProofs`): `PageMatchesBackend`. Replies and events travel apart, yet
one launch after the other goes through six stages (`StageInv`: idle, sent, accepted,
announced but unheard, shown, end heard before the reply), since the page cannot
launch before it heard the end of the job before. In each stage the queue holds at
most the start and the exit of the latest job.

**Downloads and the disk** (`AssetProofs`): `OneWriterPerAsset`, `FilesAreWhole`, `ProgressKept`,
and `ScriptsImplementDownloads`: a step of the script is an end of a process of `Downloads`
or invisible there. `OwnerInv` says that the table names the process and the waiter there
are, so one script at a time is about an asset, and looking at that script and that asset is enough.
`PlacedWell` is what a script knows of its files where it is, `KeptWell` what is
on disk whatever was killed, unless harmed or torn, `DoneWell` what a finished script leaves.
`FilesAreWhole` has one exception per kind of asset and is true for no other reason: without them it would
be findings 4 and 5, and the truncated or mixed file described below.

**Closing the app** (`CloseProofs`): `NoChildLeftBehind` and `WavClosedAtExit`, if nothing is
started while the close is under way (`~StartsWhileClosing`; otherwise the first is
false, finding 2). The invariant has `IInv` and the invariant of the downloads in it, since every step of the
app is a step of its parts. The rest is what the closing thread can count on: a
job that was asked to stop is led by some stop call, or dead and confirmed, or noted as one that
could not be stopped (`AskedInv`), whoever asked; so when the closing thread's own calls have
returned and nobody leads, its snapshot is done with (`JobsClosed`), also for a job whose stop it merely
joined. A job that stays in the table has a waiter that takes it off (`WatchedInv`), and
one that is off the table has its WAV completed (`GoneInv`).

**Captions** (`CaptionProofs`): `MirrorInv`, which is inductive: lines before the mark are the
observer's own, and each kind of merge marks the first line it changes. `ViewFollows`: all events under
way are of the latest job, its start in front and its exit behind, and the page listens to
that job unless it has not heard of it (`ChannelInv`); so what is in its queue and in the
channel leads from what it shows to the observer's lines (`Leads`), one update after the other.

**The segmenter** (`CaptionProofs`): `SpeechFinalOnce`, `PreviewIsUnfinished`, `PendingBounded`, for
every audio, any blocks, and all durations in the code's proportions. First what the
detector finds (`VadFinds`): spans in order and apart, the first of them before any speech
of the least length. Then each pass of the loop, wherever it
ends, keeps `LoopInv`: before the pending audio every window of the least speech has a silent or
a final sample in it (`HeardInv`) - a window that begins there may end in the pre-roll, which is why the pre-roll
has to be as long as the least speech - and a pass that goes round again has moved on, so the loop ends.

**Live sessions** (`LiveProofs`): `StreamKeepsAll`, `FedInOrder`, `OnlyDevicesFail`, `OkMeansWavClosed`,
`NoServerLeft`. `OrderInv` puts what was recognized, what the main thread holds, the queue
from its head on and what is about to be queued in one order of recording. The second
`put_nowait` succeeds because only the capture thread adds to the queue (`QueueInv`).
The WAV is closed by the tail or by the exception of a broken device, which is an error the judgement
at the end sees (`DeviceInv`, `WavInv`); the server is up only while the thread that can stop it
knows it (`ServerInv`). `StreamKeepsAll` needs that every block stands where its number says
(`PlaceInv`), and how few can come between the empty queue the main thread saw and the stop event it saw
after it (`BacklogInv`).

**The ring** (`LoopbackProofs`, `RingImplements`): `AudioRing` implements `NewestSamples`, for every
size, packet and order of operations: `Get(Size)` after a packet that wraps or is longer than the
ring is the newest part of what it was before with the packet behind it.

**The loopback program** (`LoopbackProofs`): `RingHoldsNewest`, `WindowInOrder`, `WavReadable`,
`NothingSaidIsLost`, `PreviewIsResolved`. `TextInv` adds that the text the next one is cut against
ends what was printed, in each mode (`EndInv`): what is cut off stands there, so the rest completes
it; and that a preview not yet committed is the unfinished line (`PendingInv`).
`RingInv` says that the ring is the last samples heard, `WindowInv` that windows and what is
kept of them lie below what the ring holds since it was cleared, `WavInv` that file and packet
together are what was heard. `WavReadable` compares the header with what was captured: equal between two packets
and after the file was closed, behind by one packet at most while it is written and after a kill. It is
stated and proved for sizes that fit in 32 bits; finding 7 is what comes after them.

**Only model-checked**: every liveness property, since liveness under fairness and ENABLED
are beyond the prover, and with them the liveness halves of `ImplementsLifecycle`.
Induction is a set of numbers without a least one (`LeastNumber`, `CountingUp`, `StepByStep` in `CaptionProofs`), which
reaches every recursive function of the models: they are written as functions for it.

## What the checks found

1. **A failed stop leaves its mark** (`JobsJoin`). `stop_blocking` marks the job and
   returns on a failed write of the stop file without unmarking it
   (`jobs.rs:430`). Later stops join a stop nobody carries out, wait, and
   answer that the job was stopped while it runs.
2. **A start during the close survives the app** (`AppCloseOrphan`). The close
   handler stops what it finds; `run_command` and `start_asset_download` are not
   refused while it does (`main.rs:225-242`).
3. **A vanished device ends a session well** (`LiveDeviceGone`). The device lookup in the
   capture thread raises `SystemExit`, which `except Exception` does not record
   (`session_control.py:28`): the session ends with exit code 0.

4. **A paused snapshot is done without a network** (`AssetOffline.cfg`). `snapshot_download` with a
   `local_dir` checks the files only if it reaches the Hub; otherwise it hands back a folder that is not empty
   with a warning, and the script prints "Done" (`download_assets.py:76-77`), though the comment at 71-72 says
   that the files are checked.
5. **A half unpacked archive is extracted** (`AssetUnpack.cfg`). Whatever is in the folder, the next
   run says "Already extracted" (`download_assets.py:161`): after a kill, and after an `extractall`
   that failed on a full disk or a locked file.
6. **An utterance of more than 20 s** (`SegmenterBacklog.cfg`). `README.md:166` says "20 s at most"; the
   limit is compared once per feed (`live_streaming.py:108`), and a feed is the whole queue after a slow
   recognition. What does hold is `PendingBounded`: no feed leaves the limit or more behind.
7. **The header of a WAV of 4 GiB starts again at 0** (`LoopbackWrap.cfg`). `data_size` is 32 bits wide
   (`common-wasapi-loopback.cpp:101`), and the app's repair leaves files of that size alone, so the session
   cannot "be transcribed again later" (`TECHNICAL.md:210-211`) as a whole.
8. **The default `--preview` never commits** (`LoopbackPreview.cfg`). The usage says "commit after a VAD
   pause" (`stream-loopback.cpp:173`), and only `--step 0` looks for one. There `SilenceCommits` holds.

Seen while modelling, and not contradicting anything the repository says, or said
by no line that a run could refute:

- A download killed between the last chunk and the rename leaves a whole `.part`
  file; every later run asks for what comes after it, is refused (416) and fails.
- A connection closed early is no error of `read(n)`: a truncated file without a checksum is
  "Already exists" from then on, a truncated archive fails for ever, and the page never
  passes `--force`.
- A file killed between the rename and the check of its sha256 stays, shows as
  installed, and fails at each download. A snapshot without `required_files` shows as installed
  after a pause.
- A resume sends no If-Range and may mix two versions of a file that is not pinned.
- A check of the loopback program that finds no pause, because there is still speech or too little audio,
  counts as silence for the commit of a preview.
- When the loopback capture fails, its main loop waits for ever or has the
  same audio recognized again. "Cannot process audio fast enough" is unreachable, since `get`
  hands out one step at most; audio beyond it is dropped silently.

How far some properties go:

- `ConfirmedIsStopped` is about what a job is reported as: a stop that joined another may answer true
  while the process runs (finding 1).
- `NoChildLeftBehind` excepts jobs that could not be stopped, among them one whose stop file could not be
  written (finding 1 met at the close).
- `OkMeansWavClosed` is true of a session that never opened its WAV; that such a session ends well is finding 3.
- `PreviewIsResolved` says nothing of the default step, which has no commits (finding 8).

## What is not modelled

- Command lines (`commands.rs`), devices, paths, the list of sessions, rendering and
  translations: no state of their own. A refresh of the session list is guarded by the number
  of its request (`app.js:847`).
- `settings.rs` writes under another name and renames, so a crash leaves the old settings or
  the new ones.
- `record_audio.py` run for itself: the capture loop of `LiveSession` without a queue.
- The text functions of `captions.rs`, the recognizers and the signal processing.
- A stop file that cannot be removed before a start: `jobs.rs:222` ignores it, and `RemovesStopFile` succeeds. It
  takes a file left by an app with the same pid and a job of the same number.
- Several files of a snapshot at a time: the threads of `huggingface_hub` are one.
- The end of an old download heard after a new one of the same asset was started: the page allows no start before
  it heard the end, unless it is reloaded.
- Reuse of a pid by the operating system between the end of a process and the kill.
- A reload of the page, which forgets the active job.
- The bytes of WAV headers: `Jobs` has a header with or without sizes, `LoopbackStream`
  its sizes and their limit.
- `download_assets.py` with `--force` or for all assets at once, which the app does not use.
- The console output of the loopback program without `--plain`, `--preview` or
  `--hybrid`, and its prompts.
- Launchers, build scripts, benchmarks, tests and the vendored whisper.cpp with ggml, which is
  nearly all of the repository's C and C++.

## Plan

Done, in order of importance: `Jobs` with its invariant, its refinement and their proofs,
`Downloads`, `JobPage`, `AssetFiles`, `AppClose`, `LiveSession`, `Captions` and `CaptionView`,
`Segmenter`, `AudioRing` and `LoopbackStream`, each with proofs of all its invariants.

Left:

1. A reload of the page: `JobPage` and `CaptionView` with a step that forgets
   their state, against what `boot.js` asks of the backend.
2. The byte layout of `wav.rs` and `repair_wav_header.py` against one reference.
