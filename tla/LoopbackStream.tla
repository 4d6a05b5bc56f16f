--------------------------- MODULE LoopbackStream ---------------------------
(***************************************************************************)
(* The loopback program of whisper_cpp/src_vulkan_loopback/examples/       *)
(* stream-loopback: the capture thread of common-wasapi-loopback.cpp fills *)
(* the ring (AudioRing) and a WAV file, main() of stream-loopback.cpp      *)
(* takes windows of audio from the ring, has them recognized and prints    *)
(* their texts (LoopbackText).  Its user or the app kills it; the app may  *)
(* complete the WAV header then (desktop/src-tauri/src/wav.rs).            *)
(*                                                                         *)
(* Samples are numbered from 1 in the order they are captured.  The WAV is *)
(* counted in samples: its data and what its header says of them.          *)
(***************************************************************************)
EXTENDS AudioRing, LoopbackText

CONSTANTS
  Step, Keep,      \* samples of step_ms and keep_ms; Size are those of length_ms
  Check, TailSize, \* samples of vad_check_ms and of vad_tail_ms
  WavLimit,        \* samples whose size no longer fits in 32 bits
  MaxHeard,        \* bound: samples captured
  MaxText,         \* bound: words recognized in a window
  MaxInfers,       \* bound: inferences
  StreamFaults     \* what may fail: "device", "file", "load", "inference"

ASSUME StepAssumption  == {Step, Keep, Check, TailSize} \subseteq 1..Size /\ Keep <= Step
ASSUME StreamBounds    == {WavLimit, MaxHeard, MaxInfers, MaxText} \subseteq Nat \ {0}
ASSUME HeardAssumption ==
  0..MaxHeard \subseteq Samples /\ \A p \in Packets : p # <<>>

VARIABLES
  capture,   \* capture_loop(): opening, loop, writing, closed, killed
  stop,      \* m_stop
  heard,     \* samples captured so far
  recording, \* is the WAV file open?
  toWrite,   \* samples of the packet not yet in the file
  written,   \* samples in the file
  header,    \* samples its header says
  main,      \* main(): load, wait, clear, fetch, infer, joining, exited, killed
  recent,    \* pcmf32_new
  old,       \* pcmf32_old
  window,    \* pcmf32
  infers     \* n_iter

captureVars == <<capture, heard, recording, toWrite, written, header>>
mainVars    == <<main, stop, recent, old, window, infers>>
streamVars  == <<ringVars, textVars, captureVars, mainVars>>

StreamInit ==
  /\ RingInit /\ TextInit
  /\ capture = "opening" /\ stop = FALSE /\ heard = 0
  /\ recording = FALSE /\ toWrite = 0 /\ written = 0 /\ header = 0
  /\ main = "load"
  /\ recent = <<>> /\ old = <<>> /\ window = <<>> /\ infers = 0

-----------------------------------------------------------------------------
(* capture_loop(). *)

\* The device is opened, then the file; without a file capture goes on.
CaptureOpens ==
  /\ capture = "opening"
  /\ capture' = "loop"
  /\ recording' \in {TRUE} \cup {FALSE : f \in StreamFaults \cap {"file"}}
  /\ UNCHANGED <<ringVars, textVars, heard, toWrite, written, header, mainVars>>

\* while (!m_stop); mutated: m_stop is never looked at.
StopNeverSeen == FALSE
StopSeen      == stop

CaptureHears(packet) ==
  /\ capture = "loop" /\ ~StopSeen
  /\ \A k \in 1..Len(packet) : packet[k] = heard + k
  /\ heard + Len(packet) <= MaxHeard
  /\ AppendSamples(packet)
  /\ heard' = heard + Len(packet)
  /\ IF recording THEN capture' = "writing" /\ toWrite' = Len(packet)
                  ELSE UNCHANGED <<capture, toWrite>>
  /\ UNCHANGED <<textVars, recording, written, header, mainVars>>

\* write_wav_samples: the samples first, for a kill may come after any of them.
CaptureWrites ==
  /\ capture = "writing" /\ toWrite > 0
  /\ written' = written + 1
  /\ toWrite' = toWrite - 1
  /\ UNCHANGED <<ringVars, textVars, capture, heard, recording, header, mainVars>>

\* What write_wav_header is called with, a uint32_t; mutated: the header is left
\* for the close of the file.
HeaderLeft == header
DataSize   == written % WavLimit

CaptureUpdatesHeader ==
  /\ capture = "writing" /\ toWrite = 0
  /\ header' = DataSize
  /\ capture' = "loop"
  /\ UNCHANGED <<ringVars, textVars, heard, recording, toWrite, written, mainVars>>

CaptureCloses ==
  /\ capture' = "closed"
  /\ recording' = FALSE
  /\ UNCHANGED <<ringVars, textVars, heard, toWrite, written, header, mainVars>>

CaptureStops == capture = "loop" /\ StopSeen /\ CaptureCloses

\* A call of the device fails; nobody is told.
DeviceFails == capture \in {"opening", "loop"} /\ "device" \in StreamFaults /\ CaptureCloses

-----------------------------------------------------------------------------
(* main(). *)

MainGoes(place) == main' = place /\ UNCHANGED <<ringVars, captureVars>>

MainLoads ==
  /\ main = "load"
  /\ MainGoes("wait")
  /\ UNCHANGED <<textVars, stop, recent, old, window, infers>>

\* return 2 or 6: the destructor of `audio` sets m_stop and joins the thread.
MainFails ==
  /\ \/ main = "load"  /\ "load" \in StreamFaults
     \/ main = "infer" /\ "inference" \in StreamFaults
  /\ stop' = TRUE
  /\ MainGoes("joining")
  /\ UNCHANGED <<textVars, recent, old, window, infers>>

MainJoins ==
  /\ main = "joining" /\ capture = "closed"
  /\ MainGoes("exited")
  /\ UNCHANGED <<textVars, stop, recent, old, window, infers>>

\* Steps: the last step of audio is read until it is whole.  get() hands out one
\* step at most, so "cannot process audio fast enough" is never seen.
MainReads ==
  /\ main = "wait" /\ ~mode.vad /\ infers < MaxInfers
  /\ recent' = Get(Step)
  /\ MainGoes(IF Len(recent') >= Step THEN "clear" ELSE "wait")
  /\ UNCHANGED <<textVars, stop, old, window, infers>>

\* audio.clear(), in a critical section of its own; mutated: left out.
NotCleared == UNCHANGED ringVars
Cleared    == Clear

\* The window: the end of the one before, up to length + keep in all, and the step.
MainClears ==
  LET room == Keep + Size - Len(recent)
      take == IF Len(old) < room THEN Len(old) ELSE room
  IN  /\ main = "clear"
      /\ Cleared
      /\ window' = SubSeq(old, Len(old) - take + 1, Len(old)) \o recent
      /\ old' = window'
      /\ main' = "infer"
      /\ UNCHANGED <<textVars, captureVars, stop, recent, infers>>

\* Voice detection: a pause needs more audio than its tail; what it says is open.
MainHearsPause ==
  /\ main = "wait" /\ mode.vad /\ infers < MaxInfers
  /\ recent' = Get(Check)
  /\ Len(recent') > TailSize
  /\ SilenceBroken
  /\ MainGoes("fetch")
  /\ UNCHANGED <<stop, old, window, infers>>

MainHearsNone ==
  /\ main = "wait" /\ mode.vad
  /\ recent' = Get(Check)
  /\ IF mode.output = "preview" /\ pending THEN PreviewSilence ELSE UNCHANGED textVars
  /\ MainGoes("wait")
  /\ UNCHANGED <<stop, old, window, infers>>

MainFetches ==
  /\ main = "fetch"
  /\ window' = Get(Size)
  /\ MainGoes("infer")
  /\ UNCHANGED <<textVars, stop, recent, old, infers>>

\* What may be recognized in a window, right or wrong: any words, at most one a sample.
TextsOf(w) == UNION {[1..n -> Words] : n \in 0..(IF Len(w) < MaxText THEN Len(w) ELSE MaxText)}

MainInfers ==
  /\ main = "infer"
  /\ \E text \in TextsOf(window) : Recognized(text)
  /\ infers' = infers + 1
  /\ MainGoes("wait")
  /\ UNCHANGED <<stop, recent, old, window>>

-----------------------------------------------------------------------------
\* Ctrl+C, the app's kill, or exit(0) for an unknown language while capture runs.
Killed ==
  /\ main \notin {"exited", "killed"}
  /\ main' = "killed" /\ capture' = "killed" /\ recording' = FALSE /\ toWrite' = 0
  /\ UNCHANGED <<ringVars, textVars, heard, written, header, stop, recent, old, window, infers>>

\* repair_pcm_header, once nobody writes: files without samples or too big are left.
Repaired ==
  /\ main \in {"exited", "killed"}
  /\ 0 < written /\ written < WavLimit
  /\ header # written
  /\ header' = written
  /\ UNCHANGED <<ringVars, textVars, capture, heard, recording, toWrite, written, mainVars>>

Capture == \/ CaptureOpens \/ CaptureWrites \/ CaptureUpdatesHeader \/ CaptureStops
           \/ \E packet \in Packets : CaptureHears(packet)
Main    == \/ MainLoads \/ MainFails \/ MainJoins \/ MainReads \/ MainClears
           \/ MainHearsPause \/ MainHearsNone \/ MainFetches \/ MainInfers

StreamNext == Capture \/ DeviceFails \/ Main \/ Killed \/ Repaired

\* Both threads run on; a device that fails and a kill are owed by nobody.
StreamSpec ==
  /\ StreamInit /\ [][StreamNext]_streamVars
  /\ WF_streamVars(Capture) /\ WF_streamVars(Main)

-----------------------------------------------------------------------------
\* A window never has a sample twice or out of order, though reading the last step
\* and clearing the ring are two critical sections with packets between them.
WindowInOrder == \A k \in 1..(Len(window) - 1) : window[k] < window[k + 1]

\* Is there a WAV file that was opened, by this thread or before it ended?
Recorded == recording \/ written > 0

\* A kill takes at most the packet being written from what can be read of the recording:
\* the header covers everything captured, or all of it but one packet.
RecordingKept ==
  Recorded => \/ header = heard
              \/ /\ capture \in {"writing", "killed"}
                 /\ \E packet \in Packets : heard - header <= Len(packet)

\* So it is, and the header never says more than the file has, while the size fits in
\* 32 bits.
WavReadable == written < WavLimit => header <= written /\ RecordingKept

\* "emit partial previews and commit after a VAD pause" (stream-loopback.cpp:173): once
\* nothing more is recognized, the preview that is open is committed.
PreviewCommits == mode.output = "preview" /\ <>[](main = "wait") => <>[]~pending

\* It is when the program looks for pauses (--step 0), however often speech came between
\* two silent checks before.
SilenceCommits == mode.vad => PreviewCommits
\* A failed inference or model ends the program, with its recording closed.
FailureEnds == main = "joining" ~> (main = "exited" /\ ~recording) \/ main = "killed"
=============================================================================
