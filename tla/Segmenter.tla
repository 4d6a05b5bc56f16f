------------------------------ MODULE Segmenter ------------------------------
(***************************************************************************)
(* SpeechSegmenter of python_backend/live_streaming.py: audio in, requests *)
(* to recognize an utterance out, "partial" while it lasts and "final"     *)
(* once.                                                                   *)
(*                                                                         *)
(* A sample is TRUE where there is speech.  `pending` of the code always   *)
(* is a suffix of all audio fed, so it is kept as the number of samples    *)
(* before it; a request is the interval <<first + 1 .. last>> it covers.   *)
(* The voice detector is external (faster_whisper.vad): speech runs are    *)
(* joined over gaps shorter than its silence, runs shorter than MinSpeech  *)
(* are dropped, a run not ended by a silence reaches to the end.           *)
(***************************************************************************)
EXTENDS Integers, Sequences, FiniteSetsExt

CONSTANTS
  MaxTotal,      \* bound: samples fed
  BlockSizes,    \* bound: how many samples one feed() gets,
  MaxBlock,      \* and at most so many
  MinSpeech, MinSilence, Pad,   \* the detector of utterances
  ShortSilence,                 \* the detector of short pauses; its padding is the same
                                \* on both sides of a pause and leaves the middle alone
  PreRoll, EndMargin, PreviewEvery, MinPreview, SplitAfter, MinSplit, MaxUtterance

ASSUME SegmenterBounds == MaxTotal \in Nat /\ MaxBlock \in Nat /\ BlockSizes \subseteq 1..MaxBlock
ASSUME Durations ==
  {MinSpeech, MinSilence, Pad, ShortSilence, PreRoll, EndMargin, PreviewEvery, MinPreview,
   SplitAfter, MinSplit, MaxUtterance} \subseteq Nat
\* As the code's constants are: 500 ms of silence, 200 ms and 100 ms of padding
\* and margin, 300 ms of pre-roll, 150 ms of speech, 2 s before a split, utterances
\* of up to 20 s.
ASSUME Proportions ==
  /\ Pad + EndMargin < MinSilence /\ 2 * Pad <= MinSilence
  /\ 0 < MinSpeech /\ MinSpeech <= PreRoll
  /\ 0 < MinSplit
  /\ PreRoll < MaxUtterance

VARIABLES
  heard,       \* all samples fed
  base,        \* how many of them are before `pending`
  lastPreview, \* last_preview_samples
  finals,      \* the intervals of all final requests
  partials,    \* the interval of the last feed's partial request, if it made one
  finished     \* has finish() been called?

gvars == <<heard, base, lastPreview, finals, partials, finished>>

-----------------------------------------------------------------------------
(* The voice detector. *)

Start(audio, i, gap) == audio[i] /\ \A j \in 1..(i - 1) : j >= i - gap => ~audio[j]
Stop(audio, i, gap) ==
  audio[i] /\ i + gap <= Len(audio) /\ \A j \in (i + 1)..(i + gap) : ~audio[j]

\* Where the run that starts at i ends.
EndOf(audio, i, gap) ==
  LET stops == {j \in i..Len(audio) : Stop(audio, j, gap)}
  IN  IF stops = {} THEN Len(audio) ELSE Min(stops)

\* Does a run that is long enough start at i?
IsRun(audio, i, gap) == Start(audio, i, gap) /\ EndOf(audio, i, gap) - i + 1 >= MinSpeech

\* Its span [start, end), `start` counting from 0.
Span(audio, i, gap, pad) ==
  [start |-> Max({0, i - 1 - pad}), end |-> Min({Len(audio), EndOf(audio, i, gap) + pad})]

\* The runs in the order of the audio: those that start in its first n samples.
RunsUpTo(audio, gap) ==
  LET upTo[n \in 0..Len(audio)] ==
        IF n = 0 THEN <<>>
        ELSE IF IsRun(audio, n, gap) THEN Append(upTo[n - 1], n)
        ELSE upTo[n - 1]
  IN  upTo

Vad(audio, gap, pad) ==
  LET runs == RunsUpTo(audio, gap)[Len(audio)]
  IN  [k \in 1..Len(runs) |-> Span(audio, runs[k], gap, pad)]

-----------------------------------------------------------------------------
(* feed() *)

\* The audio of `pending` when n samples are before it.
Pending(audio, n) == SubSeq(audio, n + 1, Len(audio))

\* short_pause_cut: the middle of the latest short pause that leaves enough to
\* finalize.
ShortPauseCuts(pending, start) ==
  LET spans == Vad(SubSeq(pending, start + 1, Len(pending)), ShortSilence, 0)
      cuts == {start + (spans[k].end + spans[k + 1].start) \div 2 : k \in 1..(Len(spans) - 1)}
  IN  IF Len(pending) - start < SplitAfter THEN {}
      ELSE {cut \in cuts : cut - start >= MinSplit}

\* How many samples stay pending without speech; mutated: none.
NothingKept(pending) == 0
PreRollKept(pending) == Min({PreRoll, Len(pending)})

\* What is left after an utterance was ended by its length; mutated: a pre-roll.
PreRollLeft(pending)  == Min({PreRoll, Len(pending)})
NothingLeft(pending)  == 0

\* len(self.pending) >= self.max_utterance_samples; mutated: no limit.
NeverTooLong(pending) == FALSE
TooLong(pending)      == Len(pending) >= MaxUtterance

\* The state of feed()'s loop, and one pass of it.
Pass(audio, s) ==
  LET pending == Pending(audio, s.base)
      spans == Vad(pending, MinSilence, Pad)
      total == Len(audio)
      start == spans[1].start
      end == spans[1].end
      due == total - s.last >= PreviewEvery
      cuts == IF due THEN ShortPauseCuts(pending, start) ELSE {}
      \* A final of [start, stop) after which n samples stay pending.
      final(stop, n) == [s EXCEPT !.base = total - n, !.last = total,
                                  !.finals = Append(@, <<s.base + start, s.base + stop>>)]
  IN  IF pending = <<>> THEN [s EXCEPT !.again = FALSE]
      ELSE IF spans = <<>> THEN [s EXCEPT !.base = total - PreRollKept(pending), !.again = FALSE]
      ELSE IF Len(spans) > 1 \/ end + EndMargin < Len(pending) THEN final(end, Len(pending) - end)
      ELSE IF TooLong(pending) THEN [final(Len(pending), NothingLeft(pending)) EXCEPT !.again = FALSE]
      ELSE IF cuts # {} THEN final(Max(cuts), Len(pending) - Max(cuts))
      ELSE IF due /\ Len(pending) - start >= MinPreview
           THEN [s EXCEPT !.partial = {<<s.base + start, total>>}, !.last = total, !.again = FALSE]
      ELSE [s EXCEPT !.again = FALSE]

\* The state after so many passes.  One that goes round again has finalized a
\* sample, so that the loop has ended after one pass more than there are samples.
Passes(audio, s) ==
  LET after[n \in 0..(Len(audio) + 1)] ==
        IF n = 0 THEN s
        ELSE LET before == after[n - 1]
             IN  IF before.again THEN Pass(audio, before) ELSE before
  IN  after
Loop(audio, s) == Passes(audio, s)[Len(audio) + 1]

GInit ==
  /\ heard = <<>>
  /\ base = 0
  /\ lastPreview = 0
  /\ finals = <<>>
  /\ partials = {}
  /\ finished = FALSE

Feed(block) ==
  /\ ~finished
  /\ Len(heard) + Len(block) <= MaxTotal
  /\ heard' = heard \o block
  /\ LET s == Loop(heard', [base |-> base, last |-> lastPreview, finals |-> finals,
                            partial |-> {}, again |-> TRUE])
     IN  /\ base' = s.base
         /\ lastPreview' = s.last
         /\ finals' = s.finals
         /\ partials' = s.partial
  /\ UNCHANGED finished

\* finish(): every span left is final.
Finish ==
  /\ ~finished
  /\ finished' = TRUE
  /\ LET spans == Vad(Pending(heard, base), MinSilence, Pad)
     IN  finals' = finals \o [k \in 1..Len(spans) |-> <<base + spans[k].start, base + spans[k].end>>]
  /\ base' = Len(heard)
  /\ partials' = {}
  /\ UNCHANGED <<heard, lastPreview>>

GNext == Finish \/ \E n \in BlockSizes : \E block \in [1..n -> BOOLEAN] : Feed(block)

GSpec == GInit /\ [][GNext]_gvars

-----------------------------------------------------------------------------
Finalized(i) == \E k \in 1..Len(finals) : finals[k][1] < i /\ i <= finals[k][2]

\* "A completed utterance is transcribed once more" (live_streaming.py:4-5), once
\* and not twice: no sample is in two finals, they come in the order of the audio,
\* and what is final is not pending any more.  And no speech is lost however it
\* falls across blocks, pauses, splits and the limit: what is neither final nor
\* pending is shorter than the detector's least speech.
SpeechFinalOnce ==
  /\ \A k \in 1..Len(finals) : finals[k][1] < finals[k][2] /\ finals[k][2] <= base
  /\ \A k \in 1..(Len(finals) - 1) : finals[k][2] <= finals[k + 1][1]
  /\ \A i \in 1..(base - MinSpeech + 1) :
       \E j \in i..(i + MinSpeech - 1) : ~heard[j] \/ Finalized(j)

\* A preview shows the unfinished utterance and nothing that is final.
PreviewIsUnfinished ==
  \A p \in partials : \A k \in 1..Len(finals) : finals[k][2] <= p[1]

\* However much audio waited and however the speech in it falls, a feed leaves less
\* than the limit pending (live_streaming.py:108): the audio that the detector reads
\* again with every feed does not grow with the length of the meeting.
PendingBounded == Len(heard) - base < MaxUtterance

\* "(20 s at most)" (README.md:166): no utterance is longer than the limit.
FinalsWithinLimit ==
  \A k \in 1..Len(finals) : finals[k][2] - finals[k][1] <= MaxUtterance
=============================================================================
