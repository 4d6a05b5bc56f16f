---------------------------- MODULE LoopbackText ----------------------------
(***************************************************************************)
(* What the loopback program makes of the texts it recognizes: main() and  *)
(* suppress_plain_overlap of whisper_cpp/src_vulkan_loopback/examples/     *)
(* stream-loopback/stream-loopback.cpp with --plain, --preview or --hybrid.*)
(* Windows of audio overlap, so do their texts; the program prints only    *)
(* what is new.                                                            *)
(*                                                                         *)
(* A text is a sequence of words of which none is part of another, <<>>    *)
(* what was silent or held for a hallucination.  MinOverlap is the         *)
(* program's 12 bytes.                                                     *)
(***************************************************************************)
EXTENDS Integers, Sequences

CONSTANTS
  Words,         \* what texts are made of
  MinOverlap,    \* min_overlap: words two texts must share to be joined
  StablePartials,\* partials alike that make a hybrid text stable (2)
  CommitChecks,  \* silent checks before a preview is committed
  Modes          \* the command lines: [output, vad]

Outputs == {"plain", "preview", "hybrid"}

ASSUME MinOverlapAssumption == MinOverlap \in Nat \ {0}
ASSUME StableAssumption     == StablePartials \in Nat \ {0}
ASSUME CommitAssumption     == CommitChecks \in Nat \ {0}
ASSUME ModesAssumption      == Modes \subseteq [output : Outputs, vad : BOOLEAN]

VARIABLES
  mode,           \* params and use_vad
  lastPlain,      \* last_plain_output
  lastCommitted,  \* last_committed_output
  lastPartial,    \* last_preview_output or last_hybrid_output
  stable,         \* stable_hybrid_output
  stableCount,    \* hybrid_stable_count
  pending,        \* preview_has_speech
  silence,        \* preview_silence_ms, in checks
  shown,          \* the finished text printed so far
  unfinished,     \* the @@PARTIAL line a reader of the output has
  said            \* history: texts taken for final

textVars == <<mode, lastPlain, lastCommitted, lastPartial, stable, stableCount,
              pending, silence, shown, unfinished, said>>

TextInit ==
  /\ mode \in Modes
  /\ lastPlain = <<>> /\ lastCommitted = <<>> /\ lastPartial = <<>> /\ stable = <<>>
  /\ stableCount = 0 /\ silence = 0 /\ pending = FALSE
  /\ shown = <<>> /\ unfinished = <<>> /\ said = {}

-----------------------------------------------------------------------------
(* suppress_plain_overlap. *)

InfixAt(s, t, d) == \A k \in 1..Len(s) : s[k] = t[d + k]
Infix(s, t)      == \E d \in 0..(Len(t) - Len(s)) : InfixAt(s, t, d)
Prefix(s, t)     == Len(s) <= Len(t) /\ InfixAt(s, t, 0)
Suffix(s, t)     == Len(s) <= Len(t) /\ InfixAt(s, t, Len(t) - Len(s))
Rest(t, n)       == SubSeq(t, n + 1, Len(t))

\* Lengths in which the end of previous is the start of text, and the longest.
Overlaps(text, previous) ==
  {n \in MinOverlap..Len(text) :
     /\ n <= Len(previous)
     /\ \A k \in 1..n : text[k] = previous[Len(previous) - n + k]}
Longest(S) == CHOOSE n \in S : \A m \in S : m <= n

\* Mutated: the first word after the overlap is dropped with it.
CutOneMore(text, previous) == Rest(text, Longest(Overlaps(text, previous)) + 1)
CutOverlap(text, previous) == Rest(text, Longest(Overlaps(text, previous)))

suppress_plain_overlap(text, previous) ==
  IF text = <<>> \/ previous = <<>> THEN text
  ELSE IF Infix(text, previous) THEN <<>>
  ELSE IF Prefix(previous, text) THEN Rest(text, Len(previous))
  ELSE IF Overlaps(text, previous) # {} THEN CutOverlap(text, previous)
  ELSE text

-----------------------------------------------------------------------------
(* What is done with the text of one inference, by mode. *)

Mode(output, vad) == mode.output = output /\ mode.vad = vad

\* A text printed as it is.
Say(text) ==
  /\ shown' = shown \o text
  /\ said' = said \cup {text}

\* A text committed: what the last commit has of it is not printed again.  Nothing
\* is left to print: no @@FINAL, and the last commit stays.
Commit(text) ==
  LET final == suppress_plain_overlap(text, lastCommitted) IN
  /\ said' = said \cup {text}
  /\ shown' = shown \o final
  /\ IF final = <<>> THEN UNCHANGED <<lastCommitted, unfinished>>
                     ELSE lastCommitted' = text /\ unfinished' = <<>>

PlainVad(text) ==
  /\ Mode("plain", TRUE)
  /\ text # <<>>
  /\ Say(text)
  /\ UNCHANGED <<mode, lastPlain, lastCommitted, lastPartial, stable, stableCount, pending, silence, unfinished>>

\* `last_plain_output` changes only when something was printed; mutated: always.
AlwaysRemembered(output) == TRUE
Remembered(output) == output # <<>>

PlainStep(text) ==
  LET output == suppress_plain_overlap(text, lastPlain) IN
  /\ Mode("plain", FALSE)
  /\ text # <<>>
  /\ shown' = shown \o output
  /\ said' = said \cup {text}
  /\ lastPlain' = IF Remembered(output) THEN text ELSE lastPlain
  /\ UNCHANGED <<mode, lastCommitted, lastPartial, stable, stableCount, pending, silence, unfinished>>

Preview(text) ==
  /\ mode.output = "preview"
  /\ text # <<>>
  /\ unfinished' = text
  /\ lastPartial' = text
  /\ pending' = TRUE
  /\ UNCHANGED <<mode, lastPlain, lastCommitted, stable, stableCount, silence, shown, said>>

\* preview_silence_ms += vad_check_ms; mutated: it is not.
SilenceKept  == silence
SilenceGrown == silence + 1

\* A check that found no pause to recognize: silence grows, a preview is committed.
PreviewSilence ==
  /\ Mode("preview", TRUE)
  /\ pending
  /\ IF SilenceGrown < CommitChecks
     THEN /\ silence' = SilenceGrown
          /\ UNCHANGED <<lastPartial, pending, lastCommitted, shown, unfinished, said>>
     ELSE /\ Commit(lastPartial)
          /\ lastPartial' = <<>> /\ pending' = FALSE /\ silence' = 0
  /\ UNCHANGED <<mode, lastPlain, stable, stableCount>>

HybridVad(text) ==
  /\ Mode("hybrid", TRUE)
  /\ IF text = <<>> THEN UNCHANGED <<lastCommitted, shown, unfinished, said>>
                    ELSE Say(text) /\ lastCommitted' = text /\ unfinished' = <<>>
  /\ stable' = <<>> /\ stableCount' = 0 /\ lastPartial' = <<>>
  /\ UNCHANGED <<mode, lastPlain, pending, silence>>

\* similar: similarity() >= 0.82; commits: is there a pause, and is the text stable
\* or the last commit 8 s ago?  The count is kept up to the number that matters.
HybridStep(text, similar, pause, late) ==
  LET count == IF text = <<>> THEN stableCount
               ELSE IF lastPartial # <<>> /\ similar
               THEN IF stableCount < StablePartials THEN stableCount + 1 ELSE stableCount
               ELSE 1
      partial   == IF text = <<>> THEN lastPartial ELSE text
      steady    == IF text # <<>> /\ count >= StablePartials THEN text ELSE stable
      candidate == IF steady # <<>> THEN steady ELSE partial
      final     == suppress_plain_overlap(candidate, lastCommitted)
      line      == IF text = <<>> THEN unfinished ELSE text
  IN
  /\ Mode("hybrid", FALSE)
  /\ lastPartial' = partial
  /\ IF candidate # <<>> /\ pause /\ (count >= StablePartials \/ late)
     THEN /\ shown' = shown \o final
          /\ said' = said \cup {candidate}
          /\ lastCommitted' = IF final = <<>> THEN lastCommitted ELSE candidate
          /\ unfinished' = IF final = <<>> THEN line ELSE <<>>
          /\ stable' = <<>> /\ stableCount' = 0
     ELSE /\ stable' = steady /\ stableCount' = count /\ unfinished' = line
          /\ UNCHANGED <<lastCommitted, shown, said>>
  /\ UNCHANGED <<mode, lastPlain, pending, silence>>

\* An inference gave text; without any there is nothing to do but in hybrid mode.
Recognized(text) ==
  \/ PlainVad(text) \/ PlainStep(text) \/ Preview(text) \/ HybridVad(text)
  \/ \E similar, pause, late \in BOOLEAN : HybridStep(text, similar, pause, late)
  \/ mode.output # "hybrid" /\ text = <<>> /\ UNCHANGED textVars

\* `preview_silence_ms = 0` of a check that found a pause, in every mode.
SilenceBroken ==
  /\ silence' = 0
  /\ UNCHANGED <<mode, lastPlain, lastCommitted, lastPartial, stable, stableCount,
                 pending, shown, unfinished, said>>

TextNext == (\E text \in Seq(Words) : Recognized(text)) \/ PreviewSilence \/ SilenceBroken

TextSpec == TextInit /\ [][TextNext]_textVars

-----------------------------------------------------------------------------
TextTypeOK ==
  /\ mode \in Modes
  /\ lastPlain \in Seq(Words) /\ lastCommitted \in Seq(Words) /\ lastPartial \in Seq(Words)
  /\ stable \in Seq(Words) /\ stableCount \in 0..StablePartials
  /\ pending \in BOOLEAN /\ silence \in 0..CommitChecks
  /\ shown \in Seq(Words) /\ unfinished \in Seq(Words) /\ said \subseteq Seq(Words)

\* Cutting overlaps loses nothing: every text that was final stands in the printed
\* text whole, with its words in order, however windows overlapped, whatever texts
\* repeat and whichever of them were not printed at all.
NothingSaidIsLost == \A text \in said : Infix(text, shown)

\* A preview over without a @@FINAL (its text was in the last commit) leaves the
\* reader an unfinished line; its words are in the finished text already.
PreviewIsResolved == mode.output = "preview" /\ ~pending => Infix(unfinished, shown)
=============================================================================
