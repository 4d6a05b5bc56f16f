------------------------------ MODULE AudioRing ------------------------------
(***************************************************************************)
(* The ring of captured audio, audio_async of                              *)
(* whisper_cpp/src_vulkan_loopback/examples/stream-loopback/               *)
(* common-wasapi-loopback.cpp.  The capture thread appends a packet, the   *)
(* main thread reads the newest samples or clears the ring; each is one    *)
(* critical section of m_mutex and one action here.                        *)
(***************************************************************************)
EXTENDS Integers, Sequences

CONSTANTS
  Samples,  \* the values of a sample
  Packets,  \* what the device hands over at once
  Size,     \* m_audio.size(): the samples of m_len_ms
  Silence   \* 0.0f, which resize() fills the ring with

ASSUME RingSizeAssumption == Size \in Nat \ {0}
ASSUME RingPacketsAssumption == Packets \subseteq Seq(Samples)
ASSUME SilenceAssumption == Silence \in Samples

VARIABLES
  audio,  \* m_audio
  pos,    \* m_audio_pos: where the next sample goes
  len     \* m_audio_len: how many samples are valid

ringVars == <<audio, pos, len>>
Slots    == 0..(Size - 1)

RingInit ==
  /\ audio = [i \in Slots |-> Silence]
  /\ pos = 0
  /\ len = 0

-----------------------------------------------------------------------------
\* How far slot i lies behind the write position, going round.
Offset(i) == IF i >= pos THEN i - pos ELSE i - pos + Size

\* A packet longer than the ring keeps its newest part; mutated: its oldest.
OldestPart(s) == SubSeq(s, 1, IF Len(s) > Size THEN Size ELSE Len(s))
NewestPart(s) == IF Len(s) > Size THEN SubSeq(s, Len(s) - Size + 1, Len(s)) ELSE s

\* The two memcpy of a packet that wraps are one write going round.
AppendSamples(s) ==
  LET part == NewestPart(s)
      n    == Len(part)
  IN  /\ audio' = [i \in Slots |-> IF Offset(i) < n THEN part[Offset(i) + 1] ELSE audio[i]]
      /\ pos' = (pos + n) % Size
      /\ len' = IF len + n < Size THEN len + n ELSE Size

Clear ==
  /\ pos' = 0
  /\ len' = 0
  /\ UNCHANGED audio

\* What get() copies for a request of n samples: s0 is an int and may be negative.
Get(n) ==
  LET count == IF n < len THEN n ELSE len
      s0    == IF pos - count < 0 THEN pos - count + Size ELSE pos - count
  IN  [k \in 1..count |-> audio[IF s0 + k - 1 >= Size THEN s0 + k - 1 - Size ELSE s0 + k - 1]]

RingNext == (\E s \in Packets : AppendSamples(s)) \/ Clear

RingSpec == RingInit /\ [][RingNext]_ringVars

-----------------------------------------------------------------------------
RingTypeOK ==
  /\ audio \in [Slots -> Samples]
  /\ pos \in Slots
  /\ len \in 0..Size

\* A reader that asks for the whole ring gets the newest samples in the order they
\* were captured, whatever packets were appended and wherever they wrapped: the
\* ring implements NewestSamples.
Held == INSTANCE NewestSamples WITH newest <- Get(Size)
RingHoldsNewest == Held!NSpec
=============================================================================
