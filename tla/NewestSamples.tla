---------------------------- MODULE NewestSamples ----------------------------
(***************************************************************************)
(* What audio_async promises its reader: it holds the newest samples, as   *)
(* many as fit, in the order they were captured.  No buffer, no positions. *)
(***************************************************************************)
EXTENDS Integers, Sequences

CONSTANTS
  Samples,  \* the values a sample can have
  Packets,  \* the sequences of samples that arrive at once
  Size      \* how many samples are held

VARIABLE newest

\* The last n elements of s, or all of them.
Lesser(a, b) == IF a < b THEN a ELSE b
Newest(s, n) == SubSeq(s, Len(s) - Lesser(n, Len(s)) + 1, Len(s))

NInit == newest = <<>>

Hear(s) == newest' = Newest(newest \o s, Size)
Forget  == newest' = <<>>

NNext == (\E s \in Packets : Hear(s)) \/ Forget

NSpec == NInit /\ [][NNext]_newest
=============================================================================
