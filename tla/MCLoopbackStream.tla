-------------------------- MODULE MCLoopbackStream --------------------------
(* Packets of numbered samples, the longest larger than the ring. *)
EXTENDS LoopbackStream

CONSTANT PacketSizes

MCPackets == {[k \in 1..n |-> i + k] : n \in PacketSizes, i \in 0..(MaxHeard - 1)}
MCSamples == 0..(2 * MaxHeard)
MCModes   == [output : Outputs, vad : BOOLEAN]

\* --preview with the default step, 3 s.
MCStepPreview == {[output |-> "preview", vad |-> FALSE]}
=============================================================================
