---------------------------- MODULE MCCaptionView ----------------------------
(* Model values for the transcript on the page. *)
EXTENDS CaptionView

CONSTANTS a, b
=============================================================================
