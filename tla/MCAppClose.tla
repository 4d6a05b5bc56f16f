----------------------------- MODULE MCAppClose -----------------------------
(* Model values for closing the app. *)
EXTENDS AppClose

CONSTANTS t1, t2, a1, u1
=============================================================================
