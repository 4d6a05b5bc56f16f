---------------------------- MODULE MCAssetFiles ----------------------------
(* Model values for the downloads and what they leave on disk. *)
EXTENDS AssetFiles

CONSTANTS a1, u1, u2, m1, m2
=============================================================================
