-------------------------- MODULE MC_DetectRegion --------------------------
(* Model-checking instance of DetectRegion: the constants are given in the *)
(* .cfg files.                                                             *)
EXTENDS DetectRegion
=============================================================================
