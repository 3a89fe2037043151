------------------------- MODULE MC_DetectConflict -------------------------
(* Model-checking instance of DetectConflict: the constants are given in  *)
(* the .cfg files.                                                         *)
EXTENDS DetectConflict
=============================================================================
