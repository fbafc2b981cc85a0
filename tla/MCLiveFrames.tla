--------------------------- MODULE MCLiveFrames ---------------------------
(***************************************************************************)
(* Small instances of LiveFrames for TLC.                                  *)
(***************************************************************************)
EXTENDS LiveFrames, TLC

Sym == Permutations(Cameras)
=============================================================================
