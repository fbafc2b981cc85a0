---------------------------- MODULE MCRtmpServer ----------------------------
(***************************************************************************)
(* Small instances of RtmpServer for TLC.  Slots and object identities are *)
(* interchangeable, so the safety runs use their permutations as symmetry. *)
(***************************************************************************)
EXTENDS RtmpServer, TLC

Sym == Permutations(Threads) \cup Permutations(Jobs)
       \cup Permutations(Decoders) \cup Permutations(Listeners)
=============================================================================
