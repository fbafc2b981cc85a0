--------------------------- MODULE MCH264Decoder ---------------------------
(***************************************************************************)
(* Small instances of H264Decoder for TLC.                                 *)
(***************************************************************************)
EXTENDS H264Decoder, TLC

Sym == Permutations(ParamSets)
=============================================================================
