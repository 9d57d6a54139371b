----------------------------- MODULE MCFileWrite -----------------------------
(***************************************************************************)
(* Instance of FileWrite for TLC.                                          *)
(***************************************************************************)
EXTENDS FileWrite, TLC

CallSymmetry == Permutations(Calls)
=============================================================================
