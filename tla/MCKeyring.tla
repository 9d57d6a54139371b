------------------------------ MODULE MCKeyring ------------------------------
(***************************************************************************)
(* Instance of Keyring for TLC.                                            *)
(***************************************************************************)
EXTENDS Keyring, TLC

Symmetry == Permutations(Threads) \cup Permutations(Names)
=============================================================================
