----------------------------- MODULE MCProject -----------------------------
(***************************************************************************)
(* Instance of Project for TLC.                                            *)
(***************************************************************************)
EXTENDS Project
=============================================================================
