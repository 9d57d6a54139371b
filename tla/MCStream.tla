------------------------------ MODULE MCStream ------------------------------
(***************************************************************************)
(* Instance of Stream for TLC.                                             *)
(***************************************************************************)
EXTENDS Stream, TLC

AllKinds == {"plain", "undecodable", "unmarshalable", "panicking"}

PlainKinds == {"plain"}
=============================================================================
