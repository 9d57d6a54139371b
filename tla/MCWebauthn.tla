----------------------------- MODULE MCWebauthn -----------------------------
(***************************************************************************)
(* Instance of Webauthn for TLC.                                           *)
(***************************************************************************)
EXTENDS Webauthn
=============================================================================
