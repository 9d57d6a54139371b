--------------------------- MODULE MCPortalRequest ---------------------------
(***************************************************************************)
(* Instance of PortalRequest for TLC.                                      *)
(***************************************************************************)
EXTENDS PortalRequest
=============================================================================
