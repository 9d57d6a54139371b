---------------------------- MODULE MCHardwareKey ----------------------------
(***************************************************************************)
(* Instance of HardwareKey for TLC.                                        *)
(***************************************************************************)
EXTENDS HardwareKey
=============================================================================
