----------------------------- MODULE MCSdPlayer -----------------------------
(***************************************************************************)
(* SdPlayer for TLC.                                                       *)
(***************************************************************************)
EXTENDS SdPlayer
==============================================================================
