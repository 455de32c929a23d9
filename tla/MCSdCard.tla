------------------------------ MODULE MCSdCard ------------------------------
(***************************************************************************)
(* SdCard for TLC.                                                         *)
(***************************************************************************)
EXTENDS SdCard
==============================================================================
