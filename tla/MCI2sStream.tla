----------------------------- MODULE MCI2sStream -----------------------------
(***************************************************************************)
(* I2sStream for TLC: three formats, the one of the configuration among    *)
(* them.                                                                   *)
(***************************************************************************)
EXTENDS I2sStream
==============================================================================
