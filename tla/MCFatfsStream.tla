---------------------------- MODULE MCFatfsStream ----------------------------
(***************************************************************************)
(* FatfsStream for TLC.                                                    *)
(***************************************************************************)
EXTENDS FatfsStream
==============================================================================
