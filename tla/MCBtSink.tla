------------------------------ MODULE MCBtSink ------------------------------
(***************************************************************************)
(* BtSink for TLC: two phones, so that one can be turned away.             *)
(***************************************************************************)
EXTENDS BtSink
==============================================================================
