----------------------------- MODULE MCBtSource -----------------------------
(***************************************************************************)
(* BtSource for TLC: the speaker, a speaker of another name and a phone    *)
(* that has the name but renders no audio.                                 *)
(***************************************************************************)
EXTENDS BtSource
==============================================================================
