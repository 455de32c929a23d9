--------------------------- MODULE MCBtKeyControl ---------------------------
(***************************************************************************)
(* BtKeyControl for TLC: two keys, four transaction labels (so that the    *)
(* third press uses the label of the first again) and three presses.       *)
(***************************************************************************)
EXTENDS BtKeyControl, TLC

KeySymmetry == Permutations(Keys)
==============================================================================
