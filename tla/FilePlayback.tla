---------------------------- MODULE FilePlayback ----------------------------
(***************************************************************************)
(* What a stream that plays a file promises to those that hear it: the     *)
(* buffers of the file, each once and in order from the first; after a     *)
(* pause it goes on where it was, after an end it begins again.            *)
(***************************************************************************)
EXTENDS Naturals

CONSTANT FileLen

VARIABLES phase, \* "quiet", "playing" or "held"
          heard  \* the last buffer delivered, 0 for none

Init == phase = "quiet" /\ heard = 0

Begin == /\ phase = "quiet"
         /\ phase' = "playing" /\ heard' = 0

Deliver == /\ phase = "playing" /\ heard < FileLen
           /\ heard' = heard + 1
           /\ UNCHANGED phase

Hold == /\ phase = "playing"
        /\ phase' = "held"
        /\ UNCHANGED heard

GoOn == /\ phase = "held"
        /\ phase' = "playing"
        /\ UNCHANGED heard

End == /\ phase # "quiet"
       /\ phase' = "quiet"
       /\ UNCHANGED heard

Next == Begin \/ Deliver \/ Hold \/ GoOn \/ End

Spec == Init /\ [][Next]_<<phase, heard>>
==============================================================================
