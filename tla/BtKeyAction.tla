----------------------------- MODULE BtKeyAction -----------------------------
(***************************************************************************)
(* What AVRCP key control promises the remote device: a key is pressed,    *)
(* and what is released afterwards is that key, once, under the next       *)
(* transaction label.  An action may also be abandoned (time-out, lost     *)
(* link): then the next command is a new press.  While the time-out of an  *)
(* action is half done its label is already 0, and so the release may go   *)
(* out under label 1 instead.                                              *)
(***************************************************************************)
EXTENDS Naturals

CONSTANTS Keys, LabelMod

VARIABLES wire,     \* the key action last seen by the stack
          expiring  \* its label has been reset by a time-out still going on

Labels == 0 .. LabelMod - 1

\* Nothing sent yet.
NoAction == [phase |-> "none"]

Init == wire = NoAction /\ expiring = FALSE

Press == /\ \E k \in Keys, l \in Labels :
               wire' = [phase |-> "pressed", key |-> k, tl |-> l]
         /\ UNCHANGED expiring

\* The labels the release may follow.
Followed == {wire.tl} \cup (IF expiring THEN {0} ELSE {})

Release == /\ wire.phase = "pressed"
           /\ \E l \in Followed :
                 wire' = [phase |-> "released", key |-> wire.key,
                          tl |-> (l + 1) % LabelMod]
           /\ UNCHANGED expiring

Expire == expiring' = ~expiring /\ UNCHANGED wire

Next == Press \/ Release \/ Expire

Spec == Init /\ [][Next]_<<wire, expiring>>
==============================================================================
