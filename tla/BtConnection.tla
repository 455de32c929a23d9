----------------------------- MODULE BtConnection -----------------------------
(***************************************************************************)
(* What the Bluetooth service as source promises its player: one search,   *)
(* which is over before the one attempt to connect begins, to a speaker    *)
(* that is not changed from then on; and CONNECTED is said when the        *)
(* connection is made, DISCONNECTED when it is lost, once each.            *)
(***************************************************************************)
EXTENDS Sequences

CONSTANTS Speakers, Nobody

VARIABLES phase,   \* of the search and the connection
          speaker, \* found last
          search,  \* an inquiry is "on" or "off"
          inbox    \* what the player has been told and has not read

vars == <<phase, speaker, search, inbox>>

Init == /\ phase = "IDLE" /\ speaker = Nobody
        /\ search = "off" /\ inbox = <<>>

\* The player hears of it if it listens.
Tell(msg) == inbox' \in {inbox, Append(inbox, msg)}

Goes(from, to) == phase = from /\ phase' = to

Begin == /\ Goes("IDLE", "DISCOVERING")
         /\ search' = "on"
         /\ UNCHANGED <<speaker, inbox>>

SearchAgain == /\ phase = "DISCOVERING"
               /\ search' = "on"
               /\ UNCHANGED <<phase, speaker, inbox>>

SearchEnds == /\ search' = "off"
              /\ UNCHANGED <<phase, speaker, inbox>>

\* A second speaker that has answered the same inquiry takes the place of the first.
Find(s) == /\ phase \in {"DISCOVERING", "DISCOVERED"} /\ phase' = "DISCOVERED"
           /\ speaker' = s
           /\ search' = "off"
           /\ UNCHANGED inbox

Connect == /\ Goes("DISCOVERED", "CONNECTING")
           /\ search = "off"
           /\ UNCHANGED <<speaker, search, inbox>>

Connected == /\ Goes("CONNECTING", "CONNECTED")
             /\ Tell("CONNECTED")
             /\ UNCHANGED <<speaker, search>>

Failed == /\ Goes("CONNECTING", "UNCONNECTED")
          /\ UNCHANGED <<speaker, search, inbox>>

Disconnected == /\ Goes("CONNECTED", "UNCONNECTED")
                /\ Tell("DISCONNECTED")
                /\ UNCHANGED <<speaker, search>>

\* There is no more data to send.
Suspended == /\ Tell("AUDIO_SUSPENDED")
             /\ UNCHANGED <<phase, speaker, search>>

\* The player reads a message, or stops listening.
Listen == /\ inbox' = <<>> \/ (inbox # <<>> /\ inbox' = Tail(inbox))
          /\ UNCHANGED <<phase, speaker, search>>

Next == \/ Begin \/ SearchAgain \/ SearchEnds
        \/ \E s \in Speakers : Find(s)
        \/ Connect \/ Connected \/ Failed \/ Disconnected
        \/ Suspended \/ Listen

Spec == Init /\ [][Next]_vars
==============================================================================
