----------------------------- MODULE BtService -----------------------------
(***************************************************************************)
(* The life of the Bluetooth service, its stream and its peripheral, and   *)
(* of the player task that creates and destroys them; the messages the     *)
(* service's callbacks send to the player.  Shared by BtSource and BtSink. *)
(***************************************************************************)
EXTENDS Naturals, Sequences, SequencesExt

VARIABLES held,      \* which of service, bluedroid (enabled), stream and periph there are
          player,    \* the player's next step
          listener,  \* the player's event interface listens to the peripherals
          inbox      \* messages for the player

life == <<held, player, listener, inbox>>

\* Bluedroid is enabled and calls the service.
Running == "bluedroid" \in held

\* esp_periph_send_event: a message nobody listens to is lost.
SendEvent(msg) == inbox' = IF "periph" \in held /\ listener
                           THEN Append(inbox, msg) ELSE inbox

-----------------------------------------------------------------------------
(* Steps of the player: each takes it from one to the next.                *)

Goto(from, to) == player = from /\ player' = to

\* bluetooth_service_start: when the controller or Bluedroid fails, g_bt_service stays.
ServiceStart(from, to, ok) == /\ Goto(from, to)
                              /\ held' = {"service"} \cup (IF ok THEN {"bluedroid"} ELSE {})
                              /\ UNCHANGED <<listener, inbox>>

\* bluetooth_service_create_stream and bluetooth_service_create_periph.
Create(part, from, to) == /\ Goto(from, to)
                          /\ held' = held \cup {part}
                          /\ UNCHANGED <<listener, inbox>>

SetListener(from, to) == /\ Goto(from, to)
                         /\ listener' = TRUE
                         /\ UNCHANGED <<held, inbox>>

\* Before the event interface is destroyed, and what it still holds with it.
RemoveListener(from, to) == /\ Goto(from, to)
                            /\ listener' = FALSE /\ inbox' = <<>>
                            /\ UNCHANGED held

\* audio_element_deinit runs _bt_stream_destroy, esp_periph_destroy _bt_periph_destroy.
Destroy(part, from, to) == /\ Goto(from, to)
                           /\ held' = held \ {part}
                           /\ UNCHANGED <<listener, inbox>>

\* bluetooth_service_destroy refuses while the stream or the periph exists.
MayDestroy == held \cap {"stream", "periph"} = {}

ServiceDestroy(from, to) == /\ Goto(from, to)
                            /\ held' = IF MayDestroy THEN {} ELSE held
                            /\ UNCHANGED <<listener, inbox>>
==============================================================================
