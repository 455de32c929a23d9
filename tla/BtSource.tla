------------------------------ MODULE BtSource ------------------------------
(***************************************************************************)
(* The Bluetooth service as A2DP source (bluetooth_service.c) and the      *)
(* player that owns it (play-mp3-bt-src.c).  Bluedroid is the environment: *)
(* it inquires, pages, keeps the link and answers media commands, and      *)
(* reports in order to the callback task, which runs bt_app_gap_cb and     *)
(* bt_a2d_source_cb without interruption.                                  *)
(***************************************************************************)
EXTENDS BtService

CONSTANTS Devices,         \* devices that answer the inquiry
          Rendering,       \* those whose class of device has the rendering service
          Named,           \* those whose inquiry response holds peer_bdname
          NoDevice,        \* the zero address
          MaxQueue         \* bound: callback events and player messages waiting

ASSUME DeviceAssumption == /\ Rendering \subseteq Devices /\ Named \subseteq Devices
                           /\ NoDevice \notin Devices
ASSUME BoundAssumption == MaxQueue \in Nat \ {0}

VARIABLES srcState,    \* g_bt_service->source_a2d_state
          remoteBda,   \* g_bt_service->remote_bda
          audioState,  \* g_bt_service->audio_state
          asked,       \* history: address periph_bluetooth_connect was given
          scan,        \* Bluedroid: other devices may connect
          incoming,    \* history: one has
          inquiry, link, ctrl, streaming,  \* what it is doing
          evq                              \* its events for the callback task

stack == <<scan, incoming, inquiry, link, ctrl, streaming>>
service == <<srcState, remoteBda, audioState>>
app == <<player, listener, asked>>
vars == <<service, evq, stack, life, asked>>

SourceStates == {"IDLE", "DISCOVERING", "DISCOVERED", "UNCONNECTED", "CONNECTING",
                 "CONNECTED", "DISCONNECTING"}
\* An event, and the word its parameter union begins with.
Event(kind, word) == [kind |-> kind, word |-> word, dev |-> NoDevice, ok |-> TRUE]
Found(d) == [kind |-> "DISC_RES", word |-> 0, dev |-> d, ok |-> TRUE]
Disconnected == 0  \* ESP_A2D_CONNECTION_STATE_DISCONNECTED
Connected == 2     \* ESP_A2D_CONNECTION_STATE_CONNECTED
Suspended == 0     \* ESP_A2D_AUDIO_STATE_REMOTE_SUSPEND
Started == 2       \* ESP_A2D_AUDIO_STATE_STARTED
\* Mutant: the media command's number is stored in audio_state.
Stopped_Command == 3
Stopped == 1       \* ESP_A2D_AUDIO_STATE_STOPPED
CheckSrcRdy == 1   \* ESP_A2D_MEDIA_CTRL_...
Start == 2
Stop == 3
Suspend == 4

InQueue(e) == Contains(evq, e)
Room(n) == Len(evq) + n <= MaxQueue

Init == /\ srcState = "IDLE" /\ remoteBda = NoDevice /\ audioState = 0
        /\ held = {} /\ player = "start" /\ listener = FALSE /\ inbox = <<>> /\ asked = NoDevice
        /\ scan = FALSE /\ incoming = FALSE /\ inquiry = "off" /\ link = "down"
        /\ ctrl = <<>> /\ streaming = FALSE
        /\ evq = <<>>

-----------------------------------------------------------------------------
(* What the callbacks ask of Bluedroid.                                    *)

\* Mutant: the search is not taken up again.
StartDiscovery_Missing == UNCHANGED inquiry

StartDiscovery == inquiry' = "on"

\* Mutant: the inquiry goes on.
CancelDiscovery_Missing(q) == UNCHANGED inquiry /\ evq' = q

\* Ends a running inquiry, which is reported as DISCOVERY_STOPPED.
CancelDiscovery(q) == IF inquiry = "on"
                      THEN inquiry' = "off" /\ evq' = Append(q, Event("STOPPED", 0))
                      ELSE inquiry' = inquiry /\ evq' = q

\* Mutant: no page.
SourceConnect_Missing == UNCHANGED link

\* Does nothing when the link to the device is up already.
SourceConnect == link' = IF link = "down" THEN "paging" ELSE link

MediaCtrl(cmd) == ctrl' = Append(ctrl, cmd)

-----------------------------------------------------------------------------
(* bt_app_gap_cb.                                                          *)

IsTarget(d) == d \in Rendering /\ d \in Named

FilterInquiryScanResult ==
    LET d == Head(evq).dev
    IN IF IsTarget(d)
       THEN /\ srcState' = "DISCOVERED" /\ remoteBda' = d
            /\ CancelDiscovery(Tail(evq))
       ELSE /\ evq' = Tail(evq)
            /\ UNCHANGED <<srcState, remoteBda, inquiry>>

DiscRes == /\ evq # <<>> /\ Head(evq).kind = "DISC_RES"
           /\ FilterInquiryScanResult
           /\ UNCHANGED <<audioState, held, inbox, scan, incoming, link, ctrl, streaming, app>>

Rediscovers(state) == state \notin {"IDLE", "DISCOVERED"}

DiscoveryStopped ==
    /\ evq # <<>> /\ Head(evq).kind = "STOPPED"
    /\ evq' = Tail(evq)
    /\ \/ /\ srcState = "DISCOVERED"
          /\ srcState' = "CONNECTING"
          /\ SourceConnect
          /\ UNCHANGED inquiry
       \/ /\ Rediscovers(srcState)
          /\ StartDiscovery
          /\ UNCHANGED <<srcState, link>>
    /\ UNCHANGED <<remoteBda, audioState, held, inbox, scan, incoming, ctrl, streaming, app>>

-----------------------------------------------------------------------------
(* bt_a2d_source_cb, by the state it finds.                                *)

SourceEvent(e) == /\ evq # <<>> /\ Head(evq) = e
                  /\ e.kind \in {"CONN", "AUDIO", "ACK"}
                  /\ evq' = Tail(evq)

\* conn_stat.state is read whatever the event is: it is the union's first word.
WhenConnecting(e) ==
    /\ srcState = "CONNECTING"
    /\ \/ /\ e.word = Connected
          /\ srcState' = "CONNECTED"
          /\ scan' = FALSE
          /\ SendEvent("CONNECTED")
          /\ MediaCtrl(CheckSrcRdy)
       \/ /\ e.word = Disconnected
          /\ srcState' = "UNCONNECTED"
          /\ UNCHANGED <<inbox, ctrl, scan>>
       \/ /\ e.word \notin {Connected, Disconnected}
          /\ UNCHANGED <<srcState, inbox, ctrl, scan>>
    /\ UNCHANGED audioState

MediaAck(e) ==
    /\ srcState = "CONNECTED" /\ e.kind = "ACK"
    /\ ctrl' = IF e.word = CheckSrcRdy /\ e.ok THEN Append(ctrl, Start) ELSE ctrl
    /\ audioState' = CASE e.word = Start /\ e.ok -> Started
                       [] e.word = Suspend \/ (e.word = CheckSrcRdy /\ e.ok) -> audioState
                       [] OTHER -> 0  \* "media start failed", a STOP's success too
    /\ UNCHANGED <<srcState, inbox, scan>>

\* Mutant: the player is told, the state stays.
LinkDown_KeepsState(e) ==
    /\ srcState = "CONNECTED" /\ e.kind = "CONN" /\ e.word = Disconnected
    /\ SendEvent("DISCONNECTED")
    /\ UNCHANGED <<srcState, audioState, ctrl, scan>>

LinkDown(e) ==
    /\ srcState = "CONNECTED" /\ e.kind = "CONN" /\ e.word = Disconnected
    /\ srcState' = "UNCONNECTED"
    /\ SendEvent("DISCONNECTED")
    /\ UNCHANGED <<audioState, ctrl, scan>>

Ignored(e) ==
    /\ \/ srcState \notin {"CONNECTING", "CONNECTED"}
       \/ srcState = "CONNECTED" /\ e.kind # "ACK"
            /\ ~(e.kind = "CONN" /\ e.word = Disconnected)
    /\ UNCHANGED <<srcState, audioState, inbox, ctrl, scan>>

SourceCb == \E e \in ToSet(evq) :
               /\ SourceEvent(e)
               /\ WhenConnecting(e) \/ MediaAck(e) \/ LinkDown(e) \/ Ignored(e)
               /\ UNCHANGED <<remoteBda, held, incoming, inquiry, link, streaming, app>>

\* bt_a2d_source_data_cb: the pipeline has no more data.
SourceDataDone == /\ streaming /\ player = "loop" /\ "stream" \in held
                  /\ Len(inbox) < MaxQueue
                  /\ SendEvent("AUDIO_SUSPENDED")
                  /\ UNCHANGED <<service, held, evq, stack, app>>

-----------------------------------------------------------------------------
(* Bluedroid and the remote devices.                                       *)

Report(e) == Room(1) /\ evq' = Append(evq, e)

InquiryResult(d) == /\ Running /\ inquiry = "on"
                    /\ Report(Found(d))
                    /\ UNCHANGED stack

\* 10 * 1.28 s are over.
InquiryEnds == /\ Running /\ inquiry = "on"
               /\ inquiry' = "off"
               /\ Report(Event("STOPPED", 0))
               /\ UNCHANGED <<scan, incoming, link, ctrl, streaming>>

PageEnds(ok) == /\ link = "paging"
                /\ link' = IF ok THEN "up" ELSE "down"
                /\ Report(Event("CONN", IF ok THEN Connected ELSE Disconnected))
                /\ UNCHANGED <<scan, incoming, inquiry, ctrl, streaming>>

IncomingConnection == /\ scan /\ Running /\ link = "down"
                      /\ link' = "up" /\ incoming' = TRUE
                      /\ Report(Event("CONN", Connected))
                      /\ UNCHANGED <<scan, inquiry, ctrl, streaming>>

LinkLost == /\ link = "up"
            /\ link' = "down" /\ ctrl' = <<>> /\ streaming' = FALSE
            /\ Report(Event("CONN", Disconnected))
            /\ UNCHANGED <<scan, incoming, inquiry>>

MediaAnswer(ok) ==
    /\ ctrl # <<>> /\ Report([Event("ACK", Head(ctrl)) EXCEPT !.ok = ok])
    /\ ctrl' = Tail(ctrl)
    /\ streaming' = IF ok /\ Head(ctrl) # CheckSrcRdy THEN Head(ctrl) = Start ELSE streaming
    /\ UNCHANGED <<scan, incoming, inquiry, link>>

\* The remote device starts or suspends the stream.
RemoteAudio(on) == /\ link = "up" /\ streaming # on
                   /\ streaming' = on
                   /\ Report(Event("AUDIO", IF on THEN Started ELSE Suspended))
                   /\ UNCHANGED <<scan, incoming, inquiry, link, ctrl>>

Bluedroid == /\ \/ \E d \in Devices : InquiryResult(d)
                \/ InquiryEnds
                \/ \E ok \in BOOLEAN : PageEnds(ok) \/ MediaAnswer(ok) \/ RemoteAudio(ok)
                \/ IncomingConnection
                \/ LinkLost
             /\ UNCHANGED <<service, life, asked>>

-----------------------------------------------------------------------------
(* The player: it starts the service and creates the stream; the card is   *)
(* mounted at last, it creates the peripheral, listens, and tears          *)
(* everything down.                                                        *)

\* With mode SOURCE the search begins; the player goes on when the start fails.
StartService == \E ok \in BOOLEAN :
                   /\ ServiceStart("start", "create", ok)
                   /\ srcState' = IF ok THEN "DISCOVERING" ELSE srcState
                   /\ scan' = ok
                   /\ IF ok THEN StartDiscovery ELSE UNCHANGED inquiry
                   /\ UNCHANGED <<remoteBda, audioState, evq, incoming, link, ctrl, streaming, asked>>

Leaves(msg) == msg \in {"DISCONNECTED", "AUDIO_SUSPENDED"}

\* One turn of the event loop; periph_bluetooth_stop before leaving it.
Listen == /\ player = "loop" /\ inbox # <<>>
          /\ inbox' = Tail(inbox)
          /\ IF Leaves(Head(inbox))
             THEN /\ player' = "pipeline"
                  /\ audioState' = Stopped
                  /\ ctrl' = IF link = "up" THEN Append(ctrl, Stop) ELSE ctrl
             ELSE UNCHANGED <<player, audioState, ctrl>>
          /\ UNCHANGED <<srcState, remoteBda, held, evq, scan, incoming, inquiry, link,
                         streaming, listener, asked>>

\* Mutant: the service is destroyed before its peripheral.
TearDown_ServiceFirst == \/ RemoveListener("pipeline", "stream")
                         \/ Destroy("stream", "stream", "service")

\* The order of the destructions.
TearDown == \/ RemoveListener("pipeline", "stream")
            \/ Destroy("stream", "stream", "periphs")
            \/ Destroy("periph", "periphs", "service")

SetUp == \/ Create("stream", "create", "periph")
         \/ Create("periph", "periph", "listen")
         \/ SetListener("listen", "loop")

\* With the service go Bluedroid and its pending events.
Shutdown == /\ ServiceDestroy("service", "gone")
            /\ IF MayDestroy
               THEN /\ evq' = <<>> /\ scan' = FALSE /\ inquiry' = "off"
                    /\ link' = "down" /\ ctrl' = <<>> /\ streaming' = FALSE
                    /\ UNCHANGED incoming
               ELSE UNCHANGED <<evq, stack>>
            /\ UNCHANGED <<service, asked>>

Player == \/ StartService \/ Listen
          \/ (SetUp \/ TearDown) /\ UNCHANGED <<service, evq, stack, asked>>
          \/ Shutdown

\* periph_bluetooth_connect: the service is not a reader, so it answers ESP_OK and does
\* nothing.  Remembered is a call to a service that runs and searches, for which there is
\* something to do.
PeriphConnect(d) == /\ player = "loop" /\ asked = NoDevice
                    /\ Running /\ srcState = "DISCOVERING"
                    /\ asked' = d
                    /\ UNCHANGED <<service, evq, stack, life>>

\* The player's task has ended, or waits for a message for ever (portMAX_DELAY)
\* while there is nothing left to happen.
Quiet == /\ \/ player = "gone"
            \/ player = "loop" /\ inbox = <<>> /\ evq = <<>> /\ inquiry = "off"
         /\ UNCHANGED vars

-----------------------------------------------------------------------------
Callback == DiscRes \/ DiscoveryStopped \/ SourceCb

Next == \/ Callback \/ SourceDataDone
        \/ Bluedroid
        \/ Player \/ \E d \in Devices : PeriphConnect(d)
        \/ Quiet

Spec == Init /\ [][Next]_vars

\* The callback task and the player run; pages and media commands are answered;
\* a target in range answers the inquiry again and again.
Fairness == /\ WF_vars(Callback) /\ WF_vars(Player)
            /\ WF_vars(Bluedroid /\ link = "paging" /\ link' # link)
            /\ SF_vars(Bluedroid /\ \E d \in Devices :
                          IsTarget(d) /\ InquiryResult(d))

FairSpec == Spec /\ Fairness

-----------------------------------------------------------------------------
Events == [kind : {"DISC_RES", "STOPPED", "CONN", "AUDIO", "ACK"}, word : 0 .. 4,
           dev : Devices \cup {NoDevice}, ok : BOOLEAN]

TypeOK ==
    /\ srcState \in SourceStates /\ remoteBda \in Devices \cup {NoDevice}
    /\ audioState \in 0 .. 2
    /\ held \subseteq {"service", "bluedroid", "stream", "periph"}
    /\ player \in {"start", "create", "periph", "listen", "loop", "pipeline", "stream", "periphs", "service", "gone"}
    /\ listener \in BOOLEAN
    /\ inbox \in Seq({"CONNECTED", "DISCONNECTED", "AUDIO_SUSPENDED"})
    /\ asked \in Devices \cup {NoDevice}
    /\ {scan, incoming} \subseteq BOOLEAN /\ inquiry \in {"on", "off"}
    /\ link \in {"down", "paging", "up"}
    /\ ctrl \in Seq(1 .. 4) /\ streaming \in BOOLEAN
    /\ evq \in Seq(Events)

\* The search for the speaker is never dropped: as long as it is not connecting,
\* an inquiry runs or its end is about to be handled, which starts the next one
\* or the connection.
DiscoveryAlive ==
    Running /\ srcState \in {"DISCOVERING", "DISCOVERED"}
        => inquiry = "on" \/ InQueue(Event("STOPPED", 0))

\* Unless a device has connected on its own, a connection attempt is under way
\* whenever the service waits for one, so that the CONNECTING state ends, although
\* its handler reads the union of any event.
ConnectingAlive ==
    Running /\ srcState = "CONNECTING" /\ ~incoming
        => link = "paging" \/ \E e \in ToSet(evq) : e.kind = "CONN"

\* A service in CONNECTED has a link, or the loss of the link is on its way to the
\* callback: no other event is mistaken for a connection.
ConnectedHasLink ==
    Running /\ srcState = "CONNECTED"
        => link = "up" \/ InQueue(Event("CONN", Disconnected))

\* What the player relies on (BtConnection): bt_app_gap_cb stores a device in any state and
\* starts an inquiry in any but two, yet no late result or end of an inquiry, however the
\* events are queued, changes the speaker or the state of a service that connects.
Connection == INSTANCE BtConnection
              WITH Speakers <- {d \in Devices : IsTarget(d)}, Nobody <- NoDevice,
                   phase <- srcState, speaker <- remoteBda, search <- inquiry
ConnectionSpec == Connection!Spec

\* A speaker in range is found, and the attempt to connect to it ends, unless a
\* device connects on its own meanwhile.
DiscoveryEnds ==
    srcState = "DISCOVERING"
        ~> srcState \in {"CONNECTED", "UNCONNECTED"} \/ incoming \/ player = "gone"

\* A player that listens when the link is lost stops and frees the service: the
\* teardown destroys stream and periph before bluetooth_service_destroy.
LossEndsPlayer ==
    srcState = "CONNECTED" /\ link = "down" /\ player = "loop"
        ~> player = "gone" /\ held = {}

\* play-mp3-bt-src.c, "Stop when the Bluetooth is disconnected or suspended".
StopsWhenDisconnected ==
    srcState = "UNCONNECTED" /\ ~incoming ~> player = "gone" \/ incoming

\* bluetooth_service.h, periph_bluetooth_connect: "Connect remote Device", and ESP_OK
\* means "Succeed".  A source that runs and searches, told to connect to a device, should
\* choose it at least, as it chooses a device it finds: hold its address, in a state that
\* the end of the inquiry turns into a page, or in one past that; unless the player stops
\* meanwhile or a device connects on its own.
ConnectIsTried == \A d \in Devices :
    LET Tried == remoteBda = d /\ srcState \in {"DISCOVERED", "CONNECTING", "CONNECTED"}
    IN <>(asked = d) => <>(asked = d /\ (Tried \/ player # "loop" \/ incoming))
==============================================================================
