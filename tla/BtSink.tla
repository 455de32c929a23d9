------------------------------- MODULE BtSink -------------------------------
(***************************************************************************)
(* The Bluetooth service as A2DP sink (bluetooth_service.c) and the player *)
(* that owns it, bt_sink of play-bt-music-example.c.  Bluedroid is the     *)
(* environment: phones connect, choose a sampling frequency, play, suspend *)
(* and go; a second phone is turned away.  It reports in order to the      *)
(* callback task, which runs bt_a2d_sink_cb without interruption.          *)
(***************************************************************************)
EXTENDS BtService

CONSTANTS Devices,      \* the phones
          NoDevice,     \* the zero address
          Frequencies,  \* those the phones choose from
          MaxQueue      \* bound: callback events and player messages waiting

ASSUME DeviceAssumption == NoDevice \notin Devices
ASSUME FrequencyAssumption == Frequencies \subseteq {16000, 32000, 44100, 48000}
ASSUME BoundAssumption == MaxQueue \in Nat \ {0}

VARIABLES conn,        \* g_bt_service->connection_state
          remoteBda,   \* g_bt_service->remote_bda
          audioState,  \* g_bt_service->audio_state
          btRate,      \* sample_rates of the Bluetooth element's info
          musicInfo,   \* the player's copy of it
          i2sClk,      \* the rate i2s_stream_set_clk has set
          heard,       \* history: the last configuration found stream and listener
          page, link, freq, streaming,  \* Bluedroid: who connects, who is
          evq          \*   connected and how; its events for the callback task

service == <<conn, remoteBda, audioState, btRate>>
playback == <<musicInfo, i2sClk>>
stack == <<page, link, freq, streaming>>
vars == <<service, playback, heard, stack, evq, life>>

Peers == Devices \cup {NoDevice}
Rates == {16000, 32000, 44100, 48000}

\* esp_a2d_connection_state_t and esp_a2d_audio_state_t by name; the octet of an
\* SBC configuration as the set of its frequency bits.
ConnEvents == [kind : {"CONN"}, dev : Devices,
               state : {"DISCONNECTED", "CONNECTING", "CONNECTED", "DISCONNECTING"}]
AudioEvents == [kind : {"AUDIO"}, state : {"SUSPENDED", "STOPPED", "STARTED"}]
CfgEvents == [kind : {"CFG"}, oct0 : SUBSET (4 .. 7)]
Conn(state, d) == [kind |-> "CONN", dev |-> d, state |-> state]
Audio(state) == [kind |-> "AUDIO", state |-> state]

Queued(kind) == \E e \in ToSet(evq) : e.kind = kind

\* The I2S stream begins at 44100 Hz.
Init == /\ conn = "DISCONNECTED" /\ remoteBda = NoDevice /\ audioState = "SUSPENDED"
        /\ btRate = 44100 /\ musicInfo = 0 /\ i2sClk = 44100
        /\ heard = FALSE
        /\ page = NoDevice /\ link = NoDevice /\ freq = 0 /\ streaming = FALSE
        /\ evq = <<>>
        /\ held = {} /\ player = "start" /\ listener = FALSE /\ inbox = <<>>

-----------------------------------------------------------------------------
(* bt_a2d_sink_cb.                                                         *)

Callback(kind) == /\ Running /\ evq # <<>> /\ Head(evq).kind = kind
                  /\ evq' = Tail(evq)
                  /\ UNCHANGED <<held, player, listener, playback, stack>>

\* audio_element_report_status and audio_element_report_info.
Report(msg) == IF "stream" \in held /\ listener THEN <<msg>> ELSE <<>>
Notify(msg) == IF "periph" \in held /\ listener THEN <<msg>> ELSE <<>>

\* Mutant: the new state is not tested.
SinkConnected_AnyState(e) ==
    /\ conn = "DISCONNECTED"
    /\ remoteBda' = e.dev /\ conn' = e.state
    /\ SendEvent("CONNECTED")

SinkConnected(e) ==
    /\ conn = "DISCONNECTED" /\ e.state = "CONNECTED"
    /\ remoteBda' = e.dev /\ conn' = "CONNECTED"
    /\ SendEvent("CONNECTED")

\* Mutant: the address is not compared.
IsRemote_Any(d) == TRUE

IsRemote(d) == d = remoteBda

SinkDisconnected(e) ==
    /\ IsRemote(e.dev) /\ conn = "CONNECTED" /\ e.state = "DISCONNECTED"
    /\ remoteBda' = NoDevice /\ conn' = "DISCONNECTED"
    /\ inbox' = inbox \o Report("INPUT_DONE") \o Notify("DISCONNECTED")

ConnectionState ==
    /\ Callback("CONN")
    /\ LET e == Head(evq)
       IN \/ SinkConnected(e)
          \/ SinkDisconnected(e)
          \/ /\ ~(conn = "DISCONNECTED" /\ e.state = "CONNECTED")
             /\ ~(IsRemote(e.dev) /\ conn = "CONNECTED" /\ e.state = "DISCONNECTED")
             /\ UNCHANGED <<conn, remoteBda, inbox>>
    /\ UNCHANGED <<audioState, btRate, heard>>

AudioState == /\ Callback("AUDIO")
              /\ audioState' = Head(evq).state
              /\ SendEvent(Head(evq).state)
              /\ UNCHANGED <<conn, remoteBda, btRate, heard>>

\* Mutant: 44100 and 48000 exchanged.
SampleRate_Swapped(oct0) == CASE 6 \in oct0 -> 32000
                              [] 6 \notin oct0 /\ 5 \in oct0 -> 48000
                              [] oct0 \cap {5, 6} = {} /\ 4 \in oct0 -> 44100
                              [] OTHER -> 16000

\* Of several bits the highest wins.
SampleRate(oct0) == CASE 6 \in oct0 -> 32000
                      [] 6 \notin oct0 /\ 5 \in oct0 -> 44100
                      [] oct0 \cap {5, 6} = {} /\ 4 \in oct0 -> 48000
                      [] OTHER -> 16000

\* Without a stream the configuration is dropped.
AudioCfg == /\ Callback("CFG")
            /\ btRate' = IF "stream" \in held THEN SampleRate(Head(evq).oct0) ELSE btRate
            /\ inbox' = inbox \o Report("MUSIC_INFO")
            /\ heard' = ("stream" \in held /\ listener)
            /\ UNCHANGED <<conn, remoteBda, audioState>>

SinkCb == ConnectionState \/ AudioState \/ AudioCfg

-----------------------------------------------------------------------------
(* Bluedroid, its sink offers SBC only, and the phones.                    *)

Put(events) == /\ Len(inbox) + Len(evq) + Len(events) <= MaxQueue
               /\ evq' = evq \o events

PhonePages(d) == /\ Running /\ link = NoDevice /\ page = NoDevice
                 /\ page' = d
                 /\ Put(<<Conn("CONNECTING", d)>>)
                 /\ UNCHANGED <<link, freq, streaming>>

PageEnds(ok) == /\ page # NoDevice
                /\ page' = NoDevice
                /\ link' = IF ok THEN page ELSE NoDevice
                /\ Put(<<Conn(IF ok THEN "CONNECTED" ELSE "DISCONNECTED", page)>>)
                /\ UNCHANGED <<freq, streaming>>

\* One stream end point: the second phone gets no connection.
TurnedAway(d) == /\ link \notin {NoDevice, d}
                 /\ Put(<<Conn("CONNECTING", d), Conn("DISCONNECTED", d)>>)
                 /\ UNCHANGED stack

Configure(f) == /\ link # NoDevice /\ ~streaming /\ f # freq
                /\ freq' = f
                /\ Put(<<[kind |-> "CFG", oct0 |-> {CASE f = 16000 -> 7 [] f = 32000 -> 6
                                                      [] f = 44100 -> 5 [] f = 48000 -> 4}]>>)
                /\ UNCHANGED <<page, link, streaming>>

\* AVDTP start, suspend and close of the configured stream.
PhoneStream(state) == /\ link # NoDevice /\ freq # 0
                      /\ streaming = (state # "STARTED")
                      /\ streaming' = ~streaming
                      /\ Put(<<Audio(state)>>)
                      /\ UNCHANGED <<page, link, freq>>

LinkLost == /\ link # NoDevice
            /\ link' = NoDevice /\ freq' = 0 /\ streaming' = FALSE
            /\ Put((IF streaming THEN <<Audio("STOPPED")>> ELSE <<>>)
                   \o <<Conn("DISCONNECTING", link), Conn("DISCONNECTED", link)>>)
            /\ UNCHANGED page

Bluedroid == /\ \/ \E d \in Devices : PhonePages(d) \/ TurnedAway(d)
                \/ \E ok \in BOOLEAN : PageEnds(ok)
                \/ \E f \in Frequencies : Configure(f)
                \/ \E s \in {"SUSPENDED", "STOPPED", "STARTED"} : PhoneStream(s)
                \/ LinkLost
             /\ UNCHANGED <<service, playback, heard, life>>

-----------------------------------------------------------------------------
(* The player.  The buttons it handles send passthrough commands, which    *)
(* BtKeyControl models: they touch nothing here.                           *)

\* One turn of the event loop, up to the point where the information is used.
Listen == /\ player = "loop" /\ inbox # <<>>
          /\ inbox' = Tail(inbox)
          /\ CASE Head(inbox) = "MUSIC_INFO" ->
                      musicInfo' = btRate /\ player' = "setClk"
               [] Head(inbox) \in {"DISCONNECTED", "I2S_STOPPED"} ->
                      player' = "pipeline" /\ UNCHANGED musicInfo
               [] OTHER -> UNCHANGED <<player, musicInfo>>
          /\ UNCHANGED <<service, i2sClk, heard, stack, evq, held, listener>>

SetClk == /\ Goto("setClk", "loop")
          /\ i2sClk' = musicInfo
          /\ UNCHANGED <<service, musicInfo, heard, stack, evq, held, listener, inbox>>

\* i2s_stream_writer reports AEL_STATUS_STATE_STOPPED.
I2sStopped == /\ player = "loop" /\ inbox = <<>>
              /\ inbox' = inbox \o Report("I2S_STOPPED")
              /\ UNCHANGED <<service, playback, heard, stack, evq, held, player, listener>>

\* The player goes on when the start fails.
SetUp == \/ \E ok \in BOOLEAN : ServiceStart("start", "create", ok)
         \/ Create("stream", "create", "periph")
         \/ Create("periph", "periph", "listen")
         \/ SetListener("listen", "loop")

\* Mutant: the service goes before its peripheral.
TearDown_ServiceFirst == \/ RemoveListener("pipeline", "stream")
                         \/ Destroy("stream", "stream", "service")

TearDown == \/ RemoveListener("pipeline", "stream")
            \/ Destroy("stream", "stream", "periphs")
            \/ Destroy("periph", "periphs", "service")

\* With the service go Bluedroid and its pending events.
Shutdown == /\ ServiceDestroy("service", "gone")
            /\ IF MayDestroy
               THEN /\ page' = NoDevice /\ link' = NoDevice /\ freq' = 0
                    /\ streaming' = FALSE /\ evq' = <<>>
               ELSE UNCHANGED <<stack, evq>>
            /\ UNCHANGED <<service, playback, heard>>

Player == \/ Listen \/ SetClk
          \/ (SetUp \/ TearDown) /\ UNCHANGED <<service, playback, heard, stack, evq>>
          \/ Shutdown

\* The player task has deleted itself.
Gone == player = "gone" /\ UNCHANGED vars

-----------------------------------------------------------------------------
Next == \/ SinkCb
        \/ Bluedroid
        \/ Player \/ I2sStopped
        \/ Gone

Spec == Init /\ [][Next]_vars

\* The callback and the player task run.
FairSpec == Spec /\ WF_vars(SinkCb) /\ WF_vars(Player)

-----------------------------------------------------------------------------
Messages == {"CONNECTED", "DISCONNECTED", "SUSPENDED", "STOPPED", "STARTED",
             "INPUT_DONE", "MUSIC_INFO", "I2S_STOPPED"}

TypeOK ==
    /\ conn \in {"DISCONNECTED", "CONNECTED"} /\ remoteBda \in Peers
    /\ audioState \in {"SUSPENDED", "STOPPED", "STARTED"}
    /\ {btRate, i2sClk} \subseteq Rates /\ musicInfo \in Rates \cup {0}
    /\ heard \in BOOLEAN
    /\ {page, link} \subseteq Peers /\ freq \in Rates \cup {0} /\ streaming \in BOOLEAN
    /\ evq \in Seq(ConnEvents \cup AudioEvents \cup CfgEvents)
    /\ held \subseteq {"service", "bluedroid", "stream", "periph"}
    /\ player \in {"start", "create", "periph", "listen", "loop", "setClk", "pipeline", "stream",
                   "periphs", "service", "gone"}
    /\ listener \in BOOLEAN /\ inbox \in Seq(Messages)

\* Once the callback has caught up, the service is connected to the phone Bluedroid
\* has a link to, and only then: phones that fail to connect or are turned away
\* meanwhile do not disturb it.
SinkTracksLink ==
    Running /\ ~Queued("CONN")
        => /\ conn = "CONNECTED" <=> link # NoDevice
           /\ remoteBda = link

\* Once callback and player have caught up with a configuration the player could
\* hear of, the I2S clock runs at the frequency the phone has chosen, although the
\* player reads the information after the callback may have changed it again.
ClockFollowsConfig ==
    heard /\ freq # 0 /\ player = "loop" /\ ~Queued("CFG") /\ ~Contains(inbox, "MUSIC_INFO")
        => i2sClk = freq

\* A player that listens when its phone goes away stops and frees everything: stream
\* and peripheral are destroyed before bluetooth_service_destroy.
LossEndsPlayer ==
    player = "loop" /\ conn = "CONNECTED" /\ Contains(evq, Conn("DISCONNECTED", remoteBda))
        ~> player = "gone" /\ held = {}

\* play-bt-music-example.c, "Stop when the Bluetooth is disconnected or suspended".
SuspendStops == player = "loop" /\ Contains(inbox, "SUSPENDED") ~> player = "gone"
==============================================================================
