# ESP_I0: models, checks and proofs

ESP_I0 is the firmware of a small music player on an ESP32: a Bluetooth speaker
(A2DP sink), or a player of files from an SD card to a codec or to a Bluetooth
speaker (A2DP source). The code of its own sits between two large systems that
are not in the repository, Espressif's audio framework (ESP-ADF: audio elements,
pipelines, peripherals, event interfaces) and ESP-IDF (Bluedroid, FreeRTOS,
drivers). This directory models that code in TLA+, checks the models with TLC on
small instances and proves theorems about them with TLAPS.

## The system

| Component | Source (`src/`) | State | Operations |
| --- | --- | --- | --- |
| Key control | `components/audio_service/bt_keycontrol.c` | `key_cb`: state, key, transaction label, timer handle | `bt_key_act_state_machine` and its three handlers, `bt_key_act_sm_init`, `_deinit`, `key_act_time_out` |
| Bluetooth service | `components/audio_service/bluetooth_service.c` | `g_bt_service`: stream, peripheral, connection, audio and source state, remote address, label, AVRCP flag | start, destroy, create stream and peripheral; callbacks of A2DP sink, A2DP source, GAP, AVRCP and data; play, pause, stop, next, ..., discover, connect |
| Sink player | `components/a2dp-sink-adf/play-bt-music-example.c` | its place in `bt_sink`, its message queue | set-up, event loop, teardown |
| Source player | `components/audio/sdcard-mp3-a2dp-source/play-mp3-bt-src.c` | the same for `app_main` | the same, after a wait for the card |
| SD card peripheral | `components/oLib/adf_esp-peripheral/periph_sdcard.c`, `components/oLib/adf_sdcard/sdcard.c` | `is_mounted`, `g_gpio`, the file system, a command queue, a timer | init, run, destroy, mount, unmount, pin interrupt, timer |
| I2S stream | `components/adf_audio_stream/i2s_stream.c` | `is_open`, the element's info, the port's clock | open, process, write, close, `i2s_stream_set_clk` |
| FAT file stream | `components/adf_audio_stream/fatfs_stream.c` | `is_open`, `file`, byte position | open, read, write, close |
| SD card players | `components/audio/sdcard-*/play-*.c` | as the source player | as the source player, no Bluetooth |
| Wi-Fi access point | `components/wifi-softap/esp_softap.c` | event group | start, event handler, station list task |
| DHCP server | `components/lwip/apps/dhcpserver/dhcpserver.c` | `plist` of leases, `client_address_plus` | `handle_dhcp`, `dhcps_coarse_tmr`, start, stop |
| Interface of the access point | `components/tcpip_adapter/tcpip_adapter_lwip.c` | address, interface, state of the DHCP server | init, start, set address, start and stop of the server |
| Buttons, deep sleep | `components/buttons` | pulse counters | bind a button, wake stub |
| Generic audio handler | `components/generic_audio_handler` | current track and decoder | `setTrack`, `play` |
| Start, display | `main/main.cpp`, `components/ui-gui-setup` | none | start `bt_sink`, draw a text |
| Vendored | `components/{TFT_eSPI,lwip,mdns,ethernet}`, the rest of `tcpip_adapter` | | |

How they interact. Bluedroid calls the service's callbacks in its own task. The
callbacks write the one `g_bt_service`, report to the audio element ("stream")
and send events through the peripheral to the player's event interface. The
player's task creates stream and peripheral, reads the events, and on the last
one destroys everything in a fixed order, while callbacks still arrive. Key
presses of the player go through the service into `key_cb`, which the callback
task (answers, connection changes) and the FreeRTOS timer task (time-outs) use
too, with no lock anywhere. The SD card peripheral has a task of its own, to
which a pin interrupt and a timer send commands. The I2S stream is run by an
audio element's task; the player changes its clock from outside. The file stream
is another element of the same pipeline, and its `FILE` lives on the file system
the peripheral mounts and unmounts from its own task.

The access point (disabled in `main.cpp:140`) is a separate system: a task runs
`ap_mode_start`, which orders a DHCP server before there is an interface; the
driver's event `AP_START`, handled in the event task, brings the interface up and
starts the server with it; events of stations set bits that `print_sta_info` waits
for; the server itself runs in lwIP's task, fed by messages and a timer of one
second.

What is hard to get right here is therefore: three tasks in one unprotected
machine (`key_cb`); callbacks against creation and destruction by another task;
events dropped because their listener does not exist yet; a parameter union read
as if every event were a connection event; answers told apart by a 4-bit label;
a card that bounces between two reads of its pin; a copy of the format written
back after a blocking call; a `FILE` pointer kept after `fclose`; a position that
has to survive a close and an open but not an end; addresses given out by two
cursors over a sorted list, one of which moves even when nothing is given.
`PROJECT.json` lists these places one by one, each with the properties that watch
it or the reason why none does.

What makes each component correct:

- key control: what is released is the key that was pressed, once, under the
  next label; no key stays pending without the handle of a timer; an old answer
  ends no newer key unless the labels have wrapped (the code breaks the first and
  the last of these in one place, see below); the machine is idle without a link;
- source: the search for the speaker goes on until it is found, an attempt to
  connect ends, CONNECTED means a link, the loss of the link ends the player and
  frees everything;
- sink: the service knows the phone that is connected, and the I2S clock follows
  the frequency the phone chose;
- SD card: flag, events and file system agree, and follow the card;
- I2S stream: a change of format is neither lost nor made under a buffer, and
  the stream goes on after it;
- FAT file stream: a file is heard from its first buffer on, each buffer once,
  across pauses; no closed `FILE` is used (but in one close of a recorder, see
  below), none is lost unaccounted; a recording's header counts what follows it;
- SD card player: a file whose card stays is read to its end unless the decoder
  gives up on it, the player comes to its end when file, decoder or card do, and the
  card is unmounted with no `FILE` open;
- DHCP server: an address has one station at a time, a station one address, and
  keeps it until its lease ends;
- access point: the server that runs is the application's, and every station that
  joins is listed.

## The modules

| Module | Models | Lines of C it stands for |
| --- | --- | --- |
| `BtKeyAction` | what key control promises: press, then release of the same key under the next label | (abstract) |
| `BtKeyControl` | `bt_keycontrol.c` and its callers, three tasks; refines `BtKeyAction` | the whole file; `bt_avrc_ct_cb`, `periph_bluetooth_passthrough_cmd` |
| `BtService` | life of service, stream, peripheral and listener | create and destroy functions |
| `BtConnection` | what the service as source promises its player: one search, then one attempt to connect, each change told once | (abstract) |
| `BtSource` | the service as source with its player, Bluedroid around them; extends `BtService`, refines `BtConnection` | GAP and source callbacks, media control, `play-mp3-bt-src.c` |
| `BtSink` | the service as sink with its player; extends `BtService` | sink callbacks, `play-bt-music-example.c` |
| `SdCard` | the peripheral with pin, interrupt, timer and the waiting player | `periph_sdcard.c`, `sdcard.c` |
| `FilePlayback` | what a stream that plays a file promises to those that hear it | (abstract) |
| `FatfsStream` | an element that plays or records a file, on a card that comes and goes; its reader refines `FilePlayback` | `fatfs_stream.c` |
| `SdPlayer` | a player of one file: `SdCard`, the reader of `FatfsStream` (INSTANCE) and `app_main` together | `play-mp3.c`, of which the other five are copies |
| `AddressPool` | what a DHCP server promises about its addresses | (abstract) |
| `DhcpServer` | leases, messages and timer of the server | `dhcpserver.c` without the layout of answers |
| `DhcpWalk` | the loop of `parse_msg` over the list of leases, pass by pass, against what `DhcpServer` takes for its result | the loop of `parse_msg`; of `node_insert_to_list` the order it leaves |
| `TcpipAdapter` | the interface of the access point; extends `DhcpServer` | the `tcpip_adapter_*` calls it makes |
| `SoftAp` | `ap_mode_start`, event task, `print_sta_info`, the driver, the stations; extends `TcpipAdapter`, refines `AddressPool` | `esp_softap.c` |
| `I2sStream` | the writer's task and the player that sets the clock | `i2s_stream.c` without the reader |
| `MC...` | the instance TLC checks | |
| `..._proofs` | theorems and proofs about the module named | |

How state and actions correspond. Variables carry the names of the fields they
stand for where there is one (`keyCb.tl`, `srcState` for `source_a2d_state`,
`isMounted`); variables marked *history* in their module are read by properties
only. An action is a handler, or the piece of a handler between two points where
another task can come in:

- `BtKeyControl`. The three tasks are pinned to one core with priorities 19, 3
  and 1. A task can be overtaken by one of higher priority at any instruction,
  so a call of `bt_key_act_state_machine` is cut at each of its accesses to
  `key_cb` between which such a task can use what it left there: the switch on the
  state, the handler's second test, the stores of label and key (131, 132), the
  command sent, the timer call, the final write of the state. The time-out's
  stores of label 0, key 0 and IDLE (158-160, 181-183) are three steps. Two writes stay in one step
  with what stands beside them: the release's (151-154) and the stores at the end of
  an action (177, 178), which only the callback task makes, as only it takes
  answers, and nothing overtakes it. A
  task of lower priority runs only when the others are idle or block in a timer
  call (`CanRun`, `MayBlock`): they block only while the timer queue is full,
  which `TimersRunShort` may bring about at any time; from then on timer calls
  may also fail, and creation return NULL. Using a NULL handle is an assertion
  failure in FreeRTOS (`fault`).
- `BtSource`, `BtSink`. Callbacks run one at a time in Bluedroid's callback
  task and in the order of the events: one action each, which takes the first
  event of `evq`. The player's steps are one action per call that changes the
  state the callbacks look at. A message is dropped unless the peripheral
  exists and the player listens (`SendEvent`). The union of parameters is kept:
  an event carries the `word` the union begins with, and
  `WhenConnecting` reads it whatever the event's kind.
  `bluetooth_service_start` may fail when the controller or Bluedroid does:
  `g_bt_service` stays allocated (a second start would answer "have been
  initialized"), no callback ever comes, and the players, which look at no result,
  go on to wait.
- `SdCard`. The interrupt comes between any two steps of the peripheral's task;
  the pin is read twice in `_sdcard_run`, with `Look` and `LookAgain`; mount and
  unmount change the file system in one step and flag and event in the next.
  `gpio_isr_handler_add` may fail, as it does in players that install no ISR
  service, and mounting may fail.
- `I2sStream`. The element's task has priority 23, the player's 3, on the same
  core, so the player moves only while the element blocks (`Blocked`): waiting
  for a command or for input, or inside `i2s_write`. `_i2s_write` is cut there:
  `ProcessOutput` takes its copy of the info, `Write` stores it back.

- `FatfsStream`. Open, read, write and close run in the element's task and are
  one action each, with an action for every way open and close can fail; FILEs are
  numbered, so that the pointer `_fatfs_close` leaves behind is told from a new
  one. The uri is set at any time the element is at rest (`SetUri`) and read at
  every open: it may be usable at one and not at the next. `w_type` is the type of
  the last path a writer tried to open. `fault` collects the circumstances in which
  a closed FILE was used. Buffers stand for the bytes of the file. `Mount` and
  `Unmount` come at any time.
- `SdPlayer`. The steps are those of the two modules, and app_main's. `same` says
  whether the card in the slot is still the one that was mounted; a FILE of
  another card answers every read with an error, which `_fatfs_read` takes for the
  end of the file. The pipeline reports its end after the reader's (`Drain`) or
  while the reader still reads (`GiveUp`, a decoder that stops); in the second case
  it is `audio_pipeline_terminate` that ends the reader.
- `DhcpServer`. One action per message and one for the timer. The list is sorted
  by address, which makes it the set of its leases; the cursors of `parse_msg` are
  then the smallest free addresses from two starting points (`NextFree`), and
  `WalkFindsFree` compares that with the loop of `DhcpWalk` in every state: the loop's
  variables before the first pass (`Begin`) and what one pass makes of them (`Pass`).
  The list it runs through (`List`) is stated by its order, which is what
  `node_insert_to_list` is for; how that function finds the place is not modelled.
  The byte order of addresses, the network part of the pool and its placement
  around the server's own address are constants.
- `SoftAp`. One action per call of `ap_mode_start` (its `ESP_ERROR_CHECK`s go to
  "aborted"), per event handled, per step of `print_sta_info` between which other
  tasks come in. Stations are any DHCP clients: they ask for addresses they were
  never offered here, give up, decline, release, leave without a word and come
  back; each has one message under way at a time, and answers come at once or are
  lost. A station's clock ticks with the server's: no bound on drift is modelled.
  `PowerCycle` loses the leases, which are in memory only, and the stations with
  the network.

What stands for ESP-ADF, ESP-IDF and the hardware (`external` in the map) is
modelled from the way this code uses it: command handling of an audio element's
task, `esp_periph_send_cmd` on a full queue, Bluedroid's inquiry, page, link and
media commands, `esp_vfs_fat_sdmmc_mount`, FILEs and FATFS, the card in its slot, the Wi-Fi driver
and the stations.

## The runs

All runs are exhaustive for their bounds. States are distinct states.

| Run | What it shows | States |
| --- | --- | --- |
| `key` | types, `KeyPendingHasTimer`, `StaleResponseNeedsWrap`, the refinement `KeyActionSpec`, `EachActionEnds` | 117 612 |
| `key_deinit` | violated: `DeinitClears` | |
| `source` | types, `DiscoveryAlive`, `ConnectingAlive`, `ConnectedHasLink`, the refinement `ConnectionSpec`, `DiscoveryEnds`, `LossEndsPlayer` | 117 060 |
| `source_stops` | violated: `StopsWhenDisconnected` | |
| `source_connect` | violated: `ConnectIsTried` | |
| `sink` | types, `SinkTracksLink`, `ClockFollowsConfig`, `LossEndsPlayer` | 180 798 |
| `sink_suspend` | violated: `SuspendStops` | |
| `sdcard` | `SdCard` inside `SdPlayer`: types of both, `FlagTracksFileSystem`, `NoUnmountError`, `CardFollowed`, `ClosedBeforeUnmount`, `PlayedToEnd`, `PlayerEnds` | 93 100 |
| `sdcard_unwired` | violated: `WaitEnds` | |
| `i2s` | types, `ClockKept`, `ClockChangesAtRest`, `StreamResumes` | 18 197 |
| `fatfs` | types, `NoStaleFile`, `FilesAccounted`, `RecordingSound`, the refinement `PlaybackSpec` | 64 153 |
| `softap` | types, `LeasesUnique`, `NoSharedAddress`, `AccessPointServes`, `NewStationsListed`, `WalkFindsFree`, the refinement `AddressPoolSpec` | 394 567 |

`BoundHasLease` of `SoftAp`, from which `NoSharedAddress` follows, is proved and
not run separately.

### Bounds

- `key`: two keys, three presses, labels modulo 4 instead of 16. A press uses
  two labels, so the third press already carries the label of the first: the
  wrap that `StaleResponseNeedsWrap` is about happens, which with 16 labels
  would take nine presses. Two keys are what it takes to mistake one for
  another.
- `source`: three devices: the speaker, another renderer without the name, a
  device with the name that renders nothing; at most three callback events and
  player messages waiting. Three is what it takes for an inquiry's end, a
  connection event and one more to cross.
- `sink`: two phones (one connected, one turned away), all four SBC frequencies,
  three events and messages. With three the phone can choose a second frequency
  between the message about the first and the player's reading of it, and a
  second phone can come and go meanwhile. The queues hold senders back instead
  of overflowing: a lost message is not covered, see below.
- `sdcard`: six moves of the card, a command queue of two; enough for insertion
  and removal within one mount and again within the unmount that follows; a file
  of three buffers, so that the card can go before, between and after reads.
  `PinWired = TRUE`: the line that configures the detect pin is not commented out,
  as it is in the players (that case is `sdcard_unwired`). The proofs need no
  bound.
- `i2s`: three formats, four changes: a change, one back, and one more while the
  first is under way. The proofs need no bound.
- `fatfs`: three buffers, two FILEs at a time, five opens: two leaked FILEs exhaust
  the file system, and a pause with its resume still fits before and after; so does
  a recording before an open that is refused. The proofs hold for any numbers.
- `softap`: three stations, of which two can be associated, two addresses, leases
  of two ticks, `MAX_STATION_NUM` one. With fewer addresses than stations the pool
  wraps and runs out; with one station allowed fewer than addresses
  `kill_oldest_dhcps_pool` runs. One message and one event under way at a time
  keep the run small; the proofs need neither bound. Stations are symmetric
  (`Symmetry`), which is sound for what is checked: no liveness.

### Fairness

- Tasks that can run, run: weak fairness of each task's steps in every module.
  FreeRTOS schedules by priority, and no task here spins: `app` and `tmr` run
  when the tasks above them wait.
- `key`: strong fairness of `TimerExpire`, because the timer may be stopped and
  started again. An armed timer expires in the end; *how late* is another matter:
  `bt_key_act_sm_init` gives it a period of `portMAX_DELAY` ticks, 2^32 - 1 of
  10 ms, and the "500 / portTICK_RATE_MS" of `xTimerStart` is only the time the
  call may block. `EachActionEnds` therefore says that a key whose answer is lost
  ends some day, not that it ends soon.
- `source`: a page ends (Bluetooth's page time-out), and a target in range
  answers the inquiry if inquiries go on (strong fairness: inquiries begin and
  end). Nothing is assumed of phones and links otherwise.
- `sink`: callback task and player only.
- `sdcard`: strong fairness of taking a command and of a mount that succeeds
  while a card is present; without it a card that always fails to mount is
  never mounted, as it should be. The player on top adds weak fairness of
  `app_main`'s and the reader's steps and of `Drain`, the end passing through the
  decoder, when anything was read: whether an element that never read a buffer
  reports its end is decided in ESP-ADF, and `PlayerEnds` claims nothing then.
  None of `GiveUp`: no decoder has to fail.
- `fatfs`, `softap`: none, only safety is claimed.
- `i2s`: weak for the element's task, strong for the player, whose step is enabled
  again and again because the element's task blocks in `i2s_write` for every
  buffer. None for the input: `StreamResumes` holds even if no data ever comes.

### What the violated runs show

Each states what a comment or a header of the repository says and finds the code
to do something else:

- `DeinitClears` (`bt_keycontrol.c:135`): a link lost while the player task is
  inside the machine leaves it in PRESS with the timer deleted. The next
  `bt_key_act_sm_init` repairs it.
- `StopsWhenDisconnected` (`bluetooth_service.c:382`): after a failed page, or a
  link lost before the player listens, no event is sent and the source player
  waits for ever.
- `ConnectIsTried` (`bluetooth_service.c:747`): `periph_bluetooth_connect`
  answers `ESP_OK` and does nothing when the service is a source. A source that
  runs and searches, told to connect to one device, goes on to page another, the
  speaker it finds by name; when that page has failed nothing is tried any more.
  (A connection made from outside, an attempt at the device under way, or a player
  that has left its loop would each satisfy the property.)
- `SuspendStops` (`play-bt-music-example.c:176`): the sink player does not stop
  on a suspended stream although its comment says so; the source player does.
- `WaitEnds` (`play-mp3-bt-src.c:66`): with the detect pin left out of the
  configuration the pin is GPIO 0, no card is ever seen, and the player waits
  for ever.

What else the code does otherwise than one would expect. The models carry these,
and no run states them; where one of them touches a property, the property names it
as its exception:

- The time-out's stores (`bt_keycontrol.c:158`, `159`). After the label is 0 and
  before the key is, a late answer under label 0 to an older press of the same key
  passes for the answer to the pending one, with no wrap of the labels: the key is
  released under label 1, whatever its press had. `StaleResponseNeedsWrap` and
  `KeyActionSpec` except exactly that (`Expiring`).
- A recorder of WAV files that has recorded, is stopped, is given no uri or one
  without `/sdcard` in it, and run: the open is refused before it resets `file`
  (`fatfs_stream.c:94-105`), and the close that may follow writes a header on the
  FILE that was closed (201-216). `NoStaleFile` excepts that close and no other. No
  player records.
- A paused file stream that is stopped is not closed again and keeps `byte_pos`: the
  next run begins there, also if it is another file (`StopPaused`). No player pauses.
- A card exchanged between two looks at the pin is not mounted anew: `CardFollowed`
  speaks of the pin, and holds although the mount is stale. `PlayerEnds` covers
  the end of a player on it.
- `kill_oldest_dhcps_pool` (`dhcpserver.c:1203`) begins its search behind the head
  of the list, so the lease with the lowest address is never the one killed
  although its comment and `components/lwip/Kconfig:188` speak of the oldest
  (`Oldest`, `Behind`). The station is not told: `NoSharedAddress` has to except
  the stations robbed that way.
- Every first message of a MAC takes an address for a whole lease time, a REQUEST
  answered NAK and a DECLINE included; an exhausted pool answers even a DISCOVER
  with NAK (`ParseNew`, `ParseExhausted`).
- `esp_softap.c:116` waits for `CLIENT_CONNECTED_BIT | CLIENT_CONNECTED_BIT`: "A
  station disconnected" is never printed.

Two more are not modelled:

- As a sink, `periph_bluetooth_connect` and `periph_bluetooth_cancel_discover`
  would rewrite `remote_bda` and `source_a2d_state` of a live connection; no
  player calls them.
- `ESP_BT_GAP_AUTH_CMPL_EVT` (`bluetooth_service.c:335`) has no break and answers
  a PIN request that was not made.

What the properties leave out on purpose. `KeyPendingHasTimer` is about the handle:
when a full queue fails `xTimerStart`, a key is pending with an idle timer until the
link is lost, and `EachActionEnds` excepts that. `ClockFollowsConfig` claims nothing
of a configuration that was dropped because stream or listener did not exist yet
(`heard`), `ClockKept` nothing after `i2s_set_clk` has failed, `NoSharedAddress`
nothing of robbed stations.

A difference no run is needed for: `src/README.md:54` gives GPIO 39's long press
as "NEXT TRACK", `play-bt-music-example.c:169` makes it the previous one.

## The proofs

TLC checks small instances; the theorems hold for every value of the constants.

`BtKeyControl_proofs` proves `TypeCorrect`, `PendingKeyHasTimer`, `Refinement` and
`StaleResponse`, for any keys, any number of labels and presses. `KeyPendingHasTimer`
is not inductive: whether the write of PRESS leaves a key without a timer depends
on what the player task knew when it began. The invariant `KeyInv` says so:

- `FrameInv`: at which step each of the three tasks can be, with which argument;
- `DownInv`: without a link the callback task has no answer in hand, and only the
  press asked for last can still go out;
- `IdleInv`: while the player task is between the test for IDLE and its last
  write nobody else brings the machine to PRESS, and `key_cb` holds the player's
  key and label unless it was cleared meanwhile;
- `PressInv`: in PRESS, with no answer taken, `key_cb` is what the stack saw
  pressed, but for what the steps of a time-out have reset already; this makes the
  release it leads to the one `BtKeyAction` allows;
- `TimerInv`: the handle exists where the write of a pending state is due.

That the timer task cannot come in between the stores of `hdl_idle` is the one place
where the proof needs the scheduling (`CanRun`). `BtKeyAction` has a variable of its
own for the exception, `expiring`: it maps to `Expiring`, the timer task between its
first two stores.

`StaleResponse` (`StaleResponseNeedsWrap`) needs to know where a label comes from:
`LabelInv` says that the service's label counts the calls that press a key, two for
each, and that every command under way, the one the callback task handles and the
one the stack saw pressed carries the label of its press. An answer is taken only
if its label is the pending one, and two presses have the same label only if they
are a multiple of `LabelMod / 2` apart (`SameLabel`, from `Division`); the pending label
is that of a press unless the time-out has just reset it.

`SdCard_proofs` proves `TypeCorrect`, `FlagIsRight` and `UnmountSucceeds`, for any
number of moves of the card and any queue. The invariant adds what holds between
the two steps of a mount or unmount (`MountingInv`), in particular that an unmount
begins only on a mounted file system: the flag is written by the same task that
reads it, so no bounce between the reads of the pin can make it stale.

`SdPlayer_proofs` proves, for a file of any length, `PlayerTypeCorrect`,
`NoFileAtUnmount` and `HeardToItsEnd`, and composes the components: every behaviour
of a player is one of `SdCard` (`CardInPlayer`), so that `FlagIsRight` and
`UnmountSucceeds` hold under a player (`PlayerFlagIsRight`), and one of the reader of
`FatfsStream` (`ReaderInPlayer`) that implements `FilePlayback` (`PlayerPlaysFile`).
The invariant `PInv` has four parts: the reader opens its file once, and element,
FILE and ear agree on the position (`ReaderInv`); the message that the pipeline has
stopped comes before the steps that destroy everything, and once the pipeline is
terminated the reader is idle, by its own end or by app_main's stop (`StageInv`); a card that has not moved since it was mounted is not being unmounted
(`SameInv`: an unmount begins only while the pin shows no card, and by then the card
has moved); therefore the FILE of a card that stays
can be read until it is at its end (`HeardInv`).

`I2sStream_proofs` proves `TypeCorrect`, `FormatIsKept` and `ClockIsSafe`, for any
formats and number of changes. `ClockKept` rests on `IInv`: the element runs
exactly from its start to its end (`RunningInv`); a pending command meets the
player where it waits for the answer (`CommandInv`); from the answer to the pause
on the element is at rest (`RestInv`), so that the write that may have stored the
old format is over when the format is set again; hence `FormatInv`.

`BtSource_proofs` proves `TypeCorrect`, `SearchGoesOn`, `AttemptEnds`,
`ConnectedMeansLink` and `Refinement` (the service implements `BtConnection`), for any
devices and any bound on what waits. Each of the three in the middle says "either Bluedroid is at it, or its outcome is queued"; whether a step
keeps that depends on which events can still be in `evq`. The invariant adds:
nothing is queued or under way while Bluedroid is off (`Silence`), an inquiry and
its end are one (`OneInquiry`), before the connection no media command but Stop
was sent, whose acknowledgement does not look like a connection (`NoStart`), an
event that does look like one has its link, or the loss of it behind it
(`UpHasLink`), and while the service searches there is no link unless a device
connected on its own (`NoLinkYet`). `OneInquiry` is also what the refinement rests on:
`bt_app_gap_cb` stores a device and its state whatever the state was, and starts an
inquiry in any state but two. That this never disturbs a service that connects is
owed to the order of the queue alone: results lie in front of the end of their
inquiry, and there is one end. The run has one speaker; the proof covers several
that answer the same inquiry, of which the last one read is taken.

`BtSink_proofs` proves `TypeCorrect`, `StateFollowsLink` and `ClockFollows`. The
service lags behind Bluedroid by what is in `evq`; the invariant therefore speaks
of the trail of links the queue leads through (`Trail`): applied to the service's
state it ends at Bluedroid's link (`Tracked`), where the events of a phone turned
away change nothing. Besides, there is one link or one page (`OneLink`), nothing
happens before Bluedroid runs and the player does not listen before its loop
(`Before`), the last configuration queued is the one chosen, or the element has it
(`Chosen`), and the clock has what the element has unless a message says so
(`Fetched`).

`FatfsStream_proofs` proves `TypeCorrect`, `NoFileAfterClose`,
`FilesAreAccounted`, `HeaderIsRight` and `Refinement` (the reader implements
`FilePlayback`), for any file and any number of FILEs and opens. `NoStaleFile`
rests on `HandleInv`: when a close may come that would write a header, `file` is
NULL or open, because a failed `fopen` resets it, or the open was refused for its
uri; a writer leaks no FILE, as it never seeks before `is_open` is set. `PlayInv` ties byte position, FILE position and what was
heard together; `RecordInv` does the same for a recording under way.

`SoftAp_proofs` proves `TypeCorrect`, `NoAddressTwice`, `NoSharing`, `Serves`,
`Listed`, `LoopFindsFree` and `Refinement` (the server implements `AddressPool`), for any number of
stations, any pool, lease time and `MAX_STATION_NUM`. That the address taken is
free is `NextFreeIsFree`: the walk ends because the pool does, by well-founded
induction over the naturals. `NoSharedAddress` is not inductive; `BoundHasLease` is,
with `Released` (a station whose RELEASE is under way uses no address).
`Staged` holds `ap_mode_start`, the interface and the server together, step by step.
`LoopFindsFree` (`WalkFindsFree`) justifies the abstraction the module is built on.
The leases can be put in ascending order because there are finitely many
(`AscendingExists`); the loop runs through that list pass by pass (`WalkPasses`); as
long as the station's own lease does not come, its two cursors are the first free
addresses among those it has passed (`Found`, `PassFinds`, `WalkFinds`), from there
on it changes nothing (`WalkStops`). Each of these is an induction over the numbers up
to some n, made with one lemma about sets of numbers (`UpTo`).

Assumptions: only those the modules declare (`NoKey`, `NoMac`, `NoNet` and their
like are no member of what they are not, labels are counted modulo a positive
number, bounds and the length of a file are naturals, a FAT file system has at least one FILE, the pool lies within 254 addresses, the two networks
differ). Liveness properties (`EachActionEnds`, `DiscoveryEnds`, `LossEndsPlayer`,
`CardFollowed`, `PlayerEnds`, `StreamResumes`) are only model-checked: the prover
has neither fairness nor ENABLED. Every safety property, action property and
refinement the passing runs check is proved.

## What is not modelled

- The PIN and authentication replies, which change no state; the calls of
  `periph_bluetooth_discover` and its siblings as a sink, which no player makes;
  `periph_bluetooth_play` and `_pause` as a source.
- The copying of audio data and the conversion of samples; the I2S reader, which
  no player creates; an `audio_element_output` that fails after a read
  (`fatfs_stream.c`'s process), whose effect on the element is ESP-ADF's.
- Overflow of ESP-ADF's event queues (a DISCONNECTED that does not fit is lost, and
  the loop never ends), and what `audio_element_deinit` does to a data callback in
  progress: both are decided in code that is not here.
- `tcpip_adapter_get_sta_list` walks the server's list in another task than the
  one that frees its nodes. It only reads, and what it reads is logged; what a
  freed node holds is the allocator's matter.
- The layout of DHCP messages, `dhcps_set_option_info` and the DNS server, which
  the application never sets up; a failed `mem_malloc` in the server.
- The generic audio handler, which does not compile; the wake stub, installed only
  by commented-out code; buttons, whose handler only logs; start and display,
  which keep no state.
- Vendored code: `TFT_eSPI` (drawing, fonts and its examples), `mdns`, `ethernet`,
  most of `lwip` and `tcpip_adapter`. It is by far the largest part of the
  repository, but none of it is this program's, and apart from what `DhcpServer`
  and `TcpipAdapter` model the application calls none of it except to draw a text.

## Plan

1. What the service as sink promises its player, as `BtConnection` says it of the
   source: the phones it names are those of Bluedroid's links, in their order.
2. `mdns` and more of the adapter, should the application come to use them.

## Running it

    tlc -config BtKeyControl.cfg MCBtKeyControl     # and the other runs of PROJECT.json
    tlapm BtKeyControl_proofs.tla                   # and SdCard_proofs, SdPlayer_proofs,
                                                    # I2sStream_proofs, FatfsStream_proofs,
                                                    # SoftAp_proofs, BtSource_proofs,
                                                    # BtSink_proofs
