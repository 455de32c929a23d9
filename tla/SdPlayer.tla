------------------------------- MODULE SdPlayer -------------------------------
(***************************************************************************)
(* A player of one file from the SD card (play-mp3.c and its copies for    *)
(* other decoders): the peripheral of SdCard, the reader of FatfsStream in *)
(* a task of its own, and app_main, which waits for the card, runs the     *)
(* pipeline until its last element stops, and takes everything down.       *)
(***************************************************************************)
EXTENDS SdCard, FiniteSets, Sequences

CONSTANTS FileLen, \* buffers in the file
          MaxFiles \* FILEs the file system opens at a time

ASSUME FileAssumption == FileLen \in Nat /\ MaxFiles \in Nat \ {0}

VARIABLES el, opened, open, live, at, file, isOpen, bytePos, heard, fault, \* the reader
          app,    \* next step of app_main
          ended,  \* the reader has closed its file or failed to open it
          msg,    \* STOPPED of i2s_stream_writer waits for app_main
          same,   \* the card in the slot has not moved since it was mounted
          lost    \* history: the card was moved while the FILE was open

readerVars == <<el, opened, open, live, at, file, isOpen, bytePos, heard, fault>>
appVars == <<app, ended, msg>>
playerVars == <<vars, readerVars, appVars, same, lost>>

\* The reader: never paused, so that no seek fails and no position is held; its uri is set
\* before the pipeline runs, and to a file on the card.
Reader == INSTANCE FatfsStream
          WITH stream <- [type |-> "reader", wType |-> "other", uri |-> "other"],
               mounted <- vfs, MaxOpens <- 1, MaxChunks <- 0,
               header <- 0, data <- <<>>, held <- ~TRUE, leaked <- {}, abandoned <- ~TRUE,
               whole <- ~TRUE

PlayerInit == /\ Init
              /\ el = "idle" /\ opened = 0 /\ open = {} /\ live = {} /\ at = 0
              /\ file = 0 /\ isOpen = FALSE /\ bytePos = 0 /\ heard = 0
              /\ fault = {}
              /\ app = "wait" /\ ended = FALSE /\ msg = FALSE
              /\ same = FALSE /\ lost = FALSE

-----------------------------------------------------------------------------
(* The card and its peripheral: FILEs do not survive an unmount, and a     *)
(* card that was moved answers nothing until it is mounted again.          *)

CardStep == /\ MoveCard \/ Interrupt \/ Tick \/ Periph
            /\ same' = (card' = card /\ (same \/ (vfs' /\ ~vfs)))
            /\ lost' = (lost \/ (isOpen /\ card' # card))
            /\ live' = IF vfs /\ ~vfs' THEN {} ELSE live
            /\ UNCHANGED <<el, opened, open, at, file, isOpen, bytePos, heard, fault, appVars>>

-----------------------------------------------------------------------------
(* The reader's task.                                                      *)

ReaderOpens == /\ app = "listen" /\ ~ended
               /\ UNCHANGED <<vars, appVars, same, lost>>
               /\ Reader!Start
               /\ el' = "running" => same

ReaderReads == /\ UNCHANGED <<vars, appVars, same, lost>>
               /\ Reader!Read /\ same

\* The end of the file, or an error, which looks the same.
ReaderEnds == /\ at = FileLen \/ ~same \/ file \notin live
              /\ UNCHANGED <<vars, app, msg, same, lost>>
              /\ Reader!ReadNothing
              /\ ended' = TRUE

ReaderFailed == /\ UNCHANGED <<vars, app, msg, same, lost>>
                /\ Reader!CloseFailed \/ Reader!LeaveFailed
                /\ ended' = TRUE

\* The end passes through the decoder to i2s_stream_writer, which reports it.
\* Whether it does so when nothing was ever read ESP-ADF decides.
Drain == /\ ended /\ ~msg /\ app = "listen"
         /\ msg' = TRUE
         /\ UNCHANGED <<vars, readerVars, app, ended, same, lost>>

\* The decoder stops at something it cannot decode, and the writer after it, while the
\* reader has more to read.
GiveUp == /\ el = "running" /\ ~msg /\ app = "listen"
          /\ msg' = TRUE
          /\ UNCHANGED <<vars, readerVars, app, ended, same, lost>>

-----------------------------------------------------------------------------
(* app_main                                                                *)

Goes(from, to) == /\ app = from /\ app' = to
                  /\ UNCHANGED <<readerVars, ended, msg, same, lost>>

\* The wait for the card is over.
Mounted == Goes("wait", "setUp") /\ CardReady

\* Elements, pipeline, listener; audio_pipeline_run.
SetUp == Goes("setUp", "listen") /\ UNCHANGED vars

Listen == msg /\ Goes("listen", "terminate") /\ UNCHANGED vars

\* Mutant: the pipeline is not terminated.
Terminate_Missing == Goes("terminate", "deinit") /\ UNCHANGED vars

\* audio_pipeline_terminate stops the elements and waits for their tasks.
Terminate == /\ app = "terminate" /\ el # "failed"
             /\ app' = "deinit"
             /\ UNCHANGED <<vars, ended, msg, same, lost>>
             /\ IF el = "running" THEN Reader!Stop ELSE UNCHANGED readerVars

\* The elements are freed; esp_periph_destroy.
Deinit == Goes("deinit", "done") /\ Leave

App == Mounted \/ SetUp \/ Listen \/ Terminate \/ Deinit

-----------------------------------------------------------------------------
PlayerNext == \/ CardStep
              \/ ReaderOpens \/ ReaderReads \/ ReaderEnds \/ ReaderFailed \/ Drain \/ GiveUp
              \/ App
              \/ Waits /\ UNCHANGED playerVars

PlayerSpec == PlayerInit /\ [][PlayerNext]_playerVars

Keeps(A) == A /\ CardStep

\* As in SdCard; the reader's and the player's tasks run, and what ends is drained if
\* anything was read.
PlayerFairSpec ==
    /\ PlayerSpec
    /\ WF_playerVars(Keeps(Periph)) /\ WF_playerVars(Keeps(Interrupt)) /\ WF_playerVars(Keeps(Tick))
    /\ SF_playerVars(Keeps(Mount /\ vfs' /\ UNCHANGED <<hardware, setup, cmds, player>>))
    /\ SF_playerVars(Keeps(Look)) /\ SF_playerVars(Keeps(DestroyUnmount))
    /\ WF_playerVars(App) /\ WF_playerVars(ReaderOpens)
    /\ WF_playerVars(ReaderReads) /\ WF_playerVars(ReaderEnds)
    /\ WF_playerVars(Drain /\ opened > 0)

-----------------------------------------------------------------------------
PlayerTypeOK ==
    /\ Reader!TypeOK
    /\ app \in {"wait", "setUp", "listen", "terminate", "deinit", "done"}
    /\ ended \in BOOLEAN /\ msg \in BOOLEAN /\ same \in BOOLEAN /\ lost \in BOOLEAN

\* The peripherals are destroyed, and the card unmounted with them, only when no FILE is
\* open any more: app_main waits for the reader's task before it calls esp_periph_destroy,
\* also when the pipeline stopped from behind while the reader was still reading.
ClosedBeforeUnmount == player = "leave" => open = {}

\* A file whose card stayed in its slot is read to its end before the reader ends, however
\* the card bounced before the file was opened: no unmount is under way then, none begins,
\* and the reader ends at the end of the file, if the decoder lets it.
PlayedToEnd == ended /\ opened > 0 /\ ~lost => heard = FileLen

\* Once the file is open the player comes to its end and frees everything, whether the file
\* ends, the card is pulled or another one put in: an error is an end, too.
PlayerEnds == [](el = "running" => <>(pc = "freed"))
==============================================================================
