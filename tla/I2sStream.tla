------------------------------ MODULE I2sStream ------------------------------
(***************************************************************************)
(* The I2S writer at the end of every player's pipeline (i2s_stream.c) and *)
(* the player that changes its clock, in two tasks of core 0: the audio    *)
(* element's (priority 23) and the player's (3), which runs only where the *)
(* element's task blocks.  The element's task is ESP-ADF's: it takes a     *)
(* command between two calls of process, sets the state and then calls     *)
(* open or close; byte counts and sample data are left out.                *)
(***************************************************************************)
EXTENDS Naturals

CONSTANTS Formats,     \* sampling rate, bits and channels
          InitFormat,  \* the one of the configuration
          NoFormat,    \* a zeroed audio_element_info_t
          MaxChanges   \* bound: music information the player receives

ASSUME FormatAssumption == InitFormat \in Formats /\ NoFormat \notin Formats
ASSUME BoundAssumption == MaxChanges \in Nat

VARIABLES state,       \* audio_element_get_state
          isOpen,      \* i2s->is_open
          timeout,     \* the input times out after 10 ms
          info,        \* format in the element's info
          clock,       \* format the port is clocked for
          copy,        \* _i2s_write: its copy of the info
          pc,          \* the element's task: next step, or call it blocks in
          cmd,         \* command for it
          feed,        \* its input: data, none at the moment, or done
          player,      \* the player's next step
          want,        \* the player's music_info
          wasRunning,  \* i2s_stream_set_clk: the state it has read
          changes,     \* music information received so far
          clkFailed    \* history: i2s_set_clk has failed

element == <<state, isOpen, timeout, copy, pc>>
application == <<player, want, wasRunning, changes>>
vars == <<element, info, clock, cmd, feed, application, clkFailed>>

\* Mutant: i2s_stream_init leaves the info as it is.
InitInfo_Unset == NoFormat

InitInfo == InitFormat

\* i2s_stream_init; the pipeline is not running yet.
Init == /\ state = "INIT" /\ isOpen = FALSE /\ timeout = FALSE
        /\ info = InitInfo /\ clock = InitFormat /\ copy = InitFormat
        /\ pc = "wait" /\ cmd = "none" /\ feed = "data"
        /\ player = "run" /\ want = InitFormat /\ wasRunning = FALSE /\ changes = 0
        /\ clkFailed = FALSE

-----------------------------------------------------------------------------
(* The element's task.                                                     *)

\* Waiting for a command or for input, or writing to the DMA buffers.
Blocked == \/ pc \in {"input", "write", "drain", "close", "gone"}
           \/ pc = "wait" /\ cmd = "none"

\* Mutant: _i2s_open sets no input timeout.
Open_NoTimeout == isOpen' = TRUE /\ UNCHANGED timeout

Open == IF isOpen THEN UNCHANGED <<isOpen, timeout>> ELSE isOpen' = TRUE /\ timeout' = TRUE

TakesCommand(c) == /\ pc \in {"wait", "turn"} /\ cmd = c
                   /\ UNCHANGED <<info, clock, feed, application, clkFailed, copy>>

TakeResume == /\ TakesCommand("resume")
              /\ cmd' = "none"
              /\ IF state \in {"INIT", "PAUSED"}
                 THEN Open /\ state' = "RUNNING" /\ pc' = "turn"
                 ELSE UNCHANGED <<state, isOpen, timeout, pc>>

\* Answered when the stream is closed.
TakePause == /\ TakesCommand("pause")
             /\ IF state = "RUNNING"
                THEN state' = "PAUSED" /\ pc' = "close" /\ UNCHANGED cmd
                ELSE cmd' = "none" /\ UNCHANGED <<state, pc>>
             /\ UNCHANGED <<isOpen, timeout>>

TakeDestroy == /\ TakesCommand("destroy")
               /\ state' = "STOPPED"
               /\ pc' = IF isOpen THEN "close" ELSE "gone"
               /\ UNCHANGED <<isOpen, timeout, cmd>>

\* _i2s_close has filled the DMA buffers with silence.
Close == /\ pc = "close"
         /\ isOpen' = FALSE
         /\ pc' = IF state = "STOPPED" THEN "gone" ELSE "wait"
         /\ cmd' = IF state = "PAUSED" THEN "none" ELSE cmd
         /\ UNCHANGED <<state, timeout, copy, info, clock, feed, application, clkFailed>>

\* _i2s_process asks for input.
ProcessInput == /\ pc = "turn" /\ cmd = "none"
                /\ pc' = "input"
                /\ UNCHANGED <<state, isOpen, timeout, copy, info, clock, cmd, feed,
                               application, clkFailed>>

\* It has input, or silence after the time-out; _i2s_write copies the info.
ProcessOutput == /\ pc = "input"
                 /\ feed = "data" \/ (feed = "dry" /\ timeout)
                 /\ copy' = info
                 /\ pc' = "write"
                 /\ UNCHANGED <<state, isOpen, timeout, info, clock, cmd, feed, application,
                                clkFailed>>

\* i2s_write returns: the info is stored back with its new byte count.
Write == /\ pc = "write"
         /\ info' = copy
         /\ pc' = "turn"
         /\ UNCHANGED <<state, isOpen, timeout, copy, clock, cmd, feed, application, clkFailed>>

\* No more input: silence is written before process returns.
ProcessDone == /\ pc = "input" /\ feed = "done"
               /\ pc' = "drain"
               /\ UNCHANGED <<state, isOpen, timeout, copy, info, clock, cmd, feed,
                              application, clkFailed>>

Finish == /\ pc = "drain"
          /\ state' = "FINISHED"
          /\ pc' = "close"
          /\ UNCHANGED <<isOpen, timeout, copy, info, clock, cmd, feed, application, clkFailed>>

\* What comes from the decoder or the Bluetooth stream before it.
Feed == /\ feed # "done" /\ feed' \in {"data", "dry", "done"} \ {feed}
        /\ UNCHANGED <<element, info, clock, cmd, application, clkFailed>>

-----------------------------------------------------------------------------
(* The player: audio_pipeline_run, and per music information               *)
(* audio_element_setinfo and i2s_stream_set_clk.                           *)

Turns(from) == player = from /\ Blocked

\* audio_element_resume, audio_element_pause, audio_pipeline_terminate.
Send(c) == cmd = "none" /\ cmd' = c

Run == /\ Turns("run")
       /\ Send("resume")
       /\ player' = "loop"
       /\ UNCHANGED <<element, info, clock, feed, want, wasRunning, changes, clkFailed>>

MusicInfo(f) == /\ Turns("loop") /\ changes < MaxChanges
                /\ want' = f
                /\ changes' = changes + 1
                /\ player' = "setInfo"
                /\ UNCHANGED <<element, info, clock, cmd, feed, wasRunning, clkFailed>>

SetInfo == /\ Turns("setInfo")
           /\ info' = want
           /\ player' = "getState"
           /\ UNCHANGED <<element, clock, cmd, feed, want, wasRunning, changes, clkFailed>>

\* Mutant: the stream is not paused.
GetState_NoPause == /\ Turns("getState")
                    /\ wasRunning' = FALSE
                    /\ player' = "setFormat"
                    /\ UNCHANGED <<element, info, clock, cmd, feed, want, changes, clkFailed>>

GetState == /\ Turns("getState")
            /\ wasRunning' = (state = "RUNNING")
            /\ player' = IF wasRunning' THEN "pause" ELSE "setFormat"
            /\ UNCHANGED <<element, info, clock, cmd, feed, want, changes, clkFailed>>

\* audio_element_pause, which refuses unless the element runs.
Pause == /\ Turns("pause")
         /\ IF state = "RUNNING" THEN Send("pause") /\ player' = "paused"
            ELSE player' = "setFormat" /\ UNCHANGED cmd
         /\ UNCHANGED <<element, info, clock, feed, want, wasRunning, changes, clkFailed>>

\* ... and waits until the element has paused, or finished.
Paused == /\ Turns("paused") /\ cmd = "none"
          /\ player' = "setFormat"
          /\ UNCHANGED <<element, info, clock, cmd, feed, want, wasRunning, changes, clkFailed>>

\* Mutant: the stream goes on before the clock is set.
SetFormat_Resumes == /\ Turns("setFormat")
                     /\ info' = want
                     /\ cmd' = IF wasRunning THEN "resume" ELSE cmd
                     /\ player' = "setClk"
                     /\ UNCHANGED <<element, clock, feed, want, wasRunning, changes, clkFailed>>

SetFormat == /\ Turns("setFormat")
             /\ info' = want
             /\ player' = "setClk"
             /\ UNCHANGED <<element, clock, cmd, feed, want, wasRunning, changes, clkFailed>>

\* A failure of i2s_set_clk is logged, and returned to players that ignore it.
SetClk == /\ Turns("setClk")
          /\ \/ clock' = want /\ UNCHANGED clkFailed
             \/ clkFailed' = TRUE /\ UNCHANGED clock
          /\ player' = IF wasRunning THEN "resume" ELSE "loop"
          /\ UNCHANGED <<element, info, cmd, feed, want, wasRunning, changes>>

Resume == /\ Turns("resume")
          /\ Send("resume")
          /\ player' = "loop"
          /\ UNCHANGED <<element, info, clock, feed, want, wasRunning, changes, clkFailed>>

Terminate == /\ Turns("loop")
             /\ Send("destroy")
             /\ player' = "gone"
             /\ UNCHANGED <<element, info, clock, feed, want, wasRunning, changes, clkFailed>>

Over == pc = "gone" /\ player = "gone" /\ UNCHANGED vars

-----------------------------------------------------------------------------
Element == \/ TakeResume \/ TakePause \/ TakeDestroy \/ Close
           \/ ProcessInput \/ ProcessOutput \/ Write \/ ProcessDone \/ Finish

SetStreamClk == SetInfo \/ GetState \/ Pause \/ Paused \/ SetFormat \/ SetClk \/ Resume

Next == \/ Element \/ Feed
        \/ Run \/ SetStreamClk \/ Terminate
        \/ \E f \in Formats : MusicInfo(f)
        \/ Over

Spec == Init /\ [][Next]_vars

\* Both tasks run; the element's task blocks again and again, so that the player's
\* step comes although it is not enabled all the time.
FairSpec == Spec /\ WF_vars(Element) /\ SF_vars(Run \/ SetStreamClk)

-----------------------------------------------------------------------------
TypeOK ==
    /\ state \in {"INIT", "RUNNING", "PAUSED", "FINISHED", "STOPPED"}
    /\ {isOpen, timeout, wasRunning, clkFailed} \subseteq BOOLEAN
    /\ {info, clock, copy, want} \subseteq Formats
    /\ pc \in {"wait", "turn", "input", "write", "drain", "close", "gone"}
    /\ cmd \in {"none", "resume", "pause", "destroy"}
    /\ feed \in {"data", "dry", "done"}
    /\ player \in {"run", "loop", "setInfo", "getState", "pause", "paused", "setFormat",
                   "setClk", "resume", "gone"}
    /\ changes \in 0 .. MaxChanges

\* Between two changes of the clock, info and port agree, as long as i2s_set_clk
\* does not fail: no write that was under way stores its old copy over the new format.
ClockKept == player = "loop" /\ ~clkFailed => info = clock

\* The port's clock never changes under a buffer that is being written.
ClockChangesAtRest == [][clock' # clock => pc # "write"]_vars

\* i2s_stream_set_clk leaves the stream as it found it, running unless it has come to
\* its end meanwhile, even if no input ever comes: the wait for the pause ends.
StreamResumes ==
    player = "pause" ~> player = "loop" /\ state \in {"RUNNING", "FINISHED"}
==============================================================================
