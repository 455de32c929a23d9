-------------------------- MODULE I2sStream_proofs --------------------------
(***************************************************************************)
(* Theorems about I2sStream, for any formats and any number of changes:    *)
(* types, and that i2s_stream_set_clk loses no format to a write under way *)
(* and changes no clock under one.                                         *)
(***************************************************************************)
EXTENDS I2sStream, TLAPS

Pcs == {"wait", "turn", "input", "write", "drain", "close", "gone"}
Players == {"run", "loop", "setInfo", "getState", "pause", "paused", "setFormat",
            "setClk", "resume", "gone"}

LEMMA InitType == Init => TypeOK
<1> SUFFICES ASSUME Init PROVE TypeOK
  OBVIOUS
<1>1. changes \in 0 .. MaxChanges
  BY BoundAssumption DEF Init
<1>2. {info, clock, copy, want} \subseteq Formats
  BY FormatAssumption DEF Init, InitInfo
<1> QED
  BY <1>1, <1>2 DEF Init, TypeOK

\* What a step of the element's task changes, and only that.
LEMMA ElementType ==
    ASSUME TypeOK, Element
    PROVE  /\ UNCHANGED <<clock, feed, application, clkFailed>>
           /\ state' \in {"INIT", "RUNNING", "PAUSED", "FINISHED", "STOPPED"}
           /\ {isOpen', timeout'} \subseteq BOOLEAN
           /\ info' \in Formats /\ copy' \in Formats
           /\ pc' \in Pcs
           /\ cmd' \in {"none", "resume", "pause", "destroy"}
<1> USE DEF TypeOK, Pcs, TakesCommand
<1>1. CASE TakeResume
  BY <1>1 DEF TakeResume, Open
<1>2. CASE TakePause \/ TakeDestroy
  BY <1>2 DEF TakePause, TakeDestroy
<1>3. CASE Close
  BY <1>3 DEF Close
<1>4. CASE ProcessInput \/ ProcessOutput
  BY <1>4 DEF ProcessInput, ProcessOutput
<1>5. CASE Write \/ ProcessDone \/ Finish
  BY <1>5 DEF Write, ProcessDone, Finish
<1> QED
  BY <1>1, <1>2, <1>3, <1>4, <1>5 DEF Element

\* The player's steps.
PlayerStep == Run \/ SetStreamClk \/ Terminate \/ \E f \in Formats : MusicInfo(f)

LEMMA PlayerType ==
    ASSUME TypeOK, PlayerStep
    PROVE  /\ UNCHANGED <<element, feed>>
           /\ {info', clock', want'} \subseteq Formats
           /\ cmd' \in {"none", "resume", "pause", "destroy"}
           /\ player' \in Players
           /\ wasRunning' \in BOOLEAN /\ clkFailed' \in BOOLEAN
           /\ changes' \in 0 .. MaxChanges
<1> USE DEF TypeOK, Players, Send
<1>1. CASE Run \/ Terminate \/ Resume
  BY <1>1 DEF Run, Terminate, Resume
<1>2. CASE \E f \in Formats : MusicInfo(f)
  <2>1. PICK f \in Formats : MusicInfo(f)
    BY <1>2
  <2>2. changes' \in 0 .. MaxChanges
    BY <2>1, BoundAssumption DEF MusicInfo
  <2> QED
    BY <2>1, <2>2 DEF MusicInfo
<1>3. CASE SetInfo \/ GetState \/ Pause
  BY <1>3 DEF SetInfo, GetState, Pause
<1>4. CASE Paused \/ SetFormat \/ SetClk
  BY <1>4 DEF Paused, SetFormat, SetClk
<1> QED
  BY <1>1, <1>2, <1>3, <1>4 DEF PlayerStep, SetStreamClk

LEMMA NextType == TypeOK /\ [Next]_vars => TypeOK'
<1> SUFFICES ASSUME TypeOK, [Next]_vars PROVE TypeOK'
  OBVIOUS
<1>1. CASE Element
  BY <1>1, ElementType DEF TypeOK, Pcs, application
<1>2. CASE PlayerStep
  BY <1>2, PlayerType DEF TypeOK, Players, element
<1>3. CASE Feed
  BY <1>3 DEF Feed, TypeOK, element, application
<1>4. CASE Over \/ UNCHANGED vars
  BY <1>4 DEF Over, vars, TypeOK, element, application
<1> QED
  BY <1>1, <1>2, <1>3, <1>4 DEF Next, PlayerStep

\* The variables keep their types.
THEOREM TypeCorrect == Spec => []TypeOK
BY InitType, NextType, PTL DEF Spec

-----------------------------------------------------------------------------
(* The invariant: what each task may count on while the other one runs.    *)

\* The element runs exactly between the command that starts it and its end.
RunningInv ==
    /\ state = "RUNNING" <=> pc \in {"turn", "input", "write", "drain"}
    /\ pc = "close" => state \in {"PAUSED", "FINISHED", "STOPPED"}
    /\ pc = "close" /\ state = "PAUSED" => cmd = "pause"
    /\ pc = "gone" => state = "STOPPED"
    /\ state = "STOPPED" => player = "gone"

\* A command that may start or stop the element meets the player where it waits
\* for the answer, or has nothing to do with the clock.
CommandInv ==
    /\ cmd = "resume" => /\ state # "RUNNING"
                         /\ state = "FINISHED" \/ (pc = "wait" /\ player = "loop")
    /\ cmd = "pause" => player = "paused"
    /\ cmd = "destroy" => player = "gone"
    /\ player = "run" => pc = "wait" /\ cmd = "none"

\* From the answer to the pause on, the element is at rest.
RestInv ==
    /\ player = "paused" => cmd = "pause" \/ state # "RUNNING"
    /\ player \in {"setFormat", "setClk", "resume"} => state # "RUNNING"

\* The formats agree: _i2s_write stores back what it finds, the clock is set to
\* what the info was set to.
FormatInv ==
    /\ player \in {"run", "loop"} /\ pc = "write" => copy = info
    /\ player = "setClk" => info = want
    /\ player \in {"run", "loop", "resume"} /\ ~clkFailed => info = clock

IInv == RunningInv /\ CommandInv /\ RestInv /\ FormatInv

LEMMA InitInv == Init => IInv
BY DEF Init, InitInfo, IInv, RunningInv, CommandInv, RestInv, FormatInv

LEMMA ElementInv ==
    ASSUME TypeOK, IInv, Element
    PROVE  IInv'
<1> USE DEF TypeOK, IInv, RunningInv, CommandInv, RestInv, FormatInv, TakesCommand, application
<1>1. CASE TakeResume
  BY <1>1 DEF TakeResume, Open
<1>2. CASE TakePause
  BY <1>2 DEF TakePause
<1>3. CASE TakeDestroy
  BY <1>3 DEF TakeDestroy
<1>4. CASE Close
  BY <1>4 DEF Close
<1>5. CASE ProcessInput
  BY <1>5 DEF ProcessInput
<1>6. CASE ProcessOutput
  BY <1>6 DEF ProcessOutput
<1>7. CASE Write
  BY <1>7 DEF Write
<1>8. CASE ProcessDone
  BY <1>8 DEF ProcessDone
<1>9. CASE Finish
  BY <1>9 DEF Finish
<1> QED
  BY <1>1, <1>2, <1>3, <1>4, <1>5, <1>6, <1>7, <1>8, <1>9 DEF Element

LEMMA PlayerInv ==
    ASSUME TypeOK, IInv, PlayerStep
    PROVE  IInv'
<1> USE DEF TypeOK, IInv, RunningInv, CommandInv, RestInv, FormatInv, Turns, Blocked, Send,
            element
<1>1. CASE Run
  BY <1>1 DEF Run
<1>2. CASE \E f \in Formats : MusicInfo(f)
  <2>1. PICK f \in Formats : MusicInfo(f)
    BY <1>2
  <2> QED
    BY <2>1 DEF MusicInfo
<1>3. CASE SetInfo
  BY <1>3 DEF SetInfo
<1>4. CASE GetState
  BY <1>4 DEF GetState
<1>5. CASE Pause
  BY <1>5 DEF Pause
<1>6. CASE Paused
  BY <1>6 DEF Paused
<1>7. CASE SetFormat
  BY <1>7 DEF SetFormat
<1>8. CASE SetClk
  BY <1>8 DEF SetClk
<1>9. CASE Resume
  BY <1>9 DEF Resume
<1>10. CASE Terminate
  BY <1>10 DEF Terminate
<1> QED
  BY <1>1, <1>2, <1>3, <1>4, <1>5, <1>6, <1>7, <1>8, <1>9, <1>10 DEF PlayerStep, SetStreamClk

LEMMA NextInv == TypeOK /\ IInv /\ [Next]_vars => IInv'
<1> SUFFICES ASSUME TypeOK, IInv, [Next]_vars PROVE IInv'
  OBVIOUS
<1>1. CASE Element
  BY <1>1, ElementInv
<1>2. CASE PlayerStep
  BY <1>2, PlayerInv
<1>3. CASE Feed \/ Over \/ UNCHANGED vars
  BY <1>3 DEF Feed, Over, vars, element, application, IInv, RunningInv, CommandInv, RestInv,
              FormatInv
<1> QED
  BY <1>1, <1>2, <1>3 DEF Next, PlayerStep

LEMMA Invariance == Spec => [](TypeOK /\ IInv)
<1>1. Init => IInv
  BY InitInv
<1>2. TypeOK /\ IInv /\ [Next]_vars => IInv'
  BY NextInv
<1> QED
  BY <1>1, <1>2, TypeCorrect, PTL DEF Spec

\* i2s_stream_set_clk is not undone: between two changes info and clock agree,
\* unless i2s_set_clk has failed.
THEOREM FormatIsKept == Spec => []ClockKept
<1>1. IInv => ClockKept
  BY DEF IInv, FormatInv, ClockKept
<1> QED
  BY <1>1, Invariance, PTL

\* The clock changes only while no buffer is being written.
THEOREM ClockIsSafe == Spec => ClockChangesAtRest
<1>1. TypeOK /\ IInv /\ [Next]_vars => [clock' # clock => pc # "write"]_vars
  <2> SUFFICES ASSUME TypeOK, IInv, [Next]_vars, clock' # clock
               PROVE  pc # "write"
    BY DEF vars
  <2>1. SetClk
    <3>1. ~Element
      BY ElementType
    <3>2. ~(Feed \/ Over \/ UNCHANGED vars)
      BY DEF Feed, Over, vars
    <3>3. PlayerStep
      BY <3>1, <3>2 DEF Next, PlayerStep
    <3> QED
      BY <3>3 DEF PlayerStep, SetStreamClk, Run, MusicInfo, SetInfo, GetState, Pause, Paused,
                  SetFormat, Resume, Terminate
  <2> QED
    BY <2>1 DEF SetClk, Turns, IInv, RestInv, RunningInv
<1> QED
  BY <1>1, Invariance, PTL DEF Spec, ClockChangesAtRest
==============================================================================
