------------------------- MODULE BtKeyControl_proofs -------------------------
(***************************************************************************)
(* For any keys, labels and number of presses: the types, the timer that   *)
(* guards every pending key, the refinement of BtKeyAction, and the labels *)
(* that tell an old answer from a new one.                                 *)
(***************************************************************************)
EXTENDS BtKeyControl, TLAPS

\* Where each task may be, and with which event and argument.
PcsOf == [app |-> {"ready", "switch", "IDLE", "PRESS", "RELEASE", "writeKey", "sendPress",
                   "startTimer", "setPress"},
          btc |-> {"ready", "switch", "IDLE", "PRESS", "RELEASE", "resetTimer",
                   "setRelease", "stopTimer", "setIdle", "deinit"},
          tmr |-> {"ready", "switch", "IDLE", "PRESS", "RELEASE", "abandonTl",
                   "abandonKey", "abandonIdle"}]
EventOf == [app |-> "KEY_STATE_CHG", btc |-> "PASSTHROUGH_RSP", tmr |-> "PT_RSP_TO"]

FrameOf(a) == {f \in Frame :
                 /\ f.pc \in PcsOf[a]
                 /\ f.pc \notin {"ready", "deinit"}
                      => f.evt = EventOf[a] /\ (a # "tmr" => f.cmd \in Command)}

FrameInv == \A a \in Tasks : call[a] \in FrameOf(a)

-----------------------------------------------------------------------------
USE KeyAssumption, LabelAssumption, BoundAssumption

\* What Goto, Return and Enter leave in call is a frame again.
LEMMA FrameTyping ==
    ASSUME call \in [Tasks -> Frame], NEW a \in Tasks
    PROVE  /\ \A pc \in Pcs : Goto(a, pc) => call' \in [Tasks -> Frame]
           /\ Return(a) => call' \in [Tasks -> Frame]
           /\ \A evt \in Events, c \in Command \cup {NoCommand} :
                 Enter(a, evt, c) => call' \in [Tasks -> Frame]
<1>1. ASSUME NEW pc \in Pcs, Goto(a, pc) PROVE call' \in [Tasks -> Frame]
  <2>1. [call[a] EXCEPT !.pc = pc] \in Frame
    BY DEF Frame
  <2> QED BY <1>1, <2>1 DEF Goto
<1>2. Ready \in Frame
  BY DEF Ready, Frame, Pcs, Events
<1>3. "switch" \in Pcs
  BY DEF Pcs
<1>4. ASSUME NEW evt \in Events, NEW c \in Command \cup {NoCommand}, Enter(a, evt, c)
      PROVE call' \in [Tasks -> Frame]
  <2>1. [pc |-> "switch", evt |-> evt, cmd |-> c] \in Frame
    BY <1>3 DEF Frame
  <2> QED BY <1>4, <2>1 DEF Enter
<1> QED BY <1>1, <1>2, <1>4 DEF Return

\* The assignments to key_cb keep its type.
LEMMA KeyCbTyping ==
    ASSUME keyCb \in KeyCb
    PROVE  /\ \A l \in Labels : [keyCb EXCEPT !.tl = l] \in KeyCb
           /\ \A k \in Keys \cup {NoKey} : [keyCb EXCEPT !.keyCode = k] \in KeyCb
           /\ \A s \in KeyStates : /\ [keyCb EXCEPT !.state = s] \in KeyCb
                                   /\ [keyCb EXCEPT !.state = s, !.keyCode = NoKey] \in KeyCb
           /\ \A b \in BOOLEAN : Cleared(b) \in KeyCb
<1>1. \A l \in Labels : [keyCb EXCEPT !.tl = l] \in KeyCb
  BY DEF KeyCb
<1>2. ASSUME NEW k \in Keys \cup {NoKey} PROVE [keyCb EXCEPT !.keyCode = k] \in KeyCb
  BY DEF KeyCb
<1>3. ASSUME NEW s \in KeyStates PROVE [keyCb EXCEPT !.state = s] \in KeyCb
  BY DEF KeyCb
<1>4. ASSUME NEW s \in KeyStates
      PROVE  [keyCb EXCEPT !.state = s, !.keyCode = NoKey] \in KeyCb
  BY DEF KeyCb
<1>5. ASSUME NEW b \in BOOLEAN PROVE Cleared(b) \in KeyCb
  <2>1. 0 \in Labels
    BY DEF Labels
  <2> QED BY <2>1 DEF KeyCb, Cleared, KeyStates
<1> QED BY <1>1, <1>2, <1>3, <1>4, <1>5

\* The types hold in every state, whatever the tasks' interleaving.
LEMMA Typing == TypeOK /\ FrameInv /\ [Next]_vars => TypeOK'
<1> SUFFICES ASSUME TypeOK, FrameInv, [Next]_vars PROVE TypeOK'
  OBVIOUS
<1> USE DEF TypeOK
<1>0. /\ KeyStates \subseteq Pcs
      /\ {"ready", "deinit", "switch", "writeKey", "sendPress", "startTimer", "setPress",
          "resetTimer", "setRelease", "stopTimer", "setIdle", "abandonTl", "abandonKey",
          "abandonIdle"} \subseteq Pcs
      /\ {"KEY_STATE_CHG", "PASSTHROUGH_RSP", "PT_RSP_TO"} \subseteq Events
      /\ {"app", "btc", "tmr"} \subseteq Tasks
      /\ KeyStates = {"IDLE", "PRESS", "RELEASE"}
  BY DEF KeyStates, Pcs, Events, Tasks
<1>1. ASSUME NEW k \in Keys, PassthroughCmd(k) PROVE TypeOK'
  <2>1. attempts' \in 0 .. MaxAttempts /\ svcTl' \in Labels
    BY <1>1 DEF PassthroughCmd, NextSvcTl, Labels
  <2>2. [tl |-> svcTl, key |-> k, ks |-> "PRESSED", id |-> attempts'] \in Command
    BY <2>1 DEF Command
  <2> QED BY <1>0, <1>1, <2>1, <2>2, FrameTyping DEF PassthroughCmd
<1>2. ASSUME NEW a \in Tasks, StateMachine(a) PROVE TypeOK'
  <2>1. keyCb.state \in Pcs
    BY <1>0 DEF KeyCb
  <2> QED BY <1>2, <2>1, FrameTyping DEF StateMachine
<1>3. ASSUME NEW a \in Tasks, HdlIdle(a) PROVE TypeOK'
  <2>1. call[a].cmd.tl \in Labels
    BY DEF Frame, Command, NoCommand, Labels
  <2>2. CASE keyCb.state = "IDLE" /\ call[a].evt = "KEY_STATE_CHG"
    <3>1. keyCb' \in KeyCb
      <4>1. [keyCb EXCEPT !.tl = call[a].cmd.tl] \in KeyCb
        BY <2>1, KeyCbTyping
      <4> QED BY <1>3, <2>2, <4>1 DEF HdlIdle
    <3>2. call' \in [Tasks -> Frame]
      BY <1>0, <1>3, <2>2, FrameTyping DEF HdlIdle
    <3> QED BY <1>3, <3>1, <3>2 DEF HdlIdle
  <2>3. CASE ~(keyCb.state = "IDLE" /\ call[a].evt = "KEY_STATE_CHG")
    BY <1>3, <2>3, FrameTyping DEF HdlIdle
  <2> QED BY <2>2, <2>3
<1>4. ASSUME NEW a \in Tasks, SendPress(a) PROVE TypeOK'
  <2>0. call[a].cmd \in Command
    BY <1>4 DEF SendPress, FrameInv, FrameOf, PcsOf, At, Tasks
  <2>1. wire' \in [phase : {"pressed", "released"}, key : Keys, tl : Labels]
    BY <1>4, <2>0 DEF SendPress, Command
  <2>2. press' \in [id : 0 .. MaxAttempts, live : BOOLEAN]
    BY <1>4, <2>0 DEF SendPress, Command
  <2>3. inflight' \in Seq(Command)
    BY <1>4, <2>0 DEF SendPress
  <2> QED BY <1>0, <1>4, <2>1, <2>2, <2>3, FrameTyping DEF SendPress
<1>5. ASSUME NEW a \in Tasks, HdlPress(a) PROVE TypeOK'
  <2>1. CASE SendRelease(call[a].cmd) /\ Goto(a, "resetTimer") /\ call[a].evt = "PASSTHROUGH_RSP"
    <3> DEFINE c == call[a].cmd
               l == ReleaseLabel(keyCb.tl)
    <3>1. c \in Command
      BY <1>5, <2>1 DEF HdlPress, FrameInv, FrameOf, EventOf, At, Tasks
    <3>2. l \in Labels
      BY DEF KeyCb, ReleaseLabel, Labels
    <3>3. [c EXCEPT !.tl = l, !.ks = "RELEASED"] \in Command
      BY <3>1, <3>2 DEF Command
    <3>4. inflight' \in Seq(Command)
      BY <2>1, <3>3 DEF SendRelease
    <3>5. wire' \in [phase : {"pressed", "released"}, key : Keys, tl : Labels]
      BY <2>1, <3>1, <3>2 DEF SendRelease, Command
    <3>6. keyCb' \in KeyCb
      BY <2>1, <3>2, KeyCbTyping DEF SendRelease
    <3> QED BY <1>0, <1>5, <2>1, <3>4, <3>5, <3>6, FrameTyping DEF HdlPress
  <2>2. CASE (Goto(a, "abandonTl") \/ Return(a)) /\ UNCHANGED <<keyCb, wire, inflight>>
    BY <1>0, <1>5, <2>2, FrameTyping DEF HdlPress
  <2> QED BY <1>5, <2>1, <2>2 DEF HdlPress
<1>6. ASSUME NEW a \in Tasks, HdlRelease(a) PROVE TypeOK'
  BY <1>0, <1>6, FrameTyping DEF HdlRelease
<1>7. ASSUME NEW a \in Tasks, StartTimer(a) \/ ResetTimer(a) \/ StopTimer(a) PROVE TypeOK'
  <2>1. keyCb.keyTmr \in BOOLEAN
    BY DEF KeyCb
  <2> QED BY <1>0, <1>7, <2>1, FrameTyping DEF StartTimer, ResetTimer, StopTimer, ArmTimer
<1>8. ASSUME NEW a \in Tasks,
             SetPress(a) \/ SetRelease(a) \/ SetIdle(a) \/ AbandonIdle(a) \/ AbandonTl(a)
               \/ AbandonKey(a) \/ WriteKey(a)
      PROVE  TypeOK'
  <2>1. 0 \in Labels
    BY DEF Labels
  <2>2. call[a].cmd.key \in Keys \cup {NoKey}
    BY DEF Frame, Command, NoCommand
  <2>3. keyCb' \in KeyCb
    <3>1. CASE SetPress(a) \/ SetRelease(a) \/ SetIdle(a) \/ AbandonIdle(a)
      BY <1>0, <3>1, KeyCbTyping DEF SetPress, SetRelease, SetState, SetIdle, AbandonIdle
    <3>2. [keyCb EXCEPT !.tl = 0] \in KeyCb /\ \A k \in Keys \cup {NoKey} : [keyCb EXCEPT !.keyCode = k] \in KeyCb
      BY <2>1, KeyCbTyping
    <3>3. CASE AbandonTl(a) \/ AbandonKey(a) \/ WriteKey(a)
      BY <2>2, <3>2, <3>3 DEF AbandonTl, AbandonKey, WriteKey
    <3> QED BY <1>8, <3>1, <3>3
  <2>4. call' \in [Tasks -> Frame]
    BY <1>0, <1>8, FrameTyping
       DEF SetPress, SetRelease, SetState, SetIdle, AbandonIdle, AbandonTl, AbandonKey, WriteKey
  <2> QED
    BY <1>8, <2>3, <2>4
       DEF SetPress, SetRelease, SetState, SetIdle, AbandonIdle, AbandonTl, AbandonKey, WriteKey
<1>9. CASE TimerExpire
  BY <1>0, <1>9, FrameTyping DEF TimerExpire
<1>10. CASE Connect \/ Disconnect \/ SmDeinit
  <2>1. timersShort \in BOOLEAN
    OBVIOUS
  <2>2. [press EXCEPT !.live = FALSE] \in [id : 0 .. MaxAttempts, live : BOOLEAN]
    OBVIOUS
  <2>3. <<>> \in Seq(Command)
    OBVIOUS
  <2>4. CASE Connect
    BY <2>1, <2>4, KeyCbTyping DEF Connect, SmInit
  <2>5. CASE Disconnect
    BY <1>0, <2>2, <2>3, <2>5, FrameTyping DEF Disconnect
  <2>6. CASE SmDeinit
    BY <1>0, <2>6, FrameTyping, KeyCbTyping DEF SmDeinit
  <2> QED BY <1>10, <2>4, <2>5, <2>6
<1>11. CASE PassthroughRsp \/ RspLost \/ TimersRunShort
  <2>1. inflight # <<>> => Head(inflight) \in Command /\ Tail(inflight) \in Seq(Command)
    OBVIOUS
  <2> QED BY <1>0, <1>11, <2>1, FrameTyping DEF PassthroughRsp, RspLost, TimersRunShort
<1>12. CASE UNCHANGED vars
  BY <1>12 DEF vars
<1> QED
  BY <1>1, <1>2, <1>3, <1>4, <1>5, <1>6, <1>7, <1>8, <1>9, <1>10, <1>11, <1>12 DEF Next, Step, Aborted

\* Each task runs its own part of the machine, on its own events.
LEMMA Frames == TypeOK /\ FrameInv /\ [Next]_vars => FrameInv'
<1> SUFFICES ASSUME TypeOK, FrameInv, [Next]_vars PROVE FrameInv'
  OBVIOUS
<1>0. call \in [Tasks -> Frame] /\ call' \in [Tasks -> Frame]
  BY Typing DEF TypeOK
<1>1. ASSUME NEW a \in Tasks, NEW pc \in PcsOf[a], Goto(a, pc),
             pc \in {"ready", "deinit"} \/ call[a].pc \notin {"ready", "deinit"}
      PROVE  FrameInv'
  <2>1. [call[a] EXCEPT !.pc = pc] \in FrameOf(a)
    BY <1>0, <1>1 DEF FrameInv, FrameOf, Frame, Goto
  <2> QED BY <1>0, <1>1, <2>1 DEF FrameInv, Goto
<1>2. ASSUME NEW a \in Tasks, Return(a) PROVE FrameInv'
  <2>1. Ready \in FrameOf(a)
    BY DEF Ready, FrameOf, Frame, PcsOf, Pcs, Events, Tasks
  <2> QED BY <1>0, <1>2, <2>1 DEF FrameInv, Return
<1>3. ASSUME NEW a \in Tasks, NEW evt, NEW c, Enter(a, evt, c), evt = EventOf[a],
             a # "tmr" => c \in Command
      PROVE  FrameInv'
  <2>1. call'[a] \in FrameOf(a)
    BY <1>0, <1>3 DEF FrameOf, PcsOf, Enter, Tasks
  <2>2. \A b \in Tasks : b # a => call'[b] = call[b]
    BY <1>0, <1>3 DEF Enter
  <2> QED BY <2>1, <2>2 DEF FrameInv
<1>4. ASSUME UNCHANGED call PROVE FrameInv'
  BY <1>4 DEF FrameInv
<1>5. ASSUME NEW k \in Keys, PassthroughCmd(k) PROVE FrameInv'
  <2>1. attempts' \in 0 .. MaxAttempts
    BY Typing DEF TypeOK
  <2>2. [tl |-> svcTl, key |-> k, ks |-> "PRESSED", id |-> attempts'] \in Command
    BY <2>1 DEF Command, TypeOK
  <2> QED BY <1>3, <1>5, <2>2 DEF PassthroughCmd, EventOf, Tasks
<1>6. ASSUME NEW a \in Tasks, Step(a) PROVE FrameInv'
  <2>1. call[a].pc \in PcsOf[a] /\ (call[a].pc \notin {"ready", "deinit"} => call[a].evt = EventOf[a])
    BY DEF FrameInv, FrameOf
  <2>2. StateMachine(a) => FrameInv'
    <3>1. KeyStates \subseteq PcsOf[a]
      BY DEF PcsOf, KeyStates, Tasks
    <3>2. keyCb.state \in KeyStates
      BY DEF TypeOK, KeyCb
    <3> QED BY <1>1, <3>1, <3>2 DEF StateMachine, At
  <2>3. HdlIdle(a) => FrameInv'
    <3>1. call[a].pc = "IDLE" /\ call[a].evt = "KEY_STATE_CHG" => a = "app"
      BY <2>1 DEF EventOf, Tasks
    <3>2. "writeKey" \in PcsOf["app"]
      BY DEF PcsOf
    <3> QED BY <1>1, <1>2, <3>1, <3>2 DEF HdlIdle, At
  <2>4. HdlPress(a) => FrameInv'
    <3>1. /\ call[a].pc = "PRESS" /\ call[a].evt = "PASSTHROUGH_RSP" => a = "btc"
          /\ call[a].pc = "PRESS" /\ call[a].evt = "PT_RSP_TO" => a = "tmr"
      BY <2>1 DEF EventOf, Tasks
    <3>2. "resetTimer" \in PcsOf["btc"] /\ "abandonTl" \in PcsOf["tmr"]
      BY DEF PcsOf
    <3> QED BY <1>1, <1>2, <3>1, <3>2 DEF HdlPress, At
  <2>5. HdlRelease(a) => FrameInv'
    <3>1. /\ call[a].pc = "RELEASE" /\ call[a].evt = "PASSTHROUGH_RSP" => a = "btc"
          /\ call[a].pc = "RELEASE" /\ call[a].evt = "PT_RSP_TO" => a = "tmr"
      BY <2>1 DEF EventOf, Tasks
    <3>2. "stopTimer" \in PcsOf["btc"] /\ "abandonTl" \in PcsOf["tmr"]
      BY DEF PcsOf
    <3> QED BY <1>1, <1>2, <3>1, <3>2 DEF HdlRelease, At
  <2>6. WriteKey(a) \/ SendPress(a) \/ StartTimer(a) => FrameInv'
    <3>1. call[a].pc \in {"writeKey", "sendPress", "startTimer"} => a = "app"
      BY <2>1 DEF PcsOf, Tasks
    <3>2. {"sendPress", "startTimer", "setPress"} \subseteq PcsOf["app"]
      BY DEF PcsOf
    <3> QED BY <1>1, <3>1, <3>2 DEF WriteKey, SendPress, StartTimer, ArmTimer, At
  <2>7. ResetTimer(a) \/ StopTimer(a) => FrameInv'
    <3>1. call[a].pc \in {"resetTimer", "stopTimer"} => a = "btc"
      BY <2>1 DEF PcsOf, Tasks
    <3>2. {"setRelease", "setIdle"} \subseteq PcsOf["btc"]
      BY DEF PcsOf
    <3> QED BY <1>1, <3>1, <3>2 DEF ResetTimer, StopTimer, ArmTimer, At
  <2>8. SetPress(a) \/ SetRelease(a) \/ SetIdle(a) \/ AbandonIdle(a) => FrameInv'
    BY <1>2 DEF SetPress, SetRelease, SetState, SetIdle, AbandonIdle
  <2>9. AbandonTl(a) \/ AbandonKey(a) => FrameInv'
    <3>1. call[a].pc \in {"abandonTl", "abandonKey"} => a = "tmr"
      BY <2>1 DEF PcsOf, Tasks
    <3>2. {"abandonKey", "abandonIdle"} \subseteq PcsOf["tmr"]
      BY DEF PcsOf
    <3> QED BY <1>1, <3>1, <3>2 DEF AbandonTl, AbandonKey, At
  <2> QED BY <1>6, <2>2, <2>3, <2>4, <2>5, <2>6, <2>7, <2>8, <2>9 DEF Step
<1>7. TimerExpire => FrameInv'
  BY <1>3 DEF TimerExpire, EventOf, Tasks
<1>8. Connect \/ Disconnect \/ SmDeinit => FrameInv'
  <2>1. "deinit" \in PcsOf["btc"] /\ "btc" \in Tasks
    BY DEF PcsOf, Tasks
  <2> QED BY <1>1, <1>2, <1>4, <2>1 DEF Connect, Disconnect, SmDeinit
<1>9. PassthroughRsp \/ RspLost \/ TimersRunShort => FrameInv'
  <2>1. inflight # <<>> => Head(inflight) \in Command
    BY DEF TypeOK
  <2> QED BY <1>3, <1>4, <2>1 DEF PassthroughRsp, RspLost, TimersRunShort, EventOf, Tasks
<1>10. UNCHANGED vars => FrameInv'
  BY <1>4 DEF vars
<1> QED BY <1>5, <1>6, <1>7, <1>8, <1>9, <1>10 DEF Next, Aborted

LEMMA Framed == Spec => [](TypeOK /\ FrameInv)
<1>1. Init => TypeOK /\ FrameInv
  <2> SUFFICES ASSUME Init PROVE TypeOK /\ FrameInv
    OBVIOUS
  <2>1. Cleared(FALSE) \in KeyCb
    BY DEF KeyCb, Cleared, KeyStates, Labels
  <2>2. Ready \in Frame /\ \A a \in Tasks : Ready \in FrameOf(a)
    BY DEF Ready, Frame, FrameOf, PcsOf, Pcs, Events, Tasks
  <2>3. call \in [Tasks -> Frame]
    BY <2>2 DEF Init
  <2>4. 0 \in Labels /\ 0 \in 0 .. MaxAttempts /\ <<>> \in Seq(Command)
    BY DEF Labels
  <2>5. press \in [id : 0 .. MaxAttempts, live : BOOLEAN]
    BY <2>4 DEF Init
  <2>6. TypeOK
    BY <2>1, <2>3, <2>4, <2>5 DEF Init, TypeOK
  <2>7. FrameInv
    BY <2>2 DEF Init, FrameInv
  <2> QED BY <2>6, <2>7
<1> QED BY <1>1, Typing, Frames, PTL DEF Spec

\* TypeOK for every set of keys, label width and number of presses.
THEOREM TypeCorrect == Spec => []TypeOK
BY Framed, PTL

-----------------------------------------------------------------------------
\* An action moves one task's frame; the others keep theirs.
LEMMA Moves ==
    ASSUME TypeOK, NEW a \in Tasks
    PROVE  /\ \A pc : Goto(a, pc) => /\ call'[a].pc = pc /\ call'[a].cmd = call[a].cmd
                                    /\ \A b \in Tasks \ {a} : call'[b] = call[b]
           /\ Return(a) => /\ call'[a].pc = "ready"
                           /\ \A b \in Tasks \ {a} : call'[b] = call[b]
           /\ \A evt, c : Enter(a, evt, c) => /\ call'[a].pc = "switch" /\ call'[a].cmd = c
                                             /\ \A b \in Tasks \ {a} : call'[b] = call[b]
<1>1. call \in [Tasks -> Frame] /\ call[a] \in Frame
  BY DEF TypeOK
<1>2. \A pc : [call[a] EXCEPT !.pc = pc].pc = pc /\ [call[a] EXCEPT !.pc = pc].cmd = call[a].cmd
  BY <1>1 DEF Frame
<1>3. ASSUME NEW pc, Goto(a, pc)
      PROVE  /\ call'[a].pc = pc /\ call'[a].cmd = call[a].cmd
             /\ \A b \in Tasks \ {a} : call'[b] = call[b]
  <2>1. call'[a] = [call[a] EXCEPT !.pc = pc]
    BY <1>1, <1>3 DEF Goto
  <2> QED BY <1>1, <1>2, <1>3, <2>1 DEF Goto
<1>4. ASSUME Return(a)
      PROVE  /\ call'[a].pc = "ready"
             /\ \A b \in Tasks \ {a} : call'[b] = call[b]
  BY <1>1, <1>4 DEF Return, Ready
<1>5. ASSUME NEW evt, NEW c, Enter(a, evt, c)
      PROVE  /\ call'[a].pc = "switch" /\ call'[a].cmd = c
             /\ \A b \in Tasks \ {a} : call'[b] = call[b]
  BY <1>1, <1>5 DEF Enter
<1> QED BY <1>3, <1>4, <1>5

\* Which task an action can belong to.
LEMMA Owner ==
    ASSUME TypeOK, FrameInv, NEW a \in Tasks
    PROVE  /\ call[a].pc \in {"writeKey", "sendPress", "startTimer", "setPress"} => a = "app"
           /\ call[a].pc \in {"resetTimer", "setRelease", "stopTimer", "setIdle", "deinit"} => a = "btc"
           /\ call[a].pc \in {"abandonTl", "abandonKey", "abandonIdle"} => a = "tmr"
           /\ call[a].pc \in {"IDLE", "PRESS", "RELEASE"}
                => /\ call[a].evt = "KEY_STATE_CHG" => a = "app"
                   /\ call[a].evt = "PASSTHROUGH_RSP" => a = "btc" /\ call[a].cmd \in Command
                   /\ call[a].evt = "PT_RSP_TO" => a = "tmr"
<1>1. call[a] \in FrameOf(a)
  BY DEF FrameInv
<1>2. a \in {"app", "btc", "tmr"}
  BY DEF Tasks
<1> QED BY <1>1, <1>2 DEF FrameOf, PcsOf, EventOf

-----------------------------------------------------------------------------
(* The labels: two per press, taken modulo LabelMod.                       *)

LEMMA Division ==
    ASSUME NEW a \in Nat
    PROVE  /\ a % LabelMod \in 0 .. LabelMod - 1 /\ a \div LabelMod \in Nat
           /\ a = LabelMod * (a \div LabelMod) + (a % LabelMod)
<1>1. a % LabelMod \in 0 .. LabelMod - 1
  OBVIOUS
<1>2. a \div LabelMod \in Nat
  OBVIOUS
<1>3. a = LabelMod * (a \div LabelMod) + (a % LabelMod)
  OBVIOUS
<1> QED
  BY <1>1, <1>2, <1>3

\* Counting goes on modulo LabelMod where it was.
LEMMA NextLabel ==
    ASSUME NEW a \in Nat
    PROVE  ((a % LabelMod) + 2) % LabelMod = (a + 2) % LabelMod
<1> DEFINE r == a % LabelMod
           q == a \div LabelMod
           s == (r + 2) \div LabelMod
           t == (r + 2) % LabelMod
<1>1. r \in Nat /\ q \in Nat /\ a = LabelMod * q + r
  BY Division
<1>2. s \in Nat /\ t \in 0 .. LabelMod - 1 /\ r + 2 = LabelMod * s + t
  BY <1>1, Division
<1> HIDE DEF q, s, r, t
<1>3. a + 2 = LabelMod * (q + s) + t /\ q + s \in Nat
  BY <1>1, <1>2
<1>4. \A k \in Nat : (LabelMod * k + t) % LabelMod = t
  BY <1>2
<1>5. (a + 2) % LabelMod = t
  BY <1>3, <1>4
<1> QED
  BY <1>5 DEF t, r

\* Numbers with the same label are the same or LabelMod apart.
LEMMA SameLabel ==
    ASSUME NEW a \in Nat, NEW b \in Nat, a <= b, a % LabelMod = b % LabelMod
    PROVE  b - a = 0 \/ b - a >= LabelMod
<1> DEFINE p == a \div LabelMod
           q == b \div LabelMod
           r == a % LabelMod
<1>1. p \in Nat /\ q \in Nat /\ r \in Nat /\ a = LabelMod * p + r /\ b = LabelMod * q + r
  BY Division
<1> HIDE DEF p, q, r
<1>2. b - a = LabelMod * (q - p)
  BY <1>1
<1>3. CASE q <= p
  <2>1. LabelMod * q <= LabelMod * p
    BY <1>1, <1>3
  <2> QED
    BY <1>1, <2>1
<1>4. CASE q > p
  <2>1. q - p \in Nat /\ q - p >= 1
    BY <1>1, <1>4
  <2>2. \A n \in Nat : n >= 1 => LabelMod * n >= LabelMod
    OBVIOUS
  <2> QED
    BY <1>2, <2>1, <2>2
<1> QED
  BY <1>1, <1>3, <1>4

\* The label periph_bluetooth_passthrough_cmd gives the press numbered id.
LabelOf(id) == (2 * (id - 1)) % LabelMod

\* A command that went out: its press is known, and a press has the label of its number.
Sent(c) == c.id \in 1 .. press.id /\ (c.ks = "PRESSED" => c.tl = LabelOf(c.id))

\* Labels count the presses, whatever answers were lost, late or taken for others'.
LabelInv ==
    /\ svcTl = LabelOf(attempts + 1)
    /\ press.id <= attempts
    /\ ~At("app", "ready") => /\ attempts > 0 /\ call["app"].cmd.id = attempts
                              /\ call["app"].cmd.tl = LabelOf(attempts)
    /\ \A i \in DOMAIN inflight : Sent(inflight[i])
    /\ call["btc"].pc \notin {"ready", "deinit"} => Sent(call["btc"].cmd)
    /\ wire.phase = "pressed" => press.id > 0 /\ wire.tl = LabelOf(press.id)

\* What is in flight: answered or lost it comes from the front, sent it goes to the end.
LEMMA Flight ==
    ASSUME NEW s \in Seq(Command), NEW c \in Command, NEW t
    PROVE  /\ t = Append(s, c) => \A i \in DOMAIN t : t[i] = c \/ \E j \in DOMAIN s : t[i] = s[j]
           /\ s # <<>> => Head(s) \in Command /\ \E j \in DOMAIN s : Head(s) = s[j]
           /\ s # <<>> /\ t = Tail(s) => \A i \in DOMAIN t : \E j \in DOMAIN s : t[i] = s[j]
<1>1. ASSUME t = Append(s, c), NEW i \in DOMAIN t
      PROVE  t[i] = c \/ \E j \in DOMAIN s : t[i] = s[j]
  <2>1. i \in 1 .. Len(s) + 1
    BY <1>1
  <2>2. CASE i = Len(s) + 1
    BY <1>1, <2>2
  <2>3. CASE i \in 1 .. Len(s)
    <3>1. t[i] = s[i] /\ i \in DOMAIN s
      BY <1>1, <2>3
    <3> QED
      BY <3>1
  <2> QED
    BY <2>1, <2>2, <2>3
<1>2. ASSUME s # <<>> PROVE Head(s) \in Command /\ \E j \in DOMAIN s : Head(s) = s[j]
  <2>1. Head(s) = s[1] /\ 1 \in DOMAIN s
    BY <1>2
  <2> QED
    BY <2>1
<1>3. ASSUME s # <<>>, t = Tail(s), NEW i \in DOMAIN t
      PROVE  \E j \in DOMAIN s : t[i] = s[j]
  <2>1. t[i] = s[i + 1] /\ i + 1 \in DOMAIN s
    BY <1>3
  <2> QED
    BY <2>1
<1> QED
  BY <1>1, <1>2, <1>3

\* A press that was known stays known.
LEMMA SentStays ==
    ASSUME NEW c, TypeOK, press'.id \in Nat, press'.id >= press.id, Sent(c)
    PROVE  c.id \in 1 .. press'.id /\ (c.ks = "PRESSED" => c.tl = LabelOf(c.id))
<1>1. press.id \in Nat
  BY DEF TypeOK
<1> QED
  BY <1>1 DEF Sent

\* A call that goes on, or returns, keeps its command.
LEMMA CallStep ==
    ASSUME TypeOK, LabelInv, NEW a \in Tasks,
           Return(a) \/ \E p : Goto(a, p), call[a].pc \notin {"ready", "deinit"},
           UNCHANGED <<svcTl, press, attempts, inflight, wire>>
    PROVE  LabelInv'
<1>1. /\ \A b \in Tasks \ {a} : call'[b] = call[b]
      /\ call'[a].pc = "ready" \/ call'[a].cmd = call[a].cmd
  BY Moves
<1>2. "app" \in Tasks /\ "btc" \in Tasks
  BY DEF Tasks
<1> QED
  BY <1>1, <1>2 DEF LabelInv, Sent, At

\* The labels keep count.
LEMMA LabelStep == TypeOK /\ FrameInv /\ LabelInv /\ ~fault /\ Next => LabelInv'
<1> SUFFICES ASSUME TypeOK, FrameInv, LabelInv, ~fault, Next PROVE LabelInv'
  OBVIOUS
<1>0. /\ "app" \in Tasks /\ "btc" \in Tasks /\ "tmr" \in Tasks
      /\ attempts \in Nat /\ press.id \in Nat
      /\ inflight \in Seq(Command)
  BY DEF Tasks, TypeOK
<1>1. ASSUME NEW k \in Keys, PassthroughCmd(k) PROVE LabelInv'
  <2>1. /\ attempts' = attempts + 1 /\ svcTl' = (svcTl + 2) % LabelMod
        /\ UNCHANGED <<inflight, wire, press>>
    BY <1>1 DEF PassthroughCmd, NextSvcTl
  <2>2. /\ call'["app"].cmd.id = attempts + 1 /\ call'["app"].cmd.tl = svcTl
        /\ call'["btc"] = call["btc"]
    <3>1. call' = [call EXCEPT !["app"] = [pc |-> "switch", evt |-> "KEY_STATE_CHG",
                     cmd |-> [tl |-> svcTl, key |-> k, ks |-> "PRESSED", id |-> attempts + 1]]]
      BY <1>1, <2>1 DEF PassthroughCmd, Enter
    <3> QED
      BY <1>0, <3>1 DEF TypeOK
  <2>3. svcTl = (2 * attempts) % LabelMod /\ LabelOf(attempts + 1) = svcTl
    BY <1>0 DEF LabelInv, LabelOf
  <2>4. svcTl' = LabelOf(attempts' + 1)
    <3>1. (((2 * attempts) % LabelMod) + 2) % LabelMod = (2 * attempts + 2) % LabelMod
      <4>1. 2 * attempts \in Nat
        BY <1>0
      <4> QED
        BY <4>1, NextLabel
    <3>2. 2 * attempts + 2 = 2 * ((attempts + 1 + 1) - 1)
      BY <1>0
    <3> QED
      BY <2>1, <2>3, <3>1, <3>2 DEF LabelOf
  <2> QED
    BY <1>0, <2>1, <2>2, <2>3, <2>4 DEF LabelInv, Sent, At
<1>2. ASSUME NEW a \in Tasks, StateMachine(a) \/ HdlIdle(a) \/ HdlRelease(a) \/ StartTimer(a)
               \/ ResetTimer(a) \/ StopTimer(a) \/ SetPress(a) \/ SetRelease(a) \/ SetIdle(a)
               \/ AbandonTl(a) \/ AbandonKey(a) \/ AbandonIdle(a) \/ WriteKey(a)
      PROVE  LabelInv'
  <2>1. UNCHANGED <<svcTl, press, attempts, inflight, wire>>
    BY <1>2 DEF StateMachine, HdlIdle, HdlRelease, StartTimer, ResetTimer, StopTimer, ArmTimer,
                SetPress, SetRelease, SetIdle, SetState, AbandonTl, AbandonKey,
                AbandonIdle, WriteKey
  <2>2. Return(a) \/ \E p : Goto(a, p)
    BY <1>2 DEF StateMachine, HdlIdle, HdlRelease, StartTimer, ResetTimer, StopTimer, ArmTimer,
                SetPress, SetRelease, SetIdle, SetState, AbandonTl, AbandonKey,
                AbandonIdle, WriteKey
  <2>3. call[a].pc \notin {"ready", "deinit"}
    BY <1>2 DEF StateMachine, HdlIdle, HdlRelease, StartTimer, ResetTimer, StopTimer, ArmTimer,
                SetPress, SetRelease, SetIdle, SetState, AbandonTl, AbandonKey,
                AbandonIdle, WriteKey, At
  <2> QED
    BY <2>1, <2>2, <2>3, CallStep
<1>3. ASSUME NEW a \in Tasks, SendPress(a) PROVE LabelInv'
  <2> DEFINE c == call["app"].cmd
  <2>1. a = "app" /\ call["app"].pc = "sendPress"
    BY <1>3, Owner DEF SendPress, At
  <2>2. /\ wire' = [phase |-> "pressed", key |-> c.key, tl |-> c.tl]
        /\ press'.id = c.id
        /\ inflight' = Append(inflight, c)
        /\ UNCHANGED <<svcTl, attempts>>
    BY <1>3, <2>1 DEF SendPress
  <2>3. c \in Command /\ c.id = attempts /\ attempts > 0 /\ c.tl = LabelOf(attempts)
    <3>1. call["app"] \in FrameOf("app")
      BY <1>0 DEF FrameInv
    <3> QED
      BY <2>1, <3>1 DEF FrameOf, LabelInv, At
  <2>4. call'["app"].cmd = c /\ call'["btc"] = call["btc"]
    BY <1>0, <1>3, <2>1, Moves DEF SendPress
  <2>5. \A d : Sent(d) => d.id \in 1 .. press'.id /\ (d.ks = "PRESSED" => d.tl = LabelOf(d.id))
    BY <1>0, <2>2, <2>3, SentStays DEF LabelInv
  <2>6. \A i \in DOMAIN inflight' : inflight'[i] = c \/ \E j \in DOMAIN inflight : inflight'[i] = inflight[j]
    BY <1>0, <2>2, <2>3, Flight
  <2>7. c.id \in 1 .. press'.id
    BY <1>0, <2>2, <2>3
  <2> HIDE DEF c
  <2>8. \A i \in DOMAIN inflight' :
           LET d == inflight'[i] IN d.id \in 1 .. press'.id /\ (d.ks = "PRESSED" => d.tl = LabelOf(d.id))
    BY <2>3, <2>5, <2>6, <2>7 DEF LabelInv
  <2>9. call'["btc"].pc \notin {"ready", "deinit"} =>
           LET d == call'["btc"].cmd IN d.id \in 1 .. press'.id /\ (d.ks = "PRESSED" => d.tl = LabelOf(d.id))
    BY <2>4, <2>5 DEF LabelInv
  <2> QED
    BY <1>0, <2>2, <2>3, <2>4, <2>8, <2>9 DEF LabelInv, Sent
<1>4. ASSUME NEW a \in Tasks, HdlPress(a) PROVE LabelInv'
  <2>1. CASE SendRelease(call[a].cmd) /\ call[a].evt = "PASSTHROUGH_RSP" /\ Goto(a, "resetTimer")
    <3> DEFINE c == call["btc"].cmd
               r == [c EXCEPT !.tl = ReleaseLabel(keyCb.tl), !.ks = "RELEASED"]
    <3>1. a = "btc" /\ c \in Command /\ call["btc"].pc = "PRESS"
      BY <1>4, <2>1, Owner DEF HdlPress, At
    <3>2. /\ wire'.phase = "released" /\ inflight' = Append(inflight, r)
          /\ UNCHANGED <<svcTl, press, attempts>>
      BY <1>4, <2>1, <3>1 DEF HdlPress, SendRelease
    <3>3. Sent(c)
      BY <3>1 DEF LabelInv
    <3>4. r.ks = "RELEASED" /\ r.id = c.id
      BY <3>1 DEF Command
    <3>5. r \in Command
      <4>1. ReleaseLabel(keyCb.tl) \in Labels
        <5>1. keyCb.tl \in Nat
          BY DEF TypeOK, KeyCb, Labels
        <5> QED
          BY <5>1, Division DEF ReleaseLabel, Labels
      <4> QED
        BY <3>1, <4>1 DEF Command
    <3>6. \A i \in DOMAIN inflight' : inflight'[i] = r \/ \E j \in DOMAIN inflight : inflight'[i] = inflight[j]
      BY <1>0, <3>2, <3>5, Flight
    <3>7. call'["app"] = call["app"] /\ call'["btc"].cmd = c
      BY <1>0, <2>1, <3>1, Moves
    <3>8. Sent(r)
      BY <3>3, <3>4 DEF Sent
    <3> HIDE DEF c, r
    <3>9. \A i \in DOMAIN inflight' : Sent(inflight'[i])
      BY <3>6, <3>8 DEF LabelInv
    <3> QED
      BY <3>2, <3>3, <3>7, <3>9 DEF LabelInv, Sent, At
  <2>2. CASE UNCHANGED <<wire, inflight>> /\ (Return(a) \/ Goto(a, "abandonTl"))
    <3>1. UNCHANGED <<svcTl, press, attempts>> /\ call[a].pc \notin {"ready", "deinit"}
      BY <1>4 DEF HdlPress, At
    <3> QED
      BY <2>2, <3>1, CallStep
  <2> QED
    BY <1>4, <2>1, <2>2 DEF HdlPress
<1>5. TimerExpire => LabelInv'
  BY <1>0, Moves DEF TimerExpire, LabelInv, Sent, At
<1>6. Connect \/ TimersRunShort => LabelInv'
  BY DEF Connect, TimersRunShort, LabelInv, Sent, At
<1>7. Disconnect => LabelInv'
  <2> SUFFICES ASSUME Disconnect PROVE LabelInv'
    OBVIOUS
  <2>1. /\ inflight' = <<>> /\ press'.id = press.id /\ UNCHANGED <<svcTl, wire, attempts>>
    BY DEF Disconnect, TypeOK
  <2>2. call'["btc"].pc = "deinit" /\ call'["app"] = call["app"]
    BY <1>0, Moves DEF Disconnect
  <2> QED
    BY <2>1, <2>2 DEF LabelInv, Sent, At
<1>8. SmDeinit => LabelInv'
  BY <1>0, Moves DEF SmDeinit, LabelInv, Sent, At
<1>9. PassthroughRsp \/ RspLost => LabelInv'
  <2> SUFFICES ASSUME PassthroughRsp \/ RspLost PROVE LabelInv'
    OBVIOUS
  <2>1. /\ inflight # <<>> /\ inflight' = Tail(inflight)
        /\ UNCHANGED <<svcTl, wire, press, attempts>>
    BY DEF PassthroughRsp, RspLost
  <2>2. call'["app"] = call["app"]
    BY <1>0, Moves DEF PassthroughRsp, RspLost
  <2>3. PICK d \in Command : TRUE
    BY <1>0, <2>1, Flight
  <2>4. \A i \in DOMAIN inflight' : \E j \in DOMAIN inflight : inflight'[i] = inflight[j]
    BY <1>0, <2>1, <2>3, Flight
  <2>5. Sent(Head(inflight))
    BY <1>0, <2>1, <2>3, Flight DEF LabelInv
  <2>6. call'["btc"] = call["btc"] \/ call'["btc"].cmd = Head(inflight)
    BY <1>0 DEF PassthroughRsp, RspLost, Enter, TypeOK
  <2>7. \A i \in DOMAIN inflight' : Sent(inflight'[i])
    BY <2>4 DEF LabelInv
  <2> QED
    BY <2>1, <2>2, <2>5, <2>6, <2>7 DEF LabelInv, Sent, At
<1> QED
  BY <1>1, <1>2, <1>3, <1>4, <1>5, <1>6, <1>7, <1>8, <1>9 DEF Next, Step, Aborted

LEMMA LabelsCount == Spec => []LabelInv
<1>1. Init => LabelInv
  <2> SUFFICES ASSUME Init PROVE LabelInv
    OBVIOUS
  <2>1. LabelOf(0 + 1) = 0
    <3>1. 0 % LabelMod = 0
      OBVIOUS
    <3> QED
      BY <3>1 DEF LabelOf
  <2> QED
    BY <2>1 DEF Init, LabelInv, Ready, At, Tasks, KeyAction!NoAction
<1>2. TypeOK /\ FrameInv /\ LabelInv /\ [Next]_vars => LabelInv'
  <2>1. UNCHANGED vars /\ LabelInv => LabelInv'
    BY DEF vars, LabelInv, Sent, At
  <2>2. Next /\ fault => UNCHANGED vars
    BY DEF Next, Aborted
  <2> QED
    BY <2>1, <2>2, LabelStep
<1> QED
  BY <1>1, <1>2, Framed, PTL DEF Spec

-----------------------------------------------------------------------------
(* The strengthening.                                                      *)

\* Every answer still to come, or being handled, is to a command of press id.
OnlyOf(id) == /\ \A i \in DOMAIN inflight : inflight[i].id = id
              /\ call["btc"].pc \notin {"ready", "deinit"} => call["btc"].cmd.id = id

\* With the link down only the press asked for last can still go out.
DownInv ==
    /\ ~avrcConnected => /\ call["btc"].pc \in {"ready", "deinit"}
                         /\ \A i \in DOMAIN inflight : inflight[i].id = attempts
    /\ At("btc", "deinit") => ~avrcConnected

\* The label in key_cb is l, or was reset: by a time-out that will reset the key next,
\* or by bt_key_act_sm_deinit, which leaves nothing to match but press id itself.
HoldsLabel(l, id) == \/ keyCb.tl = l
                     \/ Expiring /\ keyCb.tl = 0
                     \/ OnlyOf(id)

\* key_cb holds key k of press id under label l, or nothing (it was cleared meanwhile).
Holds(k, l, id) == keyCb.keyCode = NoKey \/ (keyCb.keyCode = k /\ HoldsLabel(l, id))

\* While the player task is in hdl_idle no one else is in state PRESS.
IdleInv ==
    LET c == call["app"].cmd
    IN /\ At("app", "writeKey") => /\ keyCb.state # "PRESS"
                                   /\ keyCb.state # "IDLE" => keyCb.keyTmr
                                   /\ keyCb.tl = c.tl \/ OnlyOf(c.id)
       /\ At("app", "sendPress") => keyCb.state # "PRESS" /\ Holds(c.key, c.tl, c.id)
       /\ call["app"].pc \in {"startTimer", "setPress"}
            => /\ keyCb.state # "PRESS"
               /\ wire.phase = "pressed"
               /\ Holds(wire.key, wire.tl, press.id)

\* The callback task has matched an answer and not yet written the new state.
Answering == call["btc"].pc \in {"resetTimer", "setRelease", "stopTimer", "setIdle"}

\* State PRESS, and no answer taken: key_cb is what the stack saw pressed.
PressInv == keyCb.state = "PRESS" /\ ~Answering
              => \/ keyCb.keyCode = NoKey
                 \/ wire.phase = "pressed" /\ Holds(wire.key, wire.tl, press.id)

\* A timer handle is there when the write of PRESS or RELEASE is due.
TimerInv ==
    /\ KeyPendingHasTimer
    /\ Answering => keyCb.keyTmr
    /\ ~fault /\ At("app", "setPress") => keyCb.keyCode = NoKey \/ keyCb.keyTmr

KeyInv == DownInv /\ IdleInv /\ PressInv /\ TimerInv

-----------------------------------------------------------------------------
\* Only a new press puts another number among the answers still to come.
LEMMA FlightStep ==
    ASSUME TypeOK, FrameInv, ~fault, Next, NEW CONSTANT id, OnlyOf(id),
           \A a \in Tasks : SendPress(a) => call[a].cmd.id = id
    PROVE  OnlyOf(id)'
<1>0. /\ {"app", "btc", "tmr"} = Tasks /\ inflight \in Seq(Command)
      /\ "app" # "btc" /\ "tmr" # "btc"
  BY DEF Tasks, TypeOK
<1>1. ASSUME UNCHANGED inflight,
             \/ call'["btc"] = call["btc"]
             \/ call'["btc"].pc \in {"ready", "deinit"}
             \/ call["btc"].pc \notin {"ready", "deinit"} /\ call'["btc"].cmd = call["btc"].cmd
      PROVE  OnlyOf(id)'
  BY <1>1 DEF OnlyOf
<1>2. ASSUME NEW k \in Keys, PassthroughCmd(k) PROVE OnlyOf(id)'
  <2>1. UNCHANGED inflight /\ call'["btc"] = call["btc"]
    BY <1>0, <1>2, Moves DEF PassthroughCmd
  <2> QED BY <1>1, <2>1
<1>3. ASSUME NEW a \in Tasks, UNCHANGED inflight, call[a].pc \notin {"ready", "deinit"},
             Return(a) \/ \E p : Goto(a, p)
      PROVE  OnlyOf(id)'
  <2>1. CASE a = "btc"
    <3>1. call'["btc"].pc = "ready" \/ call'["btc"].cmd = call["btc"].cmd
      BY <1>3, <2>1, Moves
    <3> QED BY <1>1, <1>3, <2>1, <3>1
  <2>2. CASE a # "btc"
    <3>1. call'["btc"] = call["btc"]
      BY <1>0, <1>3, <2>2, Moves
    <3> QED BY <1>1, <1>3, <3>1
  <2> QED BY <2>1, <2>2
<1>4. ASSUME NEW a \in Tasks, StateMachine(a) \/ HdlIdle(a) \/ HdlRelease(a) \/ StartTimer(a)
               \/ ResetTimer(a) \/ StopTimer(a) \/ SetPress(a) \/ SetRelease(a) \/ SetIdle(a)
               \/ AbandonTl(a) \/ AbandonKey(a) \/ AbandonIdle(a) \/ WriteKey(a)
      PROVE  OnlyOf(id)'
  <2>1. UNCHANGED inflight /\ call[a].pc \notin {"ready", "deinit"}
    BY <1>4 DEF StateMachine, HdlIdle, HdlRelease, StartTimer, ResetTimer, StopTimer, ArmTimer,
                SetPress, SetRelease, SetIdle, SetState, AbandonTl, AbandonKey, AbandonIdle,
                WriteKey, At
  <2>2. Return(a) \/ \E p : Goto(a, p)
    BY <1>4 DEF StateMachine, HdlIdle, HdlRelease, StartTimer, ResetTimer, StopTimer, ArmTimer,
                SetPress, SetRelease, SetIdle, SetState, AbandonTl, AbandonKey, AbandonIdle,
                WriteKey
  <2> QED BY <1>3, <2>1, <2>2
<1>5. ASSUME NEW a \in Tasks, SendPress(a) PROVE OnlyOf(id)'
  <2>1. a = "app" /\ call["app"].pc = "sendPress"
    BY <1>5, Owner DEF SendPress, At
  <2>2. call["app"].cmd \in Command /\ call["app"].cmd.id = id
    <3>1. call["app"] \in FrameOf("app")
      BY <1>0 DEF FrameInv
    <3> QED BY <1>0, <1>5, <2>1, <3>1 DEF FrameOf
  <2>3. inflight' = Append(inflight, call["app"].cmd) /\ call'["btc"] = call["btc"]
    BY <1>0, <1>5, <2>1, Moves DEF SendPress
  <2>4. \A i \in DOMAIN inflight' :
           inflight'[i] = call["app"].cmd \/ \E j \in DOMAIN inflight : inflight'[i] = inflight[j]
    BY <1>0, <2>2, <2>3, Flight
  <2> QED BY <2>2, <2>3, <2>4 DEF OnlyOf
<1>6. ASSUME NEW a \in Tasks, HdlPress(a) PROVE OnlyOf(id)'
  <2>1. CASE SendRelease(call[a].cmd) /\ call[a].evt = "PASSTHROUGH_RSP" /\ Goto(a, "resetTimer")
    <3> DEFINE c == call["btc"].cmd
               r == [c EXCEPT !.tl = ReleaseLabel(keyCb.tl), !.ks = "RELEASED"]
    <3>1. a = "btc" /\ c \in Command /\ call["btc"].pc = "PRESS"
      BY <1>6, <2>1, Owner DEF HdlPress, At
    <3>2. inflight' = Append(inflight, r)
      BY <2>1, <3>1 DEF SendRelease
    <3>3. r.id = c.id /\ c.id = id
      BY <3>1 DEF Command, OnlyOf
    <3>4. r \in Command
      <4>1. ReleaseLabel(keyCb.tl) \in Labels
        <5>1. keyCb.tl \in Nat
          BY DEF TypeOK, KeyCb, Labels
        <5> QED
          BY <5>1, Division DEF ReleaseLabel, Labels
      <4> QED
        BY <3>1, <4>1 DEF Command
    <3>5. \A i \in DOMAIN inflight' : inflight'[i] = r \/ \E j \in DOMAIN inflight : inflight'[i] = inflight[j]
      BY <1>0, <3>2, <3>4, Flight
    <3>6. call'["btc"].cmd = c
      BY <1>0, <2>1, <3>1, Moves
    <3> HIDE DEF c, r
    <3> QED BY <3>3, <3>5, <3>6 DEF OnlyOf
  <2>2. CASE UNCHANGED <<wire, inflight>> /\ (Return(a) \/ Goto(a, "abandonTl"))
    <3>1. call[a].pc \notin {"ready", "deinit"}
      BY <1>6 DEF HdlPress, At
    <3> QED BY <1>3, <2>2, <3>1
  <2> QED BY <1>6, <2>1, <2>2 DEF HdlPress
<1>7. TimerExpire \/ SmDeinit => OnlyOf(id)'
  <2>1. TimerExpire => UNCHANGED inflight /\ call'["btc"] = call["btc"]
    BY <1>0, Moves DEF TimerExpire
  <2>2. SmDeinit => UNCHANGED inflight /\ call'["btc"].pc = "ready"
    BY <1>0, Moves DEF SmDeinit
  <2> QED BY <1>1, <2>1, <2>2
<1>8. Connect \/ TimersRunShort => OnlyOf(id)'
  BY DEF Connect, TimersRunShort, OnlyOf
<1>9. Disconnect => OnlyOf(id)'
  <2>1. Disconnect => inflight' = <<>> /\ call'["btc"].pc = "deinit"
    BY <1>0, Moves DEF Disconnect
  <2> QED BY <2>1 DEF OnlyOf
<1>10. PassthroughRsp \/ RspLost => OnlyOf(id)'
  <2> SUFFICES ASSUME PassthroughRsp \/ RspLost PROVE OnlyOf(id)'
    OBVIOUS
  <2>1. inflight # <<>> /\ inflight' = Tail(inflight)
    BY DEF PassthroughRsp, RspLost
  <2>2. PICK d \in Command : TRUE
    <3>1. Head(inflight) \in Command
      BY <1>0, <2>1
    <3> QED BY <3>1
  <2>3. /\ \A i \in DOMAIN inflight' : \E j \in DOMAIN inflight : inflight'[i] = inflight[j]
        /\ \E j \in DOMAIN inflight : Head(inflight) = inflight[j]
    BY <1>0, <2>1, <2>2, Flight
  <2>4. call'["btc"] = call["btc"] \/ call'["btc"].cmd = Head(inflight)
    BY <1>0, Moves DEF PassthroughRsp, RspLost
  <2> QED BY <2>3, <2>4 DEF OnlyOf
<1> QED
  BY <1>2, <1>4, <1>5, <1>6, <1>7, <1>8, <1>9, <1>10 DEF Next, Step, Aborted

\* What was sent before the link was lost is gone.
LEMMA DownStep == TypeOK /\ FrameInv /\ LabelInv /\ DownInv /\ ~fault /\ Next => DownInv'
<1> SUFFICES ASSUME TypeOK, FrameInv, LabelInv, DownInv, ~fault, Next PROVE DownInv'
  OBVIOUS
<1>0. /\ {"app", "btc", "tmr"} = Tasks /\ inflight \in Seq(Command)
      /\ "app" # "btc" /\ "tmr" # "btc"
  BY DEF Tasks, TypeOK
<1>1. ASSUME avrcConnected', call'["btc"].pc # "deinit" PROVE DownInv'
  BY <1>1 DEF DownInv, At
<1>2. PassthroughRsp \/ Connect \/ (\E k \in Keys : PassthroughCmd(k)) => DownInv'
  <2>1. PassthroughRsp \/ Connect \/ (\E k \in Keys : PassthroughCmd(k)) => avrcConnected'
    <3>1. avrcConnected \in BOOLEAN
      BY DEF TypeOK
    <3>2. PassthroughRsp => avrcConnected = TRUE /\ avrcConnected' = avrcConnected
      BY <3>1 DEF PassthroughRsp
    <3>3. Connect => avrcConnected' = TRUE
      BY DEF Connect
    <3>4. \A k \in Keys : PassthroughCmd(k) => avrcConnected = TRUE /\ avrcConnected' = avrcConnected
      BY <3>1 DEF PassthroughCmd
    <3> QED BY <3>2, <3>3, <3>4
  <2>2. PassthroughRsp => call'["btc"].pc = "switch"
    BY <1>0, Moves DEF PassthroughRsp
  <2>3. Connect => call'["btc"].pc = "ready"
    BY DEF Connect, At
  <2>4. (\E k \in Keys : PassthroughCmd(k)) => call'["btc"] = call["btc"] /\ avrcConnected
    BY <1>0, Moves DEF PassthroughCmd
  <2> QED BY <1>1, <2>1, <2>2, <2>3, <2>4 DEF DownInv, At
<1>3. Disconnect => DownInv'
  <2>1. Disconnect => inflight' = <<>> /\ call'["btc"].pc = "deinit" /\ ~avrcConnected'
    BY <1>0, Moves DEF Disconnect
  <2> QED BY <2>1 DEF DownInv
<1>4. RspLost => DownInv'
  <2> SUFFICES ASSUME RspLost PROVE DownInv'
    OBVIOUS
  <2>1. inflight # <<>> /\ inflight' = Tail(inflight) /\ UNCHANGED <<call, avrcConnected, attempts>>
    BY DEF RspLost
  <2>2. PICK d \in Command : TRUE
    <3>1. Head(inflight) \in Command
      BY <1>0, <2>1
    <3> QED BY <3>1
  <2>3. \A i \in DOMAIN inflight' : \E j \in DOMAIN inflight : inflight'[i] = inflight[j]
    BY <1>0, <2>1, <2>2, Flight
  <2> QED BY <2>1, <2>3 DEF DownInv, At
<1>5. SmDeinit \/ TimerExpire \/ TimersRunShort => DownInv'
  <2>1. SmDeinit \/ TimerExpire \/ TimersRunShort => UNCHANGED <<inflight, avrcConnected, attempts>>
    BY DEF SmDeinit, TimerExpire, TimersRunShort
  <2>2. SmDeinit => call'["btc"].pc = "ready" /\ ~avrcConnected
    BY <1>0, Moves DEF SmDeinit, DownInv
  <2>3. TimerExpire \/ TimersRunShort => call'["btc"] = call["btc"]
    BY <1>0, Moves DEF TimerExpire, TimersRunShort
  <2> QED BY <2>1, <2>2, <2>3 DEF DownInv, At
<1>6. ASSUME NEW a \in Tasks, Step(a) PROVE DownInv'
  <2>1. /\ call[a].pc \notin {"ready", "deinit"}
        /\ UNCHANGED <<avrcConnected, attempts>>
        /\ Return(a) \/ \E p : Goto(a, p) /\ p # "deinit"
    <3>1. keyCb.state # "deinit"
      BY DEF TypeOK, KeyCb, KeyStates
    <3>2. CASE StateMachine(a) \/ HdlIdle(a) \/ HdlRelease(a) \/ HdlPress(a) \/ SendPress(a)
      BY <3>1, <3>2 DEF StateMachine, HdlIdle, HdlRelease, HdlPress, SendPress, At
    <3>3. CASE StartTimer(a) \/ ResetTimer(a) \/ StopTimer(a) \/ SetPress(a) \/ SetRelease(a)
                 \/ SetIdle(a) \/ AbandonTl(a) \/ AbandonKey(a) \/ AbandonIdle(a) \/ WriteKey(a)
      BY <3>3 DEF StartTimer, ResetTimer, StopTimer, ArmTimer, SetPress, SetRelease, SetIdle,
                  SetState, AbandonTl, AbandonKey, AbandonIdle, WriteKey, At
    <3> QED BY <1>6, <3>2, <3>3 DEF Step
  <2>2. CASE a = "btc"
    <3>1. avrcConnected
      BY <2>1, <2>2 DEF DownInv
    <3>2. call'["btc"].pc # "deinit"
      BY <2>1, <2>2, Moves
    <3> QED BY <1>1, <2>1, <3>1, <3>2
  <2>3. CASE a # "btc"
    <3>1. call'["btc"] = call["btc"]
      BY <1>0, <2>1, <2>3, Moves
    <3>2. \A i \in DOMAIN inflight' :
             \/ \E j \in DOMAIN inflight : inflight'[i] = inflight[j]
             \/ inflight'[i].id = attempts
      <4>1. CASE SendPress(a)
        <5>1. a = "app" /\ call["app"].pc = "sendPress"
          BY <4>1, Owner DEF SendPress, At
        <5>2. call["app"].cmd \in Command /\ call["app"].cmd.id = attempts
          <6>1. call["app"] \in FrameOf("app")
            BY <1>0 DEF FrameInv
          <6> QED BY <5>1, <6>1 DEF FrameOf, LabelInv, At
        <5>3. inflight' = Append(inflight, call["app"].cmd)
          BY <4>1, <5>1 DEF SendPress
        <5> QED BY <1>0, <5>2, <5>3, Flight
      <4>2. CASE ~SendPress(a)
        <5>1. UNCHANGED inflight
          <6>1. CASE HdlPress(a)
            <7>1. call[a].evt # "PASSTHROUGH_RSP"
              BY <2>3, <6>1, Owner DEF HdlPress, At
            <7> QED BY <6>1, <7>1 DEF HdlPress
          <6>2. CASE ~HdlPress(a)
            BY <1>6, <4>2, <6>2
               DEF Step, StateMachine, HdlIdle, HdlRelease, StartTimer, ResetTimer, StopTimer,
                   ArmTimer, SetPress, SetRelease, SetIdle, SetState, AbandonTl, AbandonKey,
                   AbandonIdle, WriteKey
          <6> QED BY <6>1, <6>2
        <5> QED BY <5>1
      <4> QED BY <4>1, <4>2
    <3> QED BY <2>1, <3>1, <3>2 DEF DownInv, At
  <2> QED BY <2>2, <2>3
<1> QED
  BY <1>2, <1>3, <1>4, <1>5, <1>6 DEF Next, Aborted

\* With the link down, or lost and found again, the call of the player task is the
\* only one to send.
LEMMA Alone ==
    ASSUME TypeOK, FrameInv, LabelInv, DownInv, ~avrcConnected, ~At("app", "ready"),
           UNCHANGED inflight, call'["btc"].pc = "ready", call'["app"] = call["app"]
    PROVE  OnlyOf(call["app"].cmd.id)'
BY DEF DownInv, LabelInv, OnlyOf, At

\* The strengthening is inductive.  The scheduling counts once: the timer task does
\* not run between the two stores of hdl_idle.
LEMMA KeyStep == TypeOK /\ FrameInv /\ LabelInv /\ KeyInv /\ ~fault /\ Next => KeyInv'
<1> SUFFICES ASSUME TypeOK, FrameInv, LabelInv, KeyInv, ~fault, Next PROVE KeyInv'
  OBVIOUS
<1>d. DownInv'
  BY DownStep DEF KeyInv
<1> DEFINE Rest == IdleInv /\ PressInv /\ TimerInv
<1>r. SUFFICES Rest'
  BY <1>d DEF KeyInv
<1> USE DEF KeyInv, IdleInv, PressInv, TimerInv, KeyPendingHasTimer, Answering, HoldsLabel, Holds,
            At, Expiring
<1>0. /\ {"app", "btc", "tmr"} = Tasks
      /\ "app" # "btc" /\ "app" # "tmr" /\ "btc" # "tmr"
      /\ keyCb \in KeyCb
  BY DEF Tasks, TypeOK
<1>f. ASSUME NEW CONSTANT id, OnlyOf(id), \A a \in Tasks : SendPress(a) => call[a].cmd.id = id
      PROVE  OnlyOf(id)'
  BY <1>f, FlightStep
<1>g. ASSUME \A a \in Tasks : ~SendPress(a), UNCHANGED <<press>>, call'["app"].cmd = call["app"].cmd
      PROVE  /\ OnlyOf(press.id) => OnlyOf(press.id)'
             /\ OnlyOf(call["app"].cmd.id) => OnlyOf(call["app"].cmd.id)'
  <2>1. ASSUME NEW CONSTANT id, OnlyOf(id) PROVE OnlyOf(id)'
    BY <1>f, <1>g, <2>1
  <2>2. PICK p, c : p = press.id /\ c = call["app"].cmd.id
    OBVIOUS
  <2> QED BY <1>g, <2>1 DEF OnlyOf
<1>1. ASSUME NEW k \in Keys, PassthroughCmd(k) PROVE Rest'
  <2>1. call["app"].pc = "ready" /\ call'["app"].pc = "switch"
    BY <1>0, <1>1, Moves DEF PassthroughCmd
  <2>2. call'["btc"] = call["btc"] /\ call'["tmr"] = call["tmr"]
    BY <1>0, <1>1, Moves DEF PassthroughCmd
  <2>3. UNCHANGED <<keyCb, wire, press, inflight, fault>>
    BY <1>1 DEF PassthroughCmd
  <2>4. OnlyOf(press.id) => OnlyOf(press.id)'
    BY <2>2, <2>3 DEF OnlyOf
  <2> QED BY <1>0, <2>1, <2>2, <2>3, <2>4
<1>2. ASSUME NEW a \in Tasks, StateMachine(a) PROVE Rest'
  <2>1. keyCb.state \in {"IDLE", "PRESS", "RELEASE"}
    BY <1>0 DEF KeyCb, KeyStates
  <2>2. /\ UNCHANGED <<keyCb, wire, press, fault>>
        /\ call[a].pc = "switch" /\ call'[a].pc = keyCb.state /\ call'[a].cmd = call[a].cmd
        /\ \A b \in Tasks \ {a} : call'[b] = call[b]
    BY <1>2, Moves DEF StateMachine
  <2>3. \A b \in Tasks : ~SendPress(b)
    BY <1>2 DEF StateMachine, SendPress
  <2> QED BY <1>0, <1>g, <2>1, <2>2, <2>3
<1>3. ASSUME NEW a \in Tasks, HdlIdle(a) PROVE Rest'
  <2>1. UNCHANGED <<wire, press, fault>> /\ call[a].pc = "IDLE"
    BY <1>3 DEF HdlIdle
  <2>2. \A b \in Tasks : ~SendPress(b)
    BY <1>3 DEF HdlIdle, SendPress
  <2>3. CASE keyCb.state = "IDLE" /\ call[a].evt = "KEY_STATE_CHG"
    <3>1. a = "app"
      BY <1>3, <2>3, Owner DEF HdlIdle
    <3>2. /\ keyCb'.state = "IDLE" /\ keyCb'.keyCode = keyCb.keyCode
          /\ keyCb'.tl = call["app"].cmd.tl /\ keyCb'.keyTmr = keyCb.keyTmr
      BY <1>0, <1>3, <2>3, <3>1 DEF HdlIdle, KeyCb
    <3>3. /\ call'["app"].pc = "writeKey" /\ call'["app"].cmd = call["app"].cmd
          /\ call'["btc"] = call["btc"] /\ call'["tmr"] = call["tmr"]
      BY <1>0, <1>3, <2>3, <3>1, Moves DEF HdlIdle
    <3> QED BY <1>0, <2>1, <2>3, <3>2, <3>3
  <2>4. CASE ~(keyCb.state = "IDLE" /\ call[a].evt = "KEY_STATE_CHG")
    <3>1. /\ UNCHANGED keyCb /\ call'[a].pc = "ready"
          /\ \A b \in Tasks \ {a} : call'[b] = call[b]
      BY <1>3, <2>4, Moves DEF HdlIdle
    <3>2. UNCHANGED inflight
      BY <1>3 DEF HdlIdle
    <3>3. OnlyOf(press.id) => OnlyOf(press.id)'
      BY <1>0, <2>1, <3>1, <3>2 DEF OnlyOf
    <3>4. a # "app" => (OnlyOf(call["app"].cmd.id) => OnlyOf(call["app"].cmd.id)')
      BY <1>0, <3>1, <3>2 DEF OnlyOf
    <3> QED BY <1>0, <2>1, <3>1, <3>3, <3>4
  <2> QED BY <2>3, <2>4
<1>4. ASSUME NEW a \in Tasks, WriteKey(a) PROVE Rest'
  <2>1. a = "app" /\ call["app"].pc = "writeKey"
    BY <1>4, Owner DEF WriteKey
  <2>2. /\ UNCHANGED <<wire, press, fault>>
        /\ keyCb'.keyCode = call["app"].cmd.key /\ keyCb'.state = keyCb.state
        /\ keyCb'.tl = keyCb.tl /\ keyCb'.keyTmr = keyCb.keyTmr
    BY <1>0, <1>4, <2>1 DEF WriteKey, KeyCb
  <2>3. /\ call'["app"].pc = "sendPress" /\ call'["app"].cmd = call["app"].cmd
        /\ call'["btc"] = call["btc"] /\ call'["tmr"] = call["tmr"]
    BY <1>0, <1>4, <2>1, Moves DEF WriteKey
  <2>4. \A b \in Tasks : ~SendPress(b)
    BY <1>4 DEF WriteKey, SendPress
  <2>5. OnlyOf(call["app"].cmd.id) => OnlyOf(call["app"].cmd.id)'
    BY <1>g, <2>2, <2>3, <2>4
  <2> QED BY <1>0, <2>1, <2>2, <2>3, <2>5
<1>5. ASSUME NEW a \in Tasks, SendPress(a) PROVE Rest'
  <2>1. a = "app" /\ call["app"].pc = "sendPress"
    BY <1>5, Owner DEF SendPress
  <2>2. /\ wire' = [phase |-> "pressed", key |-> call["app"].cmd.key, tl |-> call["app"].cmd.tl]
        /\ press'.id = call["app"].cmd.id
        /\ UNCHANGED <<keyCb, fault>>
    BY <1>5, <2>1 DEF SendPress
  <2>3. /\ call'["app"].pc = "startTimer" /\ call'["app"].cmd = call["app"].cmd
        /\ call'["btc"] = call["btc"] /\ call'["tmr"] = call["tmr"]
    BY <1>0, <1>5, <2>1, Moves DEF SendPress
  <2>4. ASSUME OnlyOf(call["app"].cmd.id) PROVE OnlyOf(press.id)'
    <3>1. \A b \in Tasks : SendPress(b) => call[b].cmd.id = call["app"].cmd.id
      BY Owner DEF SendPress
    <3>2. ASSUME NEW CONSTANT id, id = call["app"].cmd.id PROVE OnlyOf(id)'
      BY <1>f, <2>4, <3>1, <3>2
    <3> QED BY <2>2, <3>2 DEF OnlyOf
  <2> QED BY <1>0, <2>1, <2>2, <2>3, <2>4
<1>6. ASSUME NEW a \in Tasks, HdlPress(a) PROVE Rest'
  <2>1. call[a].pc = "PRESS" /\ UNCHANGED <<press, fault>>
    BY <1>6 DEF HdlPress
  <2>2. \A b \in Tasks : ~SendPress(b)
    BY <1>6 DEF HdlPress, SendRelease, SendPress
  <2>3. CASE /\ keyCb.state = "PRESS" /\ call[a].evt = "PASSTHROUGH_RSP"
             /\ RspMatches(call[a].cmd, "PRESSED")
             /\ SendRelease(call[a].cmd) /\ Goto(a, "resetTimer")
    <3>1. a = "btc" /\ call["btc"].cmd.key \in Keys
      BY <1>6, <2>3, Owner DEF HdlPress, Command
    <3>2. keyCb'.state = "PRESS" /\ keyCb'.keyCode = keyCb.keyCode /\ keyCb'.keyTmr = keyCb.keyTmr
      BY <1>0, <2>3 DEF SendRelease, KeyCb
    <3>3. keyCb.keyCode # NoKey /\ keyCb.keyTmr
      BY <2>3, <3>1, KeyAssumption DEF RspMatches
    <3>4. call'["btc"].pc = "resetTimer" /\ call'["app"] = call["app"]
      BY <1>0, <2>3, <3>1, Moves
    <3> QED BY <1>0, <2>1, <2>3, <3>2, <3>3, <3>4
  <2>4. CASE (Goto(a, "abandonTl") \/ Return(a)) /\ UNCHANGED <<keyCb, wire, inflight>>
    <3>1. /\ call'[a].pc = "ready" \/ (call'[a].pc = "abandonTl" /\ call'[a].cmd = call[a].cmd)
          /\ \A b \in Tasks \ {a} : call'[b] = call[b]
      BY <2>4, Moves
    <3>2. OnlyOf(press.id) => OnlyOf(press.id)'
      BY <1>0, <2>1, <2>4, <3>1 DEF OnlyOf
    <3>3. a # "app" => (OnlyOf(call["app"].cmd.id) => OnlyOf(call["app"].cmd.id)')
      BY <1>0, <2>1, <2>4, <3>1 DEF OnlyOf
    <3> QED BY <1>0, <2>1, <2>4, <3>1, <3>2, <3>3
  <2> QED BY <1>6, <2>3, <2>4 DEF HdlPress
<1>7. ASSUME NEW a \in Tasks, HdlRelease(a) PROVE Rest'
  <2>1. call[a].pc = "RELEASE" /\ UNCHANGED <<keyCb, wire, press, inflight, fault>>
    BY <1>7 DEF HdlRelease
  <2>2. CASE /\ keyCb.state = "RELEASE" /\ call[a].evt = "PASSTHROUGH_RSP"
             /\ RspMatches(call[a].cmd, "RELEASED") /\ Goto(a, "stopTimer")
    <3>1. a = "btc" /\ call["btc"].cmd.key \in Keys
      BY <1>7, <2>2, Owner DEF HdlRelease, Command
    <3>2. keyCb.keyCode # NoKey /\ keyCb.keyTmr
      BY <2>2, <3>1, KeyAssumption DEF RspMatches
    <3>3. /\ call'["btc"].pc = "stopTimer" /\ call'["btc"].cmd = call["btc"].cmd
          /\ call'["app"] = call["app"] /\ call'["tmr"] = call["tmr"]
      BY <1>0, <2>2, <3>1, Moves
    <3>4. /\ OnlyOf(press.id) => OnlyOf(press.id)'
          /\ OnlyOf(call["app"].cmd.id) => OnlyOf(call["app"].cmd.id)'
      BY <1>0, <2>1, <3>1, <3>3 DEF OnlyOf
    <3> QED BY <1>0, <2>1, <2>2, <3>2, <3>3, <3>4
  <2>3. CASE Goto(a, "abandonTl") \/ Return(a)
    <3>1. /\ call'[a].pc = "ready" \/ (call'[a].pc = "abandonTl" /\ call'[a].cmd = call[a].cmd)
          /\ \A b \in Tasks \ {a} : call'[b] = call[b]
      BY <2>3, Moves
    <3>2. OnlyOf(press.id) => OnlyOf(press.id)'
      BY <1>0, <2>1, <3>1 DEF OnlyOf
    <3>3. a # "app" => (OnlyOf(call["app"].cmd.id) => OnlyOf(call["app"].cmd.id)')
      BY <1>0, <2>1, <3>1 DEF OnlyOf
    <3> QED BY <1>0, <2>1, <2>3, <3>1, <3>2, <3>3
  <2> QED BY <1>7, <2>2, <2>3 DEF HdlRelease
<1>8. ASSUME NEW a \in Tasks, StartTimer(a) PROVE Rest'
  <2>1. a = "app" /\ call["app"].pc = "startTimer"
    BY <1>8, Owner DEF StartTimer, ArmTimer
  <2>2. fault' \/ keyCb'.keyTmr
    BY <1>8 DEF StartTimer, ArmTimer
  <2>3. call'["app"].pc = "setPress" /\ \A b \in Tasks \ {"app"} : call'[b] = call[b]
    BY <1>8, <2>1, Moves DEF StartTimer, ArmTimer
  <2>4. UNCHANGED <<keyCb, wire, press, inflight>>
    BY <1>8 DEF StartTimer, ArmTimer
  <2>5. OnlyOf(press.id) => OnlyOf(press.id)'
    BY <1>0, <2>3, <2>4 DEF OnlyOf
  <2> QED BY <1>0, <2>1, <2>2, <2>3, <2>4, <2>5
<1>9. ASSUME NEW a \in Tasks, ResetTimer(a) \/ StopTimer(a) PROVE Rest'
  <2>1. a = "btc" /\ call["btc"].pc \in {"resetTimer", "stopTimer"}
    BY <1>9, Owner DEF ResetTimer, StopTimer, ArmTimer
  <2>2. /\ call'["btc"].pc \in {"setRelease", "setIdle"} /\ call'["btc"].cmd = call["btc"].cmd
        /\ call'["app"] = call["app"] /\ call'["tmr"] = call["tmr"]
    BY <1>0, <1>9, <2>1, Moves DEF ResetTimer, StopTimer, ArmTimer
  <2>3. UNCHANGED <<keyCb, wire, press, inflight>>
    BY <1>9 DEF ResetTimer, StopTimer, ArmTimer
  <2>4. /\ OnlyOf(press.id) => OnlyOf(press.id)'
        /\ OnlyOf(call["app"].cmd.id) => OnlyOf(call["app"].cmd.id)'
    BY <1>0, <2>1, <2>2, <2>3 DEF OnlyOf
  <2>5. fault' = ~keyCb.keyTmr
    BY <1>9 DEF ResetTimer, StopTimer, ArmTimer
  <2>6. keyCb.keyTmr
    BY <2>1
  <2> QED BY <1>0, <2>1, <2>2, <2>3, <2>4, <2>5, <2>6
<1>10. ASSUME NEW a \in Tasks, SetPress(a) PROVE Rest'
  <2>1. a = "app" /\ call["app"].pc = "setPress"
    BY <1>10, Owner DEF SetPress, SetState
  <2>2. /\ keyCb'.state = "PRESS" /\ keyCb'.keyCode = keyCb.keyCode /\ keyCb'.tl = keyCb.tl
        /\ keyCb'.keyTmr = keyCb.keyTmr
        /\ UNCHANGED <<wire, press, inflight, fault>>
    BY <1>0, <1>10 DEF SetPress, SetState, KeyCb
  <2>3. call'["app"].pc = "ready" /\ call'["btc"] = call["btc"] /\ call'["tmr"] = call["tmr"]
    BY <1>0, <1>10, <2>1, Moves DEF SetPress, SetState
  <2>4. OnlyOf(press.id) => OnlyOf(press.id)'
    BY <2>2, <2>3 DEF OnlyOf
  <2> QED BY <1>0, <2>1, <2>2, <2>3, <2>4
<1>11. ASSUME NEW a \in Tasks, SetRelease(a) PROVE Rest'
  <2>1. a = "btc" /\ call["btc"].pc = "setRelease"
    BY <1>11, Owner DEF SetRelease, SetState
  <2>2. /\ keyCb'.state = "RELEASE" /\ keyCb'.keyCode = keyCb.keyCode /\ keyCb'.tl = keyCb.tl
        /\ keyCb'.keyTmr = keyCb.keyTmr
        /\ UNCHANGED <<wire, press, inflight, fault>>
    BY <1>0, <1>11 DEF SetRelease, SetState, KeyCb
  <2>3. call'["btc"].pc = "ready" /\ call'["app"] = call["app"] /\ call'["tmr"] = call["tmr"]
    BY <1>0, <1>11, <2>1, Moves DEF SetRelease, SetState
  <2>4. /\ OnlyOf(press.id) => OnlyOf(press.id)'
        /\ OnlyOf(call["app"].cmd.id) => OnlyOf(call["app"].cmd.id)'
    BY <2>2, <2>3 DEF OnlyOf
  <2>5. keyCb.keyTmr
    BY <2>1
  <2> QED BY <1>0, <2>1, <2>2, <2>3, <2>4, <2>5
<1>12. ASSUME NEW a \in Tasks, SetIdle(a) PROVE Rest'
  <2>1. a = "btc" /\ call["btc"].pc = "setIdle"
    BY <1>12, Owner DEF SetIdle
  <2>2. /\ keyCb'.state = "IDLE" /\ keyCb'.keyCode = NoKey /\ keyCb'.tl = keyCb.tl
        /\ keyCb'.keyTmr = keyCb.keyTmr
        /\ UNCHANGED <<wire, press, inflight, fault>>
    BY <1>0, <1>12 DEF SetIdle, KeyCb
  <2>3. call'["btc"].pc = "ready" /\ call'["app"] = call["app"]
    BY <1>0, <1>12, <2>1, Moves DEF SetIdle
  <2>4. OnlyOf(call["app"].cmd.id) => OnlyOf(call["app"].cmd.id)'
    BY <2>2, <2>3 DEF OnlyOf
  <2> QED BY <1>0, <2>1, <2>2, <2>3, <2>4
<1>13. ASSUME NEW a \in Tasks, CanRun(a), AbandonTl(a) PROVE Rest'
  <2>1. a = "tmr" /\ call["tmr"].pc = "abandonTl"
    BY <1>13, Owner DEF AbandonTl
  <2>2. call["app"].pc \notin {"writeKey", "sendPress"}
    <3>1. At("app", "ready") \/ MayBlock("app")
      BY <1>0, <1>13, <2>1 DEF CanRun, Priority
    <3> QED BY <3>1 DEF MayBlock
  <2>3. /\ keyCb'.tl = 0 /\ keyCb'.state = keyCb.state /\ keyCb'.keyCode = keyCb.keyCode
        /\ keyCb'.keyTmr = keyCb.keyTmr
        /\ UNCHANGED <<wire, fault>>
    BY <1>0, <1>13 DEF AbandonTl, KeyCb
  <2>4. call'["tmr"].pc = "abandonKey" /\ call'["app"] = call["app"] /\ call'["btc"] = call["btc"]
    BY <1>0, <1>13, <2>1, Moves DEF AbandonTl
  <2> QED BY <1>0, <2>2, <2>3, <2>4
<1>14. ASSUME NEW a \in Tasks, CanRun(a), AbandonKey(a) PROVE Rest'
  <2>1. a = "tmr"
    BY <1>14, Owner DEF AbandonKey
  <2>2. call["app"].pc # "writeKey"
    <3>1. At("app", "ready") \/ MayBlock("app")
      BY <1>0, <1>14, <2>1 DEF CanRun, Priority
    <3> QED BY <3>1 DEF MayBlock
  <2>3. /\ keyCb'.keyCode = NoKey /\ keyCb'.state = keyCb.state
        /\ keyCb'.keyTmr = keyCb.keyTmr
        /\ UNCHANGED <<wire, fault>>
    BY <1>0, <1>14 DEF AbandonKey, KeyCb
  <2>4. call'["tmr"].pc = "abandonIdle" /\ call'["app"] = call["app"] /\ call'["btc"] = call["btc"]
    BY <1>0, <1>14, <2>1, Moves DEF AbandonKey
  <2> QED BY <1>0, <2>2, <2>3, <2>4
<1>15. ASSUME NEW a \in Tasks, AbandonIdle(a) PROVE Rest'
  <2>1. a = "tmr" /\ call["tmr"].pc = "abandonIdle"
    BY <1>15, Owner DEF AbandonIdle, SetState
  <2>2. /\ keyCb'.state = "IDLE" /\ keyCb'.keyCode = keyCb.keyCode /\ keyCb'.tl = keyCb.tl
        /\ keyCb'.keyTmr = keyCb.keyTmr
        /\ UNCHANGED <<wire, press, inflight, fault>>
    BY <1>0, <1>15 DEF AbandonIdle, SetState, KeyCb
  <2>3. call'["tmr"].pc = "ready" /\ call'["app"] = call["app"] /\ call'["btc"] = call["btc"]
    BY <1>0, <1>15, <2>1, Moves DEF AbandonIdle, SetState
  <2>4. /\ OnlyOf(press.id) => OnlyOf(press.id)'
        /\ OnlyOf(call["app"].cmd.id) => OnlyOf(call["app"].cmd.id)'
    BY <2>2, <2>3 DEF OnlyOf
  <2> QED BY <1>0, <2>1, <2>2, <2>3, <2>4
<1>16. ASSUME TimerExpire PROVE Rest'
  <2>1. call["tmr"].pc = "ready" /\ UNCHANGED <<keyCb, wire, press, inflight, fault>>
    BY <1>16 DEF TimerExpire
  <2>2. call'["tmr"].pc = "switch" /\ call'["app"] = call["app"] /\ call'["btc"] = call["btc"]
    BY <1>0, <1>16, Moves DEF TimerExpire
  <2>3. /\ OnlyOf(press.id) => OnlyOf(press.id)'
        /\ OnlyOf(call["app"].cmd.id) => OnlyOf(call["app"].cmd.id)'
    BY <2>1, <2>2 DEF OnlyOf
  <2> QED BY <1>0, <2>1, <2>2, <2>3
<1>17. ASSUME Connect \/ SmDeinit PROVE Rest'
  <2>1. /\ keyCb'.state = "IDLE" /\ keyCb'.keyCode = NoKey
        /\ UNCHANGED <<wire, inflight, fault>>
    BY <1>17 DEF Connect, SmInit, SmDeinit, Cleared
  <2>2. call'["btc"].pc = "ready" /\ call'["app"] = call["app"]
    <3>1. CASE Connect
      BY <3>1 DEF Connect
    <3>2. CASE SmDeinit
      BY <1>0, <3>2, Moves DEF SmDeinit
    <3> QED BY <1>17, <3>1, <3>2
  <2>3. ~avrcConnected
    BY <1>17 DEF Connect, SmDeinit, DownInv
  <2>4. ~At("app", "ready") => OnlyOf(call["app"].cmd.id)'
    BY <2>1, <2>2, <2>3, Alone
  <2> QED BY <1>0, <2>1, <2>2, <2>4
<1>18. ASSUME Disconnect PROVE Rest'
  <2>1. /\ call["btc"].pc = "ready" /\ UNCHANGED <<keyCb, wire, fault>>
        /\ inflight' = <<>> /\ press'.id = press.id
    BY <1>18 DEF Disconnect, TypeOK
  <2>2. call'["btc"].pc = "deinit" /\ call'["app"] = call["app"] /\ call'["tmr"] = call["tmr"]
    BY <1>0, <1>18, Moves DEF Disconnect
  <2>3. OnlyOf(press.id)' /\ OnlyOf(call["app"].cmd.id)'
    BY <2>1, <2>2 DEF OnlyOf
  <2> QED BY <1>0, <2>1, <2>2, <2>3
<1>19. ASSUME PassthroughRsp \/ RspLost \/ TimersRunShort PROVE Rest'
  <2>1. UNCHANGED <<keyCb, wire, press, fault>>
    BY <1>19 DEF PassthroughRsp, RspLost, TimersRunShort
  <2>2. /\ call'["app"] = call["app"] /\ call'["tmr"] = call["tmr"]
        /\ call'["btc"] = call["btc"] \/ (call["btc"].pc = "ready" /\ call'["btc"].pc = "switch")
    BY <1>0, <1>19, Moves DEF PassthroughRsp, RspLost, TimersRunShort
  <2>3. \A b \in Tasks : ~SendPress(b)
    BY <1>19 DEF PassthroughRsp, RspLost, TimersRunShort, SendPress
  <2> QED BY <1>0, <1>g, <2>1, <2>2, <2>3
<1> QED
  BY <1>1, <1>2, <1>3, <1>4, <1>5, <1>6, <1>7, <1>8, <1>9, <1>10, <1>11, <1>12, <1>13,
     <1>14, <1>15, <1>16, <1>17, <1>18, <1>19 DEF Next, Step, Aborted

-----------------------------------------------------------------------------
\* The inductive invariant: types, frames, labels and the strengthening.
LEMMA Inductive == Spec => [](TypeOK /\ FrameInv /\ LabelInv /\ KeyInv)
<1>1. Init => KeyInv
  BY DEF Init, KeyInv, DownInv, IdleInv, PressInv, TimerInv, KeyPendingHasTimer,
         Answering, Ready, Cleared, At, Tasks
<1>2. TypeOK /\ FrameInv /\ LabelInv /\ KeyInv /\ [Next]_vars => KeyInv'
  <2>1. UNCHANGED vars /\ KeyInv => KeyInv'
    BY DEF vars, KeyInv, DownInv, IdleInv, PressInv, TimerInv, KeyPendingHasTimer,
           Answering, HoldsLabel, Holds, OnlyOf, At, Expiring
  <2>2. Next /\ fault => UNCHANGED vars
    BY DEF Next, Aborted
  <2> QED BY KeyStep, <2>1, <2>2
<1> QED BY <1>1, <1>2, Framed, LabelsCount, PTL DEF Spec

\* A pending key always has the timer object that its action needs to end, for any
\* number of presses and whatever a disconnection leaves of a call in progress.
THEOREM PendingKeyHasTimer == Spec => []KeyPendingHasTimer
<1>1. KeyInv => KeyPendingHasTimer
  BY DEF KeyInv, TimerInv
<1> QED BY <1>1, Inductive, PTL

\* Only sending changes what the stack has seen: the press of hdl_idle, and the release
\* of hdl_press, by the callback task for an answer that matches key_cb.
LEMMA Sending ==
    ASSUME TypeOK, FrameInv, [Next]_vars, wire' # wire
    PROVE  \E a \in Tasks : \/ SendPress(a)
                            \/ /\ a = "btc" /\ HdlPress(a)
                               /\ keyCb.state = "PRESS" /\ At("btc", "PRESS")
                               /\ call["btc"].cmd \in Command
                               /\ RspMatches(call["btc"].cmd, "PRESSED")
                               /\ SendRelease(call["btc"].cmd)
                               /\ Goto("btc", "resetTimer")
<1>1. PICK a \in Tasks : SendPress(a) \/ HdlPress(a)
  BY DEF Next, Step, Aborted, vars, PassthroughCmd, StateMachine, HdlIdle, HdlRelease,
         StartTimer, ResetTimer, StopTimer, ArmTimer, SetPress, SetRelease, SetState,
         SetIdle, AbandonTl, AbandonKey, AbandonIdle, WriteKey, TimerExpire, Connect,
         Disconnect, SmDeinit, PassthroughRsp, RspLost, TimersRunShort
<1>2. CASE HdlPress(a)
  <2>1. /\ keyCb.state = "PRESS" /\ call[a].evt = "PASSTHROUGH_RSP" /\ At(a, "PRESS")
        /\ RspMatches(call[a].cmd, "PRESSED") /\ SendRelease(call[a].cmd)
        /\ Goto(a, "resetTimer")
    BY <1>2 DEF HdlPress
  <2>2. a = "btc" /\ call["btc"].cmd \in Command
    BY <2>1, Owner DEF At
  <2> QED BY <1>2, <2>1, <2>2
<1> QED BY <1>1, <1>2

\* A matched answer: it has the key last pressed, and its label, unless a time-out has
\* reset the label to 0 and not yet the key.
LEMMA Matched ==
    ASSUME TypeOK, FrameInv, LabelInv, KeyInv, keyCb.state = "PRESS", At("btc", "PRESS"),
           call["btc"].cmd \in Command, RspMatches(call["btc"].cmd, "PRESSED")
    PROVE  /\ wire.phase = "pressed" /\ wire.key = call["btc"].cmd.key
           /\ call["btc"].cmd.tl = keyCb.tl
           /\ keyCb.tl = wire.tl \/ (Expiring /\ keyCb.tl = 0)
<1> DEFINE c == call["btc"].cmd
<1>1. c.tl = keyCb.tl /\ c.key = keyCb.keyCode /\ c.ks = "PRESSED" /\ c.key # NoKey
  BY KeyAssumption DEF RspMatches, Command
<1>2. wire.phase = "pressed" /\ Holds(wire.key, wire.tl, press.id)
  BY <1>1 DEF KeyInv, PressInv, Answering, At
<1>3. wire.key = c.key /\ HoldsLabel(wire.tl, press.id)
  BY <1>1, <1>2 DEF Holds
<1>4. ASSUME OnlyOf(press.id) PROVE c.tl = wire.tl
  <2>1. c.id = press.id
    BY <1>4 DEF OnlyOf, At
  <2>2. c.tl = LabelOf(c.id) /\ wire.tl = LabelOf(press.id)
    BY <1>1, <1>2 DEF LabelInv, Sent, At
  <2> QED BY <2>1, <2>2
<1> QED BY <1>1, <1>2, <1>3, <1>4 DEF HoldsLabel

\* Every step of the machine is, for the remote device, a press, the release of the key
\* last pressed under the next label (or under label 1, half-way through the time-out of
\* its press), or nothing.
THEOREM Refinement == Spec => KeyActionSpec
<1>1. Init => KeyAction!Init
  BY DEF Init, KeyAction!Init, Expiring, Ready, Tasks
<1>2. TypeOK /\ FrameInv /\ LabelInv /\ KeyInv /\ [Next]_vars
        => [KeyAction!Next]_<<wire, Expiring>>
  <2> SUFFICES ASSUME TypeOK, FrameInv, LabelInv, KeyInv, [Next]_vars
               PROVE  [KeyAction!Next]_<<wire, Expiring>>
    OBVIOUS
  <2>1. CASE wire' = wire
    <3>1. Expiring \in BOOLEAN /\ Expiring' \in BOOLEAN
      BY DEF Expiring
    <3>2. Expiring' = Expiring \/ Expiring' = ~Expiring
      BY <3>1
    <3> QED BY <2>1, <3>2 DEF KeyAction!Next, KeyAction!Expire
  <2>2. CASE wire' # wire
    <3>1. PICK a \in Tasks : \/ SendPress(a)
                             \/ /\ a = "btc" /\ HdlPress(a)
                                /\ keyCb.state = "PRESS" /\ At("btc", "PRESS")
                                /\ call["btc"].cmd \in Command
                                /\ RspMatches(call["btc"].cmd, "PRESSED")
                                /\ SendRelease(call["btc"].cmd)
                                /\ Goto("btc", "resetTimer")
      BY <2>2, Sending
    <3>2. CASE SendPress(a)
      <4>1. a = "app" /\ call["app"] \in FrameOf("app")
        BY <3>2, Owner DEF SendPress, At, FrameInv, Tasks
      <4>2. call["app"].cmd \in Command
        BY <3>2, <4>1 DEF SendPress, At, FrameOf
      <4>3. call["app"].cmd.key \in Keys /\ call["app"].cmd.tl \in KeyAction!Labels
        BY <4>2 DEF Command, KeyAction!Labels, Labels
      <4>4. call'["tmr"] = call["tmr"]
        BY <3>2, <4>1, Moves DEF SendPress, Tasks
      <4>5. KeyAction!Press
        BY <3>2, <4>1, <4>3, <4>4 DEF SendPress, KeyAction!Press, Expiring
      <4> QED BY <4>5 DEF KeyAction!Next
    <3>3. CASE /\ a = "btc" /\ HdlPress(a)
               /\ keyCb.state = "PRESS" /\ At("btc", "PRESS")
               /\ call["btc"].cmd \in Command
               /\ RspMatches(call["btc"].cmd, "PRESSED")
               /\ SendRelease(call["btc"].cmd)
               /\ Goto("btc", "resetTimer")
      <4>1. /\ wire.phase = "pressed" /\ wire.key = call["btc"].cmd.key
            /\ keyCb.tl = wire.tl \/ (Expiring /\ keyCb.tl = 0)
        BY <3>3, Matched
      <4>2. keyCb.tl \in KeyAction!Followed
        BY <4>1 DEF KeyAction!Followed
      <4>3. wire' = [phase |-> "released", key |-> wire.key, tl |-> (keyCb.tl + 1) % LabelMod]
        BY <3>3, <4>1 DEF SendRelease, ReleaseLabel
      <4>4. Expiring' = Expiring
        BY <3>3, Moves DEF Tasks, Expiring
      <4>5. KeyAction!Release
        BY <4>1, <4>2, <4>3, <4>4 DEF KeyAction!Release
      <4> QED BY <4>5 DEF KeyAction!Next
    <3> QED BY <3>1, <3>2, <3>3
  <2> QED BY <2>1, <2>2
<1> QED BY <1>1, <1>2, Inductive, PTL DEF Spec, KeyActionSpec, KeyAction!Spec

\* An answer is taken for that to a newer press only when the labels in between have run
\* through all their values, or half-way through the newer one's time-out when it bears
\* label 0: for any number of presses, answers lost or late, and links that break and
\* come back.
THEOREM StaleResponse == Spec => StaleResponseNeedsWrap
<1>1. TypeOK /\ FrameInv /\ LabelInv /\ KeyInv /\ [Next]_vars =>
        (wire'.phase = "released" /\ wire' # wire
           => LET d == press.id - call["btc"].cmd.id
              IN \/ d = 0 \/ 2 * d >= LabelMod
                 \/ Expiring /\ call["btc"].cmd.tl = 0)
  <2> DEFINE c == call["btc"].cmd
  <2> SUFFICES ASSUME TypeOK, FrameInv, LabelInv, KeyInv, [Next]_vars,
                      wire'.phase = "released", wire' # wire
               PROVE  \/ press.id - c.id = 0 \/ 2 * (press.id - c.id) >= LabelMod
                      \/ Expiring /\ c.tl = 0
    OBVIOUS
  <2>1. /\ keyCb.state = "PRESS" /\ At("btc", "PRESS") /\ c \in Command
        /\ RspMatches(c, "PRESSED")
    <3>1. \A a \in Tasks : ~SendPress(a)
      BY DEF SendPress
    <3> QED BY <3>1, Sending
  <2>2. /\ wire.phase = "pressed" /\ c.tl = keyCb.tl
        /\ keyCb.tl = wire.tl \/ (Expiring /\ keyCb.tl = 0)
    BY <2>1, Matched
  <2>3. c.ks = "PRESSED"
    BY <2>1 DEF RspMatches
  <2>4. /\ c.id \in 1 .. press.id /\ c.tl = LabelOf(c.id)
        /\ press.id > 0 /\ wire.tl = LabelOf(press.id) /\ press.id \in Nat
    BY <2>1, <2>2, <2>3 DEF LabelInv, Sent, TypeOK, At
  <2> HIDE DEF c
  <2>5. CASE keyCb.tl = wire.tl
    <3>1. LabelOf(c.id) = LabelOf(press.id)
      BY <2>2, <2>4, <2>5
    <3>2. /\ 2 * (c.id - 1) \in Nat /\ 2 * (press.id - 1) \in Nat
          /\ 2 * (c.id - 1) <= 2 * (press.id - 1)
      BY <2>4
    <3>3. \/ 2 * (press.id - 1) - 2 * (c.id - 1) = 0
          \/ 2 * (press.id - 1) - 2 * (c.id - 1) >= LabelMod
      BY <3>1, <3>2, SameLabel DEF LabelOf
    <3> QED BY <2>4, <3>3
  <2> QED BY <2>2, <2>5
<1> QED
  BY <1>1, Inductive, PTL DEF Spec, StaleResponseNeedsWrap
=============================================================================
