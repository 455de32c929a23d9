---------------------------- MODULE BtKeyControl ----------------------------
(***************************************************************************)
(* The AVRCP key-action machine (bt_keycontrol.c) with its callers in      *)
(* bluetooth_service.c.  Three tasks of core 0 run                         *)
(* bt_key_act_state_machine on the one unprotected key_cb:                 *)
(*   btc  the Bluedroid callback task, bt_avrc_ct_cb        (priority 19)  *)
(*   app  the player task, periph_bluetooth_passthrough_cmd (priority 3)   *)
(*   tmr  the FreeRTOS timer task, key_act_time_out         (priority 1)   *)
(* A call is cut wherever a task of higher priority can use key_cb between *)
(* two of its accesses, and in the timer calls, which block up to 500 ms   *)
(* while the timer queue is full.  The stores of a task are made in the    *)
(* order of the source.                                                    *)
(***************************************************************************)
EXTENDS Naturals, Sequences

CONSTANTS Keys,         \* passthrough key codes, all non-zero
          NoKey,        \* key_code 0
          LabelMod,     \* transaction labels are taken modulo this: 16
          MaxAttempts   \* bound: key presses of a behaviour

ASSUME KeyAssumption == NoKey \notin Keys
ASSUME LabelAssumption == LabelMod \in Nat \ {0}
ASSUME BoundAssumption == MaxAttempts \in Nat

VARIABLES avrcConnected,  \* g_bt_service->avrc_connected
          svcTl,          \* g_bt_service->tl
          keyCb,          \* key_cb; keyTmr says that its handle is not NULL
          timerArmed,     \* the timer is running
          call,           \* each task's call into bt_keycontrol.c
          inflight,       \* commands the remote device has not answered
          wire,           \* history: last key action posted, see BtKeyAction
          press,          \* history: [id, live] of the last press posted
          attempts,       \* presses asked for
          timersShort,    \* timer memory and queue have run out: calls block, fail
          fault           \* a NULL timer handle was used: configASSERT aborts

vars == <<avrcConnected, svcTl, keyCb, timerArmed, call, inflight, wire,
          press, attempts, timersShort, fault>>

Tasks == {"app", "btc", "tmr"}
Labels == 0 .. LabelMod - 1
KeyStates == {"IDLE", "PRESS", "RELEASE"}
Pcs == {"ready", "deinit", "switch", "IDLE", "PRESS", "RELEASE", "writeKey",
        "sendPress", "startTimer", "setPress", "resetTimer", "setRelease",
        "stopTimer", "setIdle", "abandonTl", "abandonKey", "abandonIdle"}
Events == {"none", "KEY_STATE_CHG", "PASSTHROUGH_RSP", "PT_RSP_TO"}

\* bt_key_act_param_t without evt; id is history: which press it belongs to.
Command == [tl : Labels, key : Keys, ks : {"PRESSED", "RELEASED"},
            id : 0 .. MaxAttempts]
NoCommand == [tl |-> 0, key |-> NoKey, ks |-> "PRESSED", id |-> 0]

\* A task's call: its next step, and its argument.
Frame == [pc : Pcs, evt : Events, cmd : Command \cup {NoCommand}]
Ready == [pc |-> "ready", evt |-> "none", cmd |-> NoCommand]

KeyCb == [state : KeyStates, keyCode : Keys \cup {NoKey}, keyTmr : BOOLEAN,
          tl : Labels]

\* key_act_time_out has reset the label and not yet the key (lines 158, 181).
Expiring == call["tmr"].pc = "abandonKey"

KeyAction == INSTANCE BtKeyAction WITH expiring <- Expiring

\* key_cb after memset, with or without a timer handle.
Cleared(tmr) == [state |-> "IDLE", keyCode |-> NoKey, keyTmr |-> tmr, tl |-> 0]

Init == /\ avrcConnected = FALSE
        /\ svcTl = 0
        /\ keyCb = Cleared(FALSE)
        /\ timerArmed = FALSE
        /\ call = [a \in Tasks |-> Ready]
        /\ inflight = <<>>
        /\ wire = KeyAction!NoAction
        /\ press = [id |-> 0, live |-> FALSE]
        /\ attempts = 0
        /\ timersShort = FALSE
        /\ fault = FALSE

-----------------------------------------------------------------------------
At(a, pc) == call[a].pc = pc
Goto(a, pc) == call' = [call EXCEPT ![a].pc = pc]
Return(a) == call' = [call EXCEPT ![a] = Ready]
Enter(a, evt, cmd) ==
    call' = [call EXCEPT ![a] = [pc |-> "switch", evt |-> evt, cmd |-> cmd]]

-----------------------------------------------------------------------------
(* Fixed-priority scheduling of one core.                                  *)

Priority(a) == CASE a = "btc" -> 19 [] a = "app" -> 3 [] a = "tmr" -> 1

\* In a timer call on a full queue, where the task gives up the processor.
MayBlock(a) == /\ timersShort
               /\ call[a].pc \in {"startTimer", "resetTimer", "stopTimer", "deinit"}

CanRun(a) == \A b \in Tasks :
                Priority(b) > Priority(a) => At(b, "ready") \/ MayBlock(b)

-----------------------------------------------------------------------------
(* The player task: play, pause, next, previous.                           *)

\* Mutant: the label is not masked with 0x0F.
NextSvcTl_NoMask(tl) == tl + 2

NextSvcTl(tl) == (tl + 2) % LabelMod

PassthroughCmd(k) ==
    /\ At("app", "ready") /\ attempts < MaxAttempts
    /\ CanRun("app")
    /\ avrcConnected
    /\ attempts' = attempts + 1
    /\ svcTl' = NextSvcTl(svcTl)
    /\ Enter("app", "KEY_STATE_CHG",
             [tl |-> svcTl, key |-> k, ks |-> "PRESSED", id |-> attempts'])
    /\ UNCHANGED <<avrcConnected, keyCb, timerArmed, inflight, wire, press, timersShort,
                   fault>>

-----------------------------------------------------------------------------
(* bt_key_act_state_machine, whichever task a runs it.                     *)

StateMachine(a) ==
    /\ At(a, "switch")
    /\ Goto(a, keyCb.state)
    /\ UNCHANGED <<avrcConnected, svcTl, keyCb, timerArmed, inflight, wire,
                   press, attempts, timersShort, fault>>

HdlIdle(a) ==
    /\ At(a, "IDLE")
    /\ IF keyCb.state = "IDLE" /\ call[a].evt = "KEY_STATE_CHG"
       THEN /\ keyCb' = [keyCb EXCEPT !.tl = call[a].cmd.tl]
            /\ Goto(a, "writeKey")
       ELSE Return(a) /\ UNCHANGED keyCb
    /\ UNCHANGED <<avrcConnected, svcTl, timerArmed, inflight, wire, press,
                   attempts, timersShort, fault>>

WriteKey(a) ==
    /\ At(a, "writeKey")
    /\ keyCb' = [keyCb EXCEPT !.keyCode = call[a].cmd.key]
    /\ Goto(a, "sendPress")
    /\ UNCHANGED <<avrcConnected, svcTl, timerArmed, inflight, wire, press,
                   attempts, timersShort, fault>>

SendPress(a) ==
    /\ At(a, "sendPress")
    /\ LET c == call[a].cmd
       IN /\ wire' = [phase |-> "pressed", key |-> c.key, tl |-> c.tl]
          /\ press' = [id |-> c.id, live |-> avrcConnected]
          /\ inflight' = Append(inflight, c)
    /\ Goto(a, "startTimer")
    /\ UNCHANGED <<avrcConnected, svcTl, keyCb, timerArmed, attempts, timersShort, fault>>

\* xTimerStart, xTimerReset: a queue that stays full leaves the timer as it was.
ArmTimer(a, from, to) ==
    /\ At(a, from)
    /\ Goto(a, to)
    /\ fault' = ~keyCb.keyTmr
    /\ \/ timerArmed' = keyCb.keyTmr
       \/ timersShort /\ UNCHANGED timerArmed
    /\ UNCHANGED <<avrcConnected, svcTl, keyCb, inflight, wire, press, attempts,
                   timersShort>>

SetState(a, from, state) ==
    /\ At(a, from)
    /\ keyCb' = [keyCb EXCEPT !.state = state]
    /\ Return(a)
    /\ UNCHANGED <<avrcConnected, svcTl, timerArmed, inflight, wire, press,
                   attempts, timersShort, fault>>

\* Mutant: hdl_idle calls xTimerStop.
StartTimer_Stops(a) ==
    /\ At(a, "startTimer")
    /\ Goto(a, "setPress")
    /\ timerArmed' = FALSE
    /\ fault' = ~keyCb.keyTmr
    /\ UNCHANGED <<avrcConnected, svcTl, keyCb, inflight, wire, press, attempts,
                   timersShort>>

StartTimer(a) == ArmTimer(a, "startTimer", "setPress")
SetPress(a) == SetState(a, "setPress", "PRESS")

\* Mutant: the label of the answer is not compared.
RspMatches_AnyLabel(c, ks) == c.key = keyCb.keyCode /\ c.ks = ks

\* Is the answer c to the command (keyCb.tl, keyCb.keyCode, ks)?
RspMatches(c, ks) ==
    /\ c.tl = keyCb.tl
    /\ c.key = keyCb.keyCode
    /\ c.ks = ks

\* Mutant: the release goes out under the label of the press.
ReleaseLabel_Same(tl) == tl

ReleaseLabel(tl) == (tl + 1) % LabelMod

\* esp_avrc_ct_send_passthrough_cmd(..., RELEASED) for the press c.
SendRelease(c) ==
    LET tl == ReleaseLabel(keyCb.tl)
    IN /\ keyCb' = [keyCb EXCEPT !.tl = tl]
       /\ wire' = [phase |-> "released", key |-> c.key, tl |-> tl]
       /\ inflight' = Append(inflight, [c EXCEPT !.tl = tl, !.ks = "RELEASED"])

HdlPress(a) ==
    /\ At(a, "PRESS")
    /\ \/ /\ keyCb.state = "PRESS"
          /\ call[a].evt = "PASSTHROUGH_RSP"
          /\ RspMatches(call[a].cmd, "PRESSED")
          /\ SendRelease(call[a].cmd)
          /\ Goto(a, "resetTimer")
       \/ /\ keyCb.state = "PRESS"
          /\ call[a].evt = "PT_RSP_TO"
          /\ Goto(a, "abandonTl")
          /\ UNCHANGED <<keyCb, wire, inflight>>
       \/ /\ \/ keyCb.state # "PRESS"
             \/ call[a].evt = "KEY_STATE_CHG"
             \/ call[a].evt = "PASSTHROUGH_RSP" /\ ~RspMatches(call[a].cmd, "PRESSED")
          /\ Return(a)
          /\ UNCHANGED <<keyCb, wire, inflight>>
    /\ UNCHANGED <<avrcConnected, svcTl, timerArmed, press, attempts, timersShort, fault>>

ResetTimer(a) == ArmTimer(a, "resetTimer", "setRelease")
SetRelease(a) == SetState(a, "setRelease", "RELEASE")

HdlRelease(a) ==
    /\ At(a, "RELEASE")
    /\ \/ /\ keyCb.state = "RELEASE"
          /\ call[a].evt = "PASSTHROUGH_RSP"
          /\ RspMatches(call[a].cmd, "RELEASED")
          /\ Goto(a, "stopTimer")
       \/ /\ keyCb.state = "RELEASE"
          /\ call[a].evt = "PT_RSP_TO"
          /\ Goto(a, "abandonTl")
       \/ /\ \/ keyCb.state # "RELEASE"
             \/ call[a].evt = "KEY_STATE_CHG"
             \/ call[a].evt = "PASSTHROUGH_RSP" /\ ~RspMatches(call[a].cmd, "RELEASED")
          /\ Return(a)
    /\ UNCHANGED <<avrcConnected, svcTl, keyCb, timerArmed, inflight, wire,
                   press, attempts, timersShort, fault>>

StopTimer(a) ==
    /\ At(a, "stopTimer")
    /\ Goto(a, "setIdle")
    /\ fault' = ~keyCb.keyTmr
    /\ \/ timerArmed' = FALSE
       \/ timersShort /\ UNCHANGED timerArmed
    /\ UNCHANGED <<avrcConnected, svcTl, keyCb, inflight, wire, press, attempts,
                   timersShort>>

SetIdle(a) ==
    /\ At(a, "setIdle")
    /\ keyCb' = [keyCb EXCEPT !.state = "IDLE", !.keyCode = NoKey]
    /\ Return(a)
    /\ UNCHANGED <<avrcConnected, svcTl, timerArmed, inflight, wire, press,
                   attempts, timersShort, fault>>

\* The time-out branches of hdl_press and hdl_release: three stores of the task of
\* lowest priority, any of the others in between.
AbandonTl(a) ==
    /\ At(a, "abandonTl")
    /\ keyCb' = [keyCb EXCEPT !.tl = 0]
    /\ Goto(a, "abandonKey")
    /\ UNCHANGED <<avrcConnected, svcTl, timerArmed, inflight, wire, press,
                   attempts, timersShort, fault>>

AbandonKey(a) ==
    /\ At(a, "abandonKey")
    /\ keyCb' = [keyCb EXCEPT !.keyCode = NoKey]
    /\ Goto(a, "abandonIdle")
    /\ UNCHANGED <<avrcConnected, svcTl, timerArmed, inflight, wire, press,
                   attempts, timersShort, fault>>

AbandonIdle(a) == SetState(a, "abandonIdle", "IDLE")

\* key_act_time_out: the timer is one-shot.  Its period is portMAX_DELAY ticks,
\* 2^32 - 1 of 10 ms, so that any number of other steps comes before it.
TimerExpire ==
    /\ At("tmr", "ready") /\ timerArmed
    /\ CanRun("tmr")
    /\ timerArmed' = FALSE
    /\ Enter("tmr", "PT_RSP_TO", NoCommand)
    /\ UNCHANGED <<avrcConnected, svcTl, keyCb, inflight, wire, press, attempts,
                   timersShort, fault>>

-----------------------------------------------------------------------------
(* The Bluetooth callback task: bt_avrc_ct_cb.                             *)

\* bt_key_act_sm_init finds no timer to delete (deinit has run) and so does not
\* block: with the flag it is one step of the highest-priority task of the core.
SmInit == /\ \E created \in {TRUE, ~timersShort} : keyCb' = Cleared(created)
          /\ timerArmed' = FALSE

Connect ==
    /\ At("btc", "ready") /\ ~avrcConnected
    /\ avrcConnected' = TRUE
    /\ SmInit
    /\ UNCHANGED <<svcTl, call, inflight, wire, press, attempts, timersShort, fault>>

\* The link is lost, and what was in flight on it; xTimerDelete may block.
Disconnect ==
    /\ At("btc", "ready") /\ avrcConnected
    /\ avrcConnected' = FALSE
    /\ inflight' = <<>>
    /\ press' = [press EXCEPT !.live = FALSE]
    /\ Goto("btc", "deinit")
    /\ UNCHANGED <<svcTl, keyCb, timerArmed, wire, attempts, timersShort, fault>>

\* Mutant: the timer is deleted, key_cb not cleared.
SmDeinit_TimerOnly ==
    /\ At("btc", "deinit")
    /\ keyCb' = [keyCb EXCEPT !.keyTmr = FALSE]
    /\ timerArmed' = FALSE
    /\ Return("btc")
    /\ UNCHANGED <<avrcConnected, svcTl, inflight, wire, press, attempts, timersShort,
                   fault>>

SmDeinit ==
    /\ At("btc", "deinit")
    /\ keyCb' = Cleared(FALSE)
    /\ timerArmed' = FALSE
    /\ Return("btc")
    /\ UNCHANGED <<avrcConnected, svcTl, inflight, wire, press, attempts, timersShort,
                   fault>>

\* The remote answers its oldest command, echoing label, key and key state.
PassthroughRsp ==
    /\ At("btc", "ready") /\ inflight # <<>>
    /\ avrcConnected
    /\ inflight' = Tail(inflight)
    /\ Enter("btc", "PASSTHROUGH_RSP", Head(inflight))
    /\ UNCHANGED <<avrcConnected, svcTl, keyCb, timerArmed, wire, press,
                   attempts, timersShort, fault>>

\* The remote never answers it.
RspLost ==
    /\ inflight # <<>>
    /\ inflight' = Tail(inflight)
    /\ UNCHANGED <<avrcConnected, svcTl, keyCb, timerArmed, call, wire, press,
                   attempts, timersShort, fault>>

\* The timer service runs out of memory, or its queue is full for a while.
TimersRunShort ==
    /\ ~timersShort /\ timersShort' = TRUE
    /\ UNCHANGED <<avrcConnected, svcTl, keyCb, timerArmed, call, inflight, wire,
                   press, attempts, fault>>

-----------------------------------------------------------------------------
Step(a) == \/ StateMachine(a)
           \/ HdlIdle(a) \/ HdlPress(a) \/ HdlRelease(a)
           \/ WriteKey(a) \/ SendPress(a)
           \/ StartTimer(a) \/ ResetTimer(a) \/ StopTimer(a)
           \/ SetPress(a) \/ SetRelease(a) \/ SetIdle(a)
           \/ AbandonTl(a) \/ AbandonKey(a) \/ AbandonIdle(a)

\* configASSERT has aborted: nothing runs until the reboot.
Aborted == fault /\ UNCHANGED vars

Next == \/ ~fault /\ \/ \E k \in Keys : PassthroughCmd(k)
                     \/ \E a \in Tasks : CanRun(a) /\ Step(a)
                     \/ TimerExpire
                     \/ Connect \/ Disconnect \/ SmDeinit
                     \/ PassthroughRsp \/ RspLost
                     \/ TimersRunShort
        \/ Aborted

Spec == Init /\ [][Next]_vars

\* Every task runs and the armed timer expires in the end; no one has to press
\* a key, answer or connect.
Fairness == /\ \A a \in Tasks : WF_vars(~fault /\ CanRun(a) /\ Step(a))
            /\ WF_vars(~fault /\ SmDeinit)
            /\ SF_vars(~fault /\ TimerExpire)

FairSpec == Spec /\ Fairness

-----------------------------------------------------------------------------
TypeOK ==
    /\ avrcConnected \in BOOLEAN
    /\ svcTl \in Labels
    /\ keyCb \in KeyCb
    /\ timerArmed \in BOOLEAN
    /\ call \in [Tasks -> Frame]
    /\ inflight \in Seq(Command)
    /\ wire \in {KeyAction!NoAction}
                \cup [phase : {"pressed", "released"}, key : Keys, tl : Labels]
    /\ press \in [id : 0 .. MaxAttempts, live : BOOLEAN]
    /\ attempts \in 0 .. MaxAttempts
    /\ timersShort \in BOOLEAN
    /\ fault \in BOOLEAN

\* What is released is the last key pressed, once, under the next label,
\* although three tasks share key_cb and a call may be cut in the middle by a
\* time-out, a late answer or a disconnection.  In one place the code does not
\* keep the label: an answer under label 0 that comes between the first two
\* stores of the time-out sends the release under label 1.
KeyActionSpec == KeyAction!Spec

\* No action waits for an answer with a key in key_cb and no timer object: a call
\* of the player task that outlives bt_key_act_sm_deinit cannot leave a key behind
\* a NULL handle.  (That the timer was started is not said: xTimerStart may fail.)
KeyPendingHasTimer ==
    keyCb.state # "IDLE" /\ keyCb.keyCode # NoKey => keyCb.keyTmr

\* An answer to an older press can be taken for the answer to the current one
\* only if the labels, two per press, have wrapped around in between, or if it
\* bears label 0 and comes between the first two stores of the current one's
\* time-out.
StaleResponseNeedsWrap ==
    [][wire'.phase = "released" /\ wire' # wire
         => LET d == press.id - call["btc"].cmd.id
            IN \/ d = 0 \/ 2 * d >= LabelMod
               \/ Expiring /\ call["btc"].cmd.tl = 0]_vars

\* A key action of the present connection ends, by its answers, by the timer or by
\* the loss of the link, as long as the timer service has memory and queue for it.
EachActionEnds ==
    keyCb.state # "IDLE" /\ press.live
        ~> keyCb.state = "IDLE" \/ ~press.live \/ timersShort

\* bt_keycontrol.h, "De-initialize bluetooth key action state machine": once the
\* callback has returned and as long as the link is down, no action is pending.
DeinitClears ==
    ~avrcConnected /\ At("btc", "ready") => keyCb.state = "IDLE"
==============================================================================
