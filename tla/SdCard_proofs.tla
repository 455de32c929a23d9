--------------------------- MODULE SdCard_proofs ---------------------------
(***************************************************************************)
(* Theorems about SdCard, for any number of insertions and removals and    *)
(* any length of the command queue, wired or not, mounts failing or not.   *)
(***************************************************************************)
EXTENDS SdCard, TLAPS

-----------------------------------------------------------------------------
(* Types.                                                                  *)

LEMMA InitType == Init => TypeOK
<1> SUFFICES ASSUME Init PROVE TypeOK
  OBVIOUS
<1>1. moves \in 0 .. MaxMoves /\ cmds \in 0 .. QueueSize
  BY BoundAssumption DEF Init
<1> QED
  BY <1>1 DEF Init, TypeOK

\* The steps that mount and unmount, and leave all but the mounting and pc alone.
Mounts == /\ Mount \/ SetMounted \/ Unmount \/ SetUnmounted
          /\ UNCHANGED <<hardware, setup, cmds, player>>

LEMMA NextType == TypeOK /\ [Next]_vars => TypeOK'
<1> SUFFICES ASSUME TypeOK, [Next]_vars PROVE TypeOK'
  OBVIOUS
<1> USE DEF TypeOK
<1>1. CASE MoveCard
  BY <1>1, BoundAssumption DEF MoveCard, setup, mounting
<1>2. CASE Interrupt
  <2>1. cmds' = cmds \/ (cmds < QueueSize /\ cmds' = cmds + 1)
    BY <1>2 DEF Interrupt, SendCmd
  <2>2. /\ irq' \in BOOLEAN
        /\ UNCHANGED <<card, moves, setup, pc, mounting, player>>
    BY <1>2 DEF Interrupt
  <2> QED
    BY <2>1, <2>2, BoundAssumption DEF setup, mounting
<1>3. CASE Tick
  <2>1. cmds' = cmds \/ (cmds < QueueSize /\ cmds' = cmds + 1)
    BY <1>3 DEF Tick, SendCmd
  <2>2. UNCHANGED <<hardware, setup, pc, mounting, player>>
    BY <1>3 DEF Tick
  <2> QED
    BY <2>1, <2>2, BoundAssumption DEF hardware, setup, mounting
<1>4. CASE EnableInterrupt \/ SetGpio \/ FirstLook \/ StartTimer
  <2>1. UNCHANGED <<hardware, cmds, mounting, player>>
    BY <1>4 DEF EnableInterrupt, SetGpio, FirstLook, StartTimer, setup
  <2>2. isr' \in BOOLEAN /\ gGpio' \in BOOLEAN /\ timer' \in BOOLEAN
    BY <1>4 DEF EnableInterrupt, SetGpio, FirstLook, StartTimer, setup
  <2>3. pc' \in {"setGpio", "firstLook", "mount", "startTimer", "idle"}
    BY <1>4 DEF EnableInterrupt, SetGpio, FirstLook, StartTimer, Goto
  <2> QED
    BY <2>1, <2>2, <2>3 DEF hardware, mounting
<1>5. CASE Look
  BY <1>5, BoundAssumption DEF Look, Goto, hardware, setup, mounting
<1>6. CASE LookAgain
  BY <1>6 DEF LookAgain, Goto, hardware, setup, mounting
<1>7. CASE Mounts
  <2>1. pc' \in {"init", "setGpio", "firstLook", "startTimer", "idle", "lookAgain", "mount",
                 "setMounted", "unmount", "setUnmounted", "removeIsr", "freed"}
    BY <1>7 DEF Mounts, Mount, SetMounted, Unmount, SetUnmounted, Goto, Done
  <2>2. /\ vfs' \in BOOLEAN /\ isMounted' \in BOOLEAN
        /\ event' \in {"none", "MOUNTED", "UNMOUNTED", "MOUNT_ERROR", "UNMOUNT_ERROR"}
    BY <1>7 DEF Mounts, Mount, SetMounted, Unmount, SetUnmounted, mounting
  <2> QED
    BY <1>7, <2>1, <2>2 DEF Mounts, hardware, setup
<1>8. CASE DestroyUnmount \/ RemoveIsr
  BY <1>8 DEF DestroyUnmount, RemoveIsr, Goto, hardware, setup, mounting
<1>9. CASE CardReady \/ Leave \/ Waits
  BY <1>9 DEF CardReady, Leave, Waits, vars, hardware, setup, mounting
<1>10. CASE UNCHANGED vars
  BY <1>10 DEF vars, hardware, setup, mounting
<1> QED
  BY <1>1, <1>2, <1>3, <1>4, <1>5, <1>6, <1>7, <1>8, <1>9, <1>10 DEF Next, Periph, Mounts

\* The variables keep their types, the queue its bound.
THEOREM TypeCorrect == Spec => []TypeOK
BY InitType, NextType, PTL DEF Spec

-----------------------------------------------------------------------------
(* The flag, the file system and the events.  Between the two steps of a   *)
(* mount or an unmount the file system is ahead of the flag; an unmount is *)
(* begun only on a mounted one, whatever the pin did since it was read.    *)

MountingInv ==
    /\ pc = "setMounted" => vfs
    /\ pc = "setUnmounted" => ~vfs
    /\ pc = "unmount" => isMounted

Inv == FlagTracksFileSystem /\ NoUnmountError /\ MountingInv

LEMMA InitInv == Init => Inv
BY DEF Init, Inv, FlagTracksFileSystem, NoUnmountError, MountingInv

\* Steps that neither mount nor send an event leave the invariant as it is, unless
\* they begin an unmount of what is not mounted or skip the second step of a mount.
LEMMA QuietStep ==
    ASSUME Inv, UNCHANGED mounting,
           pc' = pc \/ /\ pc \notin {"setMounted", "setUnmounted", "removeIsr", "freed"}
                       /\ pc' \notin {"setMounted", "setUnmounted"}
                       /\ pc' = "unmount" => isMounted
                   \/ pc' \in {"removeIsr", "freed"}
    PROVE  Inv'
BY DEF Inv, FlagTracksFileSystem, NoUnmountError, MountingInv, mounting

LEMMA MountsInv ==
    ASSUME TypeOK, Inv, Mounts
    PROVE  Inv'
<1> USE DEF Inv, FlagTracksFileSystem, NoUnmountError, MountingInv, Goto, Done, TypeOK
<1>1. CASE Mount
  BY <1>1 DEF Mount, mounting
<1>2. CASE SetMounted
  BY <1>2 DEF SetMounted
<1>3. CASE Unmount
  BY <1>3 DEF Unmount
<1>4. CASE SetUnmounted
  BY <1>4 DEF SetUnmounted
<1> QED
  BY <1>1, <1>2, <1>3, <1>4 DEF Mounts

LEMMA NextInv == TypeOK /\ Inv /\ [Next]_vars => Inv'
<1> SUFFICES ASSUME TypeOK, Inv, [Next]_vars PROVE Inv'
  OBVIOUS
<1>1. CASE MoveCard \/ Interrupt \/ Tick \/ CardReady \/ Leave \/ Waits \/ UNCHANGED vars
  BY <1>1, QuietStep DEF MoveCard, Interrupt, Tick, CardReady, Leave, Waits, vars
<1>2. CASE EnableInterrupt \/ SetGpio \/ FirstLook \/ StartTimer
  BY <1>2, QuietStep DEF EnableInterrupt, SetGpio, FirstLook, StartTimer, Goto
<1>3. CASE Look \/ LookAgain
  BY <1>3, QuietStep DEF Look, LookAgain, Goto
<1>4. CASE Mounts
  BY <1>4, MountsInv
<1>5. CASE DestroyUnmount
  BY <1>5 DEF DestroyUnmount, Goto, Inv, FlagTracksFileSystem, NoUnmountError, MountingInv
<1>6. CASE RemoveIsr
  BY <1>6, QuietStep DEF RemoveIsr, Goto
<1> QED
  BY <1>1, <1>2, <1>3, <1>4, <1>5, <1>6 DEF Next, Periph, Mounts

LEMMA Invariance == Spec => []Inv
<1>1. Init => Inv
  BY InitInv
<1>2. TypeOK /\ Inv /\ [Next]_vars => Inv'
  BY NextInv
<1> QED
  BY <1>1, <1>2, TypeCorrect, PTL DEF Spec

\* periph_sdcard's flag and its last event agree with the file system whenever the
\* task is not in the middle of mounting, however the card bounces.
THEOREM FlagIsRight == Spec => []FlagTracksFileSystem
<1>1. Inv => FlagTracksFileSystem
  BY DEF Inv
<1> QED
  BY <1>1, Invariance, PTL

\* SDCARD_STATUS_UNMOUNT_ERROR is never sent.
THEOREM UnmountSucceeds == Spec => []NoUnmountError
<1>1. Inv => NoUnmountError
  BY DEF Inv
<1> QED
  BY <1>1, Invariance, PTL
==============================================================================
