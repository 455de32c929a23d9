--------------------------- MODULE SdPlayer_proofs ---------------------------
(***************************************************************************)
(* Theorems about SdPlayer, for a file of any length, any number of FILEs  *)
(* and of moves of the card, wired or not, mounts failing or not.          *)
(***************************************************************************)
EXTENDS SdPlayer, SdCard_proofs

-----------------------------------------------------------------------------
(* The strengthening.                                                      *)

\* The reader opens its file once, and has it exactly while it runs; element, FILE and ear
\* then agree on the position.
ReaderInv ==
    /\ el \in {"idle", "running", "failed"}
    /\ opened \in {0, 1} /\ (isOpen <=> el = "running")
    /\ isOpen => opened = 1 /\ file = 1 /\ open = {1} /\ at = bytePos /\ heard = bytePos
    /\ ~isOpen => open = {} /\ bytePos = 0
    /\ live \subseteq open /\ file \in {0, 1}
    /\ at \in Nat /\ bytePos \in Nat /\ heard \in 0 .. FileLen
    /\ isOpen \in BOOLEAN /\ fault = {}

\* How far app_main and the player of SdCard have come, and what has ended by then.
StageInv ==
    /\ app \in {"wait", "setUp", "listen", "terminate", "deinit", "done"}
    /\ player = CASE app = "wait" -> "wait" [] app = "done" -> "leave" [] OTHER -> "play"
    /\ app \in {"wait", "setUp"} => opened = 0 /\ el = "idle" /\ ~ended
    /\ app \in {"terminate", "deinit", "done"} => msg
    /\ msg => ended \/ opened > 0
    /\ app \in {"deinit", "done"} => el = "idle"
    /\ opened > 0 /\ ~isOpen /\ ~ended => app \in {"deinit", "done"}
    /\ ended => el = "idle"
    /\ ended \in BOOLEAN /\ msg \in BOOLEAN

\* A card that has not moved since it was mounted is not being unmounted, and is mounted
\* until the player leaves: only a card that the pin can see is ever mounted.
SameInv ==
    /\ same \in BOOLEAN /\ lost \in BOOLEAN
    /\ pc = "mount" => PinWired /\ gGpio
    /\ same => /\ card /\ PinWired /\ gGpio
               /\ pc \notin {"unmount", "setUnmounted"}
               /\ player # "leave" => vfs

\* While the card stays the FILE that is open can be read, and the one the reader closed,
\* rather than app_main, has been read to its end.
HeardInv ==
    opened > 0 /\ ~lost => IF isOpen THEN same /\ file \in live ELSE ended => heard = FileLen

PInv == ReaderInv /\ StageInv /\ SameInv /\ HeardInv

-----------------------------------------------------------------------------
(* The peripheral in the player is the peripheral.                         *)

\* The player takes no step of the peripheral that SdCard does not have, so that what was
\* proved of SdCard holds of its player: flag, event and file system agree, too, while a
\* file is played.
THEOREM CardInPlayer == PlayerSpec => Spec
<1>1. PlayerInit => Init
  BY DEF PlayerInit
<1>2. [PlayerNext]_playerVars => [Next]_vars
  BY DEF PlayerNext, CardStep, ReaderOpens, ReaderReads, ReaderEnds, ReaderFailed, Drain, GiveUp, App,
         Mounted, SetUp, Listen, Terminate, Deinit, Next, playerVars
<1> QED
  BY <1>1, <1>2, PTL DEF PlayerSpec, Spec

-----------------------------------------------------------------------------
(* The reader.                                                             *)

\* What the reader's part of a player can do: it opens the file, or fails to.
LEMMA Opens ==
    ASSUME ReaderInv, Reader!Start
    PROVE  /\ el = "idle" /\ ~isOpen
           /\ UNCHANGED vfs
           /\ \/ /\ el' = "failed" /\ file' = 0
                 /\ UNCHANGED <<opened, open, live, at, isOpen, bytePos, heard, fault>>
              \/ /\ el' = "running" /\ vfs
                 /\ opened = 0 /\ opened' = 1 /\ file' = 1
                 /\ open' = {1} /\ live' = {1} /\ at' = 0 /\ heard' = 0
                 /\ isOpen' /\ isOpen' \in BOOLEAN
                 /\ UNCHANGED <<bytePos, fault>>
<1> USE DEF ReaderInv, Reader!NULL, Reader!card, Reader!handle, Reader!recording, Reader!history
<1>1. el = "idle" /\ ~isOpen /\ open = {} /\ live = {} /\ bytePos = 0
  BY DEF Reader!Start
<1>2. ~Reader!OpenRefused
  BY <1>1 DEF Reader!OpenRefused, Reader!Usable
<1>3. Reader!FopenFails =>
         /\ el' = "failed" /\ file' = 0
         /\ UNCHANGED <<vfs, opened, open, live, at, isOpen, bytePos, heard, fault>>
  BY DEF Reader!FopenFails
<1>4. Reader!Fopen =>
         /\ vfs /\ vfs' = vfs /\ opened = 0 /\ opened' = 1 /\ file' = 1
         /\ open' = {1} /\ live' = {1}
         /\ UNCHANGED <<bytePos, fault>>
  <2> SUFFICES ASSUME Reader!Fopen
               PROVE  /\ vfs /\ vfs' = vfs /\ opened = 0 /\ opened' = 1 /\ file' = 1
                      /\ open' = {1} /\ live' = {1}
                      /\ UNCHANGED <<bytePos, fault>>
    OBVIOUS
  <2>1. opened < 1 /\ opened' = opened + 1 /\ file' = opened + 1
    BY DEF Reader!Fopen
  <2>2. opened = 0 /\ opened' = 1 /\ file' = 1
    BY <2>1
  <2>3. open' = open \union {1} /\ live' = live \union {1}
    BY <2>2 DEF Reader!Fopen
  <2>4. vfs /\ UNCHANGED <<vfs, bytePos, fault>>
    BY DEF Reader!Fopen
  <2> QED
    BY <1>1, <2>2, <2>3, <2>4
<1>5. ~Reader!SeekFails /\ ~Reader!LastSeekFails
  BY <1>1 DEF Reader!SeekFails, Reader!LastSeekFails
<1>6. Reader!Opened => Reader!Fopen /\ isOpen' = TRUE /\ el' = "running" /\ heard' = 0 /\ at' = 0
  BY <1>1 DEF Reader!Opened, Reader!Ready, Reader!StartOf, Reader!Reader
<1>7. isOpen' = TRUE => isOpen' /\ isOpen' \in BOOLEAN
  BY Zenon
<1> QED
  BY <1>1, <1>2, <1>3, <1>4, <1>5, <1>6, <1>7 DEF Reader!Start

\* ... it reads a buffer ...
LEMMA Reads ==
    ASSUME ReaderInv, Reader!Read
    PROVE  /\ el = "running" /\ file \in live /\ at < FileLen
           /\ at' = at + 1 /\ heard' = at + 1 /\ bytePos' = bytePos + 1
           /\ UNCHANGED <<el, vfs, opened, open, live, file, isOpen, fault>>
<1>1. /\ el = "running" /\ file \in live /\ at < FileLen
      /\ at' = at + 1 /\ heard' = at + 1 /\ bytePos' = bytePos + 1
      /\ UNCHANGED <<el, vfs, opened, open, live, file, isOpen>>
  BY DEF Reader!Read, Reader!element
<1>2. file \in open
  BY <1>1 DEF ReaderInv
<1>3. fault' = IF file \notin open THEN fault \union {Reader!When} ELSE fault
  BY DEF Reader!Read, Reader!Uses
<1>4. fault' = fault
  BY <1>2, <1>3, Zenon
<1> QED
  BY <1>1, <1>4

\* ... or it closes the file, if it has one, and is idle.
LEMMA Closes ==
    ASSUME ReaderInv, el \in {"running", "failed"}, Reader!Finish
    PROVE  /\ el' = "idle" /\ open' = {} /\ live' = {} /\ bytePos' = 0
           /\ ~isOpen' /\ isOpen' \in BOOLEAN
           /\ UNCHANGED <<vfs, opened, at, file, heard, fault>>
<1> USE DEF ReaderInv, Reader!NULL, Reader!Wav
<1>1. ~Reader!CloseFails
  BY DEF Reader!CloseFails
<1>2. Reader!Close(FALSE) /\ el' = "idle"
  BY <1>1 DEF Reader!Finish
<1>3. bytePos' = 0 /\ UNCHANGED <<vfs, opened, at, file, heard>>
  BY <1>2 DEF Reader!Close
<1>4. isOpen' = FALSE /\ open' = {} /\ live' = {}
  BY <1>2 DEF Reader!Close, Reader!Fclose
<1>5. fault' = fault
  <2>1. ~(isOpen /\ file \notin open)
    OBVIOUS
  <2>2. fault' = IF ((Reader!Wav /\ file # 0) \/ isOpen) /\ file \notin open
                 THEN fault \union {Reader!When} ELSE fault
    BY <1>2 DEF Reader!Close, Reader!WriteHeader
  <2>3. ~Reader!Wav
    OBVIOUS
  <2> HIDE DEF Reader!Wav, ReaderInv
  <2> QED
    BY <2>1, <2>2, <2>3, Zenon
<1>6. ~isOpen' /\ isOpen' \in BOOLEAN
  BY <1>4, Zenon
<1> QED
  BY <1>2, <1>3, <1>4, <1>5, <1>6

-----------------------------------------------------------------------------
(* The card under the player.                                              *)

\* The peripheral moves neither the player nor what the reader has done.
LEMMA CardOnly ==
    ASSUME CardStep
    PROVE  UNCHANGED <<player, el, opened, open, at, file, isOpen, bytePos, heard, fault,
                       app, ended, msg>>
<1>1. UNCHANGED player
  BY DEF CardStep, MoveCard, Interrupt, Tick, Periph, EnableInterrupt, SetGpio, FirstLook,
         StartTimer, Look, LookAgain, DestroyUnmount, RemoveIsr
<1> QED
  BY <1>1 DEF CardStep, appVars

LEMMA SameCard ==
    ASSUME TypeOK, SameInv, CardStep
    PROVE  /\ SameInv'
           /\ same /\ card' = card => same'
<1> USE DEF SameInv, TypeOK
<1>1. /\ same' = (card' = card /\ (same \/ (vfs' /\ ~vfs)))
      /\ lost' = (lost \/ (isOpen /\ card' # card))
      /\ player' = player
  BY CardOnly DEF CardStep
<1>2. same' \in BOOLEAN /\ lost' \in BOOLEAN
  BY <1>1, Zenon
<1>3. same /\ card' = card => same'
  BY <1>1
<1>4. CASE MoveCard
  <2>1. card' = ~card /\ UNCHANGED <<pc, gGpio, vfs>>
    BY <1>4 DEF MoveCard, setup, mounting
  <2>2. card' # card
    BY <2>1
  <2>3. same' = FALSE
    BY <1>1, <2>2
  <2> QED
    BY <1>2, <2>1, <2>3
<1>5. CASE Interrupt \/ Tick
  <2>1. UNCHANGED <<card, pc, gGpio, vfs>>
    BY <1>5 DEF Interrupt, Tick, hardware, setup, mounting
  <2> QED
    BY <1>1, <1>2, <2>1
<1>6. CASE EnableInterrupt \/ SetGpio \/ FirstLook \/ StartTimer \/ Look \/ LookAgain
  <2>1. card' = card /\ vfs' = vfs /\ (gGpio => gGpio')
    BY <1>6 DEF EnableInterrupt, SetGpio, FirstLook, StartTimer, Look, LookAgain, hardware,
                setup, mounting
  <2>2. pc' \notin {"setUnmounted", "mount", "unmount"} \/ pc' = pc
          \/ (pc' = "mount" /\ SdcardIsExist) \/ (pc' = "unmount" /\ ~SdcardIsExist)
    BY <1>6 DEF EnableInterrupt, SetGpio, FirstLook, StartTimer, Look, LookAgain, Goto
  <2>3. SdcardIsExist <=> gGpio /\ PinWired /\ card
    BY DEF SdcardIsExist, PinLow
  <2> QED
    BY <1>1, <1>2, <2>1, <2>2, <2>3
<1>7. CASE Mounts
  <2>1. card' = card /\ gGpio' = gGpio
    BY <1>7 DEF Mounts, hardware, setup
  <2>2. pc' # "mount" /\ pc' # "unmount"
    BY <1>7 DEF Mounts, Mount, SetMounted, Unmount, SetUnmounted, Goto, Done
  <2>3. CASE pc \in {"mount", "setMounted"}
    <3>1. pc' # "setUnmounted" /\ (vfs => vfs') /\ (vfs' => vfs \/ (pc = "mount" /\ card))
      BY <1>7, <2>3 DEF Mounts, Mount, SetMounted, Unmount, SetUnmounted, Goto, Done, mounting
    <3> QED
      BY <1>1, <1>2, <2>1, <2>2, <3>1
  <2>4. CASE pc \in {"unmount", "setUnmounted"}
    <3>1. ~(vfs' /\ ~vfs)
      BY <1>7, <2>4 DEF Mounts, Mount, SetMounted, Unmount, SetUnmounted, Goto, mounting
    <3> QED
      BY <1>1, <1>2, <2>1, <2>2, <2>4, <3>1
  <2> QED
    BY <1>7, <2>3, <2>4 DEF Mounts, Mount, SetMounted, Unmount, SetUnmounted, Goto
<1>8. CASE DestroyUnmount
  <2>1. player = "leave" /\ vfs' = FALSE /\ card' = card /\ gGpio' = gGpio /\ pc' = "removeIsr"
    BY <1>8 DEF DestroyUnmount, Goto, hardware
  <2> QED
    BY <1>1, <1>2, <2>1
<1>9. CASE RemoveIsr
  <2>1. pc' = "freed" /\ UNCHANGED <<card, gGpio, vfs>>
    BY <1>9 DEF RemoveIsr, Goto, mounting
  <2> QED
    BY <1>1, <1>2, <2>1
<1> QED
  BY <1>3, <1>4, <1>5, <1>6, <1>7, <1>8, <1>9 DEF CardStep, Periph, Mounts

\* Whatever becomes of the card: the reader loses its file only with the card or after it
\* has closed it.
LEMMA CardKeeps ==
    ASSUME TypeOK, PInv, CardStep
    PROVE  PInv'
<1> USE DEF PInv
<1>1. SameInv' /\ (same /\ card' = card => same')
  BY SameCard
<1>2. StageInv'
  BY CardOnly DEF StageInv
<1>3. live' = live \/ (live' = {} /\ vfs /\ ~vfs')
  BY DEF CardStep
<1>5. ReaderInv'
  BY <1>3, CardOnly DEF ReaderInv
<1>6. HeardInv'
  <2> SUFFICES ASSUME opened' > 0, ~lost'
               PROVE  IF isOpen' THEN same' /\ file' \in live' ELSE ended' => heard' = FileLen
    BY DEF HeardInv
  <2>1. opened > 0 /\ ~lost /\ (isOpen => card' = card)
    BY CardOnly DEF CardStep
  <2>2. UNCHANGED <<isOpen, heard, file, ended>>
    BY CardOnly
  <2>3. CASE isOpen
    <3>1. same /\ file \in live
      BY <2>1, <2>3 DEF HeardInv
    <3>2. same'
      BY <1>1, <2>1, <2>3, <3>1
    <3>3. player' # "leave"
      BY <1>2, <2>2, <2>3, CardOnly DEF StageInv, ReaderInv
    <3>4. vfs'
      BY <1>1, <3>2, <3>3 DEF SameInv
    <3> QED
      BY <1>3, <2>2, <2>3, <3>1, <3>2, <3>4
  <2>4. CASE ~isOpen
    BY <2>1, <2>2, <2>4 DEF HeardInv
  <2> QED
    BY <2>3, <2>4
<1> QED
  BY <1>1, <1>2, <1>5, <1>6

-----------------------------------------------------------------------------
(* The steps of the reader and of app_main.                                *)

LEMMA ReaderKeeps ==
    ASSUME PInv, ReaderOpens \/ ReaderReads \/ ReaderEnds \/ ReaderFailed \/ Drain \/ GiveUp
    PROVE  PInv'
<1> USE DEF PInv
<1>1. UNCHANGED <<vars, app, same, lost>>
  BY DEF ReaderOpens, ReaderReads, ReaderEnds, ReaderFailed, Drain, GiveUp, appVars
<1>2. SameInv' /\ player' = player
  BY <1>1 DEF SameInv, vars, hardware, setup, mounting
<1>3. CASE ReaderOpens
  <2>1. /\ app = "listen" /\ ~ended /\ UNCHANGED <<ended, msg>>
        /\ el' = "running" => same
        /\ Reader!Start
    BY <1>3 DEF ReaderOpens, appVars
  <2>2. StageInv'
    BY <1>1, <1>2, <2>1, Opens DEF StageInv
  <2>3. CASE el' = "failed"
    <3>1. /\ ~isOpen /\ file' = 0
          /\ UNCHANGED <<opened, open, live, at, isOpen, bytePos, heard, fault>>
      BY <2>1, <2>3, Opens
    <3>2. ReaderInv'
      BY <2>3, <3>1 DEF ReaderInv
    <3>3. HeardInv'
      BY <1>1, <2>1, <3>1 DEF HeardInv
    <3> QED
      BY <1>2, <2>2, <3>2, <3>3
  <2>4. CASE el' = "running"
    <3>1. /\ ~isOpen /\ opened' = 1 /\ file' = 1 /\ open' = {1} /\ live' = {1}
          /\ at' = 0 /\ heard' = 0 /\ UNCHANGED <<bytePos, fault>>
          /\ isOpen' /\ isOpen' \in BOOLEAN
      BY <2>1, <2>4, Opens
    <3>2. bytePos = 0 /\ heard' \in 0 .. FileLen
      BY <3>1, FileAssumption DEF ReaderInv
    <3>3. ReaderInv'
      BY <2>4, <3>1, <3>2 DEF ReaderInv
    <3>4. HeardInv'
      BY <1>1, <2>1, <2>4, <3>1 DEF HeardInv
    <3> QED
      BY <1>2, <2>2, <3>3, <3>4
  <2> QED
    BY <2>1, <2>3, <2>4, Opens
<1>4. CASE ReaderReads
  <2>1. UNCHANGED <<ended, msg>> /\ Reader!Read
    BY <1>4 DEF ReaderReads, appVars
  <2>2. StageInv'
    BY <1>1, <1>2, <2>1, Reads DEF StageInv
  <2>3. /\ el = "running" /\ at < FileLen
        /\ at' = at + 1 /\ heard' = at + 1 /\ bytePos' = bytePos + 1
        /\ UNCHANGED <<el, vfs, opened, open, live, file, isOpen, fault>>
    BY <2>1, Reads
  <2>4. isOpen /\ at \in Nat /\ at = bytePos
    BY <2>3 DEF ReaderInv
  <2>5. at' \in Nat /\ at' \in 0 .. FileLen
    BY <2>3, <2>4, FileAssumption
  <2>6. ReaderInv'
    BY <2>3, <2>4, <2>5 DEF ReaderInv
  <2>7. HeardInv'
    BY <1>1, <2>3, <2>4 DEF HeardInv
  <2> QED
    BY <1>2, <2>2, <2>6, <2>7
<1>5. CASE ReaderEnds \/ ReaderFailed
  <2>1. /\ msg' = msg /\ ended' = TRUE /\ el \in {"running", "failed"} /\ Reader!Finish
        /\ el = "running" => at = FileLen \/ ~same \/ file \notin live
     \/ /\ msg' = msg /\ ended' = TRUE /\ el = "failed" /\ el' = "idle"
        /\ UNCHANGED <<vfs, opened, open, live, at, file, isOpen, bytePos, heard, fault>>
    BY <1>5 DEF ReaderEnds, ReaderFailed, Reader!ReadNothing, Reader!CloseFailed, Reader!LeaveFailed,
                Reader!card, Reader!handle
  <2>2. /\ el' = "idle" /\ ~isOpen' /\ isOpen' \in BOOLEAN
        /\ open' = {} /\ live' = {} /\ bytePos' = 0
        /\ UNCHANGED <<opened, at, file, heard, fault>>
    <3>1. CASE el = "failed" /\ UNCHANGED <<open, live, isOpen, bytePos>>
      BY <2>1, <3>1, Closes DEF ReaderInv
    <3>2. CASE el \in {"running", "failed"} /\ Reader!Finish
      BY <3>2, Closes
    <3> QED
      BY <2>1, <3>1, <3>2
  <2>3. StageInv'
    BY <1>1, <1>2, <2>1, <2>2 DEF StageInv
  <2>4. ReaderInv'
    BY <2>2 DEF ReaderInv
  <2>5. HeardInv'
    <3> SUFFICES ASSUME opened' > 0, ~lost' PROVE heard' = FileLen
      BY <2>2 DEF HeardInv
    <3>1. opened > 0 /\ ~lost
      BY <1>1, <2>2
    <3>2. CASE isOpen
      <4>1. same /\ file \in live /\ el = "running" /\ heard = at
        BY <3>1, <3>2 DEF HeardInv, ReaderInv
      <4> QED
        BY <2>1, <2>2, <4>1
    <3>3. CASE ~isOpen
      <4>1. el = "failed"
        BY <2>1, <3>3 DEF ReaderInv
      <4>2. ~ended /\ app \notin {"deinit", "done"}
        BY <4>1 DEF StageInv
      <4> QED
        BY <3>1, <3>3, <4>2 DEF StageInv
    <3> QED
      BY <3>2, <3>3
  <2> QED
    BY <1>2, <2>3, <2>4, <2>5
<1>6. CASE Drain \/ GiveUp
  <2>1. /\ ended \/ el = "running"
        /\ app = "listen" /\ msg' = TRUE /\ ended' = ended /\ UNCHANGED readerVars
    BY <1>6 DEF Drain, GiveUp
  <2>2. StageInv'
    BY <1>1, <1>2, <2>1 DEF ReaderInv, StageInv, readerVars
  <2>3. ReaderInv' /\ HeardInv'
    BY <1>1, <2>1 DEF ReaderInv, HeardInv, readerVars
  <2> QED
    BY <1>2, <2>2, <2>3
<1> QED
  BY <1>3, <1>4, <1>5, <1>6

\* app_main stops a reader that has not ended already: it closes its file, and is idle.
LEMMA AppKeeps ==
    ASSUME PInv, App
    PROVE  PInv'
<1> USE DEF PInv
<1>1. UNCHANGED <<card, gGpio, pc, vfs, same, lost, ended, msg>>
  BY DEF App, Mounted, SetUp, Listen, Terminate, Deinit, Goes, CardReady, Leave, vars, hardware, setup,
         mounting
<1>2. CASE Terminate /\ el = "running"
  <2>1. app' = "deinit" /\ app = "terminate" /\ player' = player /\ Reader!Finish
    BY <1>2 DEF Terminate, Reader!Stop, vars
  <2>2. /\ el' = "idle" /\ open' = {} /\ live' = {} /\ bytePos' = 0
        /\ ~isOpen' /\ isOpen' \in BOOLEAN
        /\ UNCHANGED <<vfs, opened, at, file, heard, fault>>
    BY <1>2, <2>1, Closes
  <2>3. ~ended'
    BY <1>1, <1>2 DEF StageInv
  <2>4. ReaderInv' /\ HeardInv'
    BY <1>1, <2>2, <2>3 DEF ReaderInv, HeardInv
  <2>5. StageInv'
    BY <1>1, <2>1, <2>2 DEF StageInv
  <2>6. SameInv'
    BY <1>1, <2>1 DEF SameInv
  <2> QED
    BY <2>4, <2>5, <2>6
<1>3. CASE ~(Terminate /\ el = "running")
  <2>1. UNCHANGED readerVars
    BY <1>3 DEF App, Mounted, SetUp, Listen, Terminate, Deinit, Goes
  <2>2. ReaderInv' /\ HeardInv'
    BY <1>1, <2>1 DEF ReaderInv, HeardInv, readerVars
  <2>3. StageInv' /\ (player' # "leave" => player # "leave")
    <3> USE <1>1, <2>1 DEF StageInv, readerVars
    <3>1. CASE Mounted
      BY <3>1 DEF Mounted, Goes, CardReady
    <3>2. CASE SetUp
      BY <3>2 DEF SetUp, Goes, vars
    <3>3. CASE Listen
      BY <3>3 DEF Listen, Goes, vars
    <3>4. CASE Terminate
      BY <1>3, <3>4 DEF Terminate, ReaderInv, vars
    <3>5. CASE Deinit
      BY <3>5 DEF Deinit, Goes, Leave
    <3> QED
      BY <3>1, <3>2, <3>3, <3>4, <3>5 DEF App
  <2>4. SameInv'
    BY <1>1, <2>3 DEF SameInv
  <2> QED
    BY <2>2, <2>3, <2>4
<1> QED
  BY <1>2, <1>3

-----------------------------------------------------------------------------
LEMMA PlayerInitInv == PlayerInit => PInv
<1> SUFFICES ASSUME PlayerInit PROVE PInv
  OBVIOUS
<1>1. ReaderInv
  <2>1. isOpen \in BOOLEAN /\ ~isOpen
    BY Zenon DEF PlayerInit
  <2>2. heard \in 0 .. FileLen
    BY FileAssumption DEF PlayerInit
  <2> QED
    BY <2>1, <2>2 DEF PlayerInit, ReaderInv
<1>2. StageInv
  <2>1. ~(opened > 0) /\ opened = 0
    BY DEF PlayerInit
  <2>2. ~msg /\ msg \in BOOLEAN /\ ~ended /\ ended \in BOOLEAN
    BY Zenon DEF PlayerInit
  <2>3. player = "wait" /\ app = "wait" /\ el = "idle"
    BY DEF PlayerInit, Init
  <2> QED
    BY <2>1, <2>2, <2>3 DEF StageInv
<1>3. SameInv
  <2>1. same \in BOOLEAN /\ lost \in BOOLEAN /\ ~same
    BY Zenon DEF PlayerInit
  <2> QED
    BY <2>1 DEF PlayerInit, Init, SameInv
<1>4. HeardInv
  BY DEF PlayerInit, HeardInv
<1> QED
  BY <1>1, <1>2, <1>3, <1>4 DEF PInv

LEMMA PlayerNextInv == TypeOK /\ PInv /\ [PlayerNext]_playerVars => PInv'
<1> SUFFICES ASSUME TypeOK, PInv, [PlayerNext]_playerVars PROVE PInv'
  OBVIOUS
<1>1. CASE UNCHANGED playerVars
  BY <1>1 DEF PInv, ReaderInv, StageInv, SameInv, HeardInv, playerVars, vars, readerVars, appVars,
              hardware, setup, mounting
<1> QED
  BY <1>1, CardKeeps, ReaderKeeps, AppKeeps DEF PlayerNext

LEMMA PlayerInvariance == PlayerSpec => []PInv
<1>1. PlayerSpec => []TypeOK
  BY CardInPlayer, TypeCorrect, PTL
<1> QED
  BY <1>1, PlayerInitInv, PlayerNextInv, PTL DEF PlayerSpec

-----------------------------------------------------------------------------
(* What holds of every player.                                             *)

\* The variables of the reader and of app_main keep their types.
THEOREM PlayerTypeCorrect == PlayerSpec => []PlayerTypeOK
<1>1. TypeOK /\ PInv => Reader!TypeOK
  <2> SUFFICES ASSUME TypeOK, ReaderInv, SameInv PROVE Reader!TypeOK
    BY DEF PInv
  <2>1. [type |-> "reader", wType |-> "other", uri |-> "other"] \in Reader!Streams
    BY DEF Reader!Streams, Reader!Uris
  <2>2. open \subseteq Reader!Files /\ opened \in 0 .. 1
    BY DEF ReaderInv, Reader!Files
  <2>3. file \in Reader!Files \union {Reader!NULL}
    BY DEF ReaderInv, Reader!Files, Reader!NULL
  <2>4. <<>> \in Seq(Nat) /\ 0 \in Nat /\ {} \subseteq Reader!Files
    OBVIOUS
  <2>5. (~TRUE) \in BOOLEAN /\ (fault = {} => fault \subseteq {"refused", "running", "failed"})
    BY Zenon
  <2>6. /\ el \in {"idle", "running", "paused", "failed"}
        /\ live \subseteq open /\ at \in Nat /\ bytePos \in Nat /\ heard \in 0 .. FileLen
        /\ isOpen \in BOOLEAN /\ fault = {}
    BY DEF ReaderInv
  <2>7. vfs \in BOOLEAN
    BY DEF TypeOK
  <2> QED
    BY <2>1, <2>2, <2>3, <2>4, <2>5, <2>6, <2>7, Zenon DEF Reader!TypeOK
<1>2. PInv /\ TypeOK => PlayerTypeOK
  BY <1>1 DEF PInv, StageInv, SameInv, PlayerTypeOK
<1>3. PlayerSpec => []TypeOK
  BY CardInPlayer, TypeCorrect, PTL
<1> QED
  BY <1>2, <1>3, PlayerInvariance, PTL

\* esp_periph_destroy unmounts the card when the reader has no FILE open any more, wherever
\* the removal of the card, the end of the file and its error find the reader.
THEOREM NoFileAtUnmount == PlayerSpec => []ClosedBeforeUnmount
<1>1. PInv => ClosedBeforeUnmount
  BY DEF PInv, ReaderInv, StageInv, ClosedBeforeUnmount
<1> QED
  BY <1>1, PlayerInvariance, PTL

\* A file whose card stays while it is open is read to its end, if the decoder lets it,
\* whatever the card and the peripheral did before.
THEOREM HeardToItsEnd == PlayerSpec => []PlayedToEnd
<1>1. PInv => PlayedToEnd
  BY DEF PInv, ReaderInv, StageInv, HeardInv, PlayedToEnd
<1> QED
  BY <1>1, PlayerInvariance, PTL

\* The peripheral's flag and last event agree with the file system under a player, too.
THEOREM PlayerFlagIsRight == PlayerSpec => [](FlagTracksFileSystem /\ NoUnmountError)
BY CardInPlayer, FlagIsRight, UnmountSucceeds, PTL

-----------------------------------------------------------------------------
(* The reader in the player is the reader of FatfsStream, whose file       *)
(* system the peripheral of SdCard mounts and unmounts.                    *)

LEMMA ReaderStep ==
    ASSUME TypeOK, PInv, [PlayerNext]_playerVars
    PROVE  [Reader!Next]_(Reader!vars)
<1> USE DEF PInv, Reader!vars, Reader!element, Reader!card, Reader!handle, Reader!recording,
            Reader!history
<1>1. CASE CardStep
  <2>1. UNCHANGED <<el, opened, open, at, file, isOpen, bytePos, heard, fault>>
    BY <1>1, CardOnly
  <2>2. CASE vfs /\ ~vfs'
    <3>1. live' = {}
      BY <1>1, <2>2 DEF CardStep
    <3>4. vfs' = FALSE
      <4>1. vfs' \in BOOLEAN
        BY <1>1, <2>2, NextType DEF CardStep, Next, TypeOK
      <4> QED
        BY <2>2, <4>1
    <3> QED
      BY <2>1, <2>2, <3>1, <3>4 DEF Reader!Next, Reader!Unmount
  <2>3. CASE ~vfs /\ vfs'
    <3>1. live' = live
      BY <1>1, <2>3 DEF CardStep
    <3>2. vfs' = TRUE
      <4>1. vfs' \in BOOLEAN
        BY <1>1, NextType DEF CardStep, Next, TypeOK
      <4> QED
        BY <2>3, <4>1
    <3> QED
      BY <2>1, <2>3, <3>1, <3>2 DEF Reader!Next, Reader!Mount
  <2>4. CASE vfs <=> vfs'
    <3>1. live' = live
      BY <1>1, <2>4 DEF CardStep
    <3>2. vfs' = vfs
      <4>1. vfs' \in BOOLEAN /\ vfs \in BOOLEAN
        BY <1>1, NextType DEF CardStep, Next, TypeOK
      <4> QED
        BY <2>4, <4>1
    <3> QED
      BY <2>1, <3>1, <3>2
  <2> QED
    BY <2>2, <2>3, <2>4
<1>2. CASE ReaderOpens \/ ReaderReads \/ ReaderEnds \/ ReaderFailed
  BY <1>2 DEF ReaderOpens, ReaderReads, ReaderEnds, ReaderFailed, Reader!Next
<1>3. CASE Drain \/ GiveUp \/ UNCHANGED playerVars
  BY <1>3 DEF Drain, GiveUp, playerVars, vars, mounting, readerVars
<1>4. CASE App
  <2>1. CASE Terminate /\ el = "running"
    BY <2>1 DEF Terminate, Reader!Next
  <2>2. CASE ~(Terminate /\ el = "running")
    <3>1. UNCHANGED <<vfs, readerVars>>
      BY <1>4, <2>2 DEF App, Mounted, SetUp, Listen, Terminate, Deinit, Goes, CardReady, Leave, vars,
                        mounting
    <3> QED
      BY <3>1 DEF readerVars
  <2> QED
    BY <2>1, <2>2
<1> QED
  BY <1>1, <1>2, <1>3, <1>4 DEF PlayerNext

\* The reader of a player is FatfsStream's, with the peripheral for its file system: the
\* player mounts and unmounts under it no way that FatfsStream does not allow for.
THEOREM ReaderInPlayer == PlayerSpec => Reader!Spec
<1>1. PlayerInit => Reader!Init
  <2> SUFFICES ASSUME PlayerInit PROVE Reader!Init
    OBVIOUS
  <2>1. [type |-> "reader", wType |-> "other", uri |-> "other"] \in Reader!Streams
    BY DEF Reader!Streams, Reader!Uris
  <2>2. vfs \in BOOLEAN
    BY DEF PlayerInit, Init
  <2> QED
    BY <2>1, <2>2 DEF PlayerInit, Reader!Init, Reader!NULL
<1>2. TypeOK /\ PInv /\ [PlayerNext]_playerVars => [Reader!Next]_(Reader!vars)
  BY ReaderStep
<1>3. PlayerSpec => []TypeOK
  BY CardInPlayer, TypeCorrect, PTL
<1> QED
  BY <1>1, <1>2, <1>3, PlayerInvariance, PTL DEF PlayerSpec, Reader!Spec

\* What is heard from a player is the file of FilePlayback, each buffer once and in order
\* from the first, while the card and app_main do what they like.
THEOREM PlayerPlaysFile == PlayerSpec => Reader!PlaybackSpec
<1>1. PlayerInit => Reader!Playback!Init
  BY DEF PlayerInit, Reader!Playback!Init
<1>2. TypeOK /\ PInv /\ [PlayerNext]_playerVars =>
        [Reader!Playback!Next]_<<IF el = "running" THEN "playing" ELSE IF ~TRUE THEN "held" ELSE "quiet",
                                 heard>>
  <2> SUFFICES ASSUME TypeOK, PInv, [PlayerNext]_playerVars
               PROVE  \/ /\ el # "running" /\ el' = "running" /\ heard' = 0
                      \/ /\ el = "running" /\ el' = "running" /\ heard < FileLen
                         /\ heard' = heard + 1
                      \/ /\ el' # "running" /\ heard' = heard
                      \/ UNCHANGED <<el, heard>>
    BY DEF Reader!Playback!Next, Reader!Playback!Begin, Reader!Playback!Deliver, Reader!Playback!End
  <2> USE DEF PInv
  <2>1. CASE CardStep
    BY <2>1, CardOnly
  <2>2. CASE ReaderOpens
    BY <2>2, Opens DEF ReaderOpens
  <2>3. CASE ReaderReads
    BY <2>3, Reads DEF ReaderReads, ReaderInv
  <2>4. CASE ReaderEnds \/ ReaderFailed
    <3>1. (Reader!Finish /\ el \in {"running", "failed"}) \/ (el' = "idle" /\ heard' = heard)
      BY <2>4 DEF ReaderEnds, ReaderFailed, Reader!ReadNothing, Reader!CloseFailed, Reader!LeaveFailed
    <3> QED
      BY <3>1, Closes
  <2>5. CASE Drain \/ GiveUp \/ UNCHANGED playerVars
    BY <2>5 DEF Drain, GiveUp, playerVars, readerVars
  <2>6. CASE App
    <3>1. CASE Terminate /\ el = "running"
      BY <3>1, Closes DEF Terminate, Reader!Stop
    <3>2. CASE ~(Terminate /\ el = "running")
      BY <2>6, <3>2 DEF App, Mounted, SetUp, Listen, Terminate, Deinit, Goes, readerVars
    <3> QED
      BY <3>1, <3>2
  <2> QED
    BY <2>1, <2>2, <2>3, <2>4, <2>5, <2>6 DEF PlayerNext
<1>3. PlayerSpec => []TypeOK
  BY CardInPlayer, TypeCorrect, PTL
<1> QED
  BY <1>1, <1>2, <1>3, PlayerInvariance, PTL DEF PlayerSpec, Reader!PlaybackSpec, Reader!Playback!Spec
==============================================================================
