------------------------------- MODULE SdCard -------------------------------
(***************************************************************************)
(* The SD card peripheral (periph_sdcard.c over sdcard.c) and a player     *)
(* that waits for the card.  The peripheral task runs _sdcard_init,        *)
(* _sdcard_run and _sdcard_destroy; the card's detect pin interrupts it at *)
(* any point, and a timer asks it once a second to look at the pin.        *)
(***************************************************************************)
EXTENDS Naturals

CONSTANTS PinWired,   \* BOOLEAN: card_detect_pin is the pin of the card's switch
          MountFails, \* BOOLEAN: mounting a card that is present may fail
          MaxMoves,   \* bound: insertions and removals
          QueueSize   \* commands the peripheral's queue holds

ASSUME SwitchAssumption == PinWired \in BOOLEAN /\ MountFails \in BOOLEAN
ASSUME BoundAssumption == MaxMoves \in Nat /\ QueueSize \in Nat \ {0}

VARIABLES card,       \* the card is in its slot
          moves,      \* how often it was inserted or removed
          irq,        \* an edge of the pin awaits its handler
          isr,        \* the handler is installed
          gGpio,      \* g_gpio is the pin, not -1
          pc,         \* next step of the peripheral task
          timer,      \* the 1 s timer runs
          cmds,       \* CARD_DETECT_CHANGE commands queued
          vfs,        \* the file system is mounted (esp_vfs_fat)
          isMounted,  \* sdcard->is_mounted
          event,      \* last event sent
          player      \* "wait" for the card, "play", "leave"

hardware == <<card, moves, irq>>
setup == <<isr, gGpio, timer>>
mounting == <<vfs, isMounted, event>>
vars == <<hardware, setup, pc, cmds, mounting, player>>

Init == /\ card \in BOOLEAN /\ moves = 0 /\ irq = FALSE
        /\ isr = FALSE /\ gGpio = FALSE /\ timer = FALSE
        /\ pc = "init" /\ cmds = 0
        /\ vfs = FALSE /\ isMounted = FALSE /\ event = "none"
        /\ player = "wait"

\* The pin is pulled up; the card's switch grounds it.
PinLow == PinWired /\ card

SdcardIsExist == gGpio /\ PinLow

\* esp_periph_send_cmd: lost when the queue is full.
SendCmd == cmds' = IF cmds < QueueSize THEN cmds + 1 ELSE cmds

Goto(from, to) == pc = from /\ pc' = to

-----------------------------------------------------------------------------
(* The card, the interrupt, the timer.                                     *)

MoveCard == /\ moves < MaxMoves
            /\ card' = ~card /\ moves' = moves + 1
            /\ irq' = (irq \/ (PinWired /\ isr))
            /\ UNCHANGED <<setup, pc, cmds, mounting, player>>

\* sdcard_gpio_intr_handler
Interrupt == /\ irq
             /\ irq' = FALSE
             /\ IF SdcardIsExist # isMounted THEN SendCmd ELSE UNCHANGED cmds
             /\ UNCHANGED <<card, moves, setup, pc, mounting, player>>

\* sdcard_timer_handler
Tick == /\ timer
        /\ SendCmd
        /\ UNCHANGED <<hardware, setup, pc, mounting, player>>

-----------------------------------------------------------------------------
(* _sdcard_init: sdcard_init enables the interrupt before it sets g_gpio.  *)

\* gpio_isr_handler_add fails, unnoticed, where no one has installed the ISR service.
EnableInterrupt == /\ Goto("init", "setGpio")
                   /\ isr' \in BOOLEAN
                   /\ UNCHANGED <<hardware, gGpio, timer, cmds, mounting, player>>

SetGpio == /\ Goto("setGpio", "firstLook")
           /\ gGpio' = TRUE
           /\ UNCHANGED <<hardware, isr, timer, cmds, mounting, player>>

FirstLook == /\ Goto("firstLook", IF SdcardIsExist THEN "mount" ELSE "startTimer")
             /\ UNCHANGED <<hardware, setup, cmds, mounting, player>>

\* Mutant: no timer.
StartTimer_Missing == /\ Goto("startTimer", "idle")
                      /\ UNCHANGED <<hardware, setup, cmds, mounting, player>>

StartTimer == /\ Goto("startTimer", "idle")
              /\ timer' = TRUE
              /\ UNCHANGED <<hardware, isr, gGpio, cmds, mounting, player>>

-----------------------------------------------------------------------------
(* _sdcard_run: the pin is read twice, and may change before it is acted   *)
(* upon.                                                                   *)

\* Mutant: it does not wait for a command.
Look_Unasked == /\ Goto("idle", IF SdcardIsExist /\ ~isMounted THEN "mount" ELSE "lookAgain")
                /\ cmds' = cmds - 1
                /\ UNCHANGED <<hardware, setup, mounting, player>>

Look == /\ cmds > 0
        /\ Goto("idle", IF SdcardIsExist /\ ~isMounted THEN "mount" ELSE "lookAgain")
        /\ cmds' = cmds - 1
        /\ UNCHANGED <<hardware, setup, mounting, player>>

\* Mutant: is_mounted is not asked.
LookAgain_PinOnly == /\ Goto("lookAgain", IF ~SdcardIsExist THEN "unmount" ELSE "idle")
                     /\ UNCHANGED <<hardware, setup, cmds, mounting, player>>

\* Mutant: the pin is not read again.
LookAgain_FlagOnly == /\ Goto("lookAgain", IF isMounted THEN "unmount" ELSE "idle")
                      /\ UNCHANGED <<hardware, setup, cmds, mounting, player>>

LookAgain == /\ Goto("lookAgain", IF ~SdcardIsExist /\ isMounted THEN "unmount" ELSE "idle")
             /\ UNCHANGED <<hardware, setup, cmds, mounting, player>>

\* To the rest of _sdcard_init or of the task's loop.
Done == IF timer THEN "idle" ELSE "startTimer"

\* sdcard_mount, called by periph_sdcard_mount: esp_vfs_fat_sdmmc_mount, whose
\* ESP_ERR_INVALID_STATE on a mounted file system changes nothing.
Mount == IF vfs THEN Goto("mount", Done) /\ UNCHANGED mounting
         ELSE \/ /\ card
                 /\ Goto("mount", "setMounted")
                 /\ vfs' = TRUE
                 /\ UNCHANGED <<isMounted, event>>
              \/ /\ MountFails \/ ~card
                 /\ Goto("mount", Done)
                 /\ event' = "MOUNT_ERROR" /\ isMounted' = FALSE
                 /\ UNCHANGED vfs

SetMounted == /\ Goto("setMounted", Done)
              /\ isMounted' = TRUE /\ event' = "MOUNTED"
              /\ UNCHANGED vfs

\* sdcard_unmount, called by periph_sdcard_unmount.
Unmount == /\ Goto("unmount", IF vfs THEN "setUnmounted" ELSE Done)
           /\ vfs' = FALSE
           /\ IF vfs THEN UNCHANGED <<isMounted, event>>
              ELSE isMounted' = FALSE /\ event' = "UNMOUNT_ERROR"

\* Mutant: the flag stays.
SetUnmounted_FlagStays == /\ Goto("setUnmounted", Done)
                          /\ event' = "UNMOUNTED"
                          /\ UNCHANGED <<vfs, isMounted>>

SetUnmounted == /\ Goto("setUnmounted", Done)
                /\ isMounted' = FALSE /\ event' = "UNMOUNTED"
                /\ UNCHANGED vfs

-----------------------------------------------------------------------------
(* _sdcard_destroy, by esp_periph_destroy, which stops the timer first.    *)

DestroyUnmount == /\ player = "leave"
                  /\ Goto("idle", "removeIsr")
                  /\ timer' = FALSE /\ vfs' = FALSE
                  /\ UNCHANGED <<hardware, isr, gGpio, cmds, isMounted, event, player>>

\* sdcard_destroy; g_gpio stays.
RemoveIsr == /\ Goto("removeIsr", "freed")
             /\ isr' = FALSE /\ irq' = FALSE
             /\ UNCHANGED <<card, moves, gGpio, timer, cmds, mounting, player>>

-----------------------------------------------------------------------------
(* The player: it waits for the card, plays and destroys the peripherals.  *)

CardReady == /\ player = "wait" /\ isMounted
             /\ player' = "play"
             /\ UNCHANGED <<hardware, setup, pc, cmds, mounting>>

Leave == /\ player = "play"
         /\ player' = "leave"
         /\ UNCHANGED <<hardware, setup, pc, cmds, mounting>>

-----------------------------------------------------------------------------
Periph == \/ EnableInterrupt \/ SetGpio \/ FirstLook \/ StartTimer
          \/ Look \/ LookAgain
          \/ (Mount \/ SetMounted \/ Unmount \/ SetUnmounted)
               /\ UNCHANGED <<hardware, setup, cmds, player>>
          \/ DestroyUnmount \/ RemoveIsr

\* The task waits for a command, or is gone.
Waits == /\ \/ pc = "idle" /\ cmds = 0
            \/ pc = "freed"
         /\ UNCHANGED vars

Next == MoveCard \/ Interrupt \/ Tick \/ Periph \/ CardReady \/ Leave \/ Waits

Spec == Init /\ [][Next]_vars

\* Tasks, timer and interrupts run; a card that is present mounts in the end.
FairSpec == /\ Spec
            /\ WF_vars(Periph) /\ WF_vars(Interrupt) /\ WF_vars(Tick) /\ WF_vars(CardReady)
            /\ SF_vars(Mount /\ vfs' /\ UNCHANGED <<hardware, setup, cmds, player>>)
            /\ SF_vars(Look) /\ SF_vars(DestroyUnmount)

-----------------------------------------------------------------------------
TypeOK ==
    /\ card \in BOOLEAN /\ moves \in 0 .. MaxMoves /\ irq \in BOOLEAN
    /\ isr \in BOOLEAN /\ gGpio \in BOOLEAN /\ timer \in BOOLEAN
    /\ pc \in {"init", "setGpio", "firstLook", "startTimer", "idle", "lookAgain", "mount",
               "setMounted", "unmount", "setUnmounted", "removeIsr", "freed"}
    /\ cmds \in 0 .. QueueSize
    /\ vfs \in BOOLEAN /\ isMounted \in BOOLEAN
    /\ event \in {"none", "MOUNTED", "UNMOUNTED", "MOUNT_ERROR", "UNMOUNT_ERROR"}
    /\ player \in {"wait", "play", "leave"}

\* Whenever the peripheral task is not in the middle of a mount, the file system is
\* mounted exactly when is_mounted says so and when the last event said so, so that
\* mount and unmount find it as they expect; however the card bounces meanwhile.
FlagTracksFileSystem ==
    pc \notin {"setMounted", "setUnmounted", "removeIsr", "freed"}
        => (isMounted <=> vfs) /\ (isMounted <=> event = "MOUNTED")

\* The event of a failed unmount is never sent: no stale look at pin and flag leads
\* to it.
NoUnmountError == event # "UNMOUNT_ERROR"

\* A card that stays is mounted, and a card that is gone unmounted: an edge that
\* the handler does not see, or sees in the middle of a mount, is made up for by
\* the timer.
CardFollowed ==
    /\ <>[](card /\ player # "leave") => <>[]isMounted
    /\ <>[](~card /\ player # "leave") => <>[]~isMounted

\* play-mp3-bt-src.c, "Wait until sdcard was mounted": with a card in the slot the
\* waiting ends.
WaitEnds == [](card => <>(player # "wait" \/ ~card))
==============================================================================
