----------------------------- MODULE FatfsStream -----------------------------
(***************************************************************************)
(* The FAT file stream (fatfs_stream.c): an audio element that plays a     *)
(* file or records one.  Its callbacks run in the element's task, which    *)
(* starts, pauses and stops it; meanwhile the file system may come and go. *)
(***************************************************************************)
EXTENDS Naturals, FiniteSets, Sequences

CONSTANTS FileLen,  \* buffers in the file that is played
          MaxFiles, \* FILEs a file system opens at a time
          MaxOpens, \* bound: how often the element is started or resumed
          MaxChunks \* bound: buffers recorded from one start to the next

ASSUME BoundAssumption == /\ FileLen \in Nat /\ MaxFiles \in Nat \ {0}
                          /\ MaxOpens \in Nat /\ MaxChunks \in Nat

VARIABLES stream,    \* fatfs->type and ->w_type; the element's uri, read at every open
          el,        \* the element: "idle", "running", "paused", "failed" to open
          mounted,   \* a file system is mounted
          opened,    \* how many FILEs were opened: they are numbered
          open,      \* the FILEs not closed
          live,      \* those whose file system is still mounted
          at,        \* position of the FILE opened last
          file,      \* fatfs->file, NULL before the first fopen and after a failed one
          isOpen,    \* fatfs->is_open
          bytePos,   \* info.byte_pos, in buffers
          header,    \* the size in the header of the recording
          data,      \* what follows the header: numbers of buffers, 0 for a gap
          heard,     \* history: last buffer delivered
          held,      \* history: paused, and neither closed nor resumed since
          leaked,    \* history: FILEs whose seek failed
          abandoned, \* history: left with is_open set and no close to come
          whole,     \* history: a WAV, recorded without a pause and a lost file system
          fault      \* history: when a FILE was used after it was closed

element == <<stream, el>>
card == <<mounted, opened, open, live, at>>
handle == <<file, isOpen, bytePos>>
recording == <<header, data>>
history == <<heard, held, leaked, abandoned, whole, fault>>
vars == <<element, card, handle, recording, history>>

NULL == 0
Files == 1 .. MaxOpens
WTypes == {"wav", "amr", "other"}

\* What a uri is to _fatfs_open: a path of a type, or nothing it can use, because it is
\* not set or has no /sdcard in it.  A reader does not look at the type.
Uris(type) == {"none"} \union IF type = "reader" THEN {"other"} ELSE WTypes
Streams == [type : {"reader"}, wType : {"other"}, uri : Uris("reader")]
           \union [type : {"writer"}, wType : WTypes, uri : Uris("writer")]

Reader == stream.type = "reader"
Wav == stream.type = "writer" /\ stream.wType = "wav"
Usable == stream.uri # "none"
HeaderLen(wType) == IF wType = "other" THEN 0 ELSE 1

Init == /\ stream \in {s \in Streams : s.wType = "other"} /\ el = "idle" /\ mounted \in BOOLEAN
        /\ opened = 0 /\ open = {} /\ live = {} /\ at = 0
        /\ file = NULL /\ isOpen = FALSE /\ bytePos = 0
        /\ header = 0 /\ data = <<>>
        /\ heard = 0 /\ held = FALSE /\ leaked = {} /\ abandoned = FALSE
        /\ whole = FALSE /\ fault = {}

\* audio_element_set_uri, called by the player while the element is at rest.
SetUri == /\ el = "idle"
          /\ \E u \in Uris(stream.type) : stream' = [stream EXCEPT !.uri = u]
          /\ UNCHANGED <<el, card, handle, recording, history>>

-----------------------------------------------------------------------------
(* _fatfs_open                                                             *)

\* No uri, no /sdcard in it, or "already opened".
OpenRefused == /\ ~Usable \/ isOpen
               /\ el' = "failed"
               /\ UNCHANGED <<stream, card, handle, recording, history>>

\* fatfs->w_type is the path's as soon as the writer tried to open it.
SetType == stream' = IF Reader THEN stream ELSE [stream EXCEPT !.wType = stream.uri]

\* What fopen does when it succeeds: "w+" truncates, a new header counts nothing.
Fopen == /\ Usable /\ ~isOpen
         /\ mounted /\ Cardinality(live) < MaxFiles /\ opened < MaxOpens
         /\ opened' = opened + 1 /\ file' = opened + 1
         /\ open' = open \union {opened + 1} /\ live' = live \union {opened + 1}
         /\ IF Reader THEN UNCHANGED recording ELSE header' = 0 /\ data' = <<>>
         /\ whole' = (stream.type = "writer" /\ stream.uri = "wav" /\ bytePos = 0)
         /\ SetType
         /\ UNCHANGED <<mounted, bytePos, abandoned, fault>>

\* Mutant: fatfs->file is only set if the file opens.
FopenFails_KeepsFile == /\ Usable /\ ~isOpen
                        /\ el' = "failed" /\ SetType
                        /\ UNCHANGED <<card, handle, recording, history>>

FopenFails == /\ Usable /\ ~isOpen
              /\ file' = NULL /\ el' = "failed" /\ SetType
              /\ UNCHANGED <<card, isOpen, bytePos, recording, history>>

\* The reader's first seek fails: the FILE is forgotten.
SeekFails == /\ Fopen
             /\ Reader /\ bytePos > 0
             /\ leaked' = leaked \union {file'}
             /\ at' = 0 /\ el' = "failed"
             /\ UNCHANGED <<isOpen, heard, held>>

\* The seek at the end of _fatfs_open fails: is_open is already set.
LastSeekFails == /\ Fopen
                 /\ bytePos > 0
                 /\ isOpen' = TRUE
                 /\ at' = 0 /\ el' = "failed"
                 /\ UNCHANGED <<heard, held, leaked>>

\* What all ends well with; a play that is not held begins anew.
Ready == /\ Fopen
         /\ isOpen' = TRUE /\ el' = "running"
         /\ heard' = (IF held THEN heard ELSE 0) /\ held' = FALSE
         /\ UNCHANGED leaked

StartOf == IF Reader THEN 0 ELSE HeaderLen(stream.uri)

\* Mutant: it does not seek.
Opened_NoSeek == Ready /\ at' = StartOf

Opened == Ready /\ at' = IF bytePos > 0 THEN bytePos ELSE StartOf

\* audio_element_run and _resume.
Start == /\ el \in {"idle", "paused"}
         /\ OpenRefused \/ FopenFails \/ SeekFails \/ LastSeekFails \/ Opened

-----------------------------------------------------------------------------
(* _fatfs_close                                                            *)

\* Mutant: is_open stays.
Fclose_FlagStays == /\ IF isOpen THEN open' = open \ {file} /\ live' = live \ {file}
                                 ELSE UNCHANGED <<open, live>>
                    /\ UNCHANGED isOpen

\* fclose, if is_open says so.
Fclose == /\ IF isOpen THEN open' = open \ {file} /\ live' = live \ {file}
                       ELSE UNCHANGED <<open, live>>
          /\ isOpen' = FALSE

\* When a FILE is used: in this state of the element, or after an open refused for its uri.
When == IF el = "failed" /\ ~Usable THEN "refused" ELSE el

\* The header of a recording is written at every close, on whatever fatfs->file is.
WriteHeader == /\ header' = IF Wav /\ file \in live THEN bytePos ELSE header
               /\ fault' = IF ((Wav /\ file # NULL) \/ isOpen) /\ file \notin open
                           THEN fault \union {When} ELSE fault

Close(paused) == /\ bytePos' = IF paused THEN bytePos ELSE 0
                 /\ held' = paused
                 /\ abandoned' = FALSE
                 /\ Fclose /\ WriteHeader
                 /\ UNCHANGED <<stream, mounted, opened, at, file, data, heard, leaked, whole>>

\* The early return: no memory for the header.
CloseFails == /\ Wav /\ file # NULL
              /\ abandoned' = isOpen
              /\ UNCHANGED <<stream, card, handle, recording, heard, held, leaked, whole, fault>>

\* What the element does at the end of a file, on an error and on a stop.
Finish == /\ el' = "idle"
          /\ Close(FALSE) \/ CloseFails

Stop == el = "running" /\ Finish

\* A paused element was closed before, and is not closed again: byte_pos keeps the place,
\* and the next run, of whatever uri, begins there.
StopPaused == /\ el = "paused" /\ el' = "idle"
              /\ UNCHANGED <<stream, card, handle, recording, history>>

Pause == /\ el = "running" /\ el' = "paused"
         /\ Close(TRUE) \/ CloseFails

\* An element that failed to open is closed, or is not: ESP-ADF decides.
CloseFailed == el = "failed" /\ Finish

LeaveFailed == /\ el = "failed" /\ el' = "idle"
               /\ abandoned' = isOpen
               /\ UNCHANGED <<stream, card, handle, recording, heard, held, leaked, whole, fault>>

-----------------------------------------------------------------------------
(* _fatfs_process with _fatfs_read or _fatfs_write                         *)

Uses == fault' = IF file \notin open THEN fault \union {When} ELSE fault

\* Mutant: the end of the file is not noticed.
Read_PastEnd == /\ el = "running" /\ Reader
                /\ file \in live
                /\ at' = at + 1 /\ heard' = at + 1 /\ bytePos' = bytePos + 1
                /\ Uses
                /\ UNCHANGED <<element, mounted, opened, open, live, file, isOpen, recording,
                               held, leaked, abandoned, whole>>

Read == /\ el = "running" /\ Reader
        /\ file \in live /\ at < FileLen
        /\ at' = at + 1 /\ heard' = at + 1 /\ bytePos' = bytePos + 1
        /\ Uses
        /\ UNCHANGED <<element, mounted, opened, open, live, file, isOpen, recording,
                       held, leaked, abandoned, whole>>

\* Mutant: after an error it tries again.
ReadNothing_Retries == el = "running" /\ Reader /\ at = FileLen /\ Finish

\* fread returns 0 at the end of the file and, no less, on an error.
ReadNothing == el = "running" /\ Reader /\ Finish

\* Data d with a buffer written behind the first n; what was not there is a gap.
PutAt(d, n, buffer) == [i \in 1 .. n |-> IF i <= Len(d) THEN d[i] ELSE 0] \o <<buffer>>

\* Mutant: the position is not counted.
Write_Uncounted == /\ el = "running" /\ ~Reader
                   /\ file \in live /\ Len(data) < MaxChunks
                   /\ data' = PutAt(data, at - HeaderLen(stream.wType), bytePos + 1)
                   /\ at' = at + 1
                   /\ Uses
                   /\ UNCHANGED <<element, mounted, opened, open, live, handle, header,
                                  heard, held, leaked, abandoned, whole>>

Write == /\ el = "running" /\ ~Reader
         /\ file \in live /\ Len(data) < MaxChunks
         /\ data' = PutAt(data, at - HeaderLen(stream.wType), bytePos + 1)
         /\ at' = at + 1 /\ bytePos' = bytePos + 1
         /\ Uses
         /\ UNCHANGED <<element, mounted, opened, open, live, file, isOpen, header,
                        heard, held, leaked, abandoned, whole>>

\* fwrite returns 0: the card is full or gone.
WriteNothing == el = "running" /\ ~Reader /\ Finish

-----------------------------------------------------------------------------
(* The file system: FILEs opened on it fail once it is unmounted.          *)

Mount == /\ ~mounted /\ mounted' = TRUE
         /\ UNCHANGED <<element, opened, open, live, at, handle, recording, history>>

Unmount == /\ mounted /\ mounted' = FALSE
           /\ live' = {}
           /\ whole' = (whole /\ ~(isOpen /\ file \in live))
           /\ UNCHANGED <<element, opened, open, at, handle, recording,
                          heard, held, leaked, abandoned, fault>>

-----------------------------------------------------------------------------
Next == \/ SetUri \/ Start \/ Stop \/ StopPaused \/ Pause \/ CloseFailed \/ LeaveFailed
        \/ Read \/ ReadNothing \/ Write \/ WriteNothing
        \/ Mount \/ Unmount

Spec == Init /\ [][Next]_vars

-----------------------------------------------------------------------------
TypeOK ==
    /\ stream \in Streams /\ el \in {"idle", "running", "paused", "failed"}
    /\ mounted \in BOOLEAN /\ opened \in 0 .. MaxOpens
    /\ open \subseteq Files /\ live \subseteq open /\ at \in Nat
    /\ file \in Files \union {NULL} /\ isOpen \in BOOLEAN /\ bytePos \in Nat
    /\ header \in Nat /\ data \in Seq(Nat)
    /\ heard \in 0 .. FileLen /\ held \in BOOLEAN /\ leaked \subseteq Files
    /\ abandoned \in BOOLEAN /\ whole \in BOOLEAN /\ fault \subseteq {"refused", "running", "failed"}

\* fclose leaves fatfs->file pointing at the FILE it freed, and close writes the header to
\* it without asking is_open; yet no FILE is ever used after it was closed, but by one
\* close: that of a recorder whose open was refused for its uri, and which had recorded
\* before.  A reader never does.
NoStaleFile == fault \subseteq (IF Reader THEN {} ELSE {"refused"})

\* Every FILE is accounted for: it is the stream's, as is_open says, or one of those a
\* failed seek forgot; and a stream at rest holds none unless its close was skipped.
FilesAccounted ==
    /\ open = leaked \union (IF isOpen THEN {file} ELSE {})
    /\ el = "running" => isOpen
    /\ el \in {"idle", "paused"} /\ isOpen => abandoned

\* A recording made in one go on a card that stayed, once closed, has in its header the
\* number of buffers that follow, and they follow in order without a gap, although the
\* header is written from the element's info and the buffers at the FILE's position.
\* Unless a closed FILE was written to: what that overwrites is anyone's guess.
RecordingSound ==
    whole /\ ~isOpen /\ fault = {} => header = Len(data) /\ \A i \in DOMAIN data : data[i] = i

\* What is heard is the file from its first buffer on, each buffer once, and after a
\* pause, which closes the file, it goes on where it was.
Playback == INSTANCE FilePlayback
            WITH phase <- IF el = "running" THEN "playing" ELSE IF held THEN "held" ELSE "quiet",
                 heard <- heard
PlaybackSpec == Playback!Spec
==============================================================================
