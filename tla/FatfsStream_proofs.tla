-------------------------- MODULE FatfsStream_proofs --------------------------
(***************************************************************************)
(* Theorems about FatfsStream and their proofs.                            *)
(***************************************************************************)
EXTENDS FatfsStream, TLAPS

\* Numbers are given out once; a writer forgets none; whenever close may come, fatfs->file
\* is NULL or open, if the header is to be written to it, unless the open that failed was
\* refused for its uri.
HandleInv ==
    /\ opened \in Nat
    /\ open \subseteq 1 .. opened /\ leaked \subseteq 1 .. opened
    /\ file \in 0 .. opened
    /\ isOpen => file \notin leaked
    /\ ~Reader => leaked = {}
    /\ el = "failed" /\ Wav /\ Usable => file = NULL \/ isOpen
    /\ ~Reader /\ el = "running" => at >= HeaderLen(stream.wType)
    /\ NoStaleFile

\* Info, FILE and ear agree on the position of a reader.
PlayInv ==
    Reader => /\ el = "running" => at = bytePos /\ at = heard
              /\ el # "running" => bytePos = IF held THEN heard ELSE 0

\* A recording under way: what is counted is what is there.
RecordInv ==
    whole /\ isOpen => /\ Wav /\ file \in live
                       /\ Len(data) = bytePos /\ at = bytePos + 1
                       /\ \A i \in 1 .. Len(data) : data[i] = i

IInv == TypeOK /\ HandleInv /\ FilesAccounted /\ PlayInv /\ RecordInv /\ RecordingSound

-----------------------------------------------------------------------------
LEMMA Start_Inv == Init => IInv
  <1> SUFFICES ASSUME Init PROVE IInv
    OBVIOUS
  <1>1. stream \in Streams
    BY DEF Init
  <1>0. <<>> \in Seq(Nat)
    OBVIOUS
  <1>2. TypeOK
    <2>1. data \in Seq(Nat)
      BY <1>0 DEF Init
    <2>2. heard \in 0 .. FileLen /\ opened \in 0 .. MaxOpens
      BY BoundAssumption DEF Init
    <2> QED
      BY <1>1, <2>1, <2>2 DEF Init, TypeOK
  <1>3. HandleInv /\ FilesAccounted
    BY DEF Init, HandleInv, FilesAccounted, NoStaleFile, NULL
  <1>4. PlayInv /\ RecordInv /\ RecordingSound
    BY DEF Init, PlayInv, RecordInv, RecordingSound
  <1> QED
    BY <1>2, <1>3, <1>4 DEF IInv

\* What one step may be, with closing apart from the commands that lead to it.
LEMMA Steps ==
  ASSUME [Next]_vars
  PROVE  \/ Start
         \/ el \in {"running", "failed"} /\ el' = "idle" /\ Close(FALSE)
         \/ el = "running" /\ el' = "paused" /\ Close(TRUE)
         \/ el \in {"running", "failed"} /\ el' \in {"idle", "paused"} /\ CloseFails
         \/ SetUri \/ StopPaused \/ LeaveFailed \/ Read \/ Write \/ Mount \/ Unmount
         \/ UNCHANGED vars
  BY DEF Next, Stop, Finish, Pause, CloseFailed, ReadNothing, WriteNothing

\* What an open that gets past the uri does to the type of the stream.
LEMMA TypeSet ==
  ASSUME stream \in Streams, Usable, SetType
  PROVE  /\ stream' \in Streams
         /\ stream'.type = stream.type /\ stream'.uri = stream.uri
         /\ Reader => stream' = stream
         /\ ~Reader => stream'.wType = stream.uri
  <1> USE DEF Streams, Uris, WTypes
  <1>1. CASE Reader
    BY <1>1 DEF SetType
  <1>2. CASE ~Reader
    <2>1. stream \in [type : {"writer"}, wType : WTypes, uri : WTypes]
      BY <1>2 DEF Reader, Usable
    <2>2. stream' = [stream EXCEPT !.wType = stream.uri]
      BY <1>2 DEF SetType
    <2> QED
      BY <1>2, <2>1, <2>2
  <1> QED
    BY <1>1, <1>2

\* What the player can make of the uri.
LEMMA UriSet ==
  ASSUME stream \in Streams, SetUri
  PROVE  /\ stream' \in Streams
         /\ stream'.type = stream.type /\ stream'.wType = stream.wType
         /\ el = "idle" /\ UNCHANGED <<el, card, handle, recording, history>>
  <1>1. PICK u \in Uris(stream.type) : stream' = [stream EXCEPT !.uri = u]
    BY DEF SetUri
  <1>2. CASE stream.type = "reader"
    BY <1>1, <1>2 DEF Streams, SetUri
  <1>3. CASE stream.type = "writer"
    <2>1. u \in Uris("writer") /\ stream \in [type : {"writer"}, wType : WTypes, uri : Uris("writer")]
      BY <1>1, <1>3 DEF Streams
    <2> QED
      BY <1>1, <1>3, <2>1 DEF Streams, SetUri
  <1> QED
    BY <1>2, <1>3 DEF Streams

\* What a recorded buffer makes of the data.
LEMMA Recorded ==
  ASSUME NEW d \in Seq(Nat), NEW n \in Nat, NEW c \in Nat
  PROVE  /\ PutAt(d, n, c) \in Seq(Nat)
         /\ Len(PutAt(d, n, c)) = n + 1
         /\ PutAt(d, n, c)[n + 1] = c
         /\ \A i \in 1 .. n : PutAt(d, n, c)[i] = IF i <= Len(d) THEN d[i] ELSE 0
  <1> DEFINE p == [i \in 1 .. n |-> IF i <= Len(d) THEN d[i] ELSE 0]
  <1>1. \A i \in 1 .. n : p[i] \in Nat
    OBVIOUS
  <1>2. p \in Seq(Nat) /\ Len(p) = n
    BY <1>1
  <1>3. \A i \in 1 .. n : p[i] = IF i <= Len(d) THEN d[i] ELSE 0
    OBVIOUS
  <1>4. PutAt(d, n, c) = p \o <<c>>
    BY DEF PutAt
  <1> HIDE DEF p
  <1>5. /\ p \o <<c>> \in Seq(Nat) /\ Len(p \o <<c>>) = n + 1
        /\ (p \o <<c>>)[n + 1] = c
        /\ \A i \in 1 .. n : (p \o <<c>>)[i] = p[i]
    BY <1>2
  <1> QED
    BY <1>3, <1>4, <1>5

LEMMA Appended ==
  ASSUME NEW d \in Seq(Nat), NEW c \in Nat
  PROVE  /\ Len(PutAt(d, Len(d), c)) = Len(d) + 1
         /\ PutAt(d, Len(d), c)[Len(d) + 1] = c
         /\ \A i \in 1 .. Len(d) : PutAt(d, Len(d), c)[i] = d[i]
  <1> DEFINE n == Len(d)
             q == PutAt(d, n, c)
  <1>1. n \in Nat
    OBVIOUS
  <1>3. \A i \in 1 .. n : i <= Len(d)
    OBVIOUS
  <1> HIDE DEF n
  <1>2. Len(q) = n + 1
    BY <1>1, Recorded
  <1>5. q[n + 1] = c
    BY <1>1, Recorded
  <1>6. \A i \in 1 .. n : q[i] = IF i <= Len(d) THEN d[i] ELSE 0
    BY <1>1, Recorded
  <1> HIDE DEF q
  <1>4. \A i \in 1 .. n : q[i] = d[i]
    BY <1>6, <1>3
  <1> QED
    BY <1>2, <1>5, <1>4 DEF n, q

LEMMA TypeStep == ASSUME IInv, [Next]_vars PROVE TypeOK'
  <1> USE DEF TypeOK, NULL, element, card, handle, recording, history
  <1> USE BoundAssumption
  <1>0. TypeOK /\ HandleInv /\ PlayInv
    BY DEF IInv
  <1>1. CASE OpenRefused \/ StopPaused \/ LeaveFailed \/ Mount
    BY <1>0, <1>1 DEF OpenRefused, StopPaused, LeaveFailed, Mount
  <1>13. CASE SetUri
    BY <1>0, <1>13, UriSet
  <1>2. CASE FopenFails
    BY <1>0, <1>2, TypeSet DEF FopenFails
  <1>3. ASSUME Fopen
        PROVE  /\ stream' \in Streams /\ mounted' \in BOOLEAN /\ opened' \in 0 .. MaxOpens
               /\ open' \subseteq Files /\ live' \subseteq open' /\ file' \in Files
               /\ header' \in Nat /\ data' \in Seq(Nat) /\ bytePos' \in Nat
               /\ abandoned' \in BOOLEAN /\ whole' \in BOOLEAN
               /\ fault' \subseteq {"refused", "running", "failed"}
    <2>1. opened + 1 \in Files
      BY <1>0, <1>3 DEF Fopen, Files
    <2>2. header' \in Nat /\ data' \in Seq(Nat)
      <3>1. <<>> \in Seq(Nat)
        OBVIOUS
      <3>2. (header' = header /\ data' = data) \/ (header' = 0 /\ data' = <<>>)
        BY <1>3 DEF Fopen
      <3>3. header \in Nat /\ data \in Seq(Nat)
        BY <1>0
      <3>4. 0 \in Nat
        OBVIOUS
      <3> QED
        BY <3>1, <3>2, <3>3, <3>4, Zenon
    <2>3. whole' \in BOOLEAN
      BY <1>3 DEF Fopen
    <2>4. /\ open' \subseteq Files /\ live' \subseteq open' /\ file' \in Files
          /\ opened' \in 0 .. MaxOpens
      BY <1>0, <1>3, <2>1 DEF Fopen, Files
    <2>5. stream' \in Streams
      BY <1>0, <1>3, TypeSet DEF Fopen
    <2> QED
      BY <1>0, <1>3, <2>2, <2>3, <2>4, <2>5 DEF Fopen
  <1>4. CASE SeekFails
    BY <1>0, <1>3, <1>4 DEF SeekFails
  <1>5. CASE LastSeekFails
    BY <1>0, <1>3, <1>5 DEF LastSeekFails
  <1>6. CASE Opened
    <2>1. StartOf \in Nat
      BY DEF StartOf, HeaderLen
    <2>2. at' \in Nat /\ heard' \in 0 .. FileLen
      BY <1>0, <1>3, <1>6, <2>1 DEF Opened, Ready, Fopen
    <2> QED
      BY <1>0, <1>3, <1>6, <2>2 DEF Opened, Ready
  <1>14. el \in {"running", "failed"} => fault \union {When} \subseteq {"refused", "running", "failed"}
    BY <1>0 DEF When
  <1>7. ASSUME NEW p \in BOOLEAN, Close(p), el \in {"running", "failed"}, el' \in {"idle", "paused"}
        PROVE  TypeOK'
    <2>1. open' \subseteq Files /\ live' \subseteq open' /\ isOpen' = FALSE
      BY <1>0, <1>7 DEF Close, Fclose
    <2>2. header' \in Nat /\ fault' \subseteq {"refused", "running", "failed"}
      <3>1. header' = header \/ header' = bytePos
        BY <1>7 DEF Close, WriteHeader
      <3>2. fault' = fault \/ fault' = fault \union {When}
        BY <1>7 DEF Close, WriteHeader
      <3> QED
        BY <1>0, <1>7, <1>14, <3>1, <3>2
    <2> QED
      BY <1>0, <1>7, <2>1, <2>2 DEF Close
  <1>8. CASE el' \in {"idle", "paused"} /\ CloseFails
    BY <1>0, <1>8 DEF CloseFails
  <1>9. CASE Read
    <2>1. at' \in Nat /\ bytePos' \in Nat /\ heard' \in 0 .. FileLen
      BY <1>0, <1>9 DEF Read
    <2>2. fault' \subseteq {"refused", "running", "failed"}
      BY <1>0, <1>9, <1>14 DEF Read, Uses
    <2> QED
      BY <1>0, <1>9, <2>1, <2>2 DEF Read
  <1>10. CASE Write
    <2>1. at - HeaderLen(stream.wType) \in Nat
      BY <1>0, <1>10 DEF Write, HandleInv, HeaderLen
    <2>2. data' \in Seq(Nat)
      BY <1>0, <1>10, <2>1, Recorded DEF Write
    <2>3. fault' \subseteq {"refused", "running", "failed"}
      BY <1>0, <1>10, <1>14 DEF Write, Uses
    <2> QED
      BY <1>0, <1>10, <2>2, <2>3 DEF Write
  <1>11. CASE Unmount
    BY <1>0, <1>11 DEF Unmount
  <1>12. CASE UNCHANGED vars
    BY <1>0, <1>12 DEF vars
  <1> QED
    BY <1>1, <1>2, <1>4, <1>5, <1>6, <1>7, <1>8, <1>9, <1>10, <1>11, <1>12, <1>13, Steps DEF Start

LEMMA HandleStep == ASSUME IInv, [Next]_vars PROVE HandleInv'
  <1> USE DEF NULL, element, card, handle, recording, history, Reader, Wav, Usable, NoStaleFile
  <1>0. TypeOK /\ HandleInv /\ FilesAccounted
    BY DEF IInv
  <1> USE <1>0 DEF HandleInv, TypeOK
  <1>11. CASE SetUri
    <2>1. /\ stream'.type = stream.type /\ el = "idle" /\ el' = el
          /\ UNCHANGED <<opened, open, leaked, file, isOpen, fault>>
      BY <1>11, UriSet
    <2> QED
      BY <2>1
  <1>1. CASE OpenRefused
    BY <1>1 DEF OpenRefused
  <1>2. CASE FopenFails
    BY <1>2, TypeSet DEF FopenFails
  <1>3. CASE SeekFails \/ LastSeekFails
    <2>1. CASE SeekFails
      BY <2>1, TypeSet DEF SeekFails, Fopen
    <2>2. CASE LastSeekFails
      BY <2>2, TypeSet DEF LastSeekFails, Fopen
    <2> QED
      BY <1>3, <2>1, <2>2
  <1>4. CASE Opened
    <2>1. /\ stream'.type = stream.type /\ (~Reader => stream'.wType = stream.uri)
          /\ el' = "running" /\ isOpen' = TRUE /\ file' = opened' /\ opened' = opened + 1
          /\ open' = open \union {opened'} /\ UNCHANGED <<leaked, fault>>
      BY <1>4, TypeSet DEF Opened, Ready, Fopen
    <2>2. ~Reader => at' >= HeaderLen(stream.uri)
      BY <1>4 DEF Opened, StartOf, HeaderLen
    <2> QED
      BY <2>1, <2>2
  <1>5. ASSUME NEW p \in BOOLEAN, Close(p), el \in {"running", "failed"}, el' \in {"idle", "paused"}
        PROVE  HandleInv'
    <2>1. /\ open' \subseteq 1 .. opened' /\ leaked' \subseteq 1 .. opened' /\ opened' \in Nat
          /\ file' \in 0 .. opened' /\ stream' = stream /\ ~isOpen'
      BY <1>5 DEF Close, Fclose
    <2>2. NoStaleFile'
      <3>1. stream' = stream /\ fault' = (IF ((Wav /\ file # NULL) \/ isOpen) /\ file \notin open
                                         THEN fault \union {When} ELSE fault)
        BY <1>5 DEF Close, WriteHeader
      <3>2. isOpen => file \in open
        BY DEF FilesAccounted
      <3>3. el = "running" => isOpen
        BY DEF FilesAccounted
      <3>4. fault' # fault => Wav /\ el = "failed" /\ ~Usable
        BY <1>5, <3>1, <3>2, <3>3
      <3> QED
        BY <3>1, <3>4 DEF When
    <2>3. leaked' = leaked
      BY <1>5 DEF Close
    <2> QED
      BY <1>5, <2>1, <2>2, <2>3
  <1>6. CASE el' \in {"idle", "paused"} /\ CloseFails
    BY <1>6 DEF CloseFails
  <1>7. CASE StopPaused \/ LeaveFailed \/ Mount
    <2>1. CASE StopPaused
      BY <2>1 DEF StopPaused
    <2>2. CASE LeaveFailed
      BY <2>2 DEF LeaveFailed
    <2>3. CASE Mount
      BY <2>3 DEF Mount
    <2> QED
      BY <1>7, <2>1, <2>2, <2>3
  <1>8. CASE Read \/ Write
    <2>1. CASE Read
      BY <2>1 DEF Read, Uses, FilesAccounted
    <2>2. CASE Write
      <3>1. at' >= HeaderLen(stream.wType)
        BY <2>2 DEF Write, HeaderLen
      <3> QED
        BY <2>2, <3>1 DEF Write, Uses, FilesAccounted
    <2> QED
      BY <1>8, <2>1, <2>2
  <1>9. CASE Unmount
    BY <1>9 DEF Unmount
  <1>10. CASE UNCHANGED vars
    BY <1>10 DEF vars
  <1> QED
    BY <1>1, <1>2, <1>3, <1>4, <1>5, <1>6, <1>7, <1>8, <1>9, <1>10, <1>11, Steps DEF Start

LEMMA AccountStep == ASSUME IInv, [Next]_vars PROVE FilesAccounted'
  <1> USE DEF NULL, element, card, handle, recording, history
  <1>0. TypeOK /\ HandleInv /\ FilesAccounted
    BY DEF IInv
  <1> USE <1>0 DEF FilesAccounted, TypeOK
  <1>12. CASE SetUri
    BY <1>12 DEF SetUri
  <1>1. CASE OpenRefused
    BY <1>1 DEF OpenRefused
  <1>2. CASE FopenFails
    BY <1>2 DEF FopenFails
  <1>3. CASE SeekFails
    BY <1>3 DEF SeekFails, Fopen
  <1>4. CASE LastSeekFails
    BY <1>4 DEF LastSeekFails, Fopen
  <1>5. CASE Opened
    <2>1. open = leaked /\ open' = open \union {file'}
      BY <1>5 DEF Opened, Ready, Fopen
    <2>2. leaked' = leaked /\ isOpen' = TRUE /\ el' = "running"
      BY <1>5 DEF Opened, Ready
    <2> QED
      BY <2>1, <2>2
  <1>6. ASSUME NEW p \in BOOLEAN, Close(p), el' \in {"idle", "paused"}
        PROVE  FilesAccounted'
    <2>1. open' = leaked'
      <3>1. isOpen => file \notin leaked
        BY <1>0 DEF HandleInv
      <3>2. open' = (IF isOpen THEN open \ {file} ELSE open) /\ leaked' = leaked
        BY <1>6 DEF Close, Fclose
      <3>3. open = leaked \union (IF isOpen THEN {file} ELSE {})
        BY <1>0
      <3> QED
        BY <3>1, <3>2, <3>3
    <2> QED
      BY <1>6, <2>1 DEF Close, Fclose
  <1>7. CASE el' \in {"idle", "paused"} /\ CloseFails
    BY <1>7 DEF CloseFails
  <1>8. CASE StopPaused \/ LeaveFailed \/ Mount
    BY <1>8 DEF StopPaused, LeaveFailed, Mount
  <1>9. CASE Read \/ Write
    BY <1>9 DEF Read, Write
  <1>10. CASE Unmount
    BY <1>10 DEF Unmount
  <1>11. CASE UNCHANGED vars
    BY <1>11 DEF vars
  <1> QED
    BY <1>1, <1>2, <1>3, <1>4, <1>5, <1>6, <1>7, <1>8, <1>9, <1>10, <1>11, <1>12, Steps DEF Start

LEMMA PlayStep == ASSUME IInv, [Next]_vars PROVE PlayInv'
  <1> USE DEF NULL, element, card, handle, recording, history, Reader
  <1>0. TypeOK /\ PlayInv
    BY DEF IInv
  <1> USE <1>0 DEF PlayInv, TypeOK
  <1>2. CASE SetUri
    BY <1>2, UriSet
  <1>1. CASE Start
    <2>0. el # "running"
      BY <1>1 DEF Start
    <2>1. CASE OpenRefused
      BY <2>0, <2>1 DEF OpenRefused
    <2>2. CASE FopenFails
      BY <2>0, <2>2, TypeSet DEF FopenFails
    <2>3. CASE SeekFails
      BY <2>0, <2>3, TypeSet DEF SeekFails, Fopen
    <2>4. CASE LastSeekFails
      BY <2>0, <2>4, TypeSet DEF LastSeekFails, Fopen
    <2>5. CASE Opened
      BY <2>0, <2>5, TypeSet DEF Opened, Ready, Fopen, StartOf
    <2> QED
      BY <1>1, <2>1, <2>2, <2>3, <2>4, <2>5 DEF Start
  <1>4. CASE el \in {"running", "failed"} /\ el' = "idle" /\ Close(FALSE)
    BY <1>4 DEF Close
  <1>5. CASE el = "running" /\ el' = "paused" /\ Close(TRUE)
    BY <1>5 DEF Close
  <1>6. CASE CloseFails
    BY <1>6 DEF CloseFails, Wav
  <1>7. CASE StopPaused \/ LeaveFailed \/ Mount
    BY <1>7 DEF StopPaused, LeaveFailed, Mount
  <1>8. CASE Read \/ Write
    BY <1>8 DEF Read, Write
  <1>9. CASE Unmount
    BY <1>9 DEF Unmount
  <1>10. CASE UNCHANGED vars
    BY <1>10 DEF vars
  <1> QED
    BY <1>1, <1>2, <1>4, <1>5, <1>6, <1>7, <1>8, <1>9, <1>10, Steps DEF Start

LEMMA RecordStep == ASSUME IInv, [Next]_vars PROVE RecordInv' /\ RecordingSound'
  <1> USE DEF NULL, element, card, handle, recording, history
  <1>0. TypeOK /\ HandleInv /\ FilesAccounted /\ RecordInv /\ RecordingSound
    BY DEF IInv
  <1> USE <1>0 DEF RecordInv, RecordingSound, TypeOK
  <1>11. CASE SetUri
    BY <1>11, UriSet DEF Wav
  <1>1. CASE Start
    <2>1. CASE OpenRefused
      BY <2>1 DEF OpenRefused, Wav
    <2>2. CASE FopenFails
      BY <2>2 DEF FopenFails, Wav
    <2>3. CASE SeekFails \/ LastSeekFails
      <3>1. whole' = (stream.type = "writer" /\ stream.uri = "wav" /\ bytePos = 0) /\ bytePos > 0
        BY <2>3 DEF SeekFails, LastSeekFails, Fopen
      <3>2. ~whole'
        <4>1. ~(bytePos = 0)
          BY <3>1
        <4> QED
          BY <3>1, <4>1, Zenon
      <3> QED
        BY <3>2
    <2>4. CASE Opened
      <3>1. /\ whole' = (stream.type = "writer" /\ stream.uri = "wav" /\ bytePos = 0)
            /\ bytePos' = bytePos /\ file' \in live' /\ isOpen' = TRUE
            /\ ~Reader => data' = <<>>
        BY <2>4 DEF Opened, Ready, Fopen
      <3>2. stream'.type = stream.type /\ (~Reader => stream'.wType = stream.uri)
        BY <2>4, TypeSet DEF Opened, Ready, Fopen
      <3>3. CASE stream.type = "writer" /\ stream.uri = "wav" /\ bytePos = 0
        <4>1. ~Reader /\ at' = 1
          BY <2>4, <3>3 DEF Opened, StartOf, HeaderLen, Reader
        <4> QED
          BY <3>1, <3>2, <3>3, <4>1 DEF Wav
      <3>4. CASE ~(stream.type = "writer" /\ stream.uri = "wav" /\ bytePos = 0)
        <4>1. ~whole'
          BY <3>1, <3>4
        <4> QED
          BY <4>1
      <3> QED
        BY <3>3, <3>4
    <2> QED
      BY <1>1, <2>1, <2>2, <2>3, <2>4 DEF Start
  <1>2. ASSUME NEW p \in BOOLEAN, Close(p), el \in {"running", "failed"}, el' \in {"idle", "paused"}
        PROVE  RecordInv' /\ RecordingSound'
    <2>1. ~isOpen' /\ data' = data /\ whole' = whole /\ stream' = stream
      BY <1>2 DEF Close, Fclose
    <2>2. CASE isOpen
      BY <1>2, <2>1, <2>2 DEF Close, WriteHeader, Wav
    <2>3. CASE ~isOpen
      <3>1. Wav => file \notin live
        BY <1>2, <2>3 DEF HandleInv, FilesAccounted, Wav, Reader
      <3> QED
        BY <1>2, <2>1, <2>3, <3>1 DEF Close, WriteHeader, Wav
    <2> QED
      BY <2>2, <2>3
  <1>3. CASE CloseFails
    BY <1>3 DEF CloseFails, Wav
  <1>4. CASE StopPaused
    BY <1>4 DEF StopPaused, Wav
  <1>5. CASE LeaveFailed
    BY <1>5 DEF LeaveFailed, Wav
  <1>6. CASE Mount
    BY <1>6 DEF Mount, Wav
  <1>7. CASE Read
    <2>1. isOpen /\ ~Wav /\ isOpen' = isOpen /\ whole' = whole
      BY <1>7 DEF Read, FilesAccounted, Wav, Reader
    <2>2. ~whole'
      BY <2>1
    <2> QED
      BY <2>1, <2>2
  <1>8. CASE Write
    <2>1. isOpen /\ at - HeaderLen(stream.wType) \in Nat
      BY <1>8 DEF Write, FilesAccounted, HandleInv, HeaderLen
    <2>2. CASE whole
      <3>1. at - HeaderLen(stream.wType) = Len(data) /\ bytePos = Len(data)
        BY <2>1, <2>2 DEF HeaderLen, Wav
      <3>2. data' = PutAt(data, Len(data), bytePos + 1)
        BY <1>8, <3>1 DEF Write
      <3>3. /\ Len(data') = Len(data) + 1 /\ data'[Len(data) + 1] = bytePos + 1
            /\ \A i \in 1 .. Len(data) : data'[i] = data[i]
        <4>1. data \in Seq(Nat) /\ bytePos + 1 \in Nat
          OBVIOUS
        <4> QED
          BY <3>2, <4>1, Appended
      <3>4. \A i \in 1 .. Len(data') : data'[i] = i
        BY <2>1, <2>2, <3>1, <3>3
      <3> QED
        BY <1>8, <2>1, <2>2, <3>1, <3>3, <3>4 DEF Write, Wav
    <2>3. CASE ~whole
      BY <1>8, <2>3 DEF Write, Wav
    <2> QED
      BY <2>2, <2>3
  <1>9. CASE Unmount
    BY <1>9 DEF Unmount, Wav
  <1>10. CASE UNCHANGED vars
    BY <1>10 DEF vars, Wav
  <1> QED
    BY <1>1, <1>2, <1>3, <1>4, <1>5, <1>6, <1>7, <1>8, <1>9, <1>10, <1>11, Steps

LEMMA Next_Inv == ASSUME IInv, [Next]_vars PROVE IInv'
  BY TypeStep, HandleStep, AccountStep, PlayStep, RecordStep DEF IInv

LEMMA Always == Spec => []IInv
  BY Start_Inv, Next_Inv, PTL DEF Spec

-----------------------------------------------------------------------------
\* For any file, any number of FILEs, starts and buffers the variables keep their types.
THEOREM TypeCorrect == Spec => []TypeOK
  BY Always, PTL DEF IInv

\* No FILE is used after fclose, however often the stream is opened, paused, closed, given
\* another uri and fails to open, and whether or not the element closes what failed to
\* open; but for the close of a recorder that had recorded and whose uri was refused.
THEOREM NoFileAfterClose == Spec => []NoStaleFile
  BY Always, PTL DEF IInv, HandleInv

\* Every FILE is the stream's or one a failed seek forgot.
THEOREM FilesAreAccounted == Spec => []FilesAccounted
  BY Always, PTL DEF IInv

\* The header of a recording made in one go counts what was recorded.
THEOREM HeaderIsRight == Spec => []RecordingSound
  BY Always, PTL DEF IInv

\* The reader implements FilePlayback: each buffer once and in order, across pauses that
\* close and re-open the file.
THEOREM Refinement == Spec => PlaybackSpec
  <1>1. Init => Playback!Init
    BY DEF Init, Playback!Init
  <1>2. IInv /\ [Next]_vars =>
          [Playback!Next]_<<IF el = "running" THEN "playing" ELSE IF held THEN "held" ELSE "quiet",
                            heard>>
    <2> SUFFICES ASSUME IInv, [Next]_vars
                 PROVE  \/ Playback!Next
                        \/ UNCHANGED <<IF el = "running" THEN "playing"
                                       ELSE IF held THEN "held" ELSE "quiet", heard>>
      OBVIOUS
    <2> USE DEF element, card, handle, recording, history,
                Playback!Next, Playback!Begin, Playback!Deliver, Playback!Hold,
                Playback!GoOn, Playback!End
    <2>0. TypeOK /\ PlayInv
      BY DEF IInv
    <2>1. CASE Start
      <3>0. el # "running"
        BY <2>1 DEF Start
      <3>1. CASE OpenRefused \/ FopenFails
        BY <3>0, <3>1 DEF OpenRefused, FopenFails
      <3>2. CASE SeekFails \/ LastSeekFails
        BY <3>0, <3>2 DEF SeekFails, LastSeekFails
      <3>3. CASE Opened
        BY <3>0, <3>3 DEF Opened, Ready
      <3> QED
        BY <2>1, <3>1, <3>2, <3>3 DEF Start
    <2>2. CASE el \in {"running", "failed"} /\ el' = "idle" /\ Close(FALSE)
      BY <2>2 DEF Close
    <2>3. CASE el = "running" /\ el' = "paused" /\ Close(TRUE)
      BY <2>3 DEF Close
    <2>4. CASE el \in {"running", "failed"} /\ el' \in {"idle", "paused"} /\ CloseFails
      BY <2>0, <2>4 DEF CloseFails, TypeOK
    <2>5. CASE StopPaused \/ LeaveFailed \/ Mount \/ Unmount \/ Write
      BY <2>5 DEF StopPaused, LeaveFailed, Mount, Unmount, Write
    <2>6. CASE Read
      BY <2>0, <2>6 DEF Read, PlayInv, TypeOK
    <2>8. CASE SetUri
      BY <2>8 DEF SetUri
    <2>7. CASE UNCHANGED vars
      BY <2>7 DEF vars
    <2> QED
      BY <2>1, <2>2, <2>3, <2>4, <2>5, <2>6, <2>7, <2>8, Steps
  <1> QED
    BY <1>1, <1>2, Always, PTL DEF Spec, PlaybackSpec, Playback!Spec
==============================================================================
