--------------------------- MODULE BtSource_proofs ---------------------------
(***************************************************************************)
(* Theorems about the Bluetooth service as source, for any devices and any *)
(* bound on what waits, and their proofs.                                  *)
(***************************************************************************)
EXTENDS BtSource, TLAPS

Searching == {"DISCOVERING", "DISCOVERED"}
Lost == Event("CONN", Disconnected)

\* Without Bluedroid nothing is under way; the player begins without it.
Silence == /\ ~Running => /\ evq = <<>> /\ ctrl = <<>> /\ link = "down" /\ inquiry = "off"
                          /\ ~scan /\ ~streaming
           /\ player = "start" => ~Running /\ ~incoming /\ srcState = "IDLE"
           /\ Running => srcState # "IDLE"

\* There is one inquiry, or one end of it queued behind its results, until the connection
\* to the target begins; after that there is none.
OneInquiry ==
    /\ inquiry = "on" => /\ srcState = "DISCOVERING"
                         /\ \A i \in DOMAIN evq : evq[i].kind # "STOPPED"
    /\ \A i \in DOMAIN evq : evq[i].kind \in {"DISC_RES", "STOPPED"} => srcState \in Searching
    /\ \A i \in DOMAIN evq : evq[i].kind = "STOPPED" =>
          /\ evq[i] = Event("STOPPED", 0)
          /\ \A j \in DOMAIN evq : evq[j].kind \in {"DISC_RES", "STOPPED"} => j <= i

\* Before the connection the service has sent no media command but the player's Stop, to a
\* device that connected on its own.
NoStart ==
    srcState \in Searching \cup {"CONNECTING"} =>
        /\ \A i \in DOMAIN ctrl : ctrl[i] = Stop
        /\ \A i \in DOMAIN evq : evq[i].kind = "ACK" => evq[i].word = Stop

\* An event that looks like a connection has a link, or the loss of it behind it.
UpHasLink ==
    /\ \A i \in DOMAIN evq : evq[i].kind = "CONN" => evq[i] \in {Lost, Event("CONN", Connected)}
    /\ \A i \in DOMAIN evq : evq[i].kind \in {"CONN", "AUDIO"} /\ evq[i].word = Connected =>
          link = "up" \/ \E j \in DOMAIN evq : j > i /\ evq[j] = Lost

NoLinkYet == Running /\ srcState \in Searching /\ ~incoming => link = "down"

IInv == /\ TypeOK /\ Silence /\ OneInquiry /\ NoStart /\ UpHasLink /\ NoLinkYet
        /\ DiscoveryAlive /\ ConnectingAlive /\ ConnectedHasLink

-----------------------------------------------------------------------------
(* Queues.                                                                 *)

\* Event q[i] of queue q is one of s, one place further back; s begins with e.
IsTail(q, s) == /\ DOMAIN q \subseteq Nat /\ DOMAIN s \subseteq Nat
                /\ \A i \in DOMAIN q : i + 1 \in DOMAIN s /\ q[i] = s[i + 1]
                /\ \A i \in DOMAIN s : i = 1 \/ (i - 1 \in DOMAIN q /\ q[i - 1] = s[i])
                /\ 1 \in DOMAIN s

IsAppend(q, s, e) == /\ DOMAIN q \subseteq Nat /\ DOMAIN s \subseteq Nat
                     /\ \A i \in DOMAIN s : i \in DOMAIN q /\ q[i] = s[i]
                     /\ \E n \in DOMAIN q : /\ q[n] = e
                                            /\ \A i \in DOMAIN s : i < n
                                            /\ \A i \in DOMAIN q : i = n \/ i \in DOMAIN s

LEMMA TailFacts ==
  ASSUME NEW S, NEW s \in Seq(S), s # <<>>
  PROVE  Tail(s) \in Seq(S) /\ IsTail(Tail(s), s) /\ Head(s) = s[1] /\ Head(s) \in S
  BY DEF IsTail

LEMMA AppendFacts ==
  ASSUME NEW S, NEW s \in Seq(S), NEW e \in S
  PROVE  Append(s, e) \in Seq(S) /\ IsAppend(Append(s, e), s, e)
  <1>1. Append(s, e) \in Seq(S)
    OBVIOUS
  <1>2. /\ Len(s) \in Nat /\ Len(Append(s, e)) = Len(s) + 1
        /\ DOMAIN s = 1..Len(s) /\ DOMAIN Append(s, e) = 1..(Len(s) + 1)
        /\ Append(s, e)[Len(s) + 1] = e
        /\ \A i \in 1..Len(s) : Append(s, e)[i] = s[i]
    OBVIOUS
  <1>3. Len(s) + 1 \in DOMAIN Append(s, e)
    BY <1>2
  <1> QED
    BY <1>1, <1>2, <1>3 DEF IsAppend

LEMMA ContainsFacts ==
  ASSUME NEW S, NEW s \in Seq(S), NEW e
  PROVE  Contains(s, e) <=> \E i \in DOMAIN s : s[i] = e
  BY DEF Contains

LEMMA EventFacts ==
  /\ \A w \in 0..4 : Event("CONN", w) \in Events
  /\ Event("STOPPED", 0) \in Events
  /\ Event("AUDIO", 2) \in Events /\ Event("AUDIO", 0) \in Events
  /\ \A d \in Devices : Found(d) \in Events
  /\ \A w \in 0..4, ok \in BOOLEAN : [Event("ACK", w) EXCEPT !.ok = ok] \in Events
  <1>1. \A w \in 0..4 : Event("CONN", w) \in Events
    BY DEF Event, Events
  <1>2. Event("STOPPED", 0) \in Events /\ Event("AUDIO", 2) \in Events /\ Event("AUDIO", 0) \in Events
    BY DEF Event, Events
  <1>3. \A d \in Devices : Found(d) \in Events
    BY DEF Found, Events
  <1>4. \A w \in 0..4 : [Event("ACK", w) EXCEPT !.ok = TRUE] \in Events
    BY DEF Event, Events
  <1>5. \A w \in 0..4 : [Event("ACK", w) EXCEPT !.ok = FALSE] \in Events
    BY DEF Event, Events
  <1>6. ASSUME NEW w \in 0..4, NEW ok \in BOOLEAN
        PROVE  [Event("ACK", w) EXCEPT !.ok = ok] \in Events
    <2>1. CASE ok = TRUE
      BY <1>4, <2>1, Zenon
    <2>2. CASE ok = FALSE
      BY <1>5, <2>2, Zenon
    <2> QED
      BY <2>1, <2>2, Zenon
  <1> QED
    BY <1>1, <1>2, <1>3, <1>6

-----------------------------------------------------------------------------
(* Types.                                                                  *)

Messages == {"CONNECTED", "DISCONNECTED", "AUDIO_SUSPENDED"}

LEMMA SendKeeps ==
  ASSUME inbox \in Seq(Messages), NEW msg \in Messages, SendEvent(msg)
  PROVE  inbox' \in Seq(Messages)
  BY DEF SendEvent

LEMMA TypeKept ==
  ASSUME TypeOK, [Next]_vars
  PROVE  TypeOK'
  <1>0. /\ ctrl \in Seq(1 .. 4) /\ <<>> \in Seq(1 .. 4)
        /\ ctrl # <<>> => Tail(ctrl) \in Seq(1 .. 4)
        /\ \A c \in 1 .. 4 : Append(ctrl, c) \in Seq(1 .. 4)
    <2>1. ctrl \in Seq(1 .. 4)
      BY DEF TypeOK
    <2> QED
      BY <2>1
  <1>00. inbox \in Seq(Messages) /\ <<>> \in Seq(Messages)
    <2>1. inbox \in Seq(Messages)
      BY DEF TypeOK, Messages
    <2> QED
      BY <2>1
  <1>1. CASE DiscRes
    <2>1. Head(evq) \in Events /\ Tail(evq) \in Seq(Events)
      BY <1>1, TailFacts DEF DiscRes, TypeOK
    <2>2. evq' \in Seq(Events)
      BY <1>1, <2>1, EventFacts, AppendFacts
         DEF DiscRes, FilterInquiryScanResult, CancelDiscovery
    <2>3. srcState' \in SourceStates /\ remoteBda' \in Devices \cup {NoDevice}
      BY <1>1, DeviceAssumption
         DEF DiscRes, FilterInquiryScanResult, IsTarget, TypeOK, SourceStates
    <2>4. inquiry' \in {"on", "off"}
      BY <1>1 DEF DiscRes, FilterInquiryScanResult, CancelDiscovery, TypeOK
    <2>5. UNCHANGED <<audioState, held, inbox, scan, incoming, link, ctrl, streaming,
                      player, listener, asked>>
      BY <1>1 DEF DiscRes, app
    <2> QED
      BY <2>2, <2>3, <2>4, <2>5 DEF TypeOK
  <1>2. CASE DiscoveryStopped
    <2>1. Tail(evq) \in Seq(Events)
      BY <1>2, TailFacts DEF DiscoveryStopped, TypeOK
    <2> QED
      BY <1>2, <2>1 DEF DiscoveryStopped, StartDiscovery, SourceConnect, SourceStates, app, TypeOK
  <1>3. CASE SourceCb
    <2>1. PICK e \in ToSet(evq) : /\ SourceEvent(e)
                                  /\ WhenConnecting(e) \/ MediaAck(e) \/ LinkDown(e) \/ Ignored(e)
      BY <1>3 DEF SourceCb
    <2>2. UNCHANGED <<remoteBda, held, incoming, inquiry, link, streaming, player, listener, asked>>
      BY <1>3 DEF SourceCb, app
    <2>3. evq' \in Seq(Events)
      BY <2>1, TailFacts DEF SourceEvent, TypeOK
    <2>4. inbox' \in Seq(Messages)
      BY <2>1, SendKeeps DEF WhenConnecting, MediaAck, LinkDown, Ignored, Messages, TypeOK
    <2>5. ctrl' \in Seq(1 .. 4)
      <3>1. ctrl' = ctrl \/ ctrl' = Append(ctrl, 1) \/ ctrl' = Append(ctrl, 2)
        <4>1. CASE WhenConnecting(e) \/ LinkDown(e) \/ Ignored(e)
          BY <4>1 DEF WhenConnecting, LinkDown, Ignored, MediaCtrl, CheckSrcRdy
        <4>2. CASE MediaAck(e)
          BY <4>2 DEF MediaAck, Start
        <4> QED
          BY <2>1, <4>1, <4>2
      <3>2. Append(ctrl, 1) \in Seq(1 .. 4) /\ Append(ctrl, 2) \in Seq(1 .. 4)
        <4>1. 1 \in 1 .. 4 /\ 2 \in 1 .. 4
          OBVIOUS
        <4> QED
          BY <1>0, <4>1, AppendFacts
      <3> QED
        BY <1>0, <3>1, <3>2, Zenon
    <2>6. srcState' \in SourceStates /\ audioState' \in 0 .. 2
      <3>1. srcState \in SourceStates /\ audioState \in 0 .. 2
        BY DEF TypeOK
      <3>2. CASE WhenConnecting(e)
        BY <3>1, <3>2 DEF WhenConnecting, SourceStates, Started
      <3>3. CASE MediaAck(e)
        BY <3>1, <3>3 DEF MediaAck, SourceStates, Started
      <3>4. CASE LinkDown(e) \/ Ignored(e)
        BY <3>1, <3>4 DEF LinkDown, Ignored, SourceStates, Started
      <3> QED
        BY <2>1, <3>2, <3>3, <3>4
    <2>7. scan' = scan \/ scan' = FALSE
      BY <2>1 DEF WhenConnecting, MediaAck, LinkDown, Ignored
    <2>8. {scan', incoming'} \subseteq BOOLEAN
      BY <2>2, <2>7, Zenon DEF TypeOK
    <2> QED
      BY <2>2, <2>3, <2>4, <2>5, <2>6, <2>8 DEF TypeOK, Messages
  <1>4. CASE SourceDataDone
    BY <1>4, SendKeeps DEF SourceDataDone, service, stack, app, Messages, TypeOK
  <1>5. CASE Bluedroid
    <2>1. evq' \in Seq(Events)
      <3>1. ASSUME NEW e \in Events, Report(e)
            PROVE  evq' \in Seq(Events)
        BY <3>1, AppendFacts DEF Report, TypeOK
      <3>2. ASSUME NEW d \in Devices, InquiryResult(d)
            PROVE  evq' \in Seq(Events)
        BY <3>1, <3>2, EventFacts DEF InquiryResult
      <3>3. CASE InquiryEnds \/ IncomingConnection \/ LinkLost
        BY <3>1, <3>3, EventFacts DEF InquiryEnds, IncomingConnection, LinkLost, Connected, Disconnected
      <3>4. ASSUME NEW ok \in BOOLEAN, PageEnds(ok) \/ RemoteAudio(ok)
            PROVE  evq' \in Seq(Events)
        BY <3>1, <3>4, EventFacts DEF PageEnds, RemoteAudio, Connected, Disconnected, Started, Suspended
      <3>5. ASSUME NEW ok \in BOOLEAN, MediaAnswer(ok)
            PROVE  evq' \in Seq(Events)
        <4>1. Head(ctrl) \in 0..4
          BY <3>5 DEF MediaAnswer, TypeOK
        <4> QED
          BY <3>1, <3>5, <4>1, EventFacts DEF MediaAnswer
      <3> QED
        BY <1>5, <3>2, <3>3, <3>4, <3>5 DEF Bluedroid
    <2>2. /\ scan' = scan /\ (incoming' = incoming \/ incoming' = TRUE)
          /\ inquiry' \in {inquiry, "off"} /\ link' \in {link, "down", "up"}
      BY <1>5
         DEF Bluedroid, InquiryResult, InquiryEnds, PageEnds, IncomingConnection, LinkLost,
             MediaAnswer, RemoteAudio, stack
    <2>3. ctrl' = ctrl \/ ctrl' = <<>> \/ (ctrl # <<>> /\ ctrl' = Tail(ctrl))
      BY <1>5
         DEF Bluedroid, InquiryResult, InquiryEnds, PageEnds, IncomingConnection, LinkLost,
             MediaAnswer, RemoteAudio, stack
    <2>4. ctrl' \in Seq(1 .. 4)
      BY <1>0, <2>3
    <2>5. streaming' \in BOOLEAN
      <3>1. CASE UNCHANGED streaming
        BY <3>1 DEF TypeOK
      <3>2. CASE LinkLost \/ \E on \in BOOLEAN : RemoteAudio(on)
        BY <3>2 DEF LinkLost, RemoteAudio
      <3>3. ASSUME NEW ok \in BOOLEAN, MediaAnswer(ok)
            PROVE  streaming' \in BOOLEAN
        <4>1. streaming' = (Head(ctrl) = Start) \/ streaming' = streaming
          BY <3>3, Zenon DEF MediaAnswer
        <4> QED
          BY <4>1, Zenon DEF TypeOK
      <3> QED
        BY <1>5, <3>1, <3>2, <3>3
           DEF Bluedroid, InquiryResult, InquiryEnds, PageEnds, IncomingConnection, stack
    <2>6. {scan', incoming'} \subseteq BOOLEAN
      BY <2>2, Zenon DEF TypeOK
    <2> QED
      BY <1>5, <2>1, <2>2, <2>4, <2>5, <2>6 DEF Bluedroid, service, life, TypeOK
  <1>6. CASE Listen
    <2>1. inbox' \in Seq(Messages)
      BY <1>6 DEF Listen, TypeOK, Messages
    <2>2. ctrl' = ctrl \/ ctrl' = Append(ctrl, 3)
      BY <1>6 DEF Listen, Stop
    <2>3. ctrl' \in Seq(1 .. 4)
      BY <1>0, <2>2
    <2>4. audioState' \in 0 .. 2 /\ player' \in {player, "pipeline"}
      BY <1>6 DEF Listen, Stopped, TypeOK
    <2>5. UNCHANGED <<srcState, remoteBda, held, evq, scan, incoming, inquiry, link, streaming,
                      listener, asked>>
      BY <1>6 DEF Listen
    <2> QED
      BY <2>1, <2>3, <2>4, <2>5 DEF TypeOK, Messages
  <1>7. CASE StartService
    BY <1>7 DEF StartService, ServiceStart, Goto, StartDiscovery, SourceStates, TypeOK
  <1>8. CASE (SetUp \/ TearDown) /\ UNCHANGED <<service, evq, stack, asked>>
    <2>1. /\ player' \in {"periph", "listen", "loop", "stream", "periphs", "service"}
          /\ inbox' = inbox \/ inbox' = <<>>
          /\ listener' = listener \/ listener' = TRUE \/ listener' = FALSE
      BY <1>8 DEF SetUp, TearDown, Create, SetListener, RemoveListener, Destroy, Goto
    <2>2. held' \subseteq {"service", "bluedroid", "stream", "periph"}
      BY <1>8 DEF SetUp, TearDown, Create, SetListener, RemoveListener, Destroy, TypeOK
    <2>3. listener' \in BOOLEAN
      BY <2>1, Zenon DEF TypeOK
    <2>4. inbox' \in Seq(Messages)
      BY <1>00, <2>1
    <2> QED
      BY <1>8, <2>1, <2>2, <2>3, <2>4 DEF service, stack, TypeOK, Messages
  <1>9. CASE Shutdown
    <2>1. /\ player' = "gone" /\ held' \subseteq held
          /\ UNCHANGED <<srcState, remoteBda, audioState, listener, inbox, asked, incoming>>
          /\ evq' = evq \/ evq' = <<>>
          /\ ctrl' = ctrl \/ ctrl' = <<>>
          /\ scan' = scan \/ scan' = FALSE
          /\ streaming' = streaming \/ streaming' = FALSE
          /\ inquiry' \in {inquiry, "off"} /\ link' \in {link, "down"}
      BY <1>9 DEF Shutdown, ServiceDestroy, Goto, service, stack
    <2>2. streaming' \in BOOLEAN /\ {scan', incoming'} \subseteq BOOLEAN
      BY <2>1, Zenon DEF TypeOK
    <2>3. evq' \in Seq(Events) /\ ctrl' \in Seq(1 .. 4)
      <3>1. evq \in Seq(Events) /\ <<>> \in Seq(Events)
        BY DEF TypeOK
      <3> QED
        BY <1>0, <2>1, <3>1
    <2> QED
      BY <2>1, <2>2, <2>3 DEF TypeOK
  <1>10. CASE \E d \in Devices : PeriphConnect(d)
    BY <1>10 DEF PeriphConnect, service, stack, life, TypeOK
  <1>11. CASE UNCHANGED vars
    BY <1>11 DEF vars, service, stack, life, TypeOK
  <1> QED
    BY <1>1, <1>2, <1>3, <1>4, <1>5, <1>6, <1>7, <1>8, <1>9, <1>10, <1>11
       DEF Next, Callback, Player, Quiet

-----------------------------------------------------------------------------
(* The inductive invariant, step by step.                                  *)

\* What the proofs use of the types.
LEMMA EvqFacts ==
  ASSUME TypeOK
  PROVE  /\ evq \in Seq(Events) /\ ctrl \in Seq(1 .. 4)
         /\ evq # <<>> => IsTail(Tail(evq), evq) /\ Head(evq) = evq[1] /\ 1 \in DOMAIN evq
         /\ \A e \in Events : IsAppend(Append(evq, e), evq, e)
  <1>1. evq \in Seq(Events) /\ ctrl \in Seq(1 .. 4)
    BY DEF TypeOK
  <1>2. evq # <<>> => 1 \in DOMAIN evq
    BY <1>1
  <1> QED
    BY <1>1, <1>2, TailFacts, AppendFacts

LEMMA InvFacts ==
  ASSUME TypeOK
  PROVE  /\ DiscoveryAlive <=> (Running /\ srcState \in Searching =>
               inquiry = "on" \/ \E i \in DOMAIN evq : evq[i] = Event("STOPPED", 0))
         /\ ConnectedHasLink <=> (Running /\ srcState = "CONNECTED" =>
               link = "up" \/ \E i \in DOMAIN evq : evq[i] = Lost)
         /\ ConnectingAlive <=> (Running /\ srcState = "CONNECTING" /\ ~incoming =>
               link = "paging" \/ \E i \in DOMAIN evq : evq[i].kind = "CONN")
  <1>1. evq \in Seq(Events)
    BY DEF TypeOK
  <1>2. (\E e \in ToSet(evq) : e.kind = "CONN") <=> \E i \in DOMAIN evq : evq[i].kind = "CONN"
    BY DEF ToSet
  <1>3. \A e : InQueue(e) <=> \E i \in DOMAIN evq : evq[i] = e
    BY <1>1, ContainsFacts DEF InQueue
  <1> QED
    BY <1>2, <1>3 DEF DiscoveryAlive, ConnectedHasLink, ConnectingAlive, Searching, Lost

\* The same of the next state.
LEMMA InvFactsNext ==
  ASSUME TypeOK'
  PROVE  /\ DiscoveryAlive' <=> (Running' /\ srcState' \in Searching =>
               inquiry' = "on" \/ \E i \in DOMAIN evq' : evq'[i] = Event("STOPPED", 0))
         /\ ConnectedHasLink' <=> (Running' /\ srcState' = "CONNECTED" =>
               link' = "up" \/ \E i \in DOMAIN evq' : evq'[i] = Lost)
         /\ ConnectingAlive' <=> (Running' /\ srcState' = "CONNECTING" /\ ~incoming' =>
               link' = "paging" \/ \E i \in DOMAIN evq' : evq'[i].kind = "CONN")
  <1>1. evq' \in Seq(Events)
    BY DEF TypeOK
  <1>2. (\E e \in ToSet(evq)' : e.kind = "CONN") <=> \E i \in DOMAIN evq' : evq'[i].kind = "CONN"
    BY DEF ToSet
  <1>3. \A e : Contains(evq', e) <=> \E i \in DOMAIN evq' : evq'[i] = e
    BY <1>1, ContainsFacts
  <1> QED
    BY <1>2, <1>3 DEF DiscoveryAlive, ConnectedHasLink, ConnectingAlive, Searching, Lost, InQueue

LEMMA InitInv == Init => IInv
  <1> SUFFICES ASSUME Init PROVE IInv
    OBVIOUS
  <1>1. TypeOK
    <2>1. <<>> \in Seq(1 .. 4) /\ <<>> \in Seq(Events)
          /\ <<>> \in Seq({"CONNECTED", "DISCONNECTED", "AUDIO_SUSPENDED"})
      OBVIOUS
    <2>2. {scan, incoming} \subseteq BOOLEAN /\ streaming \in BOOLEAN /\ listener \in BOOLEAN
      BY DEF Init
    <2> QED
      BY <2>1, <2>2 DEF Init, TypeOK, SourceStates
  <1>2. ~Running /\ DOMAIN evq = {} /\ DOMAIN ctrl = {} /\ inquiry = "off"
    BY DEF Init, Running
  <1>3. Silence
    BY <1>2 DEF Init, Silence
  <1>4. OneInquiry /\ NoStart /\ UpHasLink
    BY <1>2 DEF OneInquiry, NoStart, UpHasLink
  <1> QED
    BY <1>1, <1>2, <1>3, <1>4 DEF IInv, NoLinkYet, DiscoveryAlive, ConnectingAlive, ConnectedHasLink

\* bt_app_gap_cb: an inquiry's result.
LEMMA DiscResKeeps ==
  ASSUME IInv, TypeOK', DiscRes
  PROVE  IInv'
  <1> DEFINE q == Tail(evq)
  <1>1. TypeOK
    BY DEF IInv
  <1>2. /\ IsTail(q, evq) /\ evq[1].kind = "DISC_RES" /\ 1 \in DOMAIN evq /\ q \in Seq(Events)
    BY <1>1, EvqFacts, TailFacts DEF DiscRes
  <1>3. srcState \in Searching /\ Running
    <2>1. srcState \in Searching
      BY <1>2 DEF IInv, OneInquiry
    <2>2. evq # <<>>
      BY <1>2
    <2> QED
      BY <2>1, <2>2 DEF IInv, Silence
  <1>4. UNCHANGED <<held, scan, incoming, link, ctrl, streaming, player>>
    BY DEF DiscRes, app
  <1>5. \/ evq' = q /\ srcState' = srcState /\ inquiry' = inquiry
        \/ /\ srcState' = "DISCOVERED" /\ inquiry' = "off"
           /\ \/ inquiry = "off" /\ evq' = q
              \/ /\ inquiry = "on"
                 /\ IsAppend(evq', q, Event("STOPPED", 0))
    <2>1. IsAppend(Append(q, Event("STOPPED", 0)), q, Event("STOPPED", 0))
      BY <1>2, EventFacts, AppendFacts
    <2> HIDE DEF q
    <2>2. inquiry = "on" \/ inquiry = "off"
      BY <1>1 DEF TypeOK
    <2> QED
      BY <2>1, <2>2 DEF DiscRes, FilterInquiryScanResult, CancelDiscovery, q
  <1>6. Running'
    BY <1>3, <1>4 DEF Running
  <1> HIDE DEF q
  <1>7. Silence'
    BY <1>3, <1>4, <1>5, <1>6 DEF Silence, Searching, IInv
  <1>8. OneInquiry'
    BY <1>2, <1>3, <1>5 DEF IsTail, IsAppend, IInv, OneInquiry, Searching, Event
  <1>9. NoStart'
    BY <1>2, <1>3, <1>4, <1>5 DEF IsTail, IsAppend, IInv, NoStart, Searching, Event
  <1>10. UpHasLink'
    <2>1. \A i \in DOMAIN evq' : evq'[i].kind = "STOPPED" \/ (i + 1 \in DOMAIN evq /\ evq'[i] = evq[i + 1])
      BY <1>2, <1>5 DEF IsTail, IsAppend, Event
    <2>2. \A i \in DOMAIN evq : i = 1 \/ (i - 1 \in DOMAIN evq' /\ evq'[i - 1] = evq[i])
      BY <1>2, <1>5 DEF IsTail, IsAppend
    <2>3. DOMAIN evq \subseteq Nat /\ DOMAIN evq' \subseteq Nat
      BY <1>2, <1>5 DEF IsTail, IsAppend
    <2>4. \A j \in DOMAIN evq, i \in DOMAIN evq' : j > i + 1 => j - 1 \in DOMAIN evq' /\ evq'[j - 1] = evq[j] /\ j - 1 > i
      BY <2>2, <2>3
    <2>5. UpHasLink
      BY DEF IInv
    <2> QED
      BY <1>4, <2>1, <2>3, <2>4, <2>5 DEF UpHasLink
  <1>11. NoLinkYet'
    BY <1>3, <1>4, <1>5 DEF IInv, NoLinkYet, Running, Searching
  <1>12. srcState' \in Searching
    BY <1>3, <1>5 DEF Searching
  <1>13. ConnectingAlive' /\ ConnectedHasLink'
    BY <1>12 DEF ConnectingAlive, ConnectedHasLink, Searching
  <1>14. inquiry' = "on" \/ \E i \in DOMAIN evq' : evq'[i] = Event("STOPPED", 0)
    <2>1. inquiry = "on" \/ \E i \in DOMAIN evq : evq[i] = Event("STOPPED", 0)
      BY <1>1, <1>3, InvFacts DEF IInv
    <2>2. CASE inquiry = "on"
      BY <1>5, <2>2 DEF IsAppend
    <2>3. CASE inquiry # "on" /\ \E i \in DOMAIN evq : evq[i] = Event("STOPPED", 0)
      <3>1. PICK i \in DOMAIN evq : evq[i] = Event("STOPPED", 0)
        BY <2>3
      <3>2. i # 1
        BY <1>2, <3>1 DEF Event
      <3>3. i - 1 \in DOMAIN q /\ q[i - 1] = evq[i]
        BY <1>2, <3>2 DEF IsTail
      <3>4. evq' = q
        BY <1>5, <2>3
      <3> QED
        BY <3>1, <3>3, <3>4
    <2> QED
      BY <2>1, <2>2, <2>3
  <1>15. DiscoveryAlive'
    BY <1>14, InvFactsNext
  <1> QED
    BY <1>7, <1>8, <1>9, <1>10, <1>11, <1>13, <1>15 DEF IInv

\* The callback takes an event, Bluedroid adds one.
LEMMA UpAfterTail ==
  ASSUME UpHasLink, IsTail(evq', evq), link = "up" => link' = "up"
  PROVE  UpHasLink'
  <1>1. \A j \in DOMAIN evq, i \in DOMAIN evq' : j > i + 1 =>
           j - 1 \in DOMAIN evq' /\ evq'[j - 1] = evq[j] /\ j - 1 > i
    BY DEF IsTail
  <1> QED
    BY <1>1 DEF UpHasLink, IsTail

LEMMA UpAfterAppend ==
  ASSUME UpHasLink, NEW e, IsAppend(evq', evq, e), link = "up" => link' = "up" \/ e = Lost,
         e.kind = "CONN" => e \in {Lost, Event("CONN", Connected)},
         e.kind \in {"CONN", "AUDIO"} /\ e.word = Connected => link' = "up"
  PROVE  UpHasLink'
  <1>1. \A i \in DOMAIN evq' : i \in DOMAIN evq \/ evq'[i] = e
    BY DEF IsAppend
  <1>2. e = Lost => \E n \in DOMAIN evq' : evq'[n] = Lost /\ \A i \in DOMAIN evq : i < n
    BY DEF IsAppend
  <1>3. DOMAIN evq \subseteq Nat /\ DOMAIN evq' \subseteq Nat
        /\ \A i \in DOMAIN evq : i \in DOMAIN evq' /\ evq'[i] = evq[i]
    BY DEF IsAppend
  <1>4. ASSUME NEW i \in DOMAIN evq', evq'[i].kind \in {"CONN", "AUDIO"}, evq'[i].word = Connected
        PROVE  link' = "up" \/ \E j \in DOMAIN evq' : j > i /\ evq'[j] = Lost
    <2>1. CASE i \in DOMAIN evq
      BY <1>2, <1>3, <1>4, <2>1 DEF UpHasLink
    <2>2. CASE evq'[i] = e
      BY <1>4, <2>2
    <2> QED
      BY <1>1, <2>1, <2>2
  <1>5. \A i \in DOMAIN evq' : evq'[i].kind = "CONN" => evq'[i] \in {Lost, Event("CONN", Connected)}
    BY <1>1, <1>3 DEF UpHasLink
  <1> QED
    BY <1>4, <1>5 DEF UpHasLink

\* bt_app_gap_cb: the inquiry has ended.
LEMMA DiscoveryStoppedKeeps ==
  ASSUME IInv, TypeOK', DiscoveryStopped
  PROVE  IInv'
  <1>1. TypeOK
    BY DEF IInv
  <1>2. /\ IsTail(evq', evq) /\ evq[1].kind = "STOPPED" /\ 1 \in DOMAIN evq
    BY <1>1, EvqFacts DEF DiscoveryStopped
  <1>3. srcState \in Searching /\ Running
    <2>1. srcState \in Searching
      BY <1>2 DEF IInv, OneInquiry
    <2>2. evq # <<>>
      BY <1>2
    <2> QED
      BY <2>1, <2>2 DEF IInv, Silence
  <1>4. UNCHANGED <<held, scan, incoming, ctrl, streaming, player>>
    BY DEF DiscoveryStopped, app
  <1>5. \/ srcState = "DISCOVERED" /\ srcState' = "CONNECTING" /\ UNCHANGED inquiry
           /\ link' = (IF link = "down" THEN "paging" ELSE link)
        \/ srcState = "DISCOVERING" /\ inquiry' = "on" /\ UNCHANGED <<srcState, link>>
    BY <1>3 DEF DiscoveryStopped, Rediscovers, SourceConnect, StartDiscovery, Searching
  <1>6. Running'
    BY <1>3, <1>4 DEF Running
  <1>7. ASSUME NEW i \in DOMAIN evq'
        PROVE  evq'[i].kind \notin {"DISC_RES", "STOPPED"}
    <2>1. i + 1 \in DOMAIN evq /\ evq'[i] = evq[i + 1] /\ i \in Nat /\ i + 1 \in Nat
      BY <1>2 DEF IsTail
    <2>2. i # 0
      BY <1>2, <2>1, EvqFacts DEF DiscoveryStopped, IInv, TypeOK
    <2>3. \A j \in DOMAIN evq : evq[j].kind \in {"DISC_RES", "STOPPED"} => j <= 1
      BY <1>2 DEF IInv, OneInquiry
    <2> QED
      BY <2>1, <2>2, <2>3
  <1>8. Silence'
    BY <1>3, <1>4, <1>5, <1>6 DEF Silence, Searching, IInv
  <1>9. OneInquiry'
    BY <1>5, <1>7 DEF OneInquiry, IInv
  <1>10. NoStart'
    BY <1>2, <1>3, <1>4 DEF IsTail, IInv, NoStart
  <1>11. UpHasLink'
    BY <1>2, <1>5, UpAfterTail DEF IInv
  <1>12. NoLinkYet'
    BY <1>3, <1>4, <1>5 DEF IInv, NoLinkYet, Running, Searching
  <1>13. link' = "paging" \/ incoming' \/ srcState' # "CONNECTING"
    BY <1>3, <1>4, <1>5 DEF IInv, NoLinkYet
  <1>14. DiscoveryAlive' /\ ConnectingAlive' /\ ConnectedHasLink'
    BY <1>4, <1>5, <1>13, InvFactsNext DEF Searching
  <1> QED
    BY <1>8, <1>9, <1>10, <1>11, <1>12, <1>14 DEF IInv

\* bt_a2d_source_cb.
LEMMA SourceCbKeeps ==
  ASSUME IInv, TypeOK', SourceCb
  PROVE  IInv'
  <1>1. TypeOK
    BY DEF IInv
  <1>2. PICK e \in ToSet(evq) : /\ SourceEvent(e)
                                /\ WhenConnecting(e) \/ MediaAck(e) \/ LinkDown(e) \/ Ignored(e)
    BY DEF SourceCb
  <1>3. /\ IsTail(evq', evq) /\ 1 \in DOMAIN evq /\ evq[1] = e /\ evq # <<>>
        /\ e.kind \in {"CONN", "AUDIO", "ACK"}
    BY <1>1, <1>2, EvqFacts DEF SourceEvent
  <1>4. UNCHANGED <<held, incoming, inquiry, link, streaming, player>>
    BY DEF SourceCb, app
  <1>5. Running /\ Running'
    BY <1>3, <1>4 DEF IInv, Silence, Running
  <1>6. /\ scan' = scan \/ scan' = FALSE
        /\ \/ srcState' = srcState
           \/ srcState = "CONNECTING" /\ srcState' = "CONNECTED" /\ e.word = Connected
           \/ srcState = "CONNECTING" /\ srcState' = "UNCONNECTED"
           \/ srcState = "CONNECTED" /\ srcState' = "UNCONNECTED"
        /\ srcState \notin {"CONNECTING", "CONNECTED"} => ctrl' = ctrl
        /\ srcState' = "CONNECTING" => /\ srcState = "CONNECTING" /\ ctrl' = ctrl
                                       /\ e.word \notin {Connected, Disconnected}
        /\ srcState' = "CONNECTED" /\ srcState = "CONNECTED" => e # Lost
    BY <1>2 DEF WhenConnecting, MediaAck, LinkDown, Ignored, Lost, Event
  <1>7. Silence'
    BY <1>5, <1>4, <1>6 DEF IInv, Silence
  <1>8. OneInquiry'
    BY <1>3, <1>4, <1>6 DEF IInv, IsTail, OneInquiry, Searching
  <1>9. NoStart'
    <2>1. srcState' \in Searching \cup {"CONNECTING"} =>
             srcState' = srcState /\ ctrl' = ctrl
      BY <1>6 DEF Searching
    <2> QED
      BY <1>3, <2>1 DEF IInv, IsTail, NoStart
  <1>10. UpHasLink'
    BY <1>3, <1>4, UpAfterTail DEF IInv
  <1>11. NoLinkYet'
    BY <1>4, <1>5, <1>6 DEF IInv, NoLinkYet, Searching
  <1>12. DiscoveryAlive'
    <2>1. srcState' \in Searching => srcState \in Searching
      BY <1>6 DEF Searching
    <2>2. e # Event("STOPPED", 0)
      BY <1>3 DEF Event
    <2> QED
      BY <1>1, <1>3, <1>4, <1>5, <2>1, <2>2, InvFacts, InvFactsNext DEF IsTail, IInv
  <1>13. ConnectingAlive'
    <2>1. srcState' = "CONNECTING" => e.kind # "CONN"
      BY <1>3, <1>6 DEF IInv, UpHasLink, Lost, Event
    <2> QED
      BY <1>1, <1>3, <1>4, <1>5, <1>6, <2>1, InvFacts, InvFactsNext DEF IsTail, IInv
  <1>14. ConnectedHasLink'
    <2>1. CASE srcState' = "CONNECTED" /\ srcState = "CONNECTED"
      BY <1>1, <1>3, <1>4, <1>5, <1>6, <2>1, InvFacts, InvFactsNext DEF IsTail, IInv
    <2>2. CASE srcState' = "CONNECTED" /\ srcState # "CONNECTED"
      <3>1. srcState = "CONNECTING" /\ e.word = Connected
        BY <1>6, <2>2
      <3>2. e.kind # "ACK"
        BY <1>3, <3>1 DEF IInv, NoStart, Connected, Stop
      <3>3. link = "up" \/ \E j \in DOMAIN evq : j > 1 /\ evq[j] = Lost
        BY <1>3, <3>1, <3>2 DEF IInv, UpHasLink
      <3> QED
        BY <1>3, <1>4, <3>3, InvFactsNext DEF IsTail
    <2>3. CASE srcState' # "CONNECTED"
      BY <2>3, InvFactsNext
    <2> QED
      BY <2>1, <2>2, <2>3
  <1> QED
    BY <1>7, <1>8, <1>9, <1>10, <1>11, <1>12, <1>13, <1>14 DEF IInv

\* Bluedroid reports an event that is neither of an inquiry nor Stop's answer.
LEMMA ReportKeeps ==
  ASSUME IInv, TypeOK', Running, NEW e \in Events, Report(e),
         e.kind \in {"CONN", "AUDIO", "ACK"},
         UNCHANGED <<srcState, held, player, inquiry, scan>>, incoming => incoming',
         \A i \in DOMAIN ctrl' : ctrl'[i] = Stop \/ \E j \in DOMAIN ctrl : ctrl'[i] = ctrl[j],
         e.kind = "ACK" => \E i \in DOMAIN ctrl : e.word = ctrl[i],
         e.kind = "CONN" => e \in {Lost, Event("CONN", Connected)},
         e.kind \in {"CONN", "AUDIO"} /\ e.word = Connected => link' = "up",
         link = "up" => link' = "up" \/ e = Lost,
         link = "paging" => link' = "paging" \/ e.kind = "CONN",
         link = "down" => link' = "down" \/ incoming'
  PROVE  IInv'
  <1>1. TypeOK
    BY DEF IInv
  <1>2. IsAppend(evq', evq, e)
    BY <1>1, EvqFacts DEF Report
  <1>3. Running'
    BY DEF Running
  <1>4. /\ \A i \in DOMAIN evq : i \in DOMAIN evq' /\ evq'[i] = evq[i]
        /\ \A i \in DOMAIN evq' : i \in DOMAIN evq \/ evq'[i] = e
        /\ \E n \in DOMAIN evq' : evq'[n] = e
    BY <1>2 DEF IsAppend
  <1>5. Silence'
    BY <1>3 DEF IInv, Silence
  <1>6. OneInquiry'
    BY <1>4 DEF IInv, OneInquiry
  <1>7. NoStart'
    BY <1>4 DEF IInv, NoStart
  <1>8. UpHasLink'
    BY <1>2, UpAfterAppend DEF IInv
  <1>9. NoLinkYet'
    BY <1>3 DEF IInv, NoLinkYet
  <1>10. DiscoveryAlive' /\ ConnectingAlive'
    BY <1>1, <1>3, <1>4, InvFacts, InvFactsNext DEF IInv
  <1>11. ConnectedHasLink'
    BY <1>1, <1>3, <1>4, InvFacts, InvFactsNext DEF IInv
  <1> QED
    BY <1>5, <1>6, <1>7, <1>8, <1>9, <1>10, <1>11 DEF IInv

LEMMA EventForms ==
  /\ Event("CONN", Connected).kind = "CONN" /\ Event("CONN", Connected).word = Connected
  /\ Lost = Event("CONN", Disconnected) /\ Lost.kind = "CONN" /\ Lost.word = Disconnected
  /\ \A w : Event("AUDIO", w).kind = "AUDIO" /\ Event("AUDIO", w).word = w
  /\ \A w, ok : /\ [Event("ACK", w) EXCEPT !.ok = ok].kind = "ACK"
                /\ [Event("ACK", w) EXCEPT !.ok = ok].word = w
  BY DEF Event, Lost

LEMMA BluedroidKeeps ==
  ASSUME IInv, TypeOK', Bluedroid
  PROVE  IInv'
  <1>1. TypeOK
    BY DEF IInv
  <1>2. UNCHANGED <<srcState, held, player>>
    BY DEF Bluedroid, service, life
  <1>3. ASSUME NEW d \in Devices, InquiryResult(d)
        PROVE  IInv'
    <2>1. IsAppend(evq', evq, Found(d)) /\ Found(d).kind = "DISC_RES"
      BY <1>1, <1>3, EvqFacts, EventFacts DEF InquiryResult, Report, Found
    <2>2. UNCHANGED stack /\ inquiry = "on" /\ Running
      BY <1>3 DEF InquiryResult
    <2>3. /\ \A i \in DOMAIN evq : i \in DOMAIN evq' /\ evq'[i] = evq[i]
          /\ \A i \in DOMAIN evq' : i \in DOMAIN evq \/ evq'[i] = Found(d)
      BY <2>1 DEF IsAppend
    <2>4. Silence' /\ NoLinkYet'
      BY <1>2, <2>2 DEF stack, IInv, Silence, NoLinkYet, Running
    <2>5. OneInquiry'
      BY <1>2, <2>1, <2>2, <2>3 DEF stack, IInv, OneInquiry, Searching
    <2>6. NoStart'
      BY <1>2, <2>1, <2>2, <2>3 DEF stack, IInv, NoStart
    <2>7. UpHasLink'
      BY <2>1, <2>2, UpAfterAppend DEF stack, IInv
    <2>8. DiscoveryAlive' /\ ConnectingAlive' /\ ConnectedHasLink'
      BY <1>1, <1>2, <2>2, <2>3, InvFacts, InvFactsNext DEF stack, IInv, Running
    <2> QED
      BY <2>4, <2>5, <2>6, <2>7, <2>8 DEF IInv
  <1>4. CASE InquiryEnds
    <2> DEFINE e == Event("STOPPED", 0)
    <2>1. IsAppend(evq', evq, e) /\ e.kind = "STOPPED"
      BY <1>1, <1>4, EvqFacts, EventFacts DEF InquiryEnds, Report, Event
    <2>2. /\ inquiry = "on" /\ inquiry' = "off" /\ Running
          /\ UNCHANGED <<scan, incoming, link, ctrl, streaming>>
      BY <1>4 DEF InquiryEnds
    <2>3. /\ \A i \in DOMAIN evq : i \in DOMAIN evq' /\ evq'[i] = evq[i]
          /\ \A i \in DOMAIN evq' : i \in DOMAIN evq \/ evq'[i] = e
          /\ \E n \in DOMAIN evq' : /\ evq'[n] = e
                                    /\ \A i \in DOMAIN evq : i < n
                                    /\ \A i \in DOMAIN evq' : i = n \/ i \in DOMAIN evq
          /\ DOMAIN evq' \subseteq Nat
      BY <2>1 DEF IsAppend
    <2> HIDE DEF e
    <2>4. Silence' /\ NoLinkYet'
      BY <1>2, <2>2 DEF IInv, Silence, NoLinkYet, Running
    <2>5. OneInquiry'
      <3>1. /\ srcState \in Searching
            /\ \A i \in DOMAIN evq : evq[i].kind # "STOPPED"
        BY <2>2 DEF IInv, OneInquiry, Searching
      <3> QED
        BY <1>2, <2>1, <2>2, <2>3, <3>1 DEF OneInquiry, e
    <2>6. NoStart'
      BY <1>2, <2>1, <2>2, <2>3 DEF IInv, NoStart
    <2>7. UpHasLink'
      BY <2>1, <2>2, UpAfterAppend DEF IInv
    <2>8. DiscoveryAlive' /\ ConnectingAlive' /\ ConnectedHasLink'
      BY <1>1, <1>2, <2>2, <2>3, InvFacts, InvFactsNext DEF IInv, Running, e
    <2> QED
      BY <2>4, <2>5, <2>6, <2>7, <2>8 DEF IInv
  <1>5. ASSUME NEW ok \in BOOLEAN, PageEnds(ok)
        PROVE  IInv'
    <2>1. Running
      BY <1>5 DEF PageEnds, IInv, Silence
    <2>2. UNCHANGED <<scan, incoming, inquiry, ctrl, streaming>> /\ link = "paging"
      BY <1>5 DEF PageEnds
    <2>3. CASE ok
      <3>1. Report(Event("CONN", Connected)) /\ link' = "up"
        BY <1>5, <2>3 DEF PageEnds
      <3>2. Event("CONN", Connected) \in Events
        BY EventFacts DEF Connected
      <3> QED
        BY <1>2, <2>1, <2>2, <3>1, <3>2, EventForms, ReportKeeps
    <2>4. CASE ~ok
      <3>1. Report(Lost) /\ link' = "down"
        BY <1>5, <2>4 DEF PageEnds, Lost
      <3>2. Lost \in Events
        BY EventFacts DEF Lost, Disconnected
      <3> QED
        BY <1>2, <2>1, <2>2, <3>1, <3>2, EventForms, ReportKeeps DEF Connected, Disconnected
    <2> QED
      BY <2>3, <2>4
  <1>6. CASE IncomingConnection
    <2>1. /\ Running /\ Report(Event("CONN", Connected)) /\ link' = "up" /\ incoming'
          /\ UNCHANGED <<scan, inquiry, ctrl, streaming>> /\ link = "down"
      BY <1>6 DEF IncomingConnection
    <2>2. Event("CONN", Connected) \in Events
      BY EventFacts DEF Connected
    <2> QED
      BY <1>2, <2>1, <2>2, EventForms, ReportKeeps
  <1>7. CASE LinkLost
    <2>1. /\ Report(Lost) /\ link = "up" /\ ctrl' = <<>> /\ UNCHANGED <<scan, incoming, inquiry>>
      BY <1>7 DEF LinkLost, Lost
    <2>2. Running
      BY <2>1 DEF IInv, Silence
    <2>3. Lost \in Events
      BY EventFacts DEF Lost, Disconnected
    <2>4. DOMAIN ctrl' = {}
      BY <2>1
    <2> QED
      BY <1>2, <2>1, <2>2, <2>3, <2>4, EventForms, ReportKeeps DEF Connected, Disconnected
  <1>8. ASSUME NEW ok \in BOOLEAN, MediaAnswer(ok)
        PROVE  IInv'
    <2> DEFINE e == [Event("ACK", Head(ctrl)) EXCEPT !.ok = ok]
    <2>1. /\ ctrl # <<>> /\ Report(e) /\ ctrl' = Tail(ctrl)
          /\ UNCHANGED <<scan, incoming, inquiry, link>>
      BY <1>8 DEF MediaAnswer
    <2>2. ctrl \in Seq(1 .. 4) /\ Head(ctrl) = ctrl[1] /\ 1 \in DOMAIN ctrl /\ Head(ctrl) \in 0..4
      <3>1. ctrl \in Seq(1 .. 4)
        BY <1>1, EvqFacts
      <3> QED
        BY <2>1, <3>1
    <2>3. IsTail(ctrl', ctrl)
      BY <2>1, <2>2, TailFacts
    <2>4. Running
      BY <2>1 DEF IInv, Silence
    <2>5. e \in Events /\ e.kind = "ACK" /\ e.word = ctrl[1]
      BY <2>2, EventFacts, EventForms
    <2>6. \A i \in DOMAIN ctrl' : \E j \in DOMAIN ctrl : ctrl'[i] = ctrl[j]
      BY <2>3 DEF IsTail
    <2> HIDE DEF e
    <2> QED
      BY <1>2, <2>1, <2>2, <2>4, <2>5, <2>6, ReportKeeps
  <1>9. ASSUME NEW on \in BOOLEAN, RemoteAudio(on)
        PROVE  IInv'
    <2>1. /\ link = "up" /\ UNCHANGED <<scan, incoming, inquiry, link, ctrl>>
          /\ Report(Event("AUDIO", Started)) \/ Report(Event("AUDIO", Suspended))
      BY <1>9 DEF RemoteAudio
    <2>2. Running
      BY <2>1 DEF IInv, Silence
    <2>3. Event("AUDIO", Started) \in Events /\ Event("AUDIO", Suspended) \in Events
      BY EventFacts DEF Started, Suspended
    <2> QED
      BY <1>2, <2>1, <2>2, <2>3, EventForms, ReportKeeps
  <1> QED
    BY <1>3, <1>4, <1>5, <1>6, <1>7, <1>8, <1>9 DEF Bluedroid

\* The player and the data callback leave Bluedroid alone, but for a Stop.
LEMMA StillKeeps ==
  ASSUME IInv, TypeOK', Running' <=> Running, player' = "start" => player = "start",
         UNCHANGED <<srcState, evq, scan, incoming, inquiry, link, streaming>>,
         ctrl' = ctrl \/ (link = "up" /\ ctrl' = Append(ctrl, Stop))
  PROVE  IInv'
  <1>1. TypeOK
    BY DEF IInv
  <1>2. \A i \in DOMAIN ctrl' : ctrl'[i] = Stop \/ (i \in DOMAIN ctrl /\ ctrl'[i] = ctrl[i])
    <2>1. ctrl \in Seq(1 .. 4) /\ Stop \in 1 .. 4
      BY <1>1, EvqFacts DEF Stop
    <2>2. IsAppend(Append(ctrl, Stop), ctrl, Stop)
      BY <2>1, AppendFacts
    <2> QED
      BY <2>2 DEF IsAppend
  <1>3. Silence' /\ NoLinkYet'
    BY DEF IInv, Silence, NoLinkYet
  <1>4. OneInquiry' /\ UpHasLink'
    BY DEF IInv, OneInquiry, UpHasLink
  <1>5. NoStart'
    BY <1>2 DEF IInv, NoStart
  <1>6. DiscoveryAlive' /\ ConnectingAlive' /\ ConnectedHasLink'
    BY <1>1, InvFacts, InvFactsNext DEF IInv
  <1> QED
    BY <1>3, <1>4, <1>5, <1>6 DEF IInv

LEMMA StartServiceKeeps ==
  ASSUME IInv, TypeOK', StartService
  PROVE  IInv'
  <1>1. PICK ok \in BOOLEAN :
           /\ player = "start" /\ player' = "create"
           /\ held' = {"service"} \cup (IF ok THEN {"bluedroid"} ELSE {})
           /\ srcState' = IF ok THEN "DISCOVERING" ELSE srcState
           /\ scan' = ok
           /\ IF ok THEN StartDiscovery ELSE UNCHANGED inquiry
           /\ UNCHANGED <<evq, incoming, link, ctrl, streaming>>
    BY DEF StartService, ServiceStart, Goto
  <1>2. /\ evq = <<>> /\ ctrl = <<>> /\ link = "down" /\ inquiry = "off" /\ ~scan /\ ~streaming
        /\ ~incoming
    BY <1>1 DEF IInv, Silence
  <1>3. DOMAIN evq' = {} /\ DOMAIN ctrl' = {}
    BY <1>1, <1>2
  <1>4. CASE ok
    <2>1. Running' /\ srcState' = "DISCOVERING" /\ inquiry' = "on"
      BY <1>1, <1>4 DEF Running, StartDiscovery
    <2> QED
      BY <1>1, <1>2, <1>3, <2>1
         DEF IInv, Silence, OneInquiry, NoStart, UpHasLink, NoLinkYet, DiscoveryAlive,
             ConnectingAlive, ConnectedHasLink, Searching
  <1>5. CASE ~ok
    <2>1. ~Running' /\ inquiry' = "off" /\ ~scan'
      BY <1>1, <1>2, <1>5 DEF Running
    <2> QED
      BY <1>1, <1>2, <1>3, <2>1
         DEF IInv, Silence, OneInquiry, NoStart, UpHasLink, NoLinkYet, DiscoveryAlive,
             ConnectingAlive, ConnectedHasLink
  <1> QED
    BY <1>4, <1>5

LEMMA ShutdownKeeps ==
  ASSUME IInv, TypeOK', Shutdown
  PROVE  IInv'
  <1>1. /\ player' = "gone" /\ UNCHANGED <<srcState, incoming>>
        /\ held' = IF MayDestroy THEN {} ELSE held
    BY DEF Shutdown, ServiceDestroy, Goto, service, stack
  <1>2. CASE MayDestroy
    <2>1. /\ evq' = <<>> /\ ~scan' /\ inquiry' = "off" /\ link' = "down" /\ ctrl' = <<>>
          /\ ~streaming' /\ ~Running'
      BY <1>1, <1>2 DEF Shutdown, Running
    <2>2. DOMAIN evq' = {} /\ DOMAIN ctrl' = {}
      BY <2>1
    <2> QED
      BY <1>1, <2>1, <2>2
         DEF IInv, Silence, OneInquiry, NoStart, UpHasLink, NoLinkYet, DiscoveryAlive,
             ConnectingAlive, ConnectedHasLink
  <1>3. CASE ~MayDestroy
    <2>1. UNCHANGED <<held, evq, scan, incoming, inquiry, link, ctrl, streaming>>
      BY <1>1, <1>3 DEF Shutdown, stack
    <2> QED
      BY <1>1, <2>1, StillKeeps DEF Running
  <1> QED
    BY <1>2, <1>3

LEMMA Step ==
  ASSUME IInv, [Next]_vars
  PROVE  IInv'
  <1>0. TypeOK'
    BY TypeKept DEF IInv
  <1>1. CASE Callback
    BY <1>0, <1>1, DiscResKeeps, DiscoveryStoppedKeeps, SourceCbKeeps DEF Callback
  <1>2. CASE SourceDataDone
    BY <1>0, <1>2, StillKeeps DEF SourceDataDone, service, stack, app, Running
  <1>3. CASE Bluedroid
    BY <1>0, <1>3, BluedroidKeeps
  <1>4. CASE Listen
    <2>1. /\ player' # "start"
          /\ ctrl' = ctrl \/ (link = "up" /\ ctrl' = Append(ctrl, Stop))
          /\ UNCHANGED <<srcState, held, evq, scan, incoming, inquiry, link, streaming>>
      BY <1>4 DEF Listen
    <2> QED
      BY <1>0, <2>1, StillKeeps DEF Running
  <1>5. CASE (SetUp \/ TearDown) /\ UNCHANGED <<service, evq, stack, asked>>
    <2>1. player' # "start"
      BY <1>5 DEF SetUp, TearDown, Create, SetListener, RemoveListener, Destroy, Goto
    <2>2. Running' <=> Running
      BY <1>5 DEF SetUp, TearDown, Create, SetListener, RemoveListener, Destroy, Running
    <2> QED
      BY <1>0, <1>5, <2>1, <2>2, StillKeeps DEF service, stack
  <1>6. CASE StartService \/ Shutdown
    BY <1>0, <1>6, StartServiceKeeps, ShutdownKeeps
  <1>7. CASE (\E d \in Devices : PeriphConnect(d)) \/ UNCHANGED vars
    BY <1>0, <1>7, StillKeeps DEF PeriphConnect, vars, service, stack, life, Running
  <1> QED
    BY <1>1, <1>2, <1>3, <1>4, <1>5, <1>6, <1>7 DEF Next, Player, Quiet

-----------------------------------------------------------------------------
(* The theorems.                                                           *)

LEMMA Inductive == Spec => []IInv
  <1>1. IInv /\ [Next]_vars => IInv'
    BY Step
  <1> QED
    BY InitInv, <1>1, PTL DEF Spec

\* Every variable keeps its type: the states, Bluedroid's event queue, the commands on
\* their way and the player's messages.
THEOREM TypeCorrect == Spec => []TypeOK
  <1>1. IInv => TypeOK
    BY DEF IInv
  <1> QED
    BY Inductive, <1>1, PTL

\* While the service searches, an inquiry runs or its end is on its way to the callback
\* that starts the next one or the connection.
THEOREM SearchGoesOn == Spec => []DiscoveryAlive
  <1>1. IInv => DiscoveryAlive
    BY DEF IInv
  <1> QED
    BY Inductive, <1>1, PTL

\* While the service waits for its connection, a page is under way or its outcome is on
\* its way to the callback, unless another device has connected.
THEOREM AttemptEnds == Spec => []ConnectingAlive
  <1>1. IInv => ConnectingAlive
    BY DEF IInv
  <1> QED
    BY Inductive, <1>1, PTL

\* A service that believes to be connected has a link, or the loss of it is on its way:
\* reading conn_stat from an event of another kind never makes up a connection.
THEOREM ConnectedMeansLink == Spec => []ConnectedHasLink
  <1>1. IInv => ConnectedHasLink
    BY DEF IInv
  <1> QED
    BY Inductive, <1>1, PTL

-----------------------------------------------------------------------------
(* BtConnection.                                                           *)

\* A message is told or lost.
LEMMA SendTells ==
  ASSUME NEW msg, SendEvent(msg)
  PROVE  Connection!Tell(msg)
  BY DEF SendEvent, Connection!Tell

\* A result or the end of an inquiry finds the service searching.
LEMMA InquiryFinds ==
  ASSUME IInv, evq # <<>>
  PROVE  /\ Head(evq).kind \in {"DISC_RES", "STOPPED"} => srcState \in Searching
         /\ Head(evq).kind = "STOPPED" => inquiry = "off"
         /\ inquiry \in {"on", "off"}
  <1>1. Head(evq) = evq[1] /\ 1 \in DOMAIN evq
    BY EvqFacts DEF IInv
  <1>2. inquiry \in {"on", "off"}
    BY DEF IInv, TypeOK
  <1>3. OneInquiry
    BY DEF IInv
  <1> QED
    BY <1>1, <1>2, <1>3 DEF OneInquiry

LEMMA CallbackConnects ==
  ASSUME IInv, Callback
  PROVE  Connection!Next \/ UNCHANGED Connection!vars
  <1>1. CASE DiscRes
    <2> DEFINE d == Head(evq).dev
    <2>1. srcState \in Searching /\ inquiry \in {"on", "off"}
      BY <1>1, InquiryFinds DEF DiscRes
    <2>2. UNCHANGED inbox
      BY <1>1 DEF DiscRes
    <2>3. CASE IsTarget(d)
      <3>1. d \in {x \in Devices : IsTarget(x)}
        BY <2>3, DeviceAssumption DEF IsTarget
      <3>2. srcState' = "DISCOVERED" /\ remoteBda' = d /\ inquiry' = "off"
        BY <1>1, <2>1, <2>3 DEF DiscRes, FilterInquiryScanResult, CancelDiscovery
      <3> HIDE DEF d
      <3>3. Connection!Find(d)
        BY <2>1, <2>2, <3>2 DEF Connection!Find, Searching
      <3> QED
        BY <3>1, <3>3 DEF Connection!Next
    <2>4. CASE ~ IsTarget(d)
      BY <1>1, <2>2, <2>4 DEF DiscRes, FilterInquiryScanResult, Connection!vars
    <2> QED
      BY <2>3, <2>4
  <1>2. CASE DiscoveryStopped
    <2>1. srcState \in Searching /\ inquiry = "off"
      BY <1>2, InquiryFinds DEF DiscoveryStopped
    <2>2. UNCHANGED <<remoteBda, inbox>>
      BY <1>2 DEF DiscoveryStopped
    <2>3. CASE srcState = "DISCOVERED"
      <3>1. srcState' = "CONNECTING" /\ UNCHANGED inquiry
        BY <1>2, <2>3 DEF DiscoveryStopped, Rediscovers
      <3> QED
        BY <2>1, <2>2, <2>3, <3>1 DEF Connection!Next, Connection!Connect, Connection!Goes
    <2>4. CASE srcState = "DISCOVERING"
      <3>1. inquiry' = "on" /\ UNCHANGED srcState
        BY <1>2, <2>4 DEF DiscoveryStopped, StartDiscovery
      <3> QED
        BY <2>2, <2>4, <3>1 DEF Connection!Next, Connection!SearchAgain
    <2> QED
      BY <2>1, <2>3, <2>4 DEF Searching
  <1>3. CASE SourceCb
    <2>1. PICK e : /\ WhenConnecting(e) \/ MediaAck(e) \/ LinkDown(e) \/ Ignored(e)
                   /\ UNCHANGED <<remoteBda, inquiry>>
      BY <1>3 DEF SourceCb
    <2>2. CASE WhenConnecting(e)
      <3>1. CASE e.word = Connected
        <4>1. srcState = "CONNECTING" /\ srcState' = "CONNECTED" /\ SendEvent("CONNECTED")
          BY <2>2, <3>1 DEF WhenConnecting, Connected, Disconnected
        <4> QED
          BY <2>1, <4>1, SendTells DEF Connection!Next, Connection!Connected, Connection!Goes
      <3>2. CASE e.word = Disconnected
        <4>1. srcState = "CONNECTING" /\ srcState' = "UNCONNECTED" /\ UNCHANGED inbox
          BY <2>2, <3>2 DEF WhenConnecting, Connected, Disconnected
        <4> QED
          BY <2>1, <4>1 DEF Connection!Next, Connection!Failed, Connection!Goes
      <3>3. CASE e.word \notin {Connected, Disconnected}
        BY <2>1, <2>2, <3>3 DEF WhenConnecting, Connection!vars
      <3> QED
        BY <3>1, <3>2, <3>3
    <2>3. CASE LinkDown(e)
      <3>1. srcState = "CONNECTED" /\ srcState' = "UNCONNECTED" /\ SendEvent("DISCONNECTED")
        BY <2>3 DEF LinkDown
      <3> QED
        BY <2>1, <3>1, SendTells DEF Connection!Next, Connection!Disconnected, Connection!Goes
    <2>4. CASE MediaAck(e) \/ Ignored(e)
      BY <2>1, <2>4 DEF MediaAck, Ignored, Connection!vars
    <2> QED
      BY <2>1, <2>2, <2>3, <2>4
  <1> QED
    BY <1>1, <1>2, <1>3 DEF Callback

LEMMA StepConnects ==
  ASSUME IInv, [Next]_vars
  PROVE  Connection!Next \/ UNCHANGED Connection!vars
  <1>1. CASE Callback
    BY <1>1, CallbackConnects
  <1>2. CASE SourceDataDone
    <2>1. SendEvent("AUDIO_SUSPENDED") /\ UNCHANGED <<srcState, remoteBda, inquiry>>
      BY <1>2 DEF SourceDataDone, service, stack
    <2> QED
      BY <2>1, SendTells DEF Connection!Next, Connection!Suspended
  <1>3. CASE Bluedroid
    <2>1. UNCHANGED <<srcState, remoteBda, inbox>>
      BY <1>3 DEF Bluedroid, service, life
    <2>2. inquiry' = inquiry \/ inquiry' = "off"
      BY <1>3 DEF Bluedroid, InquiryResult, InquiryEnds, PageEnds, MediaAnswer, RemoteAudio,
                  IncomingConnection, LinkLost, stack
    <2> QED
      BY <2>1, <2>2 DEF Connection!Next, Connection!SearchEnds, Connection!vars
  <1>4. CASE StartService
    <2>1. PICK ok \in BOOLEAN :
             /\ ServiceStart("start", "create", ok)
             /\ srcState' = IF ok THEN "DISCOVERING" ELSE srcState
             /\ IF ok THEN StartDiscovery ELSE UNCHANGED inquiry
             /\ UNCHANGED remoteBda
      BY <1>4 DEF StartService
    <2>2. player = "start" /\ UNCHANGED inbox
      BY <2>1 DEF ServiceStart, Goto
    <2>3. CASE ok
      <3>1. srcState = "IDLE"
        BY <2>2 DEF IInv, Silence
      <3> QED
        BY <2>1, <2>2, <2>3, <3>1 DEF StartDiscovery, Connection!Next, Connection!Begin,
                                      Connection!Goes
    <2>4. CASE ~ ok
      BY <2>1, <2>2, <2>4 DEF Connection!vars
    <2> QED
      BY <2>3, <2>4
  <1>5. CASE Listen
    <2>1. inbox # <<>> /\ inbox' = Tail(inbox) /\ UNCHANGED <<srcState, remoteBda, inquiry>>
      BY <1>5 DEF Listen
    <2> QED
      BY <2>1 DEF Connection!Next, Connection!Listen
  <1>6. CASE (SetUp \/ TearDown) /\ UNCHANGED <<service, evq, stack, asked>>
    <2>1. inbox' = inbox \/ inbox' = <<>>
      BY <1>6 DEF SetUp, TearDown, Create, SetListener, RemoveListener, Destroy
    <2>2. UNCHANGED <<srcState, remoteBda, inquiry>>
      BY <1>6 DEF service, stack
    <2> QED
      BY <2>1, <2>2 DEF Connection!Next, Connection!Listen, Connection!vars
  <1>7. CASE Shutdown
    <2>1. UNCHANGED <<srcState, remoteBda, inbox>> /\ inquiry' \in {inquiry, "off"}
      BY <1>7 DEF Shutdown, ServiceDestroy, service, stack
    <2> QED
      BY <2>1 DEF Connection!Next, Connection!SearchEnds, Connection!vars
  <1>8. CASE (\E d \in Devices : PeriphConnect(d)) \/ UNCHANGED vars
    BY <1>8 DEF PeriphConnect, vars, service, stack, life, Connection!vars
  <1> QED
    BY <1>1, <1>2, <1>3, <1>4, <1>5, <1>6, <1>7, <1>8 DEF Next, Player, Quiet

\* The service as source implements BtConnection: no result, end of an inquiry or event of
\* another kind that comes late makes it search, choose or connect again.
THEOREM Refinement == Spec => ConnectionSpec
  <1>1. Init => Connection!Init
    BY DEF Init, Connection!Init
  <1>2. IInv /\ [Next]_vars => [Connection!Next]_(Connection!vars)
    BY StepConnects
  <1> QED
    BY <1>1, <1>2, Inductive, PTL DEF Spec, ConnectionSpec, Connection!Spec
=============================================================================
