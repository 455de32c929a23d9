---------------------------- MODULE BtSink_proofs ----------------------------
(***************************************************************************)
(* Theorems about the Bluetooth service as sink and its player, for any    *)
(* phones and any bound on what waits, and their proofs.                   *)
(***************************************************************************)
EXTENDS BtSink, TLAPS, WellFoundedInduction

Events == ConnEvents \cup AudioEvents \cup CfgEvents

\* What Bluedroid's links are before and after event e.
Follows(before, e, after) ==
    \/ e.kind = "CONN" /\ e.state = "CONNECTED" /\ before = NoDevice /\ after = e.dev
    \/ /\ e.kind = "CONN" /\ e.state = "DISCONNECTED"
       /\ after = IF before = e.dev THEN NoDevice ELSE before
    \/ /\ e.kind # "CONN" \/ e.state \notin {"CONNECTED", "DISCONNECTED"}
       /\ after = before

\* The events of queue q tell how link first became link last.
IsTrail(h, q, first, last) == /\ h \in [0 .. Len(q) -> Peers]
                              /\ h[0] = first /\ h[Len(q)] = last
                              /\ \A i \in 1 .. Len(q) : Follows(h[i - 1], q[i], h[i])
Trail(q, first, last) == \E h \in [0 .. Len(q) -> Peers] : IsTrail(h, q, first, last)

\* The service has the link the next event begins with.
Tracked == /\ conn = "CONNECTED" <=> remoteBda # NoDevice
           /\ Running => Trail(evq, remoteBda, link)

\* Bluedroid has one link or one page, and streams what has been configured.
OneLink == /\ page # NoDevice => link = NoDevice
           /\ freq # 0 => link # NoDevice
           /\ streaming => freq # 0

\* Before it runs nothing happens, and the player does not listen before it loops.
Before == /\ ~Running => /\ evq = <<>> /\ page = NoDevice /\ link = NoDevice
          /\ player = "start" => remoteBda = NoDevice /\ ~Running
          /\ player \in {"start", "create", "periph", "listen"} => ~listener /\ ~heard

Oct0(f) == {CASE f = 16000 -> 7 [] f = 32000 -> 6 [] f = 44100 -> 5 [] f = 48000 -> 4}
LastCfg(q, f) == \E i \in 1 .. Len(q) : /\ q[i].kind = "CFG" /\ q[i].oct0 = Oct0(f)
                                        /\ \A j \in 1 .. Len(q) : q[j].kind = "CFG" => j <= i

\* The chosen frequency is in the queue's last configuration, or in the element.
ChosenIn(q, f) == f # 0 => \/ LastCfg(q, f)
                           \/ /\ \A i \in 1 .. Len(q) : q[i].kind # "CFG"
                              /\ heard => btRate = f
Chosen == ChosenIn(evq, freq)

\* The player has what the element has, unless it is told to fetch it.
HasInfo(s) == \E i \in 1 .. Len(s) : s[i] = "MUSIC_INFO"
Fetched == /\ heard /\ ~HasInfo(inbox) => /\ player = "loop" => i2sClk = btRate
                                          /\ player = "setClk" => musicInfo = btRate
           /\ player = "setClk" => musicInfo # 0

IInv == TypeOK /\ Tracked /\ OneLink /\ Before /\ Chosen /\ Fetched

-----------------------------------------------------------------------------
(* Queues.                                                                 *)

LEMMA TailFacts ==
  ASSUME NEW S, NEW s \in Seq(S), s # <<>>
  PROVE  /\ Tail(s) \in Seq(S) /\ Head(s) = s[1] /\ s[1] \in S
         /\ Len(s) \in Nat \ {0} /\ Len(Tail(s)) = Len(s) - 1
         /\ \A i \in 1 .. (Len(s) - 1) : Tail(s)[i] = s[i + 1]
  OBVIOUS

LEMMA AppendFacts ==
  ASSUME NEW S, NEW s \in Seq(S), NEW e \in S
  PROVE  /\ Append(s, e) \in Seq(S) /\ Len(s) \in Nat /\ Len(Append(s, e)) = Len(s) + 1
         /\ Append(s, e)[Len(s) + 1] = e
         /\ \A i \in 1 .. Len(s) : Append(s, e)[i] = s[i]
  OBVIOUS

LEMMA ConcatFacts ==
  ASSUME NEW S, NEW s \in Seq(S), NEW a \in S, NEW b \in S, NEW c \in S
  PROVE  /\ s \o <<>> = s
         /\ s \o <<a>> = Append(s, a)
         /\ s \o <<a, b>> = Append(Append(s, a), b)
         /\ s \o (<<>> \o <<a, b>>) = Append(Append(s, a), b)
         /\ s \o (<<c>> \o <<a, b>>) = Append(Append(Append(s, c), a), b)
  OBVIOUS

\* The callback takes the first event of a trail.
LEMMA TrailTail ==
  ASSUME NEW q \in Seq(Events), q # <<>>, NEW first, NEW last, Trail(q, first, last)
  PROVE  \E mid \in Peers : Follows(first, q[1], mid) /\ Trail(Tail(q), mid, last)
  <1>1. PICK h \in [0 .. Len(q) -> Peers] : IsTrail(h, q, first, last)
    BY DEF Trail
  <1>2. /\ Len(q) \in Nat \ {0} /\ Len(Tail(q)) = Len(q) - 1
        /\ \A i \in 1 .. (Len(q) - 1) : Tail(q)[i] = q[i + 1]
    BY TailFacts
  <1> DEFINE g == [i \in 0 .. Len(Tail(q)) |-> h[i + 1]]
  <1>3. h[1] \in Peers /\ Follows(first, q[1], h[1])
    BY <1>1, <1>2 DEF IsTrail
  <1>4. g \in [0 .. Len(Tail(q)) -> Peers]
    BY <1>1, <1>2
  <1>5. g[0] = h[1] /\ g[Len(Tail(q))] = last
    BY <1>1, <1>2 DEF IsTrail
  <1>6. ASSUME NEW i \in 1 .. Len(Tail(q))
        PROVE  Follows(g[i - 1], Tail(q)[i], g[i])
    <2>1. /\ g[i - 1] = h[(i + 1) - 1] /\ g[i] = h[i + 1] /\ Tail(q)[i] = q[i + 1]
          /\ i + 1 \in 1 .. Len(q)
      BY <1>2
    <2> QED
      BY <1>1, <2>1 DEF IsTrail
  <1>7. IsTrail(g, Tail(q), h[1], last)
    <2> HIDE DEF g
    <2> QED
      BY <1>4, <1>5, <1>6 DEF IsTrail
  <1> QED
    BY <1>3, <1>4, <1>7 DEF Trail

\* Bluedroid adds an event.
LEMMA TrailAppend ==
  ASSUME NEW q \in Seq(Events), NEW e \in Events, NEW first, NEW mid, NEW last \in Peers,
         Trail(q, first, mid), Follows(mid, e, last)
  PROVE  Trail(Append(q, e), first, last)
  <1>1. PICK h \in [0 .. Len(q) -> Peers] : IsTrail(h, q, first, mid)
    BY DEF Trail
  <1> DEFINE r == Append(q, e)
  <1>2. /\ Len(q) \in Nat /\ Len(r) = Len(q) + 1 /\ r[Len(q) + 1] = e
        /\ \A i \in 1 .. Len(q) : r[i] = q[i]
    BY AppendFacts
  <1> HIDE DEF r
  <1> DEFINE g == [i \in 0 .. Len(r) |-> IF i <= Len(q) THEN h[i] ELSE last]
  <1>3. g \in [0 .. Len(r) -> Peers]
    BY <1>1, <1>2
  <1>4. g[0] = first /\ g[Len(r)] = last
    BY <1>1, <1>2 DEF IsTrail
  <1>5. ASSUME NEW i \in 1 .. Len(r)
        PROVE  Follows(g[i - 1], r[i], g[i])
    <2>1. CASE i <= Len(q)
      <3>1. g[i - 1] = h[i - 1] /\ g[i] = h[i] /\ r[i] = q[i] /\ i \in 1 .. Len(q)
        BY <1>2, <2>1
      <3> QED
        BY <1>1, <3>1 DEF IsTrail
    <2>2. CASE i = Len(q) + 1
      <3>1. g[i - 1] = mid /\ g[i] = last /\ r[i] = e
        BY <1>1, <1>2, <2>2 DEF IsTrail
      <3> QED
        BY <3>1
    <2> QED
      BY <1>2, <2>1, <2>2
  <1>6. IsTrail(g, r, first, last)
    <2> HIDE DEF g
    <2> QED
      BY <1>3, <1>4, <1>5 DEF IsTrail
  <1> QED
    BY <1>3, <1>6 DEF Trail, r

\* A trail without connection events leads nowhere.
LEMMA TrailQuiet ==
  ASSUME NEW q \in Seq(Events), NEW first, NEW last, Trail(q, first, last),
         \A i \in 1 .. Len(q) : q[i].kind # "CONN"
  PROVE  first = last
  <1>1. PICK h \in [0 .. Len(q) -> Peers] : IsTrail(h, q, first, last)
    BY DEF Trail
  <1>2. Len(q) \in Nat
    OBVIOUS
  <1> DEFINE T == {i \in 0 .. Len(q) : h[i] # first}
  <1>3. CASE T = {}
    BY <1>1, <1>2, <1>3 DEF IsTrail
  <1>4. CASE T # {}
    <2>1. T \subseteq Nat
      BY <1>2
    <2>2. PICK x \in T : \A y \in T : ~ (<<y, x>> \in OpToRel(<, Nat))
      <3> HIDE DEF T
      <3> QED
        BY <1>4, <2>1, NatLessThanWellFounded, WFMin
    <2>3. \A y \in T : ~ (y < x)
      BY <2>1, <2>2 DEF OpToRel
    <2>4. x \in 1 .. Len(q) /\ x - 1 \in 0 .. Len(q) /\ h[x] # first
      <3>1. x \in 0 .. Len(q) /\ h[x] # first
        OBVIOUS
      <3>2. h[0] = first
        BY <1>1 DEF IsTrail
      <3>3. x # 0
        BY <3>1, <3>2
      <3> QED
        BY <1>2, <3>1, <3>3
    <2>5. h[x - 1] = first
      BY <2>3, <2>4
    <2>6. h[x] = h[x - 1]
      BY <1>1, <2>4 DEF IsTrail, Follows
    <2> QED
      BY <2>4, <2>5, <2>6
  <1> QED
    BY <1>3, <1>4

LEMMA ChosenTail ==
  ASSUME NEW q \in Seq(Events), q # <<>>, NEW f, f # 0, ChosenIn(q, f)
  PROVE  \/ LastCfg(Tail(q), f)
         \/ /\ \A i \in 1 .. Len(Tail(q)) : Tail(q)[i].kind # "CFG"
            /\ \/ q[1].kind = "CFG" /\ q[1].oct0 = Oct0(f)
               \/ q[1].kind # "CFG" /\ (heard => btRate = f)
  <1>1. /\ Len(q) \in Nat \ {0} /\ Len(Tail(q)) = Len(q) - 1
        /\ \A i \in 1 .. (Len(q) - 1) : Tail(q)[i] = q[i + 1]
    BY TailFacts
  <1>2. CASE LastCfg(q, f)
    <2>1. PICK i \in 1 .. Len(q) : /\ q[i].kind = "CFG" /\ q[i].oct0 = Oct0(f)
                                   /\ \A j \in 1 .. Len(q) : q[j].kind = "CFG" => j <= i
      BY <1>2 DEF LastCfg
    <2>2. CASE i = 1
      <3>1. \A j \in 1 .. Len(Tail(q)) : Tail(q)[j].kind # "CFG"
        BY <1>1, <2>1, <2>2
      <3> QED
        BY <2>1, <2>2, <3>1
    <2>3. CASE i # 1
      <3>1. i - 1 \in 1 .. Len(Tail(q)) /\ Tail(q)[i - 1] = q[i]
        BY <1>1, <2>3
      <3>2. \A j \in 1 .. Len(Tail(q)) : Tail(q)[j].kind = "CFG" => j <= i - 1
        BY <1>1, <2>1
      <3> QED
        BY <2>1, <3>1, <3>2 DEF LastCfg
    <2> QED
      BY <2>2, <2>3
  <1>3. CASE ~LastCfg(q, f)
    <2>1. (\A i \in 1 .. Len(q) : q[i].kind # "CFG") /\ (heard => btRate = f)
      BY <1>3 DEF ChosenIn
    <2> QED
      BY <1>1, <2>1
  <1> QED
    BY <1>2, <1>3

LEMMA ChosenAppend ==
  ASSUME NEW q \in Seq(Events), NEW e \in Events, NEW f, NEW g, ChosenIn(q, f),
         \/ g = 0
         \/ g = f /\ e.kind # "CFG"
         \/ e.kind = "CFG" /\ e.oct0 = Oct0(g)
  PROVE  ChosenIn(Append(q, e), g)
  <1> DEFINE r == Append(q, e)
  <1>1. /\ Len(q) \in Nat /\ Len(r) = Len(q) + 1 /\ r[Len(q) + 1] = e
        /\ \A i \in 1 .. Len(q) : r[i] = q[i]
    BY AppendFacts
  <1> HIDE DEF r
  <1>2. ASSUME g = f, e.kind # "CFG", g # 0
        PROVE  ChosenIn(r, g)
    <2>1. \A j \in 1 .. Len(r) : r[j].kind = "CFG" => j \in 1 .. Len(q) /\ r[j] = q[j]
      BY <1>1, <1>2
    <2>2. LastCfg(q, f) => LastCfg(r, f)
      BY <1>1, <2>1 DEF LastCfg
    <2> QED
      BY <1>2, <2>1, <2>2 DEF ChosenIn
  <1>3. ASSUME e.kind = "CFG", e.oct0 = Oct0(g)
        PROVE  ChosenIn(r, g)
    <2>1. Len(q) + 1 \in 1 .. Len(r) /\ \A j \in 1 .. Len(r) : j <= Len(q) + 1
      BY <1>1
    <2>2. LastCfg(r, g)
      BY <1>1, <1>3, <2>1 DEF LastCfg
    <2> QED
      BY <2>2 DEF ChosenIn
  <1>4. CASE g = 0
    BY <1>4 DEF ChosenIn
  <1> QED
    BY <1>2, <1>3, <1>4 DEF r

-----------------------------------------------------------------------------
(* What the proofs use of the types.                                       *)

LEMMA EventFacts ==
  /\ \A s \in {"DISCONNECTED", "CONNECTING", "CONNECTED", "DISCONNECTING"}, d \in Devices :
        /\ Conn(s, d) \in Events /\ Conn(s, d).kind = "CONN"
        /\ Conn(s, d).state = s /\ Conn(s, d).dev = d
  /\ \A s \in {"SUSPENDED", "STOPPED", "STARTED"} :
        Audio(s) \in Events /\ Audio(s).kind = "AUDIO"
  <1>1. ASSUME NEW s \in {"DISCONNECTED", "CONNECTING", "CONNECTED", "DISCONNECTING"},
               NEW d \in Devices
        PROVE  /\ Conn(s, d) \in Events /\ Conn(s, d).kind = "CONN"
               /\ Conn(s, d).state = s /\ Conn(s, d).dev = d
    BY DEF Conn, Events, ConnEvents
  <1>2. ASSUME NEW s \in {"SUSPENDED", "STOPPED", "STARTED"}
        PROVE  Audio(s) \in Events /\ Audio(s).kind = "AUDIO"
    BY DEF Audio, Events, AudioEvents
  <1> QED
    BY <1>1, <1>2

LEMMA EventKinds ==
  ASSUME NEW e \in Events
  PROVE  /\ e.kind \in {"CONN", "AUDIO", "CFG"}
         /\ e.kind = "CONN" => e.dev \in Devices
         /\ e.kind = "AUDIO" => e.state \in {"SUSPENDED", "STOPPED", "STARTED"}
  <1>1. CASE e \in ConnEvents
    BY <1>1 DEF ConnEvents
  <1>2. CASE e \in AudioEvents
    BY <1>2 DEF AudioEvents
  <1>3. CASE e \in CfgEvents
    BY <1>3 DEF CfgEvents
  <1> QED
    BY <1>1, <1>2, <1>3 DEF Events

LEMMA RateFacts ==
  /\ \A o : SampleRate(o) \in Rates
  /\ \A f \in Rates : SampleRate(Oct0(f)) = f /\ f # 0 /\ Oct0(f) \in SUBSET (4 .. 7)
  <1>1. \A o : SampleRate(o) \in Rates
    BY DEF SampleRate, Rates
  <1>2. Oct0(16000) = {7} /\ Oct0(32000) = {6} /\ Oct0(44100) = {5} /\ Oct0(48000) = {4}
    BY DEF Oct0
  <1>3. /\ SampleRate({7}) = 16000 /\ SampleRate({6}) = 32000
        /\ SampleRate({5}) = 44100 /\ SampleRate({4}) = 48000
    BY DEF SampleRate
  <1> QED
    BY <1>1, <1>2, <1>3 DEF Rates

LEMMA QueueFacts ==
  ASSUME TypeOK
  PROVE  /\ evq \in Seq(Events) /\ inbox \in Seq(Messages) /\ remoteBda \in Peers
         /\ link \in Peers /\ page \in Peers /\ freq \in Rates \cup {0}
  BY DEF TypeOK, Events, Peers

LEMMA InboxFacts ==
  ASSUME NEW s \in Seq(Messages), NEW m \in Messages
  PROVE  /\ s \o <<m>> = Append(s, m) /\ s \o <<>> = s
         /\ Append(s, m) \in Seq(Messages)
         /\ HasInfo(Append(s, m)) <=> HasInfo(s) \/ m = "MUSIC_INFO"
  <1>1. /\ Append(s, m) \in Seq(Messages) /\ Len(s) \in Nat /\ Len(Append(s, m)) = Len(s) + 1
        /\ Append(s, m)[Len(s) + 1] = m
        /\ \A i \in 1 .. Len(s) : Append(s, m)[i] = s[i]
    BY AppendFacts
  <1>2. s \o <<m>> = Append(s, m) /\ s \o <<>> = s
    BY ConcatFacts
  <1>3. HasInfo(s) => HasInfo(Append(s, m))
    BY <1>1 DEF HasInfo
  <1>4. m = "MUSIC_INFO" => HasInfo(Append(s, m))
    <2>1. Len(s) + 1 \in 1 .. Len(Append(s, m))
      BY <1>1
    <2> QED
      BY <1>1, <2>1 DEF HasInfo
  <1>5. HasInfo(Append(s, m)) => HasInfo(s) \/ m = "MUSIC_INFO"
    <2>1. \A i \in 1 .. Len(Append(s, m)) : i \in 1 .. Len(s) \/ Append(s, m)[i] = m
      BY <1>1
    <2> QED
      BY <1>1, <2>1 DEF HasInfo
  <1> QED
    BY <1>1, <1>2, <1>3, <1>4, <1>5

\* Taking a message other than MUSIC_INFO.
LEMMA InboxTail ==
  ASSUME NEW s \in Seq(Messages), s # <<>>
  PROVE  /\ Tail(s) \in Seq(Messages)
         /\ HasInfo(s) => HasInfo(Tail(s)) \/ Head(s) = "MUSIC_INFO"
  <1>1. /\ Tail(s) \in Seq(Messages) /\ Head(s) = s[1] /\ Len(s) \in Nat \ {0}
        /\ Len(Tail(s)) = Len(s) - 1 /\ \A i \in 1 .. (Len(s) - 1) : Tail(s)[i] = s[i + 1]
    BY TailFacts
  <1>2. ASSUME HasInfo(s), s[1] # "MUSIC_INFO"
        PROVE  HasInfo(Tail(s))
    <2>1. PICK i \in 1 .. Len(s) : s[i] = "MUSIC_INFO"
      BY <1>2 DEF HasInfo
    <2>2. i - 1 \in 1 .. Len(Tail(s)) /\ Tail(s)[i - 1] = s[i]
      BY <1>1, <1>2, <2>1
    <2> QED
      BY <2>1, <2>2 DEF HasInfo
  <1> QED
    BY <1>1, <1>2

-----------------------------------------------------------------------------
(* The inductive invariant, step by step.                                  *)

LEMMA InitInv == Init => IInv
  <1> SUFFICES ASSUME Init PROVE IInv
    OBVIOUS
  <1>1. TypeOK
    <2>1. evq \in Seq(ConnEvents \cup AudioEvents \cup CfgEvents) /\ inbox \in Seq(Messages)
      <3>1. \A S : <<>> \in Seq(S)
        OBVIOUS
      <3> QED
        BY <3>1 DEF Init
    <2>2. listener \in BOOLEAN
      <3>1. listener = FALSE
        BY SMT DEF Init
      <3> QED
        BY <3>1, Zenon
    <2>3. heard \in BOOLEAN
      <3>1. heard = FALSE
        BY SMT DEF Init
      <3> QED
        BY <3>1, Zenon
    <2>4. streaming \in BOOLEAN
      <3>1. streaming = FALSE
        BY SMT DEF Init
      <3> QED
        BY <3>1, Zenon
    <2>5. /\ conn \in {"DISCONNECTED", "CONNECTED"} /\ remoteBda \in Peers
          /\ audioState \in {"SUSPENDED", "STOPPED", "STARTED"}
          /\ {page, link} \subseteq Peers /\ held = {} /\ player = "start"
      BY DEF Init, Peers
    <2>6. {btRate, i2sClk} \subseteq Rates /\ musicInfo = 0 /\ freq = 0
      BY DEF Init, Rates
    <2> QED
      BY <2>1, <2>2, <2>3, <2>4, <2>5, <2>6 DEF TypeOK
  <1> QED
    BY <1>1 DEF Init, IInv, Tracked, OneLink, Before, Chosen, ChosenIn, Fetched, Running

\* The queue after Bluedroid's events: it leads to link l and frequency f.
Good(q, l, f) == /\ q \in Seq(Events) /\ l \in Peers
                 /\ Trail(q, remoteBda, l) /\ ChosenIn(q, f)

LEMMA GoodAppend ==
  ASSUME NEW q, NEW l, NEW f, Good(q, l, f), NEW e \in Events, NEW m \in Peers, NEW g,
         Follows(l, e, m),
         \/ g = 0
         \/ g = f /\ e.kind # "CFG"
         \/ e.kind = "CFG" /\ e.oct0 = Oct0(g)
  PROVE  Good(Append(q, e), m, g)
  <1>1. Append(q, e) \in Seq(Events)
    BY AppendFacts DEF Good
  <1>2. Trail(Append(q, e), remoteBda, m)
    BY TrailAppend DEF Good
  <1>3. ChosenIn(Append(q, e), g)
    BY ChosenAppend DEF Good
  <1> QED
    BY <1>1, <1>2, <1>3 DEF Good

LEMMA GoodNow ==
  ASSUME IInv, Running
  PROVE  Good(evq, link, freq)
  BY QueueFacts DEF Good, IInv, Tracked, Chosen

LEMMA GoodNext ==
  ASSUME IInv, Running, Good(evq', link', freq'), OneLink',
         UNCHANGED <<service, playback, heard, life>>,
         page' \in Peers, freq' \in Rates \cup {0}, streaming' \in BOOLEAN
  PROVE  IInv'
  <1>1. UNCHANGED <<conn, remoteBda, audioState, btRate, musicInfo, i2sClk, heard, held, player,
                    listener, inbox>>
    BY DEF service, playback, life
  <1>2. TypeOK'
    BY <1>1 DEF IInv, TypeOK, Good, Peers, Events
  <1>3. Running'
    BY <1>1 DEF Running
  <1>4. Tracked'
    BY <1>1, <1>3 DEF IInv, Tracked, Good
  <1>5. Chosen'
    BY <1>1 DEF Good, Chosen, ChosenIn
  <1>6. Before' /\ Fetched'
    BY <1>1, <1>3 DEF IInv, Before, Fetched
  <1> QED
    BY <1>2, <1>4, <1>5, <1>6 DEF IInv

LEMMA BluedroidKeeps ==
  ASSUME IInv, Bluedroid
  PROVE  IInv'
  <1>1. TypeOK /\ OneLink
    BY DEF IInv
  <1>2. UNCHANGED <<service, playback, heard, life>>
    BY DEF Bluedroid
  <1>3. /\ evq \in Seq(Events) /\ link \in Peers /\ page \in Peers /\ freq \in Rates \cup {0}
        /\ streaming \in BOOLEAN /\ NoDevice \in Peers
    BY <1>1, QueueFacts DEF TypeOK, Peers
  <1>4. page # NoDevice \/ link # NoDevice => Running
    BY DEF IInv, Before
  <1>5. ASSUME NEW d \in Devices, PhonePages(d)
        PROVE  IInv'
    <2> DEFINE e == Conn("CONNECTING", d)
    <2>1. e \in Events /\ e.kind = "CONN" /\ e.state = "CONNECTING"
      BY EventFacts
    <2>2. /\ Running /\ link = NoDevice /\ page' = d /\ UNCHANGED <<link, freq, streaming>>
          /\ evq' = Append(evq, e)
      BY <1>3, <1>5, <2>1, ConcatFacts DEF PhonePages, Put
    <2> HIDE DEF e
    <2>3. Follows(link, e, link)
      BY <2>1 DEF Follows
    <2>4. Good(evq', link', freq')
      BY <1>3, <2>1, <2>2, <2>3, GoodNow, GoodAppend
    <2>5. OneLink'
      BY <1>1, <2>2 DEF OneLink
    <2> QED
      BY <1>2, <1>3, <2>2, <2>4, <2>5, GoodNext DEF Peers
  <1>6. ASSUME NEW ok \in BOOLEAN, PageEnds(ok)
        PROVE  IInv'
    <2>1. /\ Running /\ page \in Devices /\ page' = NoDevice /\ link = NoDevice
          /\ UNCHANGED <<freq, streaming>> /\ freq = 0
      BY <1>1, <1>3, <1>4, <1>6 DEF PageEnds, OneLink, Peers
    <2>2. CASE ok
      <3> DEFINE e == Conn("CONNECTED", page)
      <3>1. e \in Events /\ e.kind = "CONN" /\ e.state = "CONNECTED" /\ e.dev = page
        BY <2>1, EventFacts
      <3>2. link' = page /\ evq' = Append(evq, e)
        BY <1>3, <1>6, <2>2, <3>1, ConcatFacts DEF PageEnds, Put
      <3> HIDE DEF e
      <3>3. Follows(link, e, page)
        BY <2>1, <3>1 DEF Follows
      <3>4. Good(evq', link', freq')
        BY <1>3, <2>1, <3>1, <3>2, <3>3, GoodNow, GoodAppend
      <3>5. OneLink'
        BY <1>1, <2>1, <3>2 DEF OneLink
      <3> QED
        BY <1>2, <1>3, <2>1, <3>4, <3>5, GoodNext
    <2>3. CASE ~ok
      <3> DEFINE e == Conn("DISCONNECTED", page)
      <3>1. e \in Events /\ e.kind = "CONN" /\ e.state = "DISCONNECTED" /\ e.dev = page
        BY <2>1, EventFacts
      <3>2. link' = link /\ evq' = Append(evq, e)
        BY <1>3, <1>6, <2>1, <2>3, <3>1, ConcatFacts DEF PageEnds, Put
      <3> HIDE DEF e
      <3>3. Follows(link, e, link)
        BY <2>1, <3>1, DeviceAssumption DEF Follows
      <3>4. Good(evq', link', freq')
        BY <1>3, <2>1, <3>1, <3>2, <3>3, GoodNow, GoodAppend
      <3>5. OneLink'
        BY <1>1, <2>1, <3>2 DEF OneLink
      <3> QED
        BY <1>2, <1>3, <2>1, <3>4, <3>5, GoodNext
    <2> QED
      BY <2>2, <2>3
  <1>7. ASSUME NEW d \in Devices, TurnedAway(d)
        PROVE  IInv'
    <2> DEFINE a == Conn("CONNECTING", d)
               b == Conn("DISCONNECTED", d)
    <2>1. /\ a \in Events /\ a.kind = "CONN" /\ a.state = "CONNECTING"
          /\ b \in Events /\ b.kind = "CONN" /\ b.state = "DISCONNECTED" /\ b.dev = d
      BY EventFacts
    <2>2. /\ link # NoDevice /\ link # d /\ UNCHANGED <<page, link, freq, streaming>>
          /\ evq' = Append(Append(evq, a), b)
      BY <1>3, <1>7, <2>1, ConcatFacts DEF TurnedAway, Put, stack
    <2> HIDE DEF a, b
    <2>3. Follows(link, a, link) /\ Follows(link, b, link)
      BY <2>1, <2>2 DEF Follows
    <2>4. Good(Append(evq, a), link, freq)
      BY <1>3, <1>4, <2>1, <2>2, <2>3, GoodNow, GoodAppend
    <2>5. Good(evq', link', freq')
      BY <1>3, <2>1, <2>2, <2>3, <2>4, GoodAppend
    <2>6. OneLink'
      BY <1>1, <2>2 DEF OneLink
    <2> QED
      BY <1>2, <1>3, <1>4, <2>2, <2>5, <2>6, GoodNext
  <1>8. ASSUME NEW f \in Frequencies, Configure(f)
        PROVE  IInv'
    <2> DEFINE e == [kind |-> "CFG", oct0 |-> Oct0(f)]
    <2>1. f \in Rates /\ Oct0(f) \in SUBSET (4 .. 7)
      BY FrequencyAssumption, RateFacts DEF Rates
    <2>2. e \in Events /\ e.kind = "CFG" /\ e.oct0 = Oct0(f)
      BY <2>1 DEF Events, CfgEvents
    <2>3. /\ link # NoDevice /\ ~streaming /\ freq' = f /\ UNCHANGED <<page, link, streaming>>
          /\ evq' = evq \o <<e>>
      BY <1>8 DEF Configure, Put, Oct0
    <2>4. evq' = Append(evq, e)
      BY <1>3, <2>2, <2>3, ConcatFacts
    <2> HIDE DEF e
    <2>5. Follows(link, e, link)
      BY <2>2 DEF Follows
    <2>6. Good(evq', link', freq')
      BY <1>3, <1>4, <2>2, <2>3, <2>4, <2>5, GoodNow, GoodAppend
    <2>7. OneLink'
      BY <1>1, <2>3 DEF OneLink
    <2> QED
      BY <1>2, <1>3, <1>4, <2>1, <2>3, <2>6, <2>7, GoodNext
  <1>9. ASSUME NEW s \in {"SUSPENDED", "STOPPED", "STARTED"}, PhoneStream(s)
        PROVE  IInv'
    <2> DEFINE e == Audio(s)
    <2>1. e \in Events /\ e.kind = "AUDIO"
      BY EventFacts
    <2>2. /\ link # NoDevice /\ freq # 0 /\ streaming' = ~streaming /\ UNCHANGED <<page, link, freq>>
          /\ evq' = Append(evq, e)
      BY <1>3, <1>9, <2>1, ConcatFacts DEF PhoneStream, Put
    <2> HIDE DEF e
    <2>3. Follows(link, e, link)
      BY <2>1 DEF Follows
    <2>4. Good(evq', link', freq')
      BY <1>3, <1>4, <2>1, <2>2, <2>3, GoodNow, GoodAppend
    <2>5. OneLink'
      BY <1>1, <2>2 DEF OneLink
    <2>6. streaming' \in BOOLEAN
      BY <2>2, Zenon
    <2> QED
      BY <1>2, <1>3, <1>4, <2>2, <2>4, <2>5, <2>6, GoodNext
  <1>10. CASE LinkLost
    <2> DEFINE a == Conn("DISCONNECTING", link)
               b == Conn("DISCONNECTED", link)
               c == Audio("STOPPED")
    <2>1. /\ link # NoDevice /\ link \in Devices /\ page' = page /\ link' = NoDevice /\ freq' = 0
          /\ streaming' = FALSE
      BY <1>3, <1>10 DEF LinkLost, Peers
    <2>2. /\ a \in Events /\ a.kind = "CONN" /\ a.state = "DISCONNECTING"
          /\ b \in Events /\ b.kind = "CONN" /\ b.state = "DISCONNECTED" /\ b.dev = link
          /\ c \in Events /\ c.kind = "AUDIO"
      BY <2>1, EventFacts
    <2>3. \/ evq' = evq \o (<<>> \o <<a, b>>)
          \/ evq' = evq \o (<<c>> \o <<a, b>>)
      BY <1>10 DEF LinkLost, Put
    <2> HIDE DEF a, b, c
    <2>4. \/ evq' = Append(Append(evq, a), b)
          \/ evq' = Append(Append(Append(evq, c), a), b)
      BY <1>3, <2>2, <2>3, ConcatFacts
    <2>5. /\ Follows(link, c, link) /\ Follows(link, a, link)
          /\ Follows(link, b, NoDevice)
      BY <2>2 DEF Follows
    <2>6. Good(evq, link, freq) /\ Good(Append(evq, c), link, freq)
      BY <1>3, <1>4, <2>1, <2>2, <2>5, GoodNow, GoodAppend
    <2>7. Good(Append(evq, a), link, freq) /\ Good(Append(Append(evq, c), a), link, freq)
      BY <1>3, <2>2, <2>5, <2>6, GoodAppend
    <2>8. Good(evq', link', freq')
      <3>1. ASSUME NEW q, Good(q, link, freq)
            PROVE  Good(Append(q, b), NoDevice, 0)
        BY <1>3, <2>2, <2>5, <3>1, GoodAppend
      <3> QED
        BY <2>1, <2>4, <2>7, <3>1
    <2>9. OneLink'
      BY <1>1, <2>1 DEF OneLink
    <2> QED
      BY <1>2, <1>3, <1>4, <2>1, <2>8, <2>9, GoodNext
  <1> QED
    BY <1>5, <1>6, <1>7, <1>8, <1>9, <1>10 DEF Bluedroid

\* The inbox after a message: it still holds what told of the rate.
Grows(s, t) == s \in Seq(Messages) /\ t \in Seq(Messages) /\ (HasInfo(s) => HasInfo(t))

LEMMA Grown ==
  ASSUME NEW s \in Seq(Messages), NEW m \in Messages
  PROVE  Grows(s, s) /\ Grows(s, Append(s, m)) /\ Grows(s, s \o Report(m)) /\ Grows(s, s \o Notify(m))
  BY InboxFacts DEF Grows, Report, Notify

LEMMA EventTaken ==
  ASSUME IInv, evq # <<>>
  PROVE  /\ Running /\ Head(evq) = evq[1] /\ evq[1] \in Events
         /\ Tail(evq) \in Seq(Events)
         /\ \E mid \in Peers : Follows(remoteBda, evq[1], mid) /\ Trail(Tail(evq), mid, link)
         /\ freq # 0 => \/ LastCfg(Tail(evq), freq)
                        \/ /\ \A i \in 1 .. Len(Tail(evq)) : Tail(evq)[i].kind # "CFG"
                           /\ \/ evq[1].kind = "CFG" /\ evq[1].oct0 = Oct0(freq)
                              \/ evq[1].kind # "CFG" /\ (heard => btRate = freq)
  <1>1. evq \in Seq(Events) /\ Running
    BY QueueFacts DEF IInv, Before
  <1>2. Head(evq) = evq[1] /\ evq[1] \in Events /\ Tail(evq) \in Seq(Events)
    BY <1>1, TailFacts
  <1>3. \E mid \in Peers : Follows(remoteBda, evq[1], mid) /\ Trail(Tail(evq), mid, link)
    BY <1>1, TrailTail DEF IInv, Tracked
  <1> QED
    BY <1>1, <1>2, <1>3, ChosenTail DEF IInv, Chosen

LEMMA CallbackNext ==
  ASSUME IInv, Running, evq' = Tail(evq), Tail(evq) \in Seq(Events),
         UNCHANGED <<held, player, listener, playback, stack>>,
         conn' \in {"DISCONNECTED", "CONNECTED"}, remoteBda' \in Peers,
         conn' = "CONNECTED" <=> remoteBda' # NoDevice,
         audioState' \in {"SUSPENDED", "STOPPED", "STARTED"}, btRate' \in Rates, heard' \in BOOLEAN,
         inbox' \in Seq(Messages), Trail(evq', remoteBda', link), Chosen', Fetched',
         heard' => heard \/ listener
  PROVE  IInv'
  <1>1. UNCHANGED <<musicInfo, i2sClk, page, link, freq, streaming>>
    BY DEF playback, stack
  <1>2. TypeOK'
    BY <1>1 DEF IInv, TypeOK, Events
  <1>3. Running'
    BY DEF Running
  <1>4. Tracked' /\ OneLink'
    BY <1>1, <1>3 DEF IInv, Tracked, OneLink
  <1>5. Before'
    BY <1>3 DEF IInv, Before
  <1> QED
    BY <1>2, <1>4, <1>5 DEF IInv

LEMMA ConnectionStateKeeps ==
  ASSUME IInv, ConnectionState
  PROVE  IInv'
  <1> DEFINE e == evq[1]
  <1>1. /\ evq # <<>> /\ evq' = Tail(evq) /\ Head(evq) = e /\ Running /\ e.kind = "CONN"
        /\ e \in Events /\ Tail(evq) \in Seq(Events) /\ e.dev \in Devices
        /\ UNCHANGED <<held, player, listener, playback, stack, audioState, btRate, heard>>
    <2>1. /\ evq # <<>> /\ evq' = Tail(evq) /\ Head(evq).kind = "CONN"
          /\ UNCHANGED <<held, player, listener, playback, stack, audioState, btRate, heard>>
      BY DEF ConnectionState, Callback
    <2>2. Running /\ Head(evq) = e /\ e \in Events /\ Tail(evq) \in Seq(Events)
      BY <2>1, EventTaken
    <2>3. e.dev \in Devices
      BY <2>1, <2>2, EventKinds
    <2> QED
      BY <2>1, <2>2, <2>3
  <1>2. PICK mid \in Peers : Follows(remoteBda, e, mid) /\ Trail(Tail(evq), mid, link)
    BY <1>1, EventTaken
  <1>3. /\ conn = "CONNECTED" <=> remoteBda # NoDevice
        /\ conn \in {"DISCONNECTED", "CONNECTED"} /\ inbox \in Seq(Messages)
    BY QueueFacts DEF IInv, Tracked, TypeOK
  <1>4. \/ SinkConnected(e)
        \/ SinkDisconnected(e)
        \/ /\ ~(conn = "DISCONNECTED" /\ e.state = "CONNECTED")
           /\ ~(IsRemote(e.dev) /\ conn = "CONNECTED" /\ e.state = "DISCONNECTED")
           /\ UNCHANGED <<conn, remoteBda, inbox>>
    BY <1>1 DEF ConnectionState
  <1> HIDE DEF e
  <1>5. /\ remoteBda' = mid /\ conn' \in {"DISCONNECTED", "CONNECTED"}
        /\ conn' = "CONNECTED" <=> mid # NoDevice
    <2>1. CASE SinkConnected(e)
      BY <1>1, <1>2, <1>3, <2>1, DeviceAssumption DEF SinkConnected, Follows
    <2>2. CASE SinkDisconnected(e)
      BY <1>1, <1>2, <2>2 DEF SinkDisconnected, IsRemote, Follows
    <2>3. CASE /\ ~(conn = "DISCONNECTED" /\ e.state = "CONNECTED")
               /\ ~(IsRemote(e.dev) /\ conn = "CONNECTED" /\ e.state = "DISCONNECTED")
               /\ UNCHANGED <<conn, remoteBda, inbox>>
      <3>1. e.state = "CONNECTED" => remoteBda # NoDevice
        BY <1>3, <2>3
      <3>2. e.state = "DISCONNECTED" => remoteBda # e.dev
        BY <1>1, <1>3, <2>3, DeviceAssumption DEF IsRemote
      <3>3. mid = remoteBda
        BY <1>2, <3>1, <3>2 DEF Follows
      <3> QED
        BY <1>3, <2>3, <3>3
    <2> QED
      BY <1>4, <2>1, <2>2, <2>3
  <1>6. Grows(inbox, inbox')
    <2>1. CASE SinkConnected(e)
      BY <1>3, <2>1, Grown DEF SinkConnected, SendEvent, Messages
    <2>2. CASE SinkDisconnected(e)
      <3>1. Grows(inbox, inbox \o Report("INPUT_DONE"))
        BY <1>3, Grown DEF Messages
      <3>2. /\ inbox \o Report("INPUT_DONE") \in Seq(Messages)
            /\ inbox' = (inbox \o Report("INPUT_DONE")) \o Notify("DISCONNECTED")
        BY <2>2, <3>1 DEF Grows, SinkDisconnected
      <3>3. Grows(inbox \o Report("INPUT_DONE"), inbox')
        BY <3>2, Grown DEF Messages
      <3> QED
        BY <3>1, <3>3 DEF Grows
    <2> QED
      BY <1>3, <1>4, <2>1, <2>2, Grown DEF Messages
  <1>7. Fetched'
    BY <1>1, <1>6 DEF IInv, Fetched, Grows, playback
  <1>8. Chosen'
    <2>1. UNCHANGED <<freq, heard, btRate>>
      BY <1>1 DEF stack
    <2>2. freq # 0 => \/ LastCfg(Tail(evq), freq)
                      \/ /\ \A i \in 1 .. Len(Tail(evq)) : Tail(evq)[i].kind # "CFG"
                         /\ (heard => btRate = freq)
      BY <1>1, EventTaken DEF e
    <2> QED
      BY <1>1, <2>1, <2>2 DEF Chosen, ChosenIn
  <1>9. /\ audioState' \in {"SUSPENDED", "STOPPED", "STARTED"} /\ btRate' \in Rates
        /\ heard' \in BOOLEAN
    BY <1>1 DEF IInv, TypeOK
  <1> QED
    BY <1>1, <1>2, <1>5, <1>6, <1>7, <1>8, <1>9, CallbackNext DEF Grows

LEMMA AudioStateKeeps ==
  ASSUME IInv, AudioState
  PROVE  IInv'
  <1> DEFINE e == evq[1]
  <1>1. /\ evq # <<>> /\ evq' = Tail(evq) /\ Running /\ e.kind = "AUDIO"
        /\ Tail(evq) \in Seq(Events) /\ e.state \in {"SUSPENDED", "STOPPED", "STARTED"}
        /\ audioState' = e.state /\ SendEvent(e.state)
        /\ UNCHANGED <<held, player, listener, playback, stack, conn, remoteBda, btRate, heard>>
    <2>1. /\ evq # <<>> /\ evq' = Tail(evq) /\ Head(evq).kind = "AUDIO"
          /\ audioState' = Head(evq).state /\ SendEvent(Head(evq).state)
          /\ UNCHANGED <<held, player, listener, playback, stack, conn, remoteBda, btRate, heard>>
      BY DEF AudioState, Callback
    <2>2. Running /\ Head(evq) = e /\ e \in Events /\ Tail(evq) \in Seq(Events)
      BY <2>1, EventTaken
    <2>3. e.state \in {"SUSPENDED", "STOPPED", "STARTED"}
      BY <2>1, <2>2, EventKinds
    <2> QED
      BY <2>1, <2>2, <2>3
  <1>2. Trail(Tail(evq), remoteBda, link)
    BY <1>1, EventTaken DEF Follows
  <1>3. inbox \in Seq(Messages) /\ btRate' \in Rates /\ heard' \in BOOLEAN /\ remoteBda' \in Peers
        /\ conn' \in {"DISCONNECTED", "CONNECTED"} /\ (conn' = "CONNECTED" <=> remoteBda' # NoDevice)
    BY <1>1 DEF IInv, Tracked, TypeOK
  <1>4. Grows(inbox, inbox')
    BY <1>1, <1>3, Grown DEF SendEvent, Messages
  <1>5. Fetched'
    BY <1>1, <1>4 DEF IInv, Fetched, Grows, playback
  <1>6. Chosen'
    <2>1. UNCHANGED <<freq, heard, btRate>>
      BY <1>1 DEF stack
    <2>2. freq # 0 => \/ LastCfg(Tail(evq), freq)
                      \/ /\ \A i \in 1 .. Len(Tail(evq)) : Tail(evq)[i].kind # "CFG"
                         /\ (heard => btRate = freq)
      BY <1>1, EventTaken
    <2> QED
      BY <1>1, <2>1, <2>2 DEF Chosen, ChosenIn
  <1> QED
    BY <1>1, <1>2, <1>3, <1>4, <1>5, <1>6, CallbackNext DEF Grows

LEMMA AudioCfgKeeps ==
  ASSUME IInv, AudioCfg
  PROVE  IInv'
  <1> DEFINE e == evq[1]
  <1>1. /\ evq # <<>> /\ evq' = Tail(evq) /\ Running /\ e.kind = "CFG"
        /\ Tail(evq) \in Seq(Events)
        /\ btRate' = (IF "stream" \in held THEN SampleRate(e.oct0) ELSE btRate)
        /\ inbox' = inbox \o Report("MUSIC_INFO")
        /\ heard' = ("stream" \in held /\ listener)
        /\ UNCHANGED <<held, player, listener, playback, stack, conn, remoteBda, audioState>>
    BY EventTaken DEF AudioCfg, Callback
  <1>2. Trail(Tail(evq), remoteBda, link)
    BY <1>1, EventTaken DEF Follows
  <1>3. inbox \in Seq(Messages) /\ btRate' \in Rates /\ remoteBda' \in Peers
        /\ conn' \in {"DISCONNECTED", "CONNECTED"} /\ (conn' = "CONNECTED" <=> remoteBda' # NoDevice)
        /\ audioState' \in {"SUSPENDED", "STOPPED", "STARTED"}
    <2>1. btRate' \in Rates
      BY <1>1, RateFacts DEF IInv, TypeOK
    <2> QED
      BY <1>1, <2>1 DEF IInv, Tracked, TypeOK
  <1>4. heard' \in BOOLEAN /\ (heard' => "stream" \in held /\ listener)
    BY <1>1, Zenon
  <1>5. inbox' \in Seq(Messages)
    BY <1>1, <1>3, Grown DEF Grows, Messages
  <1>6. heard' => HasInfo(inbox')
    <2>1. heard' => inbox' = Append(inbox, "MUSIC_INFO")
      BY <1>1, <1>3, <1>4, InboxFacts DEF Report, Messages
    <2> QED
      BY <1>3, <2>1, InboxFacts DEF Messages
  <1>7. Fetched'
    BY <1>1, <1>6 DEF IInv, Fetched, playback
  <1>8. Chosen'
    <2>1. freq' = freq /\ freq \in Rates \cup {0}
      BY <1>1 DEF stack, IInv, TypeOK
    <2>2. freq # 0 => \/ LastCfg(Tail(evq), freq)
                      \/ /\ \A i \in 1 .. Len(Tail(evq)) : Tail(evq)[i].kind # "CFG"
                         /\ e.oct0 = Oct0(freq)
      BY <1>1, EventTaken
    <2>3. freq # 0 /\ e.oct0 = Oct0(freq) => (heard' => btRate' = freq)
      BY <1>1, <1>4, <2>1, RateFacts
    <2> QED
      BY <1>1, <2>1, <2>2, <2>3 DEF Chosen, ChosenIn
  <1> QED
    BY <1>1, <1>2, <1>3, <1>4, <1>5, <1>7, <1>8, CallbackNext

\* The player's steps leave the service and Bluedroid alone.
LEMMA PlayerNext ==
  ASSUME IInv, UNCHANGED <<service, heard, stack, evq>>,
         musicInfo' \in Rates \cup {0}, i2sClk' \in Rates, inbox' \in Seq(Messages),
         held' \subseteq {"service", "bluedroid", "stream", "periph"}, listener' \in BOOLEAN,
         player' \in {"create", "periph", "listen", "loop", "setClk", "pipeline", "stream",
                     "periphs", "service", "gone"},
         Running => Running', Running' => Running \/ player = "start",
         player' \in {"create", "periph", "listen"} =>
            player \in {"start", "create", "periph", "listen"} /\ listener' = listener,
         Fetched'
  PROVE  IInv'
  <1>1. UNCHANGED <<conn, remoteBda, audioState, btRate, heard, page, link, freq, streaming, evq>>
    BY DEF service, stack
  <1>2. TypeOK'
    BY <1>1 DEF IInv, TypeOK
  <1>3. OneLink' /\ Chosen'
    BY <1>1 DEF IInv, OneLink, Chosen, ChosenIn
  <1>4. Before'
    BY <1>1 DEF IInv, Before
  <1>5. Tracked'
    <2>1. CASE Running
      BY <1>1, <2>1 DEF IInv, Tracked
    <2>2. CASE ~Running
      <3>1. evq = <<>> /\ link = NoDevice
        BY <2>2 DEF IInv, Before
      <3>2. Running' => remoteBda = NoDevice
        BY <2>2 DEF IInv, Before
      <3>3. Trail(<<>>, NoDevice, NoDevice)
        <4> DEFINE h == [i \in 0 .. 0 |-> NoDevice]
        <4>1. /\ h \in [0 .. 0 -> Peers] /\ h[0] = NoDevice /\ Len(<<>>) = 0
          BY DEF Peers
        <4>2. IsTrail(h, <<>>, NoDevice, NoDevice)
          BY <4>1 DEF IsTrail
        <4> HIDE DEF h
        <4> QED
          BY <4>1, <4>2 DEF Trail
      <3> QED
        BY <1>1, <3>1, <3>2, <3>3 DEF IInv, Tracked
    <2> QED
      BY <2>1, <2>2
  <1> QED
    BY <1>2, <1>3, <1>4, <1>5 DEF IInv

LEMMA ListenKeeps ==
  ASSUME IInv, Listen \/ SetClk \/ I2sStopped
  PROVE  IInv'
  <1>1. /\ inbox \in Seq(Messages) /\ btRate \in Rates /\ musicInfo \in Rates \cup {0}
        /\ i2sClk \in Rates /\ listener \in BOOLEAN
        /\ held \subseteq {"service", "bluedroid", "stream", "periph"}
    BY DEF IInv, TypeOK
  <1>2. CASE Listen
    <2>1. /\ player = "loop" /\ inbox # <<>> /\ inbox' = Tail(inbox)
          /\ UNCHANGED <<service, i2sClk, heard, stack, evq, held, listener>>
          /\ \/ Head(inbox) = "MUSIC_INFO" /\ musicInfo' = btRate /\ player' = "setClk"
             \/ Head(inbox) # "MUSIC_INFO" /\ player' \in {"loop", "pipeline"} /\ musicInfo' = musicInfo
      BY <1>2 DEF Listen
    <2>2. inbox' \in Seq(Messages) /\ (HasInfo(inbox) => HasInfo(inbox') \/ Head(inbox) = "MUSIC_INFO")
      BY <1>1, <2>1, InboxTail
    <2>3. Fetched'
      <3>1. UNCHANGED <<btRate, heard, i2sClk>> /\ btRate # 0
        BY <1>1, <2>1 DEF service, Rates
      <3> QED
        BY <2>1, <2>2, <3>1 DEF IInv, Fetched
    <2> QED
      BY <1>1, <2>1, <2>2, <2>3, PlayerNext DEF Running
  <1>3. CASE SetClk
    <2>1. /\ player = "setClk" /\ player' = "loop" /\ i2sClk' = musicInfo
          /\ UNCHANGED <<service, musicInfo, heard, stack, evq, held, listener, inbox>>
      BY <1>3 DEF SetClk, Goto
    <2>2. Fetched'
      <3>1. UNCHANGED btRate
        BY <2>1 DEF service
      <3> QED
        BY <2>1, <3>1 DEF IInv, Fetched
    <2>3. musicInfo \in Rates
      BY <1>1, <2>1 DEF IInv, Fetched
    <2> QED
      BY <1>1, <2>1, <2>2, <2>3, PlayerNext DEF Running
  <1>4. CASE I2sStopped
    <2>1. /\ player = "loop" /\ inbox' = inbox \o Report("I2S_STOPPED")
          /\ UNCHANGED <<service, playback, heard, stack, evq, held, player, listener>>
      BY <1>4 DEF I2sStopped
    <2>2. Grows(inbox, inbox')
      BY <1>1, <2>1, Grown DEF Messages
    <2>3. Fetched'
      <3>1. UNCHANGED <<btRate, musicInfo, i2sClk>>
        BY <2>1 DEF service, playback
      <3> QED
        BY <2>1, <2>2, <3>1 DEF IInv, Fetched, Grows
    <2> QED
      BY <1>1, <2>1, <2>2, <2>3, PlayerNext DEF Running, playback, Grows
  <1> QED
    BY <1>2, <1>3, <1>4

LEMMA SetUpKeeps ==
  ASSUME IInv, SetUp \/ TearDown, UNCHANGED <<service, playback, heard, stack, evq>>
  PROVE  IInv'
  <1>1. /\ inbox \in Seq(Messages) /\ musicInfo' \in Rates \cup {0} /\ i2sClk' \in Rates
        /\ listener \in BOOLEAN /\ held \subseteq {"service", "bluedroid", "stream", "periph"}
    BY DEF IInv, TypeOK, playback
  <1>2. UNCHANGED <<btRate, musicInfo, i2sClk, heard>>
    BY DEF service, playback
  <1>3. ASSUME NEW ok \in BOOLEAN, ServiceStart("start", "create", ok)
        PROVE  IInv'
    <2>1. /\ player = "start" /\ player' = "create" /\ UNCHANGED <<listener, inbox>>
          /\ held' \subseteq {"service", "bluedroid"}
      BY <1>3 DEF ServiceStart, Goto
    <2>2. ~Running /\ Fetched'
      BY <1>2, <2>1 DEF IInv, Before, Fetched
    <2> QED
      BY <1>1, <2>1, <2>2, PlayerNext
  <1>4. CASE \/ Create("stream", "create", "periph") \/ Create("periph", "periph", "listen")
             \/ Destroy("stream", "stream", "periphs") \/ Destroy("periph", "periphs", "service")
    <2>1. /\ player' \in {"periph", "listen", "periphs", "service"} /\ UNCHANGED <<listener, inbox>>
          /\ held' \subseteq {"service", "bluedroid", "stream", "periph"}
          /\ player' \in {"periph", "listen"} => player \in {"create", "periph"}
      BY <1>1, <1>4 DEF Create, Destroy, Goto
    <2>2. Running' <=> Running
      BY <1>4 DEF Create, Destroy, Running
    <2>3. Fetched'
      BY <1>2, <2>1 DEF IInv, Fetched
    <2> QED
      BY <1>1, <2>1, <2>2, <2>3, PlayerNext
  <1>5. CASE SetListener("listen", "loop")
    <2>1. player = "listen" /\ player' = "loop" /\ listener' = TRUE /\ UNCHANGED <<held, inbox>>
      BY <1>5 DEF SetListener, Goto
    <2>2. Fetched'
      BY <1>2, <2>1 DEF IInv, Before, Fetched
    <2>3. listener' \in BOOLEAN
      BY <2>1, Zenon
    <2> QED
      BY <1>1, <2>1, <2>2, <2>3, PlayerNext DEF Running
  <1>6. CASE RemoveListener("pipeline", "stream")
    <2>1. player' = "stream" /\ listener' = FALSE /\ inbox' = <<>> /\ UNCHANGED held
      BY <1>6 DEF RemoveListener, Goto
    <2>2. Fetched' /\ inbox' \in Seq(Messages)
      BY <2>1 DEF Fetched
    <2>3. listener' \in BOOLEAN
      BY <2>1, Zenon
    <2> QED
      BY <1>1, <2>1, <2>2, <2>3, PlayerNext DEF Running
  <1> QED
    BY <1>3, <1>4, <1>5, <1>6 DEF SetUp, TearDown

LEMMA ShutdownKeeps ==
  ASSUME IInv, Shutdown
  PROVE  IInv'
  <1>1. /\ player' = "gone" /\ UNCHANGED <<service, playback, heard, listener, inbox>>
        /\ held' = IF MayDestroy THEN {} ELSE held
    BY DEF Shutdown, ServiceDestroy, Goto
  <1>2. UNCHANGED <<conn, remoteBda, audioState, btRate, musicInfo, i2sClk>>
    BY <1>1 DEF service, playback
  <1>3. Fetched'
    BY <1>1 DEF Fetched
  <1>4. CASE MayDestroy
    <2>1. /\ page' = NoDevice /\ link' = NoDevice /\ freq' = 0 /\ streaming' = FALSE
          /\ evq' = <<>> /\ ~Running'
      BY <1>1, <1>4 DEF Shutdown, Running
    <2>2. OneLink' /\ Before'
      <3>1. ~streaming'
        BY <2>1, Zenon
      <3> QED
        BY <1>1, <2>1, <3>1 DEF OneLink, Before
    <2>3. TypeOK'
      <3>1. evq' \in Seq(ConnEvents \cup AudioEvents \cup CfgEvents)
        <4>1. \A S : <<>> \in Seq(S)
          OBVIOUS
        <4> QED
          BY <2>1, <4>1
      <3>2. streaming' \in BOOLEAN
        BY <2>1, Zenon
      <3>3. {page', link'} \subseteq Peers /\ freq' \in Rates \cup {0}
            /\ held' \subseteq {"service", "bluedroid", "stream", "periph"}
        BY <1>1, <1>4, <2>1 DEF Peers
      <3> QED
        BY <1>1, <1>2, <3>1, <3>2, <3>3 DEF IInv, TypeOK
    <2>4. Tracked' /\ Chosen'
      BY <1>2, <2>1 DEF IInv, Tracked, Chosen, ChosenIn
    <2> QED
      BY <1>3, <2>2, <2>3, <2>4 DEF IInv
  <1>5. CASE ~MayDestroy
    <2>1. UNCHANGED <<held, stack, evq>>
      BY <1>1, <1>5 DEF Shutdown
    <2> QED
      BY <1>1, <1>2, <1>3, <2>1, PlayerNext DEF Running, IInv, TypeOK
  <1> QED
    BY <1>4, <1>5

LEMMA Step ==
  ASSUME IInv, [Next]_vars
  PROVE  IInv'
  <1>1. CASE SinkCb
    BY <1>1, ConnectionStateKeeps, AudioStateKeeps, AudioCfgKeeps DEF SinkCb
  <1>2. CASE Bluedroid
    BY <1>2, BluedroidKeeps
  <1>3. CASE Player \/ I2sStopped
    BY <1>3, ListenKeeps, SetUpKeeps, ShutdownKeeps DEF Player
  <1>4. CASE UNCHANGED vars
    <2>1. UNCHANGED <<conn, remoteBda, audioState, btRate, musicInfo, i2sClk, heard, page, link, freq,
                      streaming, evq, held, player, listener, inbox>>
      BY <1>4 DEF vars, service, playback, stack, life
    <2> QED
      BY <2>1 DEF IInv, TypeOK, Tracked, OneLink, Before, Chosen, ChosenIn, Fetched, Running
  <1> QED
    BY <1>1, <1>2, <1>3, <1>4 DEF Next, Gone

-----------------------------------------------------------------------------
(* The theorems.                                                           *)

LEMMA Inductive == Spec => []IInv
  <1>1. IInv /\ [Next]_vars => IInv'
    BY Step
  <1> QED
    BY InitInv, <1>1, PTL DEF Spec

\* Every variable keeps its type: the callback's queue, the player's messages and the
\* rates that go from the codec's configuration to the I2S clock.
THEOREM TypeCorrect == Spec => []TypeOK
  <1>1. IInv => TypeOK
    BY DEF IInv
  <1> QED
    BY Inductive, <1>1, PTL

\* bt_a2d_sink_cb's connection_state and remote_bda are those of Bluedroid's link once
\* the callback has caught up, whatever phones were turned away or failed to connect.
THEOREM StateFollowsLink == Spec => []SinkTracksLink
  <1>1. ASSUME IInv PROVE SinkTracksLink
    <2>1. SUFFICES ASSUME Running, ~Queued("CONN")
                   PROVE  (conn = "CONNECTED" <=> link # NoDevice) /\ remoteBda = link
      BY DEF SinkTracksLink
    <2>2. \A i \in 1 .. Len(evq) : evq[i].kind # "CONN"
      BY <1>1, <2>1 DEF Queued, ToSet, IInv, TypeOK
    <2>3. remoteBda = link
      BY <1>1, <2>1, <2>2, QueueFacts, TrailQuiet DEF IInv, Tracked
    <2> QED
      BY <1>1, <2>3 DEF IInv, Tracked
  <1> QED
    BY Inductive, <1>1, PTL

\* The player's I2S clock runs at the frequency the phone has chosen last, although the
\* player reads the element's information after the message that announced it.
THEOREM ClockFollows == Spec => []ClockFollowsConfig
  <1>1. ASSUME IInv PROVE ClockFollowsConfig
    <2>1. SUFFICES ASSUME heard, freq # 0, player = "loop", ~Queued("CFG"),
                          ~Contains(inbox, "MUSIC_INFO")
                   PROVE  i2sClk = freq
      BY DEF ClockFollowsConfig
    <2>2. evq \in Seq(Events) /\ inbox \in Seq(Messages)
      BY <1>1, QueueFacts DEF IInv
    <2>3. \A i \in 1 .. Len(evq) : evq[i].kind # "CFG"
      BY <2>1, <2>2 DEF Queued, ToSet
    <2>4. btRate = freq
      BY <1>1, <2>1, <2>3 DEF IInv, Chosen, ChosenIn, LastCfg
    <2>5. ~HasInfo(inbox)
      BY <2>1, <2>2 DEF Contains, HasInfo
    <2> QED
      BY <1>1, <2>1, <2>4, <2>5 DEF IInv, Fetched
  <1> QED
    BY Inductive, <1>1, PTL
=============================================================================
