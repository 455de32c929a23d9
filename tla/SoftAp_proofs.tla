---------------------------- MODULE SoftAp_proofs ----------------------------
(***************************************************************************)
(* Theorems about the access point and its DHCP server, for any number of  *)
(* stations, any pool, lease time and MAX_STATION_NUM, and their proofs.   *)
(***************************************************************************)
EXTENDS SoftAp, DhcpWalk, FiniteSetTheorems, WellFoundedInduction, TLAPS

ServerOK == /\ plist \subseteq Lease
            /\ client_address_plus \in Pool \cup {0}
            /\ pcb_dhcps # NoPcb => client_address_plus \in Pool
            /\ pcb_dhcps \in {NoPcb, DefaultNet, AppNet}

AdapterOK == /\ dhcps_status \in {"init", "started", "stopped"}
             /\ esp_ip \in {NoNet, DefaultNet, AppNet}
             /\ esp_netif \in {NoNet, DefaultNet, AppNet}

AppOK == /\ stage \in Stages
         /\ events \in Seq({"AP_START", "AP_STACONNECTED", "AP_STADISCONNECTED"})
         /\ wifi_event_group \subseteq {CLIENT_CONNECTED_BIT, CLIENT_DISCONNECTED_BIT}
         /\ printer \in {"none", "waits", "prints"}
         /\ unlisted \subseteq Macs

StationsOK == /\ sta \in [Macs -> Station]
              /\ mail \in [Macs -> Msg \cup {NoMsg}]
              /\ \A m \in Macs : mail[m] # NoMsg => mail[m].mac = m
              /\ robbed \subseteq Macs

\* A station that has sent RELEASE uses no address before the server has read it.
Released == \A m \in Macs : mail[m].type = "RELEASE" => sta[m].st # "bound"

\* What ap_mode_start has reached, step by step; with AP_START the server begins.
Staged ==
    /\ stage \notin Started => /\ esp_netif = NoNet /\ pcb_dhcps = NoPcb /\ events = <<>>
                              /\ \A m \in Macs : sta[m] = Off
    /\ stage \in {"boot", "tcpip", "started"} => dhcps_status = "init"
    /\ stage \in {"stopped", "addressed"} => dhcps_status = "stopped"
    /\ stage \in {"addressed", "started", "wifi", "done"} => esp_ip = AppNet
    /\ stage \in Started => \/ esp_netif = NoNet /\ pcb_dhcps = NoPcb /\ dhcps_status = "init"
                            \/ /\ esp_netif = AppNet /\ pcb_dhcps = AppNet
                               /\ dhcps_status = "started"
    /\ stage # "aborted"
    /\ stage # "done" => printer = "none"

IInv == TypeOK /\ LeasesUnique /\ BoundHasLease /\ Released /\ Staged /\ NewStationsListed

LEMMA Parts == TypeOK <=> ServerOK /\ AdapterOK /\ AppOK /\ StationsOK
  BY DEF TypeOK, ServerOK, AdapterOK, AppOK, StationsOK

-----------------------------------------------------------------------------
(* The pool.                                                               *)

\* dhcps_poll_set places the pool inside the segment and beside the server.
LEMMA PoolFacts == /\ PoolStart \in 1..254 /\ PoolEnd \in 1..254 /\ PoolStart <= PoolEnd
                   /\ ServerHost \notin Pool
                   /\ PoolStart \in Pool /\ PoolEnd \in Pool
                   /\ 0 \notin Pool
  BY PoolAssumption DEF PoolStart, PoolEnd, Pool

\* The walk from a over leased addresses ends at a free one, at the latest behind the pool.
LEMMA NextFreeIsFree ==
  ASSUME NEW a \in Pool, NEW used, used \subseteq Pool
  PROVE  /\ NextFree(a, used) \in a..(PoolEnd + 1)
         /\ NextFree(a, used) \notin used
         /\ a..(NextFree(a, used) - 1) \subseteq used
  <1> DEFINE T == {x \in a..(PoolEnd + 1) : x \notin used}
  <1>1. a \in Nat /\ PoolEnd \in Nat /\ a <= PoolEnd
    BY PoolFacts DEF Pool
  <1>2. PoolEnd + 1 \in T
    BY <1>1, PoolFacts DEF Pool
  <1>3. T \subseteq Nat
    BY <1>1
  <1>4. PICK x \in T : \A y \in T : ~ (<<y, x>> \in OpToRel(<, Nat))
    <2> HIDE DEF T
    <2> QED
      BY <1>2, <1>3, NatLessThanWellFounded, WFMin
  <1>5. \A y \in T : ~ (y < x)
    BY <1>3, <1>4 DEF OpToRel
  <1>6. a..(x - 1) \subseteq used
    BY <1>1, <1>5
  <1>7. \E z \in a..(PoolEnd + 1) : z \notin used /\ a..(z - 1) \subseteq used
    BY <1>6
  <1> QED
    BY <1>7 DEF NextFree

LEMMA CandidateIsFree ==
  ASSUME plist \subseteq Lease, client_address_plus \in Pool
  PROVE  Candidate \in PoolStart..(PoolEnd + 1) /\ Candidate \notin Hosts
  <1>1. Hosts \subseteq Pool
    BY DEF Hosts, Lease
  <1>2. /\ NextFree(client_address_plus, Hosts) \in client_address_plus..(PoolEnd + 1)
        /\ NextFree(client_address_plus, Hosts) \notin Hosts
    BY <1>1, NextFreeIsFree
  <1>3. /\ NextFree(PoolStart, Hosts) \in PoolStart..(PoolEnd + 1)
        /\ NextFree(PoolStart, Hosts) \notin Hosts
    BY <1>1, NextFreeIsFree, PoolFacts
  <1>4. client_address_plus >= PoolStart
    BY DEF Pool
  <1> QED
    BY <1>2, <1>3, <1>4, PoolFacts DEF Candidate, Pool

-----------------------------------------------------------------------------
(* The steps.                                                              *)

LEMMA Start == Init => IInv
  <1> SUFFICES ASSUME Init PROVE IInv
    OBVIOUS
  <1>1. ServerOK /\ AdapterOK
    BY DEF Init, ServerInit, AdapterInit, ServerOK, AdapterOK
  <1>2. AppOK
    <2>1. <<>> \in Seq({"AP_START", "AP_STACONNECTED", "AP_STADISCONNECTED"})
      OBVIOUS
    <2> QED
      BY <2>1 DEF Init, AppOK, Stages
  <1>3. StationsOK
    BY DEF Init, StationsOK, Station, Off
  <1>4. LeasesUnique /\ BoundHasLease /\ Released
    BY DEF Init, ServerInit, LeasesUnique, BoundHasLease, Released, Off
  <1>5. Staged /\ NewStationsListed
    BY DEF Init, ServerInit, AdapterInit, Staged, Started, NewStationsListed
  <1> QED
    BY <1>1, <1>2, <1>3, <1>4, <1>5, Parts DEF IInv

\* What one step may do to the server.
LEMMA ServerSteps ==
  ASSUME Staged, [Next]_vars
  PROVE  \/ UNCHANGED server
         \/ PowerCycle
         \/ dhcps_start(AppNet)
         \/ \E m \in Macs : Serve(m)
         \/ Tick
  <1>1. CASE ap_mode_start
    <2>1. CASE InitTcpip
      BY <2>1 DEF InitTcpip, tcpip_adapter_init, server
    <2>2. CASE StopServer
      BY <2>2 DEF StopServer, tcpip_adapter_dhcps_stop, Checked, Goes, Staged, server
    <2>3. CASE SetAddress
      BY <2>3 DEF SetAddress, tcpip_adapter_set_ip_info, server
    <2>4. CASE StartServer
      BY <2>4 DEF StartServer, tcpip_adapter_dhcps_start, Checked, Goes, Staged, Started, server
    <2>5. CASE StartWifi \/ CreatePrinter
      BY <2>5 DEF StartWifi, CreatePrinter, server
    <2> QED
      BY <1>1, <2>1, <2>2, <2>3, <2>4, <2>5 DEF ap_mode_start
  <1>2. CASE PowerCycle
    BY <1>2
  <1>3. CASE event_handler
    <2>1. stage \in Started
      BY <1>3 DEF event_handler, Staged
    <2>2. esp_ip = AppNet
      BY <2>1 DEF Staged, Started
    <2> QED
      BY <1>3, <2>2 DEF event_handler, tcpip_adapter_ap_start, server
  <1>4. CASE Wake \/ printStationList
    BY <1>4 DEF Wake, printStationList, server
  <1>5. ASSUME NEW m \in Macs,
               \/ Join(m) \/ Leave(m) \/ Discover(m) \/ RequestKept(m) \/ RequestOffered(m)
               \/ Renew(m) \/ GiveUp(m) \/ NoAnswer(m) \/ Lost(m)
        PROVE  UNCHANGED server
    BY <1>5 DEF Join, Leave, Discover, RequestKept, RequestOffered, Renew, GiveUp, NoAnswer,
                Lost, Send, StationStep, server
  <1>6. CASE UNCHANGED vars
    BY <1>6 DEF vars, server
  <1> QED
    BY <1>1, <1>2, <1>3, <1>4, <1>5, <1>6 DEF Next

\* What one message does to the leases.
Renewed(x, answer, client) ==
    \E l \in plist :
       /\ l.mac = x.mac /\ l.ip = client
       /\ answer = parse_options(x, client, x.ciaddr = client)
       /\ IF answer = "RELEASE" THEN plist' = plist \ {l}
          ELSE plist' = (plist \ {l}) \cup {[l EXCEPT !.lease_timer = LeaseTime]}

Granted(x, answer, client) ==
    /\ client \in Pool /\ client \notin Hosts
    /\ \A l \in plist : l.mac # x.mac
    /\ answer = parse_options(x, client, FALSE)
    /\ IF answer = "RELEASE" THEN plist' = plist
       ELSE plist' = plist \cup {[ip |-> client, mac |-> x.mac, lease_timer |-> LeaseTime]}

Refused(x, answer) == /\ answer = "NAK"
                      /\ \A l \in plist : l.mac # x.mac
                      /\ plist' = plist

LEMMA HandleSteps ==
  ASSUME ServerOK, NEW x \in Msg, NEW answer, NEW client, handle_dhcp(x, answer, client)
  PROVE  /\ client_address_plus' \in Pool
         /\ Renewed(x, answer, client) \/ Granted(x, answer, client) \/ Refused(x, answer)
  <1>1. client_address_plus \in Pool
    BY DEF handle_dhcp, ServerOK
  <1>2. CASE ParseKnown(x, answer, client)
    <2>1. PICK l \in plist :
             /\ l.mac = x.mac /\ l.ip = client
             /\ answer = parse_options(x, client, x.ciaddr = client)
             /\ plist' = (plist \ {l}) \cup
                         (IF answer = "RELEASE" THEN {}
                          ELSE {[l EXCEPT !.lease_timer = LeaseTime]})
             /\ client_address_plus' = NextFree(client_address_plus, {h \in Hosts : h < l.ip})
      BY <1>2 DEF ParseKnown
    <2>2. {h \in Hosts : h < l.ip} \subseteq Pool /\ l.ip \in Pool
      BY DEF Hosts, ServerOK, Lease
    <2> DEFINE used == {h \in Hosts : h < l.ip}
    <2>3. /\ NextFree(client_address_plus, used) \in client_address_plus..(PoolEnd + 1)
          /\ client_address_plus..(NextFree(client_address_plus, used) - 1) \subseteq used
      BY <1>1, <2>2, NextFreeIsFree
    <2>4. PoolEnd \notin used /\ PoolEnd \in Nat
      BY <2>2, PoolFacts DEF Pool
    <2>5. NextFree(client_address_plus, used) \in Pool
      <3> HIDE DEF used
      <3> DEFINE n == NextFree(client_address_plus, used)
      <3> HIDE DEF n
      <3>1. n \in client_address_plus..(PoolEnd + 1) /\ client_address_plus..(n - 1) \subseteq used
        BY <2>3 DEF n
      <3>2. n # PoolEnd + 1
        BY <1>1, <2>4, <3>1 DEF Pool
      <3>3. n \in Pool
        BY <1>1, <3>1, <3>2, <2>4, PoolFacts DEF Pool
      <3> QED
        BY <3>3 DEF n
    <2> QED
      BY <2>1, <2>5 DEF Renewed
  <1>3. CASE ParseNew(x, answer, client)
    <2>1. Candidate \in PoolStart..(PoolEnd + 1) /\ Candidate \notin Hosts
      BY <1>1, CandidateIsFree DEF ServerOK
    <2>2. client = Candidate /\ client <= PoolEnd
      BY <1>3 DEF ParseNew
    <2>3. client \in Pool /\ client \notin Hosts
      BY <2>1, <2>2, PoolFacts DEF Pool
    <2>4. client_address_plus' \in Pool
      BY <1>3, <2>3, PoolFacts DEF ParseNew, Pool
    <2>5. /\ \A l \in plist : l.mac # x.mac
          /\ answer = parse_options(x, client, FALSE)
          /\ plist' = plist \cup
                      (IF answer = "RELEASE" THEN {}
                       ELSE {[ip |-> client, mac |-> x.mac, lease_timer |-> LeaseTime]})
      BY <1>3 DEF ParseNew
    <2>6. IF answer = "RELEASE" THEN plist' = plist
          ELSE plist' = plist \cup {[ip |-> client, mac |-> x.mac, lease_timer |-> LeaseTime]}
      BY <2>5
    <2> QED
      BY <2>3, <2>4, <2>5, <2>6 DEF Granted
  <1>4. CASE ParseExhausted(x, answer, client)
    BY <1>4, PoolFacts DEF ParseExhausted, Refused
  <1> QED
    BY <1>2, <1>3, <1>4 DEF handle_dhcp

\* The message a station has under way is its own.
LEMMA MailIsMine ==
  ASSUME StationsOK, NEW m \in Macs, mail[m] # NoMsg
  PROVE  mail[m] \in Msg /\ mail[m].mac = m
  BY DEF StationsOK

\* A second ages every lease by one and keeps whose it is.
LEMMA AgedFacts ==
  ASSUME plist \subseteq Lease
  PROVE  /\ Aged \subseteq Lease
         /\ \A k \in Aged : \E l \in plist :
               k.ip = l.ip /\ k.mac = l.mac /\ k = [l EXCEPT !.lease_timer = l.lease_timer - 1]
         /\ \A l \in plist : l.lease_timer > 1 =>
               [l EXCEPT !.lease_timer = l.lease_timer - 1] \in Aged
  <1>1. \A l \in plist : l \in Lease /\ l.lease_timer \in 1..LeaseTime
    BY DEF Lease
  <1>2. \A k \in Aged : \E l \in plist :
           l.lease_timer > 1 /\ k = [l EXCEPT !.lease_timer = l.lease_timer - 1]
    BY DEF Aged
  <1>3. \A l \in plist : l.lease_timer > 1 =>
           /\ [l EXCEPT !.lease_timer = l.lease_timer - 1] \in Lease
           /\ [l EXCEPT !.lease_timer = l.lease_timer - 1].ip = l.ip
           /\ [l EXCEPT !.lease_timer = l.lease_timer - 1].mac = l.mac
    BY <1>1, PoolAssumption DEF Lease
  <1>4. \A l \in plist : l.lease_timer > 1 =>
           [l EXCEPT !.lease_timer = l.lease_timer - 1] \in Aged
    BY DEF Aged
  <1>5. ASSUME NEW k \in Aged
        PROVE  /\ k \in Lease
               /\ \E l \in plist : /\ k.ip = l.ip /\ k.mac = l.mac
                                   /\ k = [l EXCEPT !.lease_timer = l.lease_timer - 1]
    BY <1>2, <1>3
  <1> QED
    BY <1>4, <1>5

LEMMA ServerKept ==
  ASSUME ServerOK, LeasesUnique, StationsOK, Staged, [Next]_vars
  PROVE  ServerOK' /\ LeasesUnique'
  <1>1. CASE UNCHANGED server
    BY <1>1 DEF server, ServerOK, LeasesUnique
  <1>2. CASE PowerCycle
    BY <1>2 DEF PowerCycle, ServerOK, LeasesUnique
  <1>3. CASE dhcps_start(AppNet)
    BY <1>3, PoolFacts DEF dhcps_start, ServerOK, LeasesUnique
  <1>4. ASSUME NEW m \in Macs, Serve(m)
        PROVE  ServerOK' /\ LeasesUnique'
    <2>1. PICK answer, client : handle_dhcp(mail[m], answer, client)
      BY <1>4 DEF Serve
    <2>2. mail[m] \in Msg /\ mail[m].mac = m
      BY <1>4, MailIsMine DEF Serve
    <2>3. pcb_dhcps' = pcb_dhcps
      BY <2>1 DEF handle_dhcp
    <2>4. /\ client_address_plus' \in Pool
          /\ \/ Renewed(mail[m], answer, client) \/ Granted(mail[m], answer, client)
             \/ Refused(mail[m], answer)
      BY <2>1, <2>2, HandleSteps
    <2>5. LeaseTime \in 1..LeaseTime
      BY PoolAssumption
    <2>6. plist' \subseteq Lease /\ LeasesUnique'
      <3>1. CASE Renewed(mail[m], answer, client)
        <4>0. PICK l \in plist :
                 IF answer = "RELEASE" THEN plist' = plist \ {l}
                 ELSE plist' = (plist \ {l}) \cup {[l EXCEPT !.lease_timer = LeaseTime]}
          BY <3>1 DEF Renewed
        <4> DEFINE k == [l EXCEPT !.lease_timer = LeaseTime]
        <4>1. l \in Lease
          BY DEF ServerOK
        <4>2. k \in Lease /\ k.ip = l.ip /\ k.mac = l.mac
          BY <2>5, <4>1 DEF Lease
        <4> HIDE DEF k
        <4>3. plist' \subseteq (plist \ {l}) \cup {k}
          BY <4>0 DEF k
        <4> QED
          BY <4>2, <4>3 DEF ServerOK, LeasesUnique
      <3>2. CASE Granted(mail[m], answer, client)
        <4>0. /\ client \in Pool /\ client \notin Hosts
              /\ \A l \in plist : l.mac # m
              /\ IF answer = "RELEASE" THEN plist' = plist
                 ELSE plist' = plist \cup {[ip |-> client, mac |-> m, lease_timer |-> LeaseTime]}
          BY <2>2, <3>2 DEF Granted
        <4> DEFINE k == [ip |-> client, mac |-> m, lease_timer |-> LeaseTime]
        <4>1. k \in Lease /\ k.ip = client /\ k.mac = m
          BY <2>5, <4>0 DEF Lease
        <4> HIDE DEF k
        <4>2. plist' \subseteq plist \cup {k}
          BY <4>0 DEF k
        <4>3. \A l \in plist : l.ip # client
          BY <4>0 DEF Hosts
        <4> QED
          BY <4>0, <4>1, <4>2, <4>3 DEF ServerOK, LeasesUnique
      <3>3. CASE Refused(mail[m], answer)
        BY <3>3 DEF Refused, ServerOK, LeasesUnique
      <3> QED
        BY <2>4, <3>1, <3>2, <3>3
    <2> QED
      BY <2>3, <2>4, <2>6 DEF ServerOK
  <1>5. CASE Tick
    <2>1. plist' \subseteq Aged /\ UNCHANGED <<client_address_plus, pcb_dhcps>>
      BY <1>5 DEF Tick, dhcps_coarse_tmr
    <2>2. /\ Aged \subseteq Lease
          /\ \A k \in Aged : \E l \in plist :
                k.ip = l.ip /\ k.mac = l.mac /\ k = [l EXCEPT !.lease_timer = l.lease_timer - 1]
      BY AgedFacts DEF ServerOK
    <2>3. LeasesUnique'
      BY <2>1, <2>2 DEF LeasesUnique
    <2> QED
      BY <2>1, <2>2, <2>3 DEF ServerOK
  <1> QED
    BY <1>1, <1>2, <1>3, <1>4, <1>5, ServerSteps

LEMMA AdapterKept ==
  ASSUME AdapterOK, [Next]_vars
  PROVE  AdapterOK'
  <1>1. CASE ap_mode_start
    BY <1>1 DEF ap_mode_start, InitTcpip, StopServer, SetAddress, StartServer, StartWifi,
                CreatePrinter, tcpip_adapter_init, tcpip_adapter_dhcps_stop,
                tcpip_adapter_set_ip_info, tcpip_adapter_dhcps_start, adapter, AdapterOK
  <1>2. CASE PowerCycle
    BY <1>2 DEF PowerCycle, AdapterOK
  <1>3. CASE event_handler
    BY <1>3 DEF event_handler, tcpip_adapter_ap_start, adapter, AdapterOK
  <1>4. CASE Wake \/ printStationList \/ Tick
    BY <1>4 DEF Wake, printStationList, Tick, adapter, AdapterOK
  <1>5. ASSUME NEW m \in Macs,
               \/ Join(m) \/ Leave(m) \/ Discover(m) \/ RequestKept(m) \/ RequestOffered(m)
               \/ Renew(m) \/ GiveUp(m) \/ NoAnswer(m) \/ Lost(m) \/ Serve(m)
        PROVE  AdapterOK'
    BY <1>5 DEF Join, Leave, Discover, RequestKept, RequestOffered, Renew, GiveUp, NoAnswer,
                Lost, Serve, Send, StationStep, adapter, AdapterOK
  <1>6. CASE UNCHANGED vars
    BY <1>6 DEF vars, adapter, AdapterOK
  <1> QED
    BY <1>1, <1>2, <1>3, <1>4, <1>5, <1>6 DEF Next

\* The stations' own steps.
Moves(m) == \/ Join(m) \/ Leave(m) \/ Discover(m) \/ RequestKept(m) \/ RequestOffered(m)
            \/ Renew(m) \/ GiveUp(m) \/ NoAnswer(m) \/ Lost(m)

LEMMA Steps ==
  ASSUME [Next]_vars
  PROVE  \/ ap_mode_start \/ PowerCycle \/ event_handler \/ Wake \/ printStationList \/ Tick
         \/ \E m \in Macs : Moves(m) \/ Serve(m)
         \/ UNCHANGED vars
  BY DEF Next, Moves

LEMMA AppKept ==
  ASSUME AppOK, [Next]_vars
  PROVE  AppOK'
  <1> DEFINE E == {"AP_START", "AP_STACONNECTED", "AP_STADISCONNECTED"}
  <1>0. /\ \A e \in E : Append(events, e) \in Seq(E)
        /\ events # <<>> => Tail(events) \in Seq(E)
        /\ <<>> \in Seq(E)
    BY DEF AppOK
  <1>1. CASE ap_mode_start
    <2>1. /\ stage' \in Stages
          /\ events' = events \/ events' = Append(events, "AP_START")
          /\ UNCHANGED <<wifi_event_group, unlisted>>
          /\ printer' = printer \/ printer' = "waits"
      BY <1>1 DEF ap_mode_start, InitTcpip, StopServer, SetAddress, StartServer, StartWifi,
                  CreatePrinter, Checked, Goes, Stages
    <2> QED
      BY <1>0, <2>1 DEF AppOK
  <1>2. CASE PowerCycle
    BY <1>0, <1>2 DEF PowerCycle, AppOK, Stages
  <1>3. CASE event_handler
    <2>1. BitOf(Head(events)) \subseteq {CLIENT_CONNECTED_BIT, CLIENT_DISCONNECTED_BIT}
      BY DEF BitOf
    <2> QED
      BY <1>0, <1>3, <2>1 DEF event_handler, AppOK
  <1>4. CASE Wake \/ printStationList \/ Tick
    BY <1>4 DEF Wake, printStationList, Tick, app, AppOK
  <1>5. ASSUME NEW m \in Macs, Moves(m) \/ Serve(m)
        PROVE  AppOK'
    <2>1. CASE Join(m)
      BY <1>0, <2>1 DEF Join, StationStep, AppOK
    <2>2. CASE Leave(m)
      BY <1>0, <2>2 DEF Leave, StationStep, AppOK
    <2>3. CASE ~ Join(m) /\ ~ Leave(m)
      BY <1>5, <2>3 DEF Moves, Discover, RequestKept, RequestOffered, Renew, GiveUp, NoAnswer,
                        Lost, Serve, Send, StationStep, app, AppOK
    <2> QED
      BY <2>1, <2>2, <2>3
  <1>6. CASE UNCHANGED vars
    BY <1>6 DEF vars, app, AppOK
  <1> QED
    BY <1>1, <1>2, <1>3, <1>4, <1>5, <1>6, Steps

\* A station accepts an address of the pool only.
LEMMA TakeFacts ==
  ASSUME NEW s \in Station, NEW answer, NEW client, answer = "OFFER" => client \in Pool
  PROVE  /\ Take(s, answer, client) \in Station
         /\ Take(s, answer, client).st = "bound" =>
               \/ Take(s, answer, client) = s
               \/ /\ answer = "ACK"
                  /\ Take(s, answer, client) = [st |-> "bound", ip |-> client, left |-> LeaseTime]
  <1>1. s.ip \in Pool \/ s.st \in {"off", "init"}
    BY DEF Station
  <1>2. LeaseTime \in 1..LeaseTime
    BY PoolAssumption
  <1>3. CASE s.st = "init" /\ answer = "OFFER"
    BY <1>3 DEF Take, Station
  <1>4. CASE s.st \in {"requesting", "bound"} /\ answer = "ACK" /\ s.ip = client
    BY <1>1, <1>2, <1>4 DEF Take, Station
  <1>5. CASE s.st \in {"requesting", "bound"} /\ answer = "NAK"
    BY <1>5 DEF Take, Fresh, Station
  <1> QED
    BY <1>3, <1>4, <1>5 DEF Take

\* What is offered is an address of the pool.
LEMMA OfferedFromPool ==
  ASSUME ServerOK, NEW x \in Msg, NEW answer, NEW client, handle_dhcp(x, answer, client),
         answer = "OFFER"
  PROVE  client \in Pool
  <1>1. Renewed(x, answer, client) \/ Granted(x, answer, client)
    BY HandleSteps DEF Refused
  <1> QED
    BY <1>1 DEF Renewed, Granted, ServerOK, Lease

LEMMA StationsKept ==
  ASSUME ServerOK, StationsOK, [Next]_vars
  PROVE  StationsOK'
  <1>1. CASE ap_mode_start \/ event_handler \/ Wake \/ printStationList \/ UNCHANGED vars
    BY <1>1 DEF ap_mode_start, InitTcpip, StopServer, SetAddress, StartServer, StartWifi,
                CreatePrinter, Checked, Goes, event_handler, Wake, printStationList, vars,
                stations, StationsOK
  <1>2. CASE PowerCycle
    BY <1>2 DEF PowerCycle, StationsOK, Station, Off
  <1>3. CASE Tick
    <2>1. \A m \in Macs : sta[m].st = "bound" /\ sta[m].left # 1 =>
             [sta[m] EXCEPT !.left = sta[m].left - 1] \in Station
      <3> SUFFICES ASSUME NEW m \in Macs, sta[m].st = "bound", sta[m].left # 1
                   PROVE  [sta[m] EXCEPT !.left = sta[m].left - 1] \in Station
        OBVIOUS
      <3>1. sta[m] \in [st : {"bound"}, ip : Pool, left : 1..LeaseTime]
        BY DEF StationsOK, Station
      <3>2. sta[m].left - 1 \in 1..LeaseTime
        BY <3>1, PoolAssumption
      <3> QED
        BY <3>1, <3>2 DEF Station
    <2>2. Fresh \in Station
      BY DEF Fresh, Station
    <2>3. sta' \in [Macs -> Station]
      BY <1>3, <2>1, <2>2 DEF Tick, StationsOK
    <2>4. robbed' \subseteq Macs /\ mail' = mail
      BY <1>3 DEF Tick
    <2> QED
      BY <2>3, <2>4 DEF StationsOK
  <1>4. ASSUME NEW m \in Macs, Serve(m)
        PROVE  StationsOK'
    <2>1. PICK answer, client :
             /\ handle_dhcp(mail[m], answer, client)
             /\ \/ /\ sta' = [sta EXCEPT ![m] = Take(sta[m], answer, client)]
                   /\ robbed' = robbed \/ robbed' = robbed \ {m}
                \/ UNCHANGED <<sta, robbed>>
      BY <1>4 DEF Serve
    <2>2. mail[m] \in Msg
      BY <1>4, MailIsMine DEF Serve
    <2>3. Take(sta[m], answer, client) \in Station
      BY <2>1, <2>2, OfferedFromPool, TakeFacts DEF StationsOK
    <2>4. sta' \in [Macs -> Station] /\ robbed' \subseteq Macs
      BY <2>1, <2>3 DEF StationsOK
    <2>5. mail' = [mail EXCEPT ![m] = NoMsg]
      BY <1>4 DEF Serve
    <2> QED
      BY <2>4, <2>5 DEF StationsOK
  <1>5. ASSUME NEW m \in Macs, Moves(m)
        PROVE  StationsOK'
    <2>1. /\ Fresh \in Station /\ Off \in Station
          /\ \A a \in Pool : [st |-> "requesting", ip |-> a, left |-> 0] \in Station
      BY DEF Fresh, Off, Station
    <2>2. sta[m] \in Station
      BY DEF StationsOK
    <2>3. sta[m].st \in {"requesting", "bound"} => sta[m].ip \in Pool
      BY <2>2 DEF Station
    <2>4. robbed' = robbed
      BY <1>5 DEF Moves, Join, Leave, Discover, RequestKept, RequestOffered, Renew, GiveUp,
                  NoAnswer, Lost, Send, StationStep
    <2>5. CASE Join(m) \/ Leave(m) \/ NoAnswer(m) \/ Lost(m)
      BY <2>1, <2>4, <2>5 DEF Join, Leave, NoAnswer, Lost, StationsOK
    <2>6. ASSUME NEW type \in {"DISCOVER", "REQUEST", "DECLINE", "RELEASE"},
                 NEW requested \in Pool \cup {0}, NEW ciaddr \in Pool \cup {0},
                 NEW next \in Station, Send(m, type, requested, ciaddr, next)
          PROVE  StationsOK'
      <3> DEFINE x == [type |-> type, mac |-> m, requested |-> requested, ciaddr |-> ciaddr]
      <3>1. x \in Msg /\ x.mac = m
        BY DEF Msg
      <3>2. /\ mail' = [mail EXCEPT ![m] = x]
            /\ sta' = [sta EXCEPT ![m] = next]
        BY <2>6 DEF Send
      <3> HIDE DEF x
      <3> QED
        BY <2>4, <3>1, <3>2 DEF StationsOK
    <2>7. CASE Discover(m)
      BY <2>1, <2>6, <2>7 DEF Discover
    <2>8. CASE RequestKept(m)
      BY <2>1, <2>6, <2>8 DEF RequestKept
    <2>9. CASE RequestOffered(m) \/ Renew(m)
      BY <2>2, <2>3, <2>6, <2>9 DEF RequestOffered, Renew
    <2>10. CASE GiveUp(m)
      BY <2>1, <2>3, <2>6, <2>10 DEF GiveUp
    <2> QED
      BY <1>5, <2>5, <2>7, <2>8, <2>9, <2>10 DEF Moves
  <1> QED
    BY <1>1, <1>2, <1>3, <1>4, <1>5, Steps

LEMMA ReleasedKept ==
  ASSUME StationsOK, Released, [Next]_vars
  PROVE  Released'
  <1>0. NoMsg.type = "none"
    BY DEF NoMsg
  <1>1. CASE ap_mode_start \/ event_handler \/ Wake \/ printStationList \/ UNCHANGED vars
    BY <1>1 DEF ap_mode_start, InitTcpip, StopServer, SetAddress, StartServer, StartWifi,
                CreatePrinter, Checked, Goes, event_handler, Wake, printStationList, vars,
                stations, Released
  <1>2. CASE PowerCycle
    BY <1>0, <1>2 DEF PowerCycle, Released
  <1>3. CASE Tick
    <2>1. \A m \in Macs : sta'[m].st = "bound" => sta[m].st = "bound"
      BY <1>3 DEF Tick, Fresh
    <2> QED
      BY <1>3, <2>1 DEF Tick, Released
  <1>4. ASSUME NEW m \in Macs, Serve(m)
        PROVE  Released'
    <2>1. /\ mail' = [mail EXCEPT ![m] = NoMsg]
          /\ \E s : sta' = [sta EXCEPT ![m] = s]
      <3>1. sta = [sta EXCEPT ![m] = sta[m]]
        BY DEF StationsOK
      <3> QED
        BY <1>4, <3>1 DEF Serve
    <2> QED
      BY <1>0, <2>1 DEF Released, StationsOK
  <1>5. ASSUME NEW m \in Macs, Moves(m)
        PROVE  Released'
    <2>1. Fresh.st = "init" /\ Off.st = "off"
      BY DEF Fresh, Off
    <2>2. CASE Join(m) \/ Leave(m) \/ NoAnswer(m) \/ Lost(m)
      BY <1>0, <2>1, <2>2 DEF Join, Leave, NoAnswer, Lost, StationsOK, Released
    <2>3. ASSUME NEW type, NEW requested, NEW ciaddr, NEW next,
                 Send(m, type, requested, ciaddr, next),
                 type = "RELEASE" => next.st # "bound"
          PROVE  Released'
      BY <2>3 DEF Send, StationsOK, Released
    <2>4. CASE Discover(m) \/ RequestKept(m) \/ RequestOffered(m) \/ Renew(m)
      BY <2>3, <2>4 DEF Discover, RequestKept, RequestOffered, Renew
    <2>5. CASE GiveUp(m)
      BY <2>1, <2>3, <2>5 DEF GiveUp
    <2> QED
      BY <1>5, <2>2, <2>4, <2>5 DEF Moves
  <1> QED
    BY <1>1, <1>2, <1>3, <1>4, <1>5, Steps

LEMMA StagedKept ==
  ASSUME Staged, AppOK, [Next]_vars
  PROVE  Staged'
  <1>1. CASE InitTcpip
    BY <1>1 DEF InitTcpip, Checked, Goes, tcpip_adapter_init, server, Staged, Started, stations
  <1>2. CASE StopServer
    BY <1>2 DEF StopServer, Checked, Goes, tcpip_adapter_dhcps_stop, server, Staged, Started, stations
  <1>3. CASE SetAddress
    BY <1>3 DEF SetAddress, Checked, Goes, tcpip_adapter_set_ip_info, server, Staged, Started, stations
  <1>4. CASE StartServer
    BY <1>4 DEF StartServer, Checked, Goes, tcpip_adapter_dhcps_start, server, Staged, Started, stations
  <1>5. CASE StartWifi \/ CreatePrinter
    BY <1>5 DEF StartWifi, CreatePrinter, Goes, server, adapter, Staged, Started, stations
  <1>6. CASE PowerCycle
    BY <1>6 DEF PowerCycle, Staged, Started
  <1>7. CASE event_handler
    <2>1. stage \in Started /\ UNCHANGED <<stage, printer>>
      BY <1>7 DEF event_handler, Staged
    <2>2. esp_ip = AppNet
      BY <2>1 DEF Staged, Started
    <2>3. CASE UNCHANGED <<server, adapter>>
      BY <2>1, <2>3 DEF server, adapter, Staged, Started
    <2>4. CASE tcpip_adapter_ap_start
      BY <2>1, <2>2, <2>4, NetAssumption
         DEF tcpip_adapter_ap_start, dhcps_start, server, Staged, Started
    <2> QED
      BY <1>7, <2>3, <2>4 DEF event_handler
  <1>8. CASE Wake \/ printStationList
    BY <1>8 DEF Wake, printStationList, server, adapter, stations, Staged, Started
  <1>9. CASE Tick
    <2>1. pcb_dhcps' = pcb_dhcps /\ pcb_dhcps # NoPcb /\ UNCHANGED <<adapter, app>>
      BY <1>9 DEF Tick, dhcps_coarse_tmr
    <2>2. stage \in Started
      BY <2>1 DEF Staged
    <2> QED
      BY <2>1, <2>2 DEF adapter, app, Staged
  <1>10. ASSUME NEW m \in Macs, Serve(m)
         PROVE  Staged'
    <2>1. pcb_dhcps' = pcb_dhcps /\ pcb_dhcps # NoPcb /\ UNCHANGED <<adapter, app>>
      BY <1>10 DEF Serve, handle_dhcp
    <2>2. stage \in Started
      BY <2>1 DEF Staged
    <2> QED
      BY <2>1, <2>2 DEF adapter, app, Staged
  <1>11. ASSUME NEW m \in Macs, Moves(m)
         PROVE  Staged'
    <2>1. /\ UNCHANGED <<server, adapter, stage, printer>>
          /\ stage \in Started \/ (events' = events /\ sta' = sta) \/ sta[m] # Off
      <3>1. UNCHANGED <<server, adapter, stage, printer>>
        BY <1>11 DEF Moves, Join, Leave, Discover, RequestKept, RequestOffered, Renew, GiveUp,
                     NoAnswer, Lost, Send, StationStep
      <3>2. CASE Join(m) \/ Leave(m) \/ Lost(m)
        BY <3>1, <3>2 DEF Join, Leave, Lost
      <3>3. CASE ~ (Join(m) \/ Leave(m) \/ Lost(m))
        <4>1. sta[m].st \in {"init", "requesting", "bound"}
          BY <1>11, <3>3 DEF Moves, Discover, RequestKept, RequestOffered, Renew, GiveUp, NoAnswer
        <4> QED
          BY <3>1, <4>1 DEF Off
      <3> QED
        BY <3>2, <3>3
    <2> QED
      BY <2>1 DEF server, adapter, Staged
  <1>12. CASE UNCHANGED vars
    BY <1>12 DEF vars, server, adapter, app, stations, Staged
  <1> QED
    BY <1>1, <1>2, <1>3, <1>4, <1>5, <1>6, <1>7, <1>8, <1>9, <1>10, <1>11, <1>12, Steps
       DEF ap_mode_start

-----------------------------------------------------------------------------
(* A station that uses an address has the lease of it.                     *)

\* What an answer does for the station that gets it.
LEMMA BoundAfterServe ==
  ASSUME ServerOK, LeasesUnique, StationsOK, BoundHasLease, Released,
         NEW m \in Macs, Serve(m)
  PROVE  BoundHasLease'
  <1>1. PICK answer, client :
           /\ handle_dhcp(mail[m], answer, client)
           /\ \/ /\ sta' = [sta EXCEPT ![m] = Take(sta[m], answer, client)]
                 /\ robbed' = IF Take(sta[m], answer, client) = sta[m]
                              THEN robbed ELSE robbed \ {m}
              \/ UNCHANGED <<sta, robbed>>
    BY DEF Serve
  <1>2. mail[m] \in Msg /\ mail[m].mac = m
    BY MailIsMine DEF Serve
  <1>3. \/ Renewed(mail[m], answer, client) \/ Granted(mail[m], answer, client)
        \/ Refused(mail[m], answer)
    BY <1>1, <1>2, HandleSteps
  <1>4. answer = "RELEASE" => mail[m].type = "RELEASE"
    BY <1>2, <1>3 DEF Renewed, Granted, Refused, parse_options, Msg
  <1>5. ASSUME NEW l \in plist, l.mac # m
        PROVE  l \in plist'
    BY <1>2, <1>3, <1>5 DEF Renewed, Granted, Refused
  <1>6. /\ LeaseTime \in Nat
        /\ \A l \in plist : l \in Lease
        /\ sta[m] \in Station
        /\ sta[m].st = "bound" => sta[m].left \in 1..LeaseTime
    BY PoolAssumption DEF ServerOK, StationsOK, Station
  <1>7. ASSUME NEW l \in plist, l.mac = m, answer # "RELEASE"
        PROVE  \E k \in plist' : k.mac = m /\ k.ip = l.ip /\ k.lease_timer = LeaseTime
    <2>1. Renewed(mail[m], answer, client)
      BY <1>2, <1>3, <1>7 DEF Granted, Refused
    <2>2. PICK k \in plist :
             k.mac = m /\ plist' = (plist \ {k}) \cup {[k EXCEPT !.lease_timer = LeaseTime]}
      BY <1>2, <1>7, <2>1 DEF Renewed
    <2>3. k = l
      BY <1>7, <2>2 DEF LeasesUnique
    <2>4. /\ [k EXCEPT !.lease_timer = LeaseTime].mac = k.mac
          /\ [k EXCEPT !.lease_timer = LeaseTime].ip = k.ip
          /\ [k EXCEPT !.lease_timer = LeaseTime].lease_timer = LeaseTime
      BY <1>6 DEF Lease
    <2> QED
      BY <1>7, <2>2, <2>3, <2>4
  <1>8. ASSUME answer = "ACK"
        PROVE  \E k \in plist' : k.mac = m /\ k.ip = client /\ k.lease_timer = LeaseTime
    <2>1. CASE Renewed(mail[m], answer, client)
      <3>1. PICK l \in plist : l.mac = m /\ l.ip = client
        BY <1>2, <2>1 DEF Renewed
      <3> QED
        BY <1>7, <1>8, <3>1
    <2>2. CASE Granted(mail[m], answer, client)
      <3> DEFINE k == [ip |-> client, mac |-> m, lease_timer |-> LeaseTime]
      <3>1. k \in plist'
        BY <1>2, <1>8, <2>2 DEF Granted
      <3>2. k.mac = m /\ k.ip = client /\ k.lease_timer = LeaseTime
        OBVIOUS
      <3> QED
        BY <3>1, <3>2
    <2>3. CASE Refused(mail[m], answer)
      BY <1>8, <2>3 DEF Refused
    <2> QED
      BY <1>3, <2>1, <2>2, <2>3
  <1>9. ASSUME sta[m].st = "bound", m \notin robbed
        PROVE  \E k \in plist' :
                  k.mac = m /\ k.ip = sta[m].ip /\ k.lease_timer >= sta[m].left
    <2>1. PICK l \in plist : l.mac = m /\ l.ip = sta[m].ip
      BY <1>9 DEF BoundHasLease
    <2>2. answer # "RELEASE"
      BY <1>4, <1>9 DEF Released
    <2>3. PICK k \in plist' : k.mac = m /\ k.ip = l.ip /\ k.lease_timer = LeaseTime
      BY <1>7, <2>1, <2>2
    <2> QED
      BY <1>6, <1>9, <2>1, <2>3
  <1>10. ASSUME NEW n \in Macs, n # m, sta'[n].st = "bound", n \notin robbed'
         PROVE  \E k \in plist' :
                   k.mac = n /\ k.ip = sta'[n].ip /\ k.lease_timer >= sta'[n].left
    <2>1. sta'[n] = sta[n] /\ n \notin robbed
      BY <1>1, <1>10 DEF StationsOK
    <2>2. PICK l \in plist : l.mac = n /\ l.ip = sta[n].ip /\ l.lease_timer >= sta[n].left
      BY <1>10, <2>1 DEF BoundHasLease
    <2> QED
      BY <1>5, <1>10, <2>1, <2>2
  <1>11. ASSUME sta'[m].st = "bound", m \notin robbed'
         PROVE  \E k \in plist' :
                   k.mac = m /\ k.ip = sta'[m].ip /\ k.lease_timer >= sta'[m].left
    <2>1. CASE sta'[m] = sta[m] /\ m \notin robbed
      BY <1>9, <1>11, <2>1
    <2>2. CASE ~ (sta'[m] = sta[m] /\ m \notin robbed)
      <3>1. sta'[m] = Take(sta[m], answer, client) /\ sta'[m] # sta[m]
        BY <1>1, <1>11, <2>2 DEF StationsOK
      <3>2. answer = "OFFER" => client \in Pool
        BY <1>1, <1>2, OfferedFromPool
      <3>3. answer = "ACK" /\ sta'[m] = [st |-> "bound", ip |-> client, left |-> LeaseTime]
        BY <1>6, <1>11, <3>1, <3>2, TakeFacts
      <3>4. PICK k \in plist' : k.mac = m /\ k.ip = client /\ k.lease_timer = LeaseTime
        BY <1>8, <3>3
      <3> QED
        BY <1>6, <3>3, <3>4
    <2> QED
      BY <2>1, <2>2
  <1> QED
    BY <1>10, <1>11 DEF BoundHasLease

LEMMA BoundAfterTick ==
  ASSUME ServerOK, StationsOK, BoundHasLease, Tick
  PROVE  BoundHasLease'
  <1> SUFFICES ASSUME NEW m \in Macs, sta'[m].st = "bound", m \notin robbed'
               PROVE  \E k \in plist' :
                         k.mac = m /\ k.ip = sta'[m].ip /\ k.lease_timer >= sta'[m].left
    BY DEF BoundHasLease
  <1>1. /\ m \notin robbed
        /\ \A l \in Killed : l.mac # m
    BY DEF Tick
  <1>2. /\ sta[m].st = "bound" /\ sta[m].left # 1
        /\ sta'[m] = [sta[m] EXCEPT !.left = sta[m].left - 1]
    BY DEF Tick, Fresh
  <1>3. sta[m] \in [st : {"bound"}, ip : Pool, left : 1..LeaseTime]
    BY <1>2 DEF StationsOK, Station
  <1>4. sta'[m].ip = sta[m].ip /\ sta'[m].left = sta[m].left - 1
    BY <1>2, <1>3
  <1>5. PICK l \in plist : l.mac = m /\ l.ip = sta[m].ip /\ l.lease_timer >= sta[m].left
    BY <1>1, <1>2 DEF BoundHasLease
  <1>6. l \in Lease /\ l.lease_timer \in Nat /\ l.lease_timer > 1 /\ sta[m].left \in Nat
    BY <1>2, <1>3, <1>5, PoolAssumption DEF ServerOK, Lease
  <1> DEFINE k == [l EXCEPT !.lease_timer = l.lease_timer - 1]
  <1>7. k \in Aged
    BY <1>6, AgedFacts DEF ServerOK
  <1>8. k.mac = m /\ k.ip = sta[m].ip /\ k.lease_timer = l.lease_timer - 1
    BY <1>5, <1>6 DEF Lease
  <1> HIDE DEF k
  <1>9. k \in plist'
    BY <1>1, <1>7, <1>8 DEF Tick, dhcps_coarse_tmr
  <1>10. k.lease_timer >= sta[m].left - 1
    BY <1>5, <1>6, <1>8
  <1> QED
    BY <1>4, <1>8, <1>9, <1>10

LEMMA BoundHasLeaseKept ==
  ASSUME ServerOK, LeasesUnique, StationsOK, BoundHasLease, Released, Staged, [Next]_vars
  PROVE  BoundHasLease'
  <1>1. CASE \E m \in Macs : Serve(m)
    BY <1>1, BoundAfterServe
  <1>2. CASE Tick
    BY <1>2, BoundAfterTick
  <1>3. CASE PowerCycle
    BY <1>3 DEF PowerCycle, BoundHasLease, Off
  <1>4. ASSUME ~ Tick, ~ PowerCycle, ~ \E m \in Macs : Serve(m)
        PROVE  BoundHasLease'
    <2>1. plist' = plist
      BY <1>4, ServerSteps DEF dhcps_start, server
    <2>2. /\ robbed' = robbed
          /\ \A m \in Macs : sta'[m].st = "bound" => sta'[m] = sta[m]
      <3>1. CASE UNCHANGED stations
        BY <3>1 DEF stations
      <3>2. ASSUME NEW m \in Macs, Moves(m)
            PROVE  /\ robbed' = robbed
                   /\ \A n \in Macs : sta'[n].st = "bound" => sta'[n] = sta[n]
        <4>1. Fresh.st = "init" /\ Off.st = "off"
          BY DEF Fresh, Off
        <4>2. robbed' = robbed
          BY <3>2 DEF Moves, Join, Leave, Discover, RequestKept, RequestOffered, Renew,
                      GiveUp, NoAnswer, Lost, Send, StationStep
        <4>3. CASE Join(m) \/ Leave(m) \/ NoAnswer(m) \/ Lost(m)
          BY <4>1, <4>2, <4>3 DEF Join, Leave, NoAnswer, Lost, StationsOK
        <4>4. ASSUME NEW type, NEW requested, NEW ciaddr, NEW next,
                     Send(m, type, requested, ciaddr, next),
                     next = sta[m] \/ next.st # "bound"
              PROVE  \A n \in Macs : sta'[n].st = "bound" => sta'[n] = sta[n]
          BY <4>4 DEF Send, StationsOK
        <4>5. CASE Discover(m) \/ RequestOffered(m) \/ Renew(m)
          BY <4>1, <4>2, <4>4, <4>5 DEF Discover, RequestOffered, Renew
        <4>6. CASE RequestKept(m) \/ GiveUp(m)
          BY <4>1, <4>2, <4>4, <4>6 DEF RequestKept, GiveUp
        <4> QED
          BY <3>2, <4>2, <4>3, <4>5, <4>6 DEF Moves
      <3>3. UNCHANGED stations \/ \E m \in Macs : Moves(m)
        BY <1>4, Steps DEF ap_mode_start, InitTcpip, StopServer, SetAddress, StartServer,
                           StartWifi, CreatePrinter, Checked, Goes, event_handler, Wake,
                           printStationList, vars
      <3> QED
        BY <3>1, <3>2, <3>3
    <2> QED
      BY <2>1, <2>2 DEF BoundHasLease
  <1> QED
    BY <1>1, <1>2, <1>3, <1>4

-----------------------------------------------------------------------------
(* A station that joins is listed.                                         *)

LEMMA NewStationsListedKept ==
  ASSUME AppOK, Staged, NewStationsListed, [Next]_vars
  PROVE  NewStationsListed'
  <1> DEFINE Posted(q) == \E i \in 1..Len(q) : q[i] = "AP_STACONNECTED"
  <1>1. ASSUME NEW e
        PROVE  /\ Posted(events) => Posted(Append(events, e))
               /\ e = "AP_STACONNECTED" => Posted(Append(events, e))
    <2>1. /\ Len(events) \in Nat
          /\ Len(Append(events, e)) = Len(events) + 1
          /\ Append(events, e)[Len(events) + 1] = e
          /\ \A i \in 1..Len(events) : Append(events, e)[i] = events[i]
      BY DEF AppOK
    <2> QED
      BY <2>1
  <1>2. ASSUME events # <<>>, Posted(events)
        PROVE  Posted(Tail(events)) \/ Head(events) = "AP_STACONNECTED"
    <2>1. PICK i \in 1..Len(events) : events[i] = "AP_STACONNECTED"
      BY <1>2
    <2>2. /\ Len(events) \in Nat /\ Len(Tail(events)) = Len(events) - 1
          /\ Head(events) = events[1]
          /\ \A j \in 1..(Len(events) - 1) : Tail(events)[j] = events[j + 1]
      BY <1>2 DEF AppOK
    <2>3. CASE i = 1
      BY <2>1, <2>2, <2>3
    <2>4. CASE i # 1
      <3>1. i - 1 \in 1..(Len(events) - 1) /\ Tail(events)[i - 1] = events[i]
        BY <2>2, <2>4
      <3> QED
        BY <2>1, <2>2, <3>1
    <2> QED
      BY <2>3, <2>4
  <1>3. NewStationsListed <=>
           (unlisted # {} => \/ CLIENT_CONNECTED_BIT \in wifi_event_group
                             \/ Posted(events) \/ printer = "prints")
    BY DEF NewStationsListed
  <1>4. NewStationsListed' <=>
           (unlisted' # {} => \/ CLIENT_CONNECTED_BIT \in wifi_event_group'
                              \/ Posted(events') \/ printer' = "prints")
    BY DEF NewStationsListed
  <1> HIDE DEF Posted
  <1>5. CASE InitTcpip \/ StopServer \/ SetAddress \/ StartServer
    BY <1>3, <1>4, <1>5 DEF InitTcpip, StopServer, SetAddress, StartServer, Checked, Goes
  <1>6. CASE StartWifi
    BY <1>1, <1>3, <1>4, <1>6 DEF StartWifi, Goes
  <1>7. CASE CreatePrinter
    <2>1. printer = "none"
      BY <1>7 DEF CreatePrinter, Goes, Staged
    <2> QED
      BY <1>3, <1>4, <1>7, <2>1 DEF CreatePrinter, Goes
  <1>8. CASE PowerCycle
    BY <1>4, <1>8 DEF PowerCycle
  <1>9. CASE event_handler
    <2>1. BitOf("AP_STACONNECTED") = {CLIENT_CONNECTED_BIT}
      BY DEF BitOf
    <2> QED
      BY <1>2, <1>3, <1>4, <1>9, <2>1 DEF event_handler
  <1>10. CASE Wake
    BY <1>4, <1>10 DEF Wake
  <1>11. CASE printStationList
    BY <1>4, <1>11 DEF printStationList
  <1>12. CASE UNCHANGED app
    BY <1>3, <1>4, <1>12 DEF app
  <1>13. ASSUME NEW m \in Macs, Moves(m) \/ Serve(m)
         PROVE  NewStationsListed'
    <2>1. CASE Join(m)
      BY <1>1, <1>4, <2>1 DEF Join
    <2>2. CASE Leave(m)
      BY <1>1, <1>3, <1>4, <2>2 DEF Leave, StationStep
    <2>3. CASE ~ Join(m) /\ ~ Leave(m)
      <3>1. UNCHANGED app
        BY <1>13, <2>3 DEF Moves, Discover, RequestKept, RequestOffered, Renew, GiveUp, NoAnswer,
                           Lost, Serve, Send, StationStep, app
      <3> QED
        BY <1>12, <3>1
    <2> QED
      BY <2>1, <2>2, <2>3
  <1>14. CASE Tick \/ UNCHANGED vars
    BY <1>12, <1>14 DEF Tick, vars
  <1> QED
    BY <1>5, <1>6, <1>7, <1>8, <1>9, <1>10, <1>11, <1>13, <1>14, Steps DEF ap_mode_start

-----------------------------------------------------------------------------
(* The theorems.                                                           *)

LEMMA Step ==
  ASSUME IInv, [Next]_vars
  PROVE  IInv'
  <1>1. ServerOK /\ AdapterOK /\ AppOK /\ StationsOK
    BY Parts DEF IInv
  <1>2. LeasesUnique /\ BoundHasLease /\ Released /\ Staged /\ NewStationsListed
    BY DEF IInv
  <1>3. ServerOK' /\ LeasesUnique' /\ AdapterOK' /\ AppOK' /\ StationsOK'
    BY <1>1, <1>2, ServerKept, AdapterKept, AppKept, StationsKept
  <1>4. BoundHasLease' /\ Released' /\ Staged' /\ NewStationsListed'
    BY <1>1, <1>2, BoundHasLeaseKept, ReleasedKept, StagedKept, NewStationsListedKept
  <1>5. TypeOK'
    BY <1>3 DEF TypeOK, ServerOK, AdapterOK, AppOK, StationsOK
  <1> QED
    BY <1>2, <1>3, <1>4, <1>5 DEF IInv

LEMMA Inductive == Spec => []IInv
  <1>1. Init => IInv
    BY Start
  <1>2. IInv /\ [Next]_vars => IInv'
    BY Step
  <1> QED
    BY <1>1, <1>2, PTL DEF Spec

\* The state of the access point, its server and its stations is of its types.
THEOREM TypeCorrect == Spec => []TypeOK
  <1>1. IInv => TypeOK
    BY DEF IInv
  <1> QED
    BY <1>1, Inductive, PTL

\* handle_dhcp and dhcps_coarse_tmr never lease an address twice, nor two to one station.
THEOREM NoAddressTwice == Spec => []LeasesUnique
  <1>1. IInv => LeasesUnique
    BY DEF IInv
  <1> QED
    BY <1>1, Inductive, PTL

\* Two stations use one address only after kill_oldest_dhcps_pool took the lease of one.
THEOREM NoSharing == Spec => []NoSharedAddress
  <1>1. ASSUME BoundHasLease, LeasesUnique
        PROVE  NoSharedAddress
    <2> SUFFICES ASSUME NEW m1 \in Macs, NEW m2 \in Macs, m1 # m2,
                        sta[m1].st = "bound", sta[m2].st = "bound", sta[m1].ip = sta[m2].ip,
                        m1 \notin robbed, m2 \notin robbed
                 PROVE  FALSE
      BY DEF NoSharedAddress
    <2>1. PICK l1 \in plist : l1.mac = m1 /\ l1.ip = sta[m1].ip
      BY <1>1 DEF BoundHasLease
    <2>2. PICK l2 \in plist : l2.mac = m2 /\ l2.ip = sta[m2].ip
      BY <1>1 DEF BoundHasLease
    <2> QED
      BY <1>1, <2>1, <2>2 DEF LeasesUnique
  <1>2. IInv => NoSharedAddress
    BY <1>1 DEF IInv
  <1> QED
    BY <1>2, Inductive, PTL

\* start_dhcp_server's calls all succeed, and with AP_START its server is the one that runs.
THEOREM Serves == Spec => []AccessPointServes
  <1>1. ASSUME IInv
        PROVE  AccessPointServes
    <2>1. Staged /\ plist \subseteq Lease
      BY <1>1 DEF IInv, TypeOK
    <2>2. \A l \in plist : l.ip # ServerHost
      BY <2>1, PoolFacts DEF Lease
    <2>3. stage # "aborted"
      BY <2>1 DEF Staged
    <2>4. esp_netif # NoNet => /\ esp_netif = AppNet /\ pcb_dhcps = esp_netif
                               /\ dhcps_status = "started"
      BY <2>1 DEF Staged
    <2> QED
      BY <2>2, <2>3, <2>4 DEF AccessPointServes
  <1>2. IInv => AccessPointServes
    BY <1>1
  <1> QED
    BY <1>2, Inductive, PTL

\* print_sta_info lists every station that joins, although its wait clears the bit.
THEOREM Listed == Spec => []NewStationsListed
  <1>1. IInv => NewStationsListed
    BY DEF IInv
  <1> QED
    BY <1>1, Inductive, PTL

-----------------------------------------------------------------------------
(* AddressPool.                                                            *)

LEMMA OwnerFacts ==
  ASSUME LeasesUnique, plist \subseteq Lease
  PROVE  /\ \A l \in plist : l.ip \in Pool /\ l.mac \in Macs /\ Owner[l.ip] = l.mac
         /\ \A a \in Pool : (\A l \in plist : l.ip # a) => Owner[a] = NoMac
  <1>1. ASSUME NEW l \in plist
        PROVE  l.ip \in Pool /\ l.mac \in Macs /\ Owner[l.ip] = l.mac
    <2>1. l.ip \in Pool /\ l.mac \in Macs /\ l.ip \in Hosts
      BY DEF Lease, Hosts
    <2>2. (CHOOSE x \in plist : x.ip = l.ip) = l
      BY DEF LeasesUnique
    <2> QED
      BY <2>1, <2>2 DEF Owner
  <1>2. ASSUME NEW a \in Pool, \A l \in plist : l.ip # a
        PROVE  Owner[a] = NoMac
    <2>1. a \notin Hosts
      BY <1>2 DEF Hosts
    <2> QED
      BY <2>1 DEF Owner
  <1> QED
    BY <1>1, <1>2

\* The same of the next state.
LEMMA OwnerFactsNext ==
  ASSUME LeasesUnique', plist' \subseteq Lease
  PROVE  /\ \A l \in plist' : l.ip \in Pool /\ l.mac \in Macs /\ Owner'[l.ip] = l.mac
         /\ \A a \in Pool : (\A l \in plist' : l.ip # a) => Owner'[a] = NoMac
  <1>1. ASSUME NEW l \in plist'
        PROVE  l.ip \in Pool /\ l.mac \in Macs /\ Owner'[l.ip] = l.mac
    <2>1. l.ip \in Pool /\ l.mac \in Macs /\ l.ip \in Hosts'
      BY DEF Lease, Hosts
    <2>2. (CHOOSE x \in plist' : x.ip = l.ip) = l
      BY DEF LeasesUnique
    <2> QED
      BY <2>1, <2>2 DEF Owner
  <1>2. ASSUME NEW a \in Pool, \A l \in plist' : l.ip # a
        PROVE  Owner'[a] = NoMac
    <2>1. a \notin Hosts'
      BY <1>2 DEF Hosts
    <2> QED
      BY <2>1 DEF Owner
  <1> QED
    BY <1>1, <1>2

LEMMA OwnerIsFunction == /\ Owner = [a \in Pool |-> Owner[a]]
                         /\ Owner' = [a \in Pool |-> Owner'[a]]
  BY DEF Owner

\* Leases that stay have the same address and station: the others have ended.
LEMMA LeasesEnd ==
  ASSUME LeasesUnique, plist \subseteq Lease, LeasesUnique', plist' \subseteq Lease,
         \A l \in plist' : \E k \in plist : k.ip = l.ip /\ k.mac = l.mac
  PROVE  Addresses!Next
  <1> DEFINE ended == {a \in Pool : \A l \in plist' : l.ip # a}
  <1>1. ASSUME NEW a \in Pool
        PROVE  Owner'[a] = IF a \in ended THEN NoMac ELSE Owner[a]
    <2>1. CASE a \in ended
      BY <2>1, OwnerFactsNext
    <2>2. CASE a \notin ended
      <3>1. PICK l \in plist' : l.ip = a
        BY <2>2
      <3>2. PICK k \in plist : k.ip = a /\ k.mac = l.mac
        BY <3>1
      <3>3. Owner'[a] = l.mac /\ Owner[a] = l.mac
        BY <3>1, <3>2, OwnerFacts, OwnerFactsNext
      <3> QED
        BY <2>2, <3>3
    <2> QED
      BY <2>1, <2>2
  <1>2. ended \in SUBSET Pool
    OBVIOUS
  <1> HIDE DEF ended
  <1>3. Owner' = [a \in Pool |-> IF a \in ended THEN NoMac ELSE Owner[a]]
    BY <1>1, OwnerIsFunction
  <1> QED
    BY <1>2, <1>3 DEF Addresses!Next, Addresses!End

\* A new lease: its address was free and its station had none.
LEMMA LeaseBegins ==
  ASSUME LeasesUnique, plist \subseteq Lease, LeasesUnique', plist' \subseteq Lease,
         NEW l \in Lease, plist' = plist \cup {l}, \A k \in plist : k.mac # l.mac /\ k.ip # l.ip
  PROVE  Addresses!Next
  <1>1. l.ip \in Pool /\ l.mac \in Macs
    BY DEF Lease
  <1>2. Owner[l.ip] = NoMac
    BY <1>1, OwnerFacts
  <1>3. ASSUME NEW b \in Pool
        PROVE  Owner[b] # l.mac
    <2>1. CASE \E k \in plist : k.ip = b
      BY <2>1, OwnerFacts
    <2>2. CASE \A k \in plist : k.ip # b
      BY <1>1, <2>2, OwnerFacts, MacAssumption
    <2> QED
      BY <2>1, <2>2
  <1>4. ASSUME NEW a \in Pool
        PROVE  Owner'[a] = IF a = l.ip THEN l.mac ELSE Owner[a]
    <2>1. CASE a = l.ip
      BY <2>1, OwnerFactsNext
    <2>2. CASE a # l.ip /\ \E k \in plist : k.ip = a
      BY <2>2, OwnerFacts, OwnerFactsNext
    <2>3. CASE a # l.ip /\ \A k \in plist : k.ip # a
      BY <2>3, OwnerFacts, OwnerFactsNext
    <2> QED
      BY <2>1, <2>2, <2>3
  <1>5. Owner' = [Owner EXCEPT ![l.ip] = l.mac]
    BY <1>4, OwnerIsFunction
  <1> QED
    BY <1>1, <1>2, <1>3, <1>5 DEF Addresses!Next, Addresses!Grant

\* A message changes the owners as AddressPool lets it.
LEMMA ServeChangesOwner ==
  ASSUME ServerOK, StationsOK, LeasesUnique, ServerOK', LeasesUnique', NEW m \in Macs, Serve(m)
  PROVE  Addresses!Next \/ plist' = plist
  <1>1. plist \subseteq Lease /\ plist' \subseteq Lease
    BY DEF ServerOK
  <1>2. PICK answer, client : handle_dhcp(mail[m], answer, client)
    BY DEF Serve
  <1>3. mail[m] \in Msg /\ mail[m].mac = m
    BY MailIsMine DEF Serve
  <1>4. CASE Renewed(mail[m], answer, client)
    <2>1. PICK l \in plist :
             IF answer = "RELEASE" THEN plist' = plist \ {l}
             ELSE plist' = (plist \ {l}) \cup {[l EXCEPT !.lease_timer = LeaseTime]}
      BY <1>4 DEF Renewed
    <2> DEFINE k == [l EXCEPT !.lease_timer = LeaseTime]
    <2>2. k.ip = l.ip /\ k.mac = l.mac
      BY <1>1 DEF Lease
    <2> HIDE DEF k
    <2>3. plist' \subseteq (plist \ {l}) \cup {k}
      BY <2>1 DEF k
    <2>4. \A x \in plist' : \E y \in plist : y.ip = x.ip /\ y.mac = x.mac
      BY <2>2, <2>3
    <2> QED
      BY <1>1, <2>4, LeasesEnd
  <1>5. CASE Granted(mail[m], answer, client) /\ plist' # plist
    <2> DEFINE l == [ip |-> client, mac |-> m, lease_timer |-> LeaseTime]
    <2>1. /\ client \in Pool /\ client \notin Hosts
          /\ \A k \in plist : k.mac # m
          /\ plist' = plist \cup {l}
      BY <1>3, <1>5 DEF Granted
    <2>2. l \in Lease /\ l.ip = client /\ l.mac = m
      BY <2>1, PoolAssumption DEF Lease
    <2> HIDE DEF l
    <2>3. \A k \in plist : k.mac # l.mac /\ k.ip # l.ip
      BY <2>1, <2>2 DEF Hosts
    <2> QED
      BY <1>1, <2>1, <2>2, <2>3, LeaseBegins
  <1>6. CASE Refused(mail[m], answer)
    BY <1>6 DEF Refused
  <1> QED
    BY <1>2, <1>3, <1>4, <1>5, <1>6, HandleSteps

LEMMA StepOfPool ==
  ASSUME IInv, IInv', [Next]_vars
  PROVE  Addresses!Next \/ UNCHANGED Owner
  <1>1. ServerOK /\ StationsOK /\ LeasesUnique /\ Staged
    BY Parts DEF IInv
  <1>2. ServerOK' /\ LeasesUnique'
    BY DEF IInv, TypeOK, ServerOK
  <1>3. plist \subseteq Lease /\ plist' \subseteq Lease
    BY <1>1, <1>2 DEF ServerOK
  <1>4. CASE plist' = plist
    BY <1>4 DEF Owner, Hosts
  <1>5. CASE PowerCycle
    <2>1. \A x \in plist' : \E y \in plist : y.ip = x.ip /\ y.mac = x.mac
      BY <1>5 DEF PowerCycle
    <2> QED
      BY <1>1, <1>2, <1>3, <2>1, LeasesEnd
  <1>6. CASE \E m \in Macs : Serve(m)
    BY <1>1, <1>2, <1>4, <1>6, ServeChangesOwner
  <1>7. CASE Tick
    <2>1. plist' \subseteq Aged
      BY <1>7 DEF Tick, dhcps_coarse_tmr
    <2>2. \A x \in Aged : \E y \in plist : x.ip = y.ip /\ x.mac = y.mac
      BY <1>3, AgedFacts
    <2>3. \A x \in plist' : \E y \in plist : y.ip = x.ip /\ y.mac = x.mac
      BY <2>1, <2>2
    <2> QED
      BY <1>1, <1>2, <1>3, <2>3, LeasesEnd
  <1>8. CASE dhcps_start(AppNet) \/ UNCHANGED server
    BY <1>4, <1>8 DEF dhcps_start, server
  <1> QED
    BY <1>1, <1>5, <1>6, <1>7, <1>8, ServerSteps

\* The server of the access point implements AddressPool: however parse_msg, the timer and
\* kill_oldest_dhcps_pool change its list, an address is granted only when it is free and to
\* a station without one, and passes on only after the lease of it has ended.
THEOREM Refinement == Spec => AddressPoolSpec
  <1>1. Init => Addresses!Init
    BY DEF Init, ServerInit, Addresses!Init, Owner, Hosts
  <1>2. IInv /\ IInv' /\ [Next]_vars => [Addresses!Next]_Owner
    BY StepOfPool
  <1> QED
    BY <1>1, <1>2, Inductive, PTL DEF Spec, AddressPoolSpec, Addresses!Spec

-----------------------------------------------------------------------------
(* The loop of parse_msg over the list (DhcpWalk).                         *)

\* What holds of 0 and passes from every number below n to the next holds up to n.
LEMMA UpTo ==
  ASSUME NEW n \in Nat, NEW S, 0 \in S, \A i \in 0..(n - 1) : i \in S => i + 1 \in S
  PROVE  0..n \subseteq S
  <1> SUFFICES ASSUME NEW z \in 0..n, z \notin S PROVE FALSE
    OBVIOUS
  <1> DEFINE T == {i \in 0..n : i \notin S}
  <1>1. z \in T /\ T \subseteq Nat
    OBVIOUS
  <1>2. PICK x \in T : \A y \in T : ~ (<<y, x>> \in OpToRel(<, Nat))
    <2> HIDE DEF T
    <2> QED
      BY <1>1, NatLessThanWellFounded, WFMin
  <1>3. \A y \in T : ~ (y < x)
    BY <1>1, <1>2 DEF OpToRel
  <1>4. x \in 0..n /\ x # 0
    OBVIOUS
  <1>5. x - 1 \in S
    BY <1>3, <1>4
  <1>6. x - 1 \in 0..(n - 1) /\ (x - 1) + 1 = x
    BY <1>4
  <1> QED
    BY <1>5, <1>6

Distinct(S) == \A l, k \in S : l.ip = k.ip => l = k

\* A list in ascending order holds every finite set of leases.
LEMMA AscendingExists ==
  ASSUME NEW S, S \subseteq Lease, Distinct(S), IsFiniteSet(S)
  PROVE  Ascending(S) # {}
  <1> DEFINE Fine(n) == \A R \in SUBSET S : Cardinality(R) = n => Ascending(R) # {}
             T == {n \in Nat : Fine(n)}
  <1>1. 0 \in T
    <2> SUFFICES ASSUME NEW R \in SUBSET S, Cardinality(R) = 0 PROVE Ascending(R) # {}
      OBVIOUS
    <2>1. R = {}
      BY FS_Subset, FS_EmptySet
    <2> DEFINE s == [i \in 1..0 |-> 0]
    <2>2. s \in [1..Cardinality(R) -> R] /\ DOMAIN s = {}
      BY <2>1
    <2>3. s \in Ascending(R)
      BY <2>1, <2>2 DEF Ascending
    <2> QED
      BY <2>3
  <1>2. ASSUME NEW n \in Nat, Fine(n)
        PROVE  Fine(n + 1)
    <2> SUFFICES ASSUME NEW R \in SUBSET S, Cardinality(R) = n + 1 PROVE Ascending(R) # {}
      OBVIOUS
    <2>1. IsFiniteSet(R)
      BY FS_Subset
    <2>2. R # {}
      BY FS_EmptySet
    <2>3. PICK top \in R : \A l \in R : l.ip <= top.ip
      <3> DEFINE D == {PoolEnd - l.ip : l \in R}
      <3>1. \A l \in R : l.ip \in Nat /\ l.ip <= PoolEnd
        BY PoolFacts DEF Lease, Pool
      <3>2. D \subseteq Nat /\ D # {} /\ PoolEnd \in Nat
        BY <2>2, <3>1, PoolFacts
      <3>3. PICK x \in D : \A y \in D : ~ (<<y, x>> \in OpToRel(<, Nat))
        <4> HIDE DEF D
        <4> QED
          BY <3>2, NatLessThanWellFounded, WFMin
      <3>4. \A y \in D : ~ (y < x)
        BY <3>2, <3>3 DEF OpToRel
      <3>5. PICK top \in R : x = PoolEnd - top.ip
        OBVIOUS
      <3>6. \A l \in R : ~ (PoolEnd - l.ip < PoolEnd - top.ip)
        BY <3>4, <3>5
      <3> QED
        BY <3>1, <3>2, <3>6
    <2> DEFINE Q == R \ {top}
    <2>4. IsFiniteSet(Q) /\ Cardinality(Q) = n
      <3>1. Cardinality(Q) = Cardinality(R) - 1 /\ IsFiniteSet(Q)
        BY <2>1, FS_RemoveElement
      <3> QED
        BY <3>1
    <2>5. PICK s : s \in Ascending(Q)
      BY <1>2, <2>4
    <2>6. /\ s \in [1..n -> Q]
          /\ \A l \in Q : \E i \in 1..n : s[i] = l
          /\ \A i, j \in 1..n : i < j => s[i].ip < s[j].ip
      BY <2>4, <2>5 DEF Ascending
    <2> DEFINE t == [i \in 1..(n + 1) |-> IF i = n + 1 THEN top ELSE s[i]]
    <2>7. t \in [1..(n + 1) -> R] /\ \A i \in 1..n : t[i] = s[i] /\ t[n + 1] = top
      BY <2>6
    <2>8. \A l \in R : \E i \in 1..(n + 1) : t[i] = l
      <3> SUFFICES ASSUME NEW l \in R PROVE \E i \in 1..(n + 1) : t[i] = l
        OBVIOUS
      <3>1. CASE l = top
        <4>1. n + 1 \in 1..(n + 1) /\ t[n + 1] = top
          OBVIOUS
        <4> QED
          BY <3>1, <4>1
      <3>2. CASE l # top
        <4>1. PICK i \in 1..n : s[i] = l
          BY <2>6, <3>2
        <4>2. i \in 1..(n + 1) /\ t[i] = l
          BY <2>7, <4>1
        <4> QED
          BY <4>2
      <3> QED
        BY <3>1, <3>2
    <2>9. ASSUME NEW i \in 1..(n + 1), NEW j \in 1..(n + 1), i < j
          PROVE  t[i].ip < t[j].ip
      <3>1. i \in 1..n /\ t[i] = s[i] /\ s[i] \in Q
        BY <2>6, <2>7, <2>9
      <3>2. CASE j = n + 1
        <4>1. t[j] = top
          BY <3>2
        <4>2. s[i].ip <= top.ip /\ s[i].ip # top.ip /\ s[i].ip \in Nat /\ top.ip \in Nat
          BY <2>3, <3>1, PoolFacts DEF Distinct, Lease, Pool
        <4> QED
          BY <3>1, <4>1, <4>2
      <3>3. CASE j # n + 1
        <4>1. j \in 1..n /\ t[j] = s[j]
          BY <2>7, <3>3
        <4> QED
          BY <2>6, <2>9, <3>1, <4>1
      <3> QED
        BY <3>2, <3>3
    <2> HIDE DEF t
    <2>10. DOMAIN t = 1..(n + 1)
      BY <2>7
    <2>11. t \in Ascending(R)
      BY <2>7, <2>8, <2>9, <2>10 DEF Ascending
    <2> QED
      BY <2>11
  <1>3. Cardinality(S) \in Nat
    BY FS_CardinalityType
  <1>4. 0..Cardinality(S) \subseteq T
    <2>1. \A i \in 0..(Cardinality(S) - 1) : i \in T => i + 1 \in T
      <3> SUFFICES ASSUME NEW i \in Nat, Fine(i) PROVE Fine(i + 1)
        BY <1>3
      <3> QED
        BY <1>2
    <2> HIDE DEF T
    <2> QED
      BY <1>1, <1>3, <2>1, UpTo
  <1>5. Cardinality(S) \in T
    BY <1>3, <1>4
  <1> QED
    BY <1>5

LEMMA ListFacts ==
  ASSUME plist \subseteq Lease, LeasesUnique
  PROVE  /\ IsFiniteSet(plist) /\ Cardinality(plist) \in Nat
         /\ List \in [1..Cardinality(plist) -> plist]
         /\ \A l \in plist : \E i \in 1..Cardinality(plist) : List[i] = l
         /\ \A i, j \in 1..Cardinality(plist) : i < j => List[i].ip < List[j].ip
  <1>1. Distinct(plist)
    BY DEF Distinct, LeasesUnique
  <1>2. IsFiniteSet(plist)
    <2> DEFINE f == [l \in plist |-> l.ip]
    <2>1. f \in [plist -> Pool]
      BY DEF Lease
    <2>2. f \in Injection(plist, Pool)
      BY <1>1, <2>1 DEF Injection, IsInjective, Distinct
    <2>3. IsFiniteSet(Pool)
      BY PoolFacts, FS_Interval DEF Pool
    <2> QED
      BY <2>2, <2>3, FS_Injection
  <1>3. Cardinality(plist) \in Nat
    BY <1>2, FS_CardinalityType
  <1>4. List \in Ascending(plist)
    BY <1>1, <1>2, AscendingExists DEF List
  <1>5. List \in [1..Cardinality(plist) -> plist]
    BY <1>4 DEF Ascending
  <1>6. DOMAIN List = 1..Cardinality(plist)
    BY <1>5
  <1> QED
    BY <1>2, <1>3, <1>4, <1>5, <1>6 DEF Ascending

\* The conditions of NextFree have one solution.
LEMMA NextFreeIsOnly ==
  ASSUME NEW a \in Pool, NEW used, used \subseteq Pool,
         NEW x \in a..(PoolEnd + 1), x \notin used, a..(x - 1) \subseteq used
  PROVE  x = NextFree(a, used)
  <1> DEFINE n == NextFree(a, used)
  <1>1. n \in a..(PoolEnd + 1) /\ n \notin used /\ a..(n - 1) \subseteq used
    BY NextFreeIsFree
  <1> HIDE DEF n
  <1>2. a \in Int /\ PoolEnd \in Int
    BY PoolFacts DEF Pool
  <1>3. ~ (x < n) /\ ~ (n < x)
    BY <1>1, <1>2
  <1>4. x = n
    BY <1>1, <1>2, <1>3
  <1> QED
    BY <1>4 DEF n

\* What the loop has found when the addresses in used lie behind it.
Found(w, used) ==
    /\ w \in [plus : Nat, first : Nat, flag : BOOLEAN, mine : {0}]
    /\ w.plus \in client_address_plus..(PoolEnd + 1) /\ w.plus \notin used
    /\ client_address_plus..(w.plus - 1) \subseteq used
    /\ w.first \in PoolStart..(PoolEnd + 1) /\ w.first \notin used
    /\ PoolStart..(w.first - 1) \subseteq used
    /\ w.flag <=> \E h \in used : w.first < h

\* One pass of the loop over the lease of another station.
LEMMA PassFinds ==
  ASSUME client_address_plus \in Pool, NEW w, NEW used, used \subseteq Pool, Found(w, used),
         NEW mac, NEW l \in Lease, l.mac # mac, \A h \in used : h < l.ip
  PROVE  Found(Pass(w, l, mac), used \cup {l.ip})
  <1> DEFINE found == w.flag \/ w.first < l.ip
             plus == IF l.ip = w.plus THEN w.plus + 1 ELSE w.plus
             first == IF found THEN w.first ELSE w.first + 1
             new == [plus |-> plus, first |-> first, flag |-> found, mine |-> 0]
             all == used \cup {l.ip}
  <1>1. Pass(w, l, mac) = new
    <2>1. w.mine = 0
      BY DEF Found
    <2> QED
      BY <2>1 DEF Pass
  <1>2. l.ip \in Pool /\ PoolStart \in Nat /\ PoolEnd \in Nat /\ PoolStart <= PoolEnd
    BY PoolFacts DEF Lease
  <1>3. /\ \A h \in used : h \in PoolStart..PoolEnd
        /\ l.ip \in PoolStart..PoolEnd /\ client_address_plus \in PoolStart..PoolEnd
    BY <1>2 DEF Pool
  <1>4. /\ plus \in client_address_plus..(PoolEnd + 1) /\ plus \notin all
        /\ client_address_plus..(plus - 1) \subseteq all
    <2>1. /\ w.plus \in client_address_plus..(PoolEnd + 1) /\ w.plus \notin used
          /\ client_address_plus..(w.plus - 1) \subseteq used
      BY DEF Found
    <2>2. CASE l.ip = w.plus
      BY <1>2, <1>3, <2>1, <2>2
    <2>3. CASE l.ip # w.plus
      BY <1>2, <1>3, <2>1, <2>3
    <2> QED
      BY <2>2, <2>3
  <1>5. /\ w.first \in PoolStart..(PoolEnd + 1) /\ w.first \notin used
        /\ PoolStart..(w.first - 1) \subseteq used
        /\ w.flag \in BOOLEAN
        /\ w.flag <=> \E h \in used : w.first < h
    BY DEF Found
  <1>6. found \in BOOLEAN /\ (found <=> \E h \in all : w.first < h)
    BY <1>5
  <1>7. CASE found
    <2>1. first = w.first
      BY <1>7
    <2>2. w.first # l.ip
      BY <1>2, <1>3, <1>5, <1>7
    <2>3. /\ first \in PoolStart..(PoolEnd + 1) /\ first \notin all
          /\ PoolStart..(first - 1) \subseteq all
          /\ found <=> \E h \in all : first < h
      BY <1>5, <1>6, <2>1, <2>2
    <2>4. plus \in Nat /\ first \in Nat
      BY <1>2, <1>3, <1>4, <2>3
    <2> HIDE DEF found, plus, first, all
    <2>5. new \in [plus : Nat, first : Nat, flag : BOOLEAN, mine : {0}]
      BY <1>6, <2>4
    <2> QED
      BY <1>1, <1>4, <2>3, <2>5 DEF Found, all
  <1>8. CASE ~ found
    <2>1. first = w.first + 1
      BY <1>8
    <2>2. l.ip = w.first
      <3>1. ~ (w.first < l.ip) /\ l.ip \notin used
        BY <1>2, <1>3, <1>8
      <3>2. ~ (l.ip < w.first)
        BY <1>2, <1>3, <1>5, <3>1
      <3> QED
        BY <1>2, <1>3, <1>5, <3>1, <3>2
    <2>3. /\ first \in PoolStart..(PoolEnd + 1) /\ first \notin all
          /\ PoolStart..(first - 1) \subseteq all
      BY <1>2, <1>3, <1>5, <2>1, <2>2
    <2>4. found <=> \E h \in all : first < h
      BY <1>2, <1>3, <1>8, <2>1, <2>2
    <2>5. plus \in Nat /\ first \in Nat
      BY <1>2, <1>3, <1>4, <2>3
    <2> HIDE DEF found, plus, first, all
    <2>6. new \in [plus : Nat, first : Nat, flag : BOOLEAN, mine : {0}]
      BY <1>6, <2>5
    <2> QED
      BY <1>1, <1>4, <2>3, <2>4, <2>6 DEF Found, all
  <1> QED
    BY <1>7, <1>8

\* The loop of Walk, pass by pass.
LEMMA WalkPasses ==
  ASSUME NEW mac, Cardinality(plist) \in Nat
  PROVE  \E w : /\ w[0] = Begin
                /\ \A i \in 1..Cardinality(plist) : w[i] = Pass(w[i - 1], List[i], mac)
                /\ Walk(mac) = w[Cardinality(plist)]
  <1> DEFINE n == Cardinality(plist)
             To(k, f) == f = [i \in 0..k |-> IF i = 0 THEN Begin
                                             ELSE Pass(f[i - 1], List[i], mac)]
             S == {k \in Nat : \E f : To(k, f)}
  <1>1. 0 \in S
    <2> DEFINE f == [i \in 0..0 |-> Begin]
    <2>1. To(0, f)
      OBVIOUS
    <2> QED
      BY <2>1
  <1>2. ASSUME NEW k \in Nat, NEW f, To(k, f)
        PROVE  k + 1 \in S
    <2> DEFINE g == [i \in 0..(k + 1) |-> IF i = k + 1 THEN Pass(f[k], List[k + 1], mac)
                                          ELSE f[i]]
    <2>1. ASSUME NEW i \in 0..(k + 1)
          PROVE  g[i] = IF i = 0 THEN Begin ELSE Pass(g[i - 1], List[i], mac)
      <3>1. CASE i = k + 1
        <4>1. k \in 0..(k + 1) /\ k # k + 1 /\ (k + 1) - 1 = k /\ k + 1 # 0
          OBVIOUS
        <4>2. g[k] = f[k]
          BY <4>1
        <4>3. g[k + 1] = Pass(f[k], List[k + 1], mac)
          OBVIOUS
        <4> QED
          BY <3>1, <4>1, <4>2, <4>3
      <3>2. CASE i # k + 1
        <4>1. i \in 0..k /\ g[i] = f[i]
          BY <3>2
        <4>2. f[i] = IF i = 0 THEN Begin ELSE Pass(f[i - 1], List[i], mac)
          BY <1>2, <4>1
        <4>3. i # 0 => i - 1 \in 0..(k + 1) /\ i - 1 # k + 1
          BY <4>1
        <4>4. i # 0 => g[i - 1] = f[i - 1]
          BY <4>3
        <4> HIDE DEF g
        <4> QED
          BY <4>1, <4>2, <4>4
      <3> QED
        BY <3>1, <3>2
    <2>2. g = [i \in 0..(k + 1) |-> g[i]]
      OBVIOUS
    <2> HIDE DEF g
    <2>3. To(k + 1, g)
      BY <2>1, <2>2
    <2> QED
      BY <2>3
  <1>3. n \in S
    <2>1. \A i \in 0..(n - 1) : i \in S => i + 1 \in S
      BY <1>2
    <2> HIDE DEF S
    <2>2. 0..n \subseteq S
      BY <1>1, <2>1, UpTo
    <2> QED
      BY <2>2
  <1>4. \E f : To(n, f)
    BY <1>3
  <1> DEFINE w == CHOOSE f : To(n, f)
  <1>5. To(n, w)
    BY <1>4
  <1>6. Walk(mac) = w[n]
    BY DEF Walk
  <1> HIDE DEF w
  <1>7. w[0] = Begin /\ \A i \in 1..n : w[i] = Pass(w[i - 1], List[i], mac)
    BY <1>5
  <1> QED
    BY <1>6, <1>7

\* The addresses of the first i leases of the list.
Front(i) == {List[j].ip : j \in 1..i}

\* As long as no lease of mac lies in front of it, the loop finds what Found says.
LEMMA WalkFinds ==
  ASSUME plist \subseteq Lease, LeasesUnique, client_address_plus \in Pool,
         NEW mac, NEW w, w[0] = Begin,
         \A i \in 1..Cardinality(plist) : w[i] = Pass(w[i - 1], List[i], mac),
         NEW n \in 0..Cardinality(plist), \A i \in 1..n : List[i].mac # mac
  PROVE  Found(w[n], Front(n))
  <1> DEFINE N == Cardinality(plist)
             S == {i \in 0..n : Found(w[i], Front(i))}
  <1>1. /\ N \in Nat /\ n \in Nat
        /\ \A i \in 1..N : List[i] \in Lease
        /\ \A i, j \in 1..N : i < j => List[i].ip < List[j].ip
    BY ListFacts
  <1>2. 0 \in S
    <2>1. Front(0) = {}
      BY DEF Front
    <2>2. Found(Begin, {})
      BY PoolFacts DEF Found, Begin, Pool
    <2>3. Found(w[0], Front(0))
      BY <2>1, <2>2
    <2> QED
      BY <1>1, <2>3
  <1>3. ASSUME NEW i \in 0..(n - 1), i \in S
        PROVE  i + 1 \in S
    <2>1. i \in Nat /\ i + 1 \in 1..n /\ i + 1 \in 1..N /\ (i + 1) - 1 = i
      BY <1>1
    <2>2. Front(i) \subseteq Pool /\ \A h \in Front(i) : h < List[i + 1].ip
      <3>1. \A j \in 1..i : j \in 1..N /\ j < i + 1
        BY <1>1, <2>1
      <3> QED
        BY <1>1, <2>1, <3>1 DEF Front, Lease
    <2>3. Front(i + 1) = Front(i) \cup {List[i + 1].ip}
      <3>1. 1..(i + 1) = (1..i) \cup {i + 1}
        BY <2>1
      <3> QED
        BY <3>1 DEF Front
    <2>4. w[i + 1] = Pass(w[i], List[i + 1], mac)
      BY <2>1
    <2>5. Found(w[i], Front(i)) /\ List[i + 1] \in Lease /\ List[i + 1].mac # mac
      BY <1>1, <1>3, <2>1
    <2>6. Found(w[i + 1], Front(i + 1))
      BY <2>2, <2>3, <2>4, <2>5, PassFinds
    <2> QED
      BY <2>1, <2>6
  <1> HIDE DEF S
  <1>4. 0..n \subseteq S
    BY <1>1, <1>2, <1>3, UpTo
  <1> QED
    BY <1>1, <1>4 DEF S

\* From the lease of mac on the loop changes nothing.
LEMMA WalkStops ==
  ASSUME NEW mac, NEW w, NEW N \in Nat,
         \A i \in 1..N : w[i] = Pass(w[i - 1], List[i], mac),
         NEW p \in 1..N, w[p].mine # 0
  PROVE  w[N] = w[p]
  <1> DEFINE S == {i \in Nat : w[p + i] = w[p]}
             n == N - p
  <1>1. n \in Nat /\ p + n = N /\ 0 \in S
    OBVIOUS
  <1>2. ASSUME NEW i \in 0..(n - 1), i \in S
        PROVE  i + 1 \in S
    <2>1. p + i + 1 \in 1..N /\ (p + i + 1) - 1 = p + i /\ p + (i + 1) = p + i + 1
      OBVIOUS
    <2>2. w[p + i + 1] = Pass(w[p + i], List[p + i + 1], mac)
      BY <2>1
    <2>3. w[p + i] = w[p]
      BY <1>2
    <2> QED
      BY <2>1, <2>2, <2>3 DEF Pass
  <1> HIDE DEF S, n
  <1>3. n \in S
    BY <1>1, <1>2, UpTo
  <1> QED
    BY <1>1, <1>3 DEF S

LEMMA WalkIsRight ==
  ASSUME ServerOK, LeasesUnique
  PROVE  WalkFindsFree
  <1> SUFFICES ASSUME pcb_dhcps # NoPcb, NEW mac \in Macs
      PROVE  IF dhcp_search_ip_on_mac(mac) = {}
             THEN /\ Walk(mac).mine = 0 /\ Chosen(Walk(mac)) = Candidate
                  /\ Chosen(Walk(mac)) \notin Hosts
             ELSE /\ dhcp_search_ip_on_mac(mac) = {Walk(mac).mine}
                  /\ Walk(mac).plus = NextFree(client_address_plus,
                                               {h \in Hosts : h < Walk(mac).mine})
    BY DEF WalkFindsFree
  <1> DEFINE N == Cardinality(plist)
             mine == dhcp_search_ip_on_mac(mac)
  <1>1. plist \subseteq Lease /\ client_address_plus \in Pool
    BY DEF ServerOK
  <1>2. /\ N \in Nat
        /\ \A i \in 1..N : List[i] \in plist /\ List[i] \in Lease
        /\ \A l \in plist : \E i \in 1..N : List[i] = l
        /\ \A i, j \in 1..N : i < j => List[i].ip < List[j].ip
    BY <1>1, ListFacts
  <1>3. PICK w : /\ w[0] = Begin
                 /\ \A i \in 1..N : w[i] = Pass(w[i - 1], List[i], mac)
                 /\ Walk(mac) = w[N]
    BY <1>2, WalkPasses
  <1>4. Front(N) = Hosts /\ Hosts \subseteq Pool
    BY <1>1, <1>2 DEF Front, Hosts, Lease
  <1>5. CASE mine = {}
    <2>1. \A i \in 1..N : List[i].mac # mac
      BY <1>2, <1>5 DEF dhcp_search_ip_on_mac
    <2>2. Found(w[N], Front(N))
      <3> DEFINE n == N
      <3>1. n \in 0..N /\ \A i \in 1..n : List[i].mac # mac
        BY <1>2, <2>1
      <3> HIDE DEF n
      <3>2. Found(w[n], Front(n))
        BY <1>1, <1>3, <3>1, WalkFinds
      <3> QED
        BY <3>2 DEF n
    <2> DEFINE z == w[N]
    <2> HIDE DEF z
    <2>3. Found(z, Hosts)
      BY <1>4, <2>2 DEF z
    <2>4. z.plus = NextFree(client_address_plus, Hosts)
      BY <1>1, <1>4, <2>3, NextFreeIsOnly DEF Found
    <2>5. z.first = NextFree(PoolStart, Hosts)
      <3>1. /\ z.first \in PoolStart..(PoolEnd + 1) /\ z.first \notin Hosts
            /\ PoolStart..(z.first - 1) \subseteq Hosts
        BY <2>3 DEF Found
      <3> QED
        BY <1>4, <3>1, PoolFacts, NextFreeIsOnly
    <2>6. z.mine = 0 /\ Chosen(z) = Candidate /\ Chosen(z) \notin Hosts
      BY <2>3, <2>4, <2>5 DEF Found, Chosen, Candidate
    <2> QED
      BY <1>3, <1>5, <2>6 DEF z
  <1>6. CASE mine # {}
    <2>1. PICK p \in 1..N : List[p].mac = mac
      BY <1>2, <1>6 DEF dhcp_search_ip_on_mac
    <2>2. \A i \in 1..N : i # p => List[i].mac # mac
      <3>1. ASSUME NEW i \in 1..N, i # p, List[i].mac = mac
            PROVE  FALSE
        <4>1. List[i] = List[p]
          BY <1>2, <2>1, <3>1 DEF LeasesUnique
        <4>2. i < p \/ p < i
          BY <3>1
        <4>3. List[i].ip \in Int
          BY <1>2, PoolFacts DEF Lease, Pool
        <4> QED
          BY <1>2, <4>1, <4>2, <4>3
      <3> QED
        BY <3>1
    <2> DEFINE q == p - 1
               ip == List[p].ip
               z == w[q]
    <2>3. q \in 0..N /\ q \in Nat /\ \A i \in 1..q : i \in 1..N /\ i < p /\ i # p
      BY <1>2
    <2>4. Found(z, Front(q))
      <3> HIDE DEF q
      <3>1. \A i \in 1..q : List[i].mac # mac
        BY <2>2, <2>3
      <3> QED
        BY <1>1, <1>3, <2>3, <3>1, WalkFinds
    <2>5. Front(q) = {h \in Hosts : h < ip}
      <3>1. Front(q) \subseteq {h \in Hosts : h < ip}
        BY <1>2, <2>3 DEF Front, Hosts
      <3>2. ASSUME NEW h \in Hosts, h < ip
            PROVE  h \in Front(q)
        <4>1. PICK i \in 1..N : h = List[i].ip
          BY <1>2 DEF Hosts
        <4>2. h \in Int /\ ip \in Int
          BY <1>2, <4>1, PoolFacts DEF Lease, Pool
        <4>3. ~ (p < i) /\ i # p
          BY <1>2, <3>2, <4>1, <4>2
        <4>4. i \in 1..q
          BY <4>3
        <4> HIDE DEF q
        <4> QED
          BY <4>1, <4>4 DEF Front
      <3> QED
        BY <3>1, <3>2
    <2>6. ip \in Pool /\ ip # 0
      BY <1>2, PoolFacts DEF Lease
    <2>7. w[p] = [z EXCEPT !.mine = ip]
      <3>1. w[p] = Pass(z, List[p], mac)
        BY <1>3
      <3>2. z.mine = 0
        BY <2>4 DEF Found
      <3> HIDE DEF z, ip
      <3> QED
        BY <2>1, <3>1, <3>2 DEF Pass, ip
    <2>8. w[p].mine = ip /\ w[p].plus = z.plus
      <3> HIDE DEF z, ip
      <3>1. z \in [plus : Nat, first : Nat, flag : BOOLEAN, mine : {0}]
        BY <2>4 DEF Found
      <3> QED
        BY <2>7, <3>1
    <2>9. w[N] = w[p]
      <3>1. w[p].mine # 0
        BY <2>6, <2>8
      <3> DEFINE n == N
      <3>2. n \in Nat /\ \A i \in 1..n : w[i] = Pass(w[i - 1], List[i], mac)
        BY <1>2, <1>3
      <3> HIDE DEF n
      <3>3. p \in 1..n => w[n] = w[p]
        BY <3>1, <3>2, WalkStops
      <3> QED
        BY <3>3 DEF n
    <2>10. z.plus = NextFree(client_address_plus, Front(q))
      <3>1. Front(q) \subseteq Pool
        BY <1>4, <2>5
      <3> HIDE DEF z
      <3> QED
        BY <1>1, <2>4, <3>1, NextFreeIsOnly DEF Found
    <2>11. mine = {ip}
      BY <1>2, <2>1, <2>2 DEF dhcp_search_ip_on_mac
    <2> HIDE DEF z, ip, q
    <2> QED
      BY <1>3, <1>6, <2>5, <2>8, <2>9, <2>10, <2>11
  <1> QED
    BY <1>5, <1>6

\* The loop of parse_msg arrives, in one pass over the ordered list, at the address the model
\* takes: the next free one, behind the end of the pool the first free one, and in front of a
\* station's own lease no more than the addresses before it.
THEOREM LoopFindsFree == Spec => []WalkFindsFree
  <1>1. IInv => WalkFindsFree
    BY Parts, WalkIsRight DEF IInv
  <1> QED
    BY <1>1, Inductive, PTL
=============================================================================
