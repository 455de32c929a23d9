-------------------------------- MODULE SoftAp --------------------------------
(***************************************************************************)
(* The access point (esp_softap.c): ap_mode_start in a task of its own,    *)
(* the events of the Wi-Fi driver, the task that prints the stations, the  *)
(* DHCP server below, and the stations, which come and go, lose messages   *)
(* and answers, and hold on to the address they were given.                *)
(***************************************************************************)
EXTENDS TcpipAdapter, Sequences

CONSTANTS AppNet,    \* the network start_dhcp_server assigns
          AP_MAX_CONNECTIONS,
          MaxMail,   \* bound: messages of stations on their way to the server
          MaxEvents  \* bound: events on their way to event_handler

ASSUME NetAssumption == /\ DefaultNet # NoNet /\ AppNet # NoNet /\ DefaultNet # AppNet
                        /\ NoPcb \notin {DefaultNet, AppNet}

VARIABLES stage,            \* next step of ap_mode_start
          events,           \* events the driver has posted
          wifi_event_group, \* bits set
          printer,          \* print_sta_info: "none", "waits", "prints"
          sta,              \* the stations, by MAC
          mail,             \* what each has sent and the server not read yet
          unlisted,         \* history: stations that joined since the last list was read
          robbed            \* history: stations whose lease was killed before its time

app == <<stage, events, wifi_event_group, printer, unlisted>>
stations == <<sta, mail, robbed>>
vars == <<server, adapter, app, stations>>

CLIENT_CONNECTED_BIT == "connected"
CLIENT_DISCONNECTED_BIT == "disconnected"

NoMsg == [type |-> "none"]
Off == [st |-> "off", ip |-> 0, left |-> 0]
Fresh == [st |-> "init", ip |-> 0, left |-> 0]
Station == [st : {"off", "init"}, ip : {0}, left : {0}]
           \cup [st : {"requesting"}, ip : Pool, left : {0}]
           \cup [st : {"bound"}, ip : Pool, left : 1..LeaseTime]

Stages == {"boot", "tcpip", "stopped", "addressed", "started", "wifi", "done", "aborted"}
Started == {"wifi", "done"}

Init == /\ ServerInit /\ AdapterInit
        /\ stage = "boot" /\ events = <<>> /\ wifi_event_group = {} /\ printer = "none"
        /\ sta = [m \in Macs |-> Off] /\ mail = [m \in Macs |-> NoMsg]
        /\ unlisted = {} /\ robbed = {}

-----------------------------------------------------------------------------
(* ap_mode_start: ESP_ERROR_CHECK aborts at the first call that fails.     *)

Goes(from, to) == /\ stage = from /\ stage' = to
                  /\ UNCHANGED <<wifi_event_group, unlisted, stations>>

Checked(from, to, ret) == Goes(from, IF ret THEN to ELSE "aborted") /\ UNCHANGED <<events, printer>>

InitTcpip == Checked("boot", "tcpip", TRUE) /\ tcpip_adapter_init

StopServer == \E ret \in BOOLEAN : /\ Checked("tcpip", "stopped", ret)
                                   /\ tcpip_adapter_dhcps_stop(ret)

SetAddress == \E ret \in BOOLEAN : /\ Checked("stopped", "addressed", ret)
                                   /\ tcpip_adapter_set_ip_info(AppNet, ret)

StartServer == \E ret \in BOOLEAN : /\ Checked("addressed", "started", ret)
                                    /\ tcpip_adapter_dhcps_start(ret)

StartWifi == /\ Goes("started", "wifi")
             /\ events' = Append(events, "AP_START")
             /\ UNCHANGED <<printer, server, adapter>>

CreatePrinter == /\ Goes("wifi", "done")
                 /\ printer' = "waits"
                 /\ UNCHANGED <<events, server, adapter>>

ap_mode_start == \/ InitTcpip \/ StopServer \/ SetAddress
                 \/ StartServer \/ StartWifi \/ CreatePrinter

\* Power is lost: the leases are in memory only.
PowerCycle == /\ stage \in Started
              /\ plist' = {} /\ client_address_plus' = 0 /\ pcb_dhcps' = NoPcb
              /\ dhcps_status' = "init" /\ esp_ip' = NoNet /\ esp_netif' = NoNet
              /\ stage' = "boot" /\ events' = <<>> /\ wifi_event_group' = {}
              /\ printer' = "none" /\ unlisted' = {} /\ robbed' = {}
              /\ sta' = [m \in Macs |-> Off] /\ mail' = [m \in Macs |-> NoMsg]

-----------------------------------------------------------------------------
(* The event task: the driver's default handler of AP_START, then          *)
(* event_handler, which sets the bit of an event.                          *)

\* Mutant: one bit for both.
BitOf_Other(e) == IF e = "AP_START" THEN {} ELSE {CLIENT_DISCONNECTED_BIT}

BitOf(e) == CASE e = "AP_STACONNECTED" -> {CLIENT_CONNECTED_BIT}
              [] e = "AP_STADISCONNECTED" -> {CLIENT_DISCONNECTED_BIT}
              [] OTHER -> {}

event_handler == /\ events # <<>>
                 /\ events' = Tail(events)
                 /\ wifi_event_group' = wifi_event_group \cup BitOf(Head(events))
                 /\ IF Head(events) = "AP_START" THEN tcpip_adapter_ap_start
                                                 ELSE UNCHANGED <<server, adapter>>
                 /\ UNCHANGED <<stage, printer, unlisted, stations>>

\* print_sta_info: the wait clears the bit, then the list is read.
Wake == /\ printer = "waits"
        /\ CLIENT_CONNECTED_BIT \in wifi_event_group
        /\ printer' = "prints"
        /\ wifi_event_group' = wifi_event_group \ {CLIENT_CONNECTED_BIT}
        /\ UNCHANGED <<stage, events, unlisted, server, adapter, stations>>

printStationList == /\ printer = "prints"
                    /\ printer' = "waits"
                    /\ unlisted' = {}
                    /\ UNCHANGED <<stage, events, wifi_event_group, server, adapter, stations>>

-----------------------------------------------------------------------------
(* The stations and the driver they are associated with.                   *)

StationStep == UNCHANGED <<server, adapter, stage, wifi_event_group, printer, robbed>>

Join(m) == /\ stage \in Started /\ sta[m] = Off
           /\ Cardinality({x \in Macs : sta[x] # Off}) < AP_MAX_CONNECTIONS
           /\ Len(events) < MaxEvents
           /\ sta' = [sta EXCEPT ![m] = Fresh]
           /\ events' = Append(events, "AP_STACONNECTED")
           /\ unlisted' = unlisted \cup {m}
           /\ UNCHANGED mail /\ StationStep

Leave(m) == /\ sta[m] # Off
            /\ Len(events) < MaxEvents
            /\ sta' = [sta EXCEPT ![m] = Off]
            /\ events' = Append(events, "AP_STADISCONNECTED")
            /\ unlisted' = unlisted \ {m}
            /\ UNCHANGED mail /\ StationStep

\* A station has one message under way; it may be lost.
Send(m, type, requested, ciaddr, next) ==
    /\ mail[m] = NoMsg
    /\ Cardinality({x \in Macs : mail[x] # NoMsg}) < MaxMail
    /\ mail' = [mail EXCEPT ![m] = [type |-> type, mac |-> m,
                                    requested |-> requested, ciaddr |-> ciaddr]]
    /\ sta' = [sta EXCEPT ![m] = next]
    /\ UNCHANGED <<events, unlisted>> /\ StationStep

Discover(m) == sta[m].st = "init" /\ Send(m, "DISCOVER", 0, 0, Fresh)

\* It asks for the address it had, here or with another access point.
RequestKept(m) == /\ sta[m].st = "init"
                  /\ \E a \in Pool : Send(m, "REQUEST", a, 0,
                                          [st |-> "requesting", ip |-> a, left |-> 0])

RequestOffered(m) == sta[m].st = "requesting" /\ Send(m, "REQUEST", sta[m].ip, 0, sta[m])

Renew(m) == sta[m].st = "bound" /\ Send(m, "REQUEST", 0, sta[m].ip, sta[m])

\* The address turned out to be in use, or the station needs it no more.
GiveUp(m) == /\ sta[m].st = "bound"
             /\ \E type \in {"DECLINE", "RELEASE"} : Send(m, type, 0, sta[m].ip, Fresh)

NoAnswer(m) == /\ sta[m].st = "requesting"
               /\ sta' = [sta EXCEPT ![m] = Fresh]
               /\ UNCHANGED <<mail, events, unlisted>> /\ StationStep

Lost(m) == /\ mail[m] # NoMsg
           /\ mail' = [mail EXCEPT ![m] = NoMsg]
           /\ UNCHANGED <<sta, events, unlisted>> /\ StationStep

-----------------------------------------------------------------------------
(* The server's task.                                                      *)

Take(s, answer, ip) ==
    CASE s.st = "init" /\ answer = "OFFER" -> [st |-> "requesting", ip |-> ip, left |-> 0]
      [] s.st \in {"requesting", "bound"} /\ answer = "ACK" /\ s.ip = ip ->
            [st |-> "bound", ip |-> ip, left |-> LeaseTime]
      [] s.st \in {"requesting", "bound"} /\ answer = "NAK" -> Fresh
      [] OTHER -> s

\* The answer reaches the station, or is lost.
Serve(m) == /\ mail[m] # NoMsg
            /\ mail' = [mail EXCEPT ![m] = NoMsg]
            /\ \E answer \in {"OFFER", "ACK", "NAK", "IDLE", "RELEASE"},
                  client \in PoolStart..(PoolEnd + 1) :
                  /\ handle_dhcp(mail[m], answer, client)
                  /\ \/ /\ sta' = [sta EXCEPT ![m] = Take(@, answer, client)]
                        /\ robbed' = IF Take(sta[m], answer, client) = sta[m]
                                     THEN robbed ELSE robbed \ {m}
                     \/ UNCHANGED <<sta, robbed>>
            /\ UNCHANGED <<adapter, app>>

\* A second, for the server and for the stations.
Tick == /\ pcb_dhcps # NoPcb
        /\ dhcps_coarse_tmr
        /\ sta' = [m \in Macs |-> IF sta[m].st # "bound" THEN sta[m]
                                  ELSE IF sta[m].left = 1 THEN Fresh
                                  ELSE [sta[m] EXCEPT !.left = @ - 1]]
        /\ robbed' = {m \in Macs : /\ m \in robbed \/ \E l \in Killed : l.mac = m
                                  /\ sta'[m].st = "bound"}
        /\ UNCHANGED <<mail, adapter, app>>

Next == \/ ap_mode_start \/ PowerCycle
        \/ event_handler \/ Wake \/ printStationList \/ Tick
        \/ \E m \in Macs : \/ Join(m) \/ Leave(m)
                           \/ Discover(m) \/ RequestKept(m) \/ RequestOffered(m)
                           \/ Renew(m) \/ GiveUp(m) \/ NoAnswer(m) \/ Lost(m)
                           \/ Serve(m)

Spec == Init /\ [][Next]_vars

-----------------------------------------------------------------------------
(* Properties                                                              *)

\* The types of the state: a lease names an address of the pool, a station's time has not run out.
TypeOK == /\ plist \subseteq Lease
          /\ client_address_plus \in Pool \cup {0}
          /\ (pcb_dhcps # NoPcb => client_address_plus \in Pool)
          /\ pcb_dhcps \in {NoPcb, DefaultNet, AppNet}
          /\ dhcps_status \in {"init", "started", "stopped"}
          /\ esp_ip \in {NoNet, DefaultNet, AppNet}
          /\ esp_netif \in {NoNet, DefaultNet, AppNet}
          /\ stage \in Stages
          /\ events \in Seq({"AP_START", "AP_STACONNECTED", "AP_STADISCONNECTED"})
          /\ wifi_event_group \subseteq {CLIENT_CONNECTED_BIT, CLIENT_DISCONNECTED_BIT}
          /\ printer \in {"none", "waits", "prints"}
          /\ sta \in [Macs -> Station]
          /\ mail \in [Macs -> Msg \cup {NoMsg}]
          /\ \A m \in Macs : mail[m] # NoMsg => mail[m].mac = m
          /\ unlisted \subseteq Macs /\ robbed \subseteq Macs

\* No address is leased twice and no station has two leases, whatever parse_msg was sent,
\* whichever leases ran out, were released or killed, and however often the pool wrapped.
LeasesUnique == \A l1, l2 \in plist : l1.ip = l2.ip \/ l1.mac = l2.mac => l1 = l2

\* A station that uses an address has the server's lease of it, for at least as long as it
\* believes, unless kill_oldest_dhcps_pool took it away: it tells nobody.
BoundHasLease ==
    \A m \in Macs : sta[m].st = "bound" /\ m \notin robbed =>
        \E l \in plist : l.mac = m /\ l.ip = sta[m].ip /\ l.lease_timer >= sta[m].left

\* Two stations use one address only after one of them was robbed of its lease: no order of
\* DISCOVER, REQUEST, renewal, RELEASE, DECLINE, expiry, loss and return makes them.
NoSharedAddress ==
    \A m1, m2 \in Macs :
        m1 # m2 /\ sta[m1].st = "bound" /\ sta[m2].st = "bound" /\ sta[m1].ip = sta[m2].ip
        => m1 \in robbed \/ m2 \in robbed

\* start_dhcp_server runs before there is an interface: its "start" only takes effect when
\* AP_START is handled, and then the server listens on the application's network, whose
\* pool does not contain the server; no ESP_ERROR_CHECK of it fails.
AccessPointServes ==
    /\ stage # "aborted"
    /\ esp_netif # NoNet => /\ esp_netif = AppNet
                            /\ pcb_dhcps = esp_netif
                            /\ dhcps_status = "started"
                            /\ \A l \in plist : l.ip # ServerHost

\* A station that joins gets listed: until print_sta_info has read the list, the bit, its
\* event or the list about to be read stands for it, although the wait clears the bit.
NewStationsListed ==
    unlisted # {} => \/ CLIENT_CONNECTED_BIT \in wifi_event_group
                     \/ \E i \in 1..Len(events) : events[i] = "AP_STACONNECTED"
                     \/ printer = "prints"

\* handle_dhcp and dhcps_coarse_tmr implement AddressPool: whatever a station with a lease
\* sends, it keeps its address, and a message grants one address at most, which is free
\* and goes to a station without one.
Addresses == INSTANCE AddressPool WITH Clients <- Macs, Addresses <- Pool, Nobody <- NoMac,
                                       owner <- Owner
AddressPoolSpec == Addresses!Spec
=============================================================================
