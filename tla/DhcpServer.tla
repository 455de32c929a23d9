------------------------------ MODULE DhcpServer ------------------------------
(***************************************************************************)
(* The DHCP server of the access point (lwip/apps/dhcpserver/dhcpserver.c).*)
(* It runs in the task of lwIP alone: one action per message, one for its  *)
(* timer.  node_insert_to_list keeps plist in ascending order of address,  *)
(* so that the list is the set of its leases and its order that of the     *)
(* addresses; WalkFindsFree of DhcpWalk holds the loops of parse_msg over  *)
(* the list against the smallest free address that stands for them here.   *)
(***************************************************************************)
EXTENDS Integers, FiniteSets

CONSTANTS Macs,
          ServerHost, \* last byte of the server's address
          MaxLease,   \* DHCPS_MAX_LEASE, addresses in the pool
          LeaseTime,  \* calls of dhcps_coarse_tmr a lease lasts
          MaxStation  \* MAX_STATION_NUM

ASSUME PoolAssumption == /\ ServerHost \in 1..254 /\ MaxLease \in 1..100
                         /\ LeaseTime \in Nat \ {0} /\ MaxStation \in Nat \ {0}

VARIABLES plist,               \* the leases
          client_address_plus, \* the address to be leased next
          pcb_dhcps            \* the network it listens on, NoPcb before it is started

server == <<plist, client_address_plus, pcb_dhcps>>

NoPcb == "none"
NoMac == "nobody"

ASSUME MacAssumption == NoMac \notin Macs

\* dhcps_poll_set: the pool lies beside the server's own address.
PoolStart == IF ServerHost >= 128 THEN ServerHost - MaxLease ELSE ServerHost + 1
PoolEnd == PoolStart + MaxLease - 1
Pool == PoolStart..PoolEnd

Lease == [ip : Pool, mac : Macs, lease_timer : 1..LeaseTime]
Hosts == {l.ip : l \in plist}
Owner == [a \in Pool |-> IF a \in Hosts THEN (CHOOSE l \in plist : l.ip = a).mac ELSE NoMac]

\* What an associated station sends; requested and ciaddr are 0 when absent.
Msg == [type : {"DISCOVER", "REQUEST", "DECLINE", "RELEASE"}, mac : Macs,
        requested : Pool \cup {0}, ciaddr : Pool \cup {0}]

ServerInit == /\ plist = {}
              /\ client_address_plus = 0
              /\ pcb_dhcps = NoPcb

dhcps_start(net) == /\ pcb_dhcps' = net
                    /\ client_address_plus' = PoolStart
                    /\ UNCHANGED plist

dhcps_stop == /\ pcb_dhcps' = NoPcb
              /\ plist' = {}
              /\ UNCHANGED client_address_plus

-----------------------------------------------------------------------------
(* handle_dhcp                                                             *)

\* The walk from address a past the leased ones that follow it.
NextFree(a, used) ==
    CHOOSE x \in a..(PoolEnd + 1) : x \notin used /\ a..(x - 1) \subseteq used

\* Mutant: after the last address the first is taken, free or not.
Candidate_First ==
    LET plus == NextFree(client_address_plus, Hosts)
    IN IF plist = {} \/ plus > PoolEnd THEN PoolStart ELSE plus

\* The address a station without lease is considered for.
Candidate ==
    LET plus == NextFree(client_address_plus, Hosts)
    IN IF plist = {} \/ plus > PoolEnd THEN NextFree(PoolStart, Hosts) ELSE plus

parse_options(m, client, renew) ==
    CASE m.type = "DISCOVER" -> "OFFER"
      [] m.type = "REQUEST" -> IF (m.requested = client) \/ (m.requested = 0 /\ renew)
                               THEN "ACK" ELSE "NAK"
      [] m.type = "DECLINE" -> "IDLE"
      [] m.type = "RELEASE" -> "RELEASE"

\* Mutant: a message does not renew the lease.
ParseKnown_Ages(m, answer, client) ==
    \E l \in plist :
       /\ l.mac = m.mac
       /\ client = l.ip
       /\ answer = parse_options(m, client, m.ciaddr = client)
       /\ plist' = IF answer = "RELEASE" THEN plist \ {l} ELSE plist
       /\ client_address_plus' = NextFree(client_address_plus, {h \in Hosts : h < l.ip})

\* Mutant: the lease moves to a free address the station asks for.
ParseKnown_Moves(m, answer, client) ==
    \E l \in plist :
       /\ l.mac = m.mac
       /\ client = IF m.requested \in Pool \ Hosts THEN m.requested ELSE l.ip
       /\ answer = parse_options(m, client, m.ciaddr = client)
       /\ plist' = (plist \ {l}) \cup
                   (IF answer = "RELEASE" THEN {}
                    ELSE {[l EXCEPT !.lease_timer = LeaseTime, !.ip = client]})
       /\ client_address_plus' = NextFree(client_address_plus, {h \in Hosts : h < l.ip})

\* A station with a lease: every message of it renews the lease, RELEASE ends it.
ParseKnown(m, answer, client) ==
    \E l \in plist :
       /\ l.mac = m.mac
       /\ client = l.ip
       /\ answer = parse_options(m, client, m.ciaddr = client)
       /\ plist' = (plist \ {l}) \cup
                   (IF answer = "RELEASE" THEN {} ELSE {[l EXCEPT !.lease_timer = LeaseTime]})
       /\ client_address_plus' = NextFree(client_address_plus, {h \in Hosts : h < l.ip})

\* Mutant: client_address_plus runs out of the pool.
ParseNew_NoWrap(m, answer, client) ==
    /\ \A l \in plist : l.mac # m.mac
    /\ client = Candidate
    /\ client <= PoolEnd
    /\ answer = parse_options(m, client, FALSE)
    /\ plist' = plist \cup
                (IF answer = "RELEASE" THEN {}
                 ELSE {[ip |-> client, mac |-> m.mac, lease_timer |-> LeaseTime]})
    /\ client_address_plus' = client + 1

\* A new one: it is entered into the list whatever it says, and what it says is read after.
ParseNew(m, answer, client) ==
    /\ \A l \in plist : l.mac # m.mac
    /\ client = Candidate
    /\ client <= PoolEnd
    /\ answer = parse_options(m, client, FALSE)
    /\ plist' = plist \cup
                (IF answer = "RELEASE" THEN {}
                 ELSE {[ip |-> client, mac |-> m.mac, lease_timer |-> LeaseTime]})
    /\ client_address_plus' = IF client = PoolEnd THEN PoolStart ELSE client + 1

\* No address is left.
ParseExhausted(m, answer, client) ==
    /\ \A l \in plist : l.mac # m.mac
    /\ client = Candidate
    /\ client > PoolEnd
    /\ answer = "NAK"
    /\ client_address_plus' = PoolStart
    /\ UNCHANGED plist

handle_dhcp(m, answer, client) ==
    /\ pcb_dhcps # NoPcb
    /\ \/ ParseKnown(m, answer, client)
       \/ ParseNew(m, answer, client)
       \/ ParseExhausted(m, answer, client)
    /\ UNCHANGED pcb_dhcps

-----------------------------------------------------------------------------
(* dhcps_coarse_tmr                                                        *)

Aged == {[l EXCEPT !.lease_timer = @ - 1] : l \in {x \in plist : x.lease_timer > 1}}

\* kill_oldest_dhcps_pool: the search begins behind the head of the list.
Behind(s) == {l \in s : \E h \in s : h.ip < l.ip}
Oldest(s) == CHOOSE l \in Behind(s) :
                \A x \in Behind(s) : \/ l.lease_timer < x.lease_timer
                                     \/ l.lease_timer = x.lease_timer /\ l.ip <= x.ip

Killed == IF Cardinality(Aged) > MaxStation THEN {Oldest(Aged)} ELSE {}

dhcps_coarse_tmr == /\ plist' = Aged \ Killed
                    /\ UNCHANGED <<client_address_plus, pcb_dhcps>>

dhcp_search_ip_on_mac(mac) == {l.ip : l \in {x \in plist : x.mac = mac}}
=============================================================================
