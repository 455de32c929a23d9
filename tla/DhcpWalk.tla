------------------------------- MODULE DhcpWalk -------------------------------
(***************************************************************************)
(* The loop of parse_msg over the list of leases, pass by pass, against    *)
(* the addresses DhcpServer takes for its result.  The list is what the    *)
(* insertions of dhcpserver.c leave behind: in ascending order of address. *)
(***************************************************************************)
EXTENDS DhcpServer

\* The lists of all members of S, each once, in ascending order of address.
Ascending(S) == {s \in [1..Cardinality(S) -> S] :
                   /\ \A l \in S : \E i \in DOMAIN s : s[i] = l
                   /\ \A i, j \in DOMAIN s : i < j => s[i].ip < s[j].ip}

\* Mutant: inserted before the first smaller address.
List_Down == CHOOSE s \in [1..Cardinality(plist) -> plist] :
                \A i, j \in DOMAIN s : i < j => s[i].ip > s[j].ip

\* What node_insert_to_list makes of the leases.
List == CHOOSE s \in Ascending(plist) : TRUE

\* The loop's variables: client_address_plus, first_address, its flag, the entry of mac.
Begin == [plus |-> client_address_plus, first |-> PoolStart, flag |-> FALSE, mine |-> 0]

\* The loop's body, for the entry l; it is left at the entry of mac.
Pass(w, l, mac) ==
    IF w.mine # 0 THEN w
    ELSE IF l.mac = mac THEN [w EXCEPT !.mine = l.ip]
    ELSE LET found == w.flag \/ w.first < l.ip
         IN [plus |-> IF l.ip = w.plus THEN w.plus + 1 ELSE w.plus,
             first |-> IF found THEN w.first ELSE w.first + 1,
             flag |-> found, mine |-> 0]

Walk(mac) ==
    LET step[i \in 0..Cardinality(plist)] ==
          IF i = 0 THEN Begin ELSE Pass(step[i - 1], List[i], mac)
    IN step[Cardinality(plist)]

\* The address parse_msg arrives at for a station without lease: client_address.
Chosen(w) == IF plist = {} \/ w.plus > PoolEnd THEN w.first ELSE w.plus

\* One pass over the list finds what it looks for: the first free address from
\* client_address_plus on, the first of the pool after the last one, and with a station's
\* own lease no more than the addresses in front of it.
WalkFindsFree ==
    pcb_dhcps # NoPcb =>
        \A mac \in Macs :
            LET w == Walk(mac)
                mine == dhcp_search_ip_on_mac(mac)
            IN IF mine = {}
               THEN w.mine = 0 /\ Chosen(w) = Candidate /\ Chosen(w) \notin Hosts
               ELSE /\ mine = {w.mine}
                    /\ w.plus = NextFree(client_address_plus, {h \in Hosts : h < w.mine})
=============================================================================
