----------------------------- MODULE AddressPool -----------------------------
(***************************************************************************)
(* What a DHCP server promises about its addresses: a client is granted    *)
(* one at a time, a free one, and keeps it until its lease ends; an        *)
(* address passes to another client only after that.                       *)
(***************************************************************************)
CONSTANTS Clients, Addresses, Nobody

VARIABLE owner  \* of each address

Init == owner = [a \in Addresses |-> Nobody]

Grant(c, a) == /\ owner[a] = Nobody
               /\ \A b \in Addresses : owner[b] # c
               /\ owner' = [owner EXCEPT ![a] = c]

\* Leases that were released, that have run out or are taken back.
End(ended) == owner' = [a \in Addresses |-> IF a \in ended THEN Nobody ELSE owner[a]]

Next == \/ \E c \in Clients, a \in Addresses : Grant(c, a)
        \/ \E ended \in SUBSET Addresses : End(ended)

Spec == Init /\ [][Next]_owner
==============================================================================
