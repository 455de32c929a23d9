----------------------------- MODULE TcpipAdapter -----------------------------
(***************************************************************************)
(* The access point's interface in tcpip_adapter_lwip.c: its address, its  *)
(* state and that of the DHCP server.  Each call runs in the task of lwIP  *)
(* and tells its caller whether it went well, ret.                         *)
(***************************************************************************)
EXTENDS DhcpServer

CONSTANTS DefaultNet, NoNet

VARIABLES dhcps_status, \* "init", "started", "stopped"
          esp_ip,       \* the address kept for the interface, by its network
          esp_netif     \* the address of the interface that is up, NoNet when none is

adapter == <<dhcps_status, esp_ip, esp_netif>>

AdapterInit == /\ dhcps_status = "init"
               /\ esp_ip = NoNet
               /\ esp_netif = NoNet

tcpip_adapter_init == /\ esp_ip' = DefaultNet
                      /\ UNCHANGED <<server, dhcps_status, esp_netif>>

tcpip_adapter_dhcps_stop(ret) ==
    /\ ret = CASE dhcps_status = "started" -> esp_netif # NoNet
               [] dhcps_status = "stopped" -> FALSE
               [] OTHER -> TRUE
    /\ dhcps_status' = IF ret THEN "stopped" ELSE dhcps_status
    /\ IF ret /\ dhcps_status = "started" THEN dhcps_stop ELSE UNCHANGED server
    /\ UNCHANGED <<esp_ip, esp_netif>>

tcpip_adapter_set_ip_info(net, ret) ==
    /\ ret = (dhcps_status = "stopped")
    /\ esp_ip' = IF ret THEN net ELSE esp_ip
    /\ esp_netif' = IF ret /\ esp_netif # NoNet THEN net ELSE esp_netif
    /\ UNCHANGED <<server, dhcps_status>>

\* Mutant: without an interface nothing is remembered.
tcpip_adapter_dhcps_start_Forgets(ret) ==
    /\ ret = (dhcps_status # "started")
    /\ dhcps_status' = IF esp_netif # NoNet THEN "started" ELSE dhcps_status
    /\ IF ret /\ esp_netif # NoNet THEN dhcps_start(esp_netif) ELSE UNCHANGED server
    /\ UNCHANGED <<esp_ip, esp_netif>>

\* Without an interface the server is only marked to be started with it.
tcpip_adapter_dhcps_start(ret) ==
    /\ ret = (dhcps_status # "started")
    /\ dhcps_status' = IF esp_netif # NoNet THEN "started" ELSE IF ret THEN "init" ELSE dhcps_status
    /\ IF ret /\ esp_netif # NoNet THEN dhcps_start(esp_netif) ELSE UNCHANGED server
    /\ UNCHANGED <<esp_ip, esp_netif>>

\* tcpip_adapter_start, called with the address kept for the interface.
tcpip_adapter_ap_start ==
    /\ esp_netif' = IF esp_netif = NoNet THEN esp_ip ELSE esp_netif
    /\ IF dhcps_status = "init" THEN dhcps_start(esp_ip) ELSE UNCHANGED server
    /\ dhcps_status' = IF dhcps_status = "init" THEN "started" ELSE dhcps_status
    /\ UNCHANGED esp_ip
=============================================================================
