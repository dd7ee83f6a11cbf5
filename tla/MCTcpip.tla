------------------------------ MODULE MCTcpip ------------------------------
(***************************************************************************)
(* Model checking of Tcpip and of the two modules it is made of.  Each of  *)
(* the three is run by itself: the cache with every packet, the pool with  *)
(* every call through every handle, and the life of the stack with a       *)
(* single peer and plain sockets.                                          *)
(***************************************************************************)
EXTENDS Tcpip, TLC

VARIABLE part
mcVars == <<tcpipVars, part>>

CONSTANTS a1, m1
MCConfigs == { {"ethernet", "arp", "ip", "udp", "dhcp"},
               {"ethernet", "arp", "ip", "udp"}, {"ethernet", "ip"} }
restVars == <<layerVars, lifeVars, dhcpVars, learned>>

MCInit == TcpipInit /\ part \in {"cache", "pool", "life"}
MCCache ==
    /\ part = "cache" /\ ArpNext
    /\ UNCHANGED <<udpVars, restVars, apps, part>>
(* All the open sockets are the application's.                             *)
MCPool ==
    /\ part = "pool" /\ UdpNext
    /\ apps' = { s \in SocketId : sockets'[s].in_use }
    /\ UNCHANGED <<arpVars, restVars, part>>
MCLife ==
    /\ part = "life" /\ TcpipNext /\ UNCHANGED part
    /\ \A ip \in IP : claim'[ip] \in {NoMac, m1} /\ (ip # a1 => claim'[ip] = NoMac)
    /\ \A s \in SocketId : sockets'[s].remote_port = 0
    /\ \A s \in SocketId : sockets'[s].rx_callback \in {NoCallback, DhcpCallback}
MCSpec == MCInit /\ [][MCCache \/ MCPool \/ MCLife]_mcVars
=============================================================================
