----------------------------- MODULE UdpSockets -----------------------------
(***************************************************************************)
(* The UDP socket pool of tsiplib (src/tsiplib/src/udp.c): sockets are     *)
(* created from a fixed table, bound to a local port, optionally connected *)
(* to a peer and given a receive callback; an incoming datagram goes to    *)
(* the first open socket with its port whose peer, if any, is the sender.  *)
(*                                                                         *)
(* Calls are made with any handle ever returned, open or closed: the       *)
(* library's own checks decide what they do.                               *)
(*                                                                         *)
(* A definition marked "Slip" is a plausible mistake in the one after it;  *)
(* no action uses it.  The properties are tried against these.             *)
(***************************************************************************)
EXTENDS Integers, Scan

CONSTANTS
    Addr,               \* ip_addr_t values a socket can be connected to
    Port,               \* non-zero port numbers in play
    Callback,           \* receive callbacks
    NoAddr, NoCallback, Nobody,  \* zeroed address, NULL callback, "no socket"
    MAX_UDP_SOCKETS     \* 8 in the code

ASSUME PoolAssumption == MAX_UDP_SOCKETS \in Nat \ {0}
ASSUME PortAssumption == Port \subseteq Nat \ {0}
ASSUME NobodyAssumption == Nobody \notin 0 .. MAX_UDP_SOCKETS - 1

VARIABLES
    sockets,     \* the table
    delivered    \* the socket whose callback the last datagram ran, or Nobody

udpVars == <<sockets, delivered>>
-----------------------------------------------------------------------------
SocketId == 0 .. MAX_UDP_SOCKETS - 1

(* udp_socket_t: an unbound socket has port 0, an unconnected one a remote *)
(* port of 0.                                                              *)
Socket == [in_use : BOOLEAN, local_port : Port \cup {0},
           remote_ip : Addr \cup {NoAddr}, remote_port : Port \cup {0},
           rx_callback : Callback \cup {NoCallback}]

Zeroed == [in_use |-> FALSE, local_port |-> 0, remote_ip |-> NoAddr,
           remote_port |-> 0, rx_callback |-> NoCallback]

FreeSockets == { s \in SocketId : ~sockets[s].in_use }

(* Slip: the check for a port in use skips connected sockets.              *)
PortTakenUnconnectedOnly(s, port) ==
    \E t \in SocketId \ {s} :
        /\ sockets[t].in_use /\ sockets[t].local_port = port
        /\ sockets[t].remote_port = 0

(* Slip: the check looks only at the sockets before this one.              *)
PortTakenBefore(s, port) ==
    \E t \in 0 .. s - 1 : sockets[t].in_use /\ sockets[t].local_port = port

(* Another open socket has the port.                                       *)
PortTaken(s, port) ==
    \E t \in SocketId \ {s} : sockets[t].in_use /\ sockets[t].local_port = port

(* The scan of udp_rx_callback stops at the first of these.                *)
Accepts(s, src, src_port, dest_port) ==
    /\ sockets[s].in_use
    /\ sockets[s].local_port = dest_port
    /\ \/ sockets[s].remote_port = 0
       \/ sockets[s].remote_port = src_port /\ sockets[s].remote_ip = src

Acceptors(src, src_port, dest_port) ==
    { s \in SocketId : Accepts(s, src, src_port, dest_port) }
-----------------------------------------------------------------------------
UdpInit ==
    /\ sockets = [s \in SocketId |-> Zeroed]
    /\ delivered = Nobody

(* Fails, changing nothing, when every socket is in use.                   *)
udp_socket_create ==
    /\ FreeSockets # {}
    /\ sockets' = [sockets EXCEPT ![First(FreeSockets)] =
                      [Zeroed EXCEPT !.in_use = TRUE]]
    /\ delivered' = Nobody

(* Slip: a bind through a stale handle is let through.                     *)
BindUnchecked(s, port) ==
    /\ ~PortTaken(s, port)
    /\ sockets' = [sockets EXCEPT ![s].local_port = port]
    /\ delivered' = Nobody

(* Fails for a closed socket, port 0 and a port another socket has.        *)
udp_socket_bind(s, port) ==
    /\ sockets[s].in_use
    /\ ~PortTaken(s, port)
    /\ sockets' = [sockets EXCEPT ![s].local_port = port]
    /\ delivered' = Nobody

udp_socket_connect(s, ip, port) ==
    /\ sockets[s].in_use
    /\ sockets' = [sockets EXCEPT ![s].remote_ip = ip,
                                  ![s].remote_port = port]
    /\ delivered' = Nobody

udp_socket_close(s) ==
    /\ sockets[s].in_use
    /\ sockets' = [sockets EXCEPT ![s] = Zeroed]
    /\ delivered' = Nobody

udp_socket_set_rx_callback(s, callback) ==
    /\ sockets[s].in_use
    /\ sockets' = [sockets EXCEPT ![s].rx_callback = callback]
    /\ delivered' = Nobody

(* The callback of the first acceptor runs if it has one; the scan ends    *)
(* there either way.  Port 0 is a legal destination of a datagram.         *)
udp_rx_callback(src, src_port, dest_port) ==
    LET to == Acceptors(src, src_port, dest_port)
    IN  /\ UNCHANGED sockets
        /\ delivered' =
              IF to # {} /\ sockets[First(to)].rx_callback # NoCallback
              THEN First(to) ELSE Nobody

(* A re-initialised stack clears the pool, open sockets and all.           *)
udp_init ==
    /\ sockets' = [s \in SocketId |-> Zeroed]
    /\ delivered' = Nobody

UdpNext ==
    \/ udp_init
    \/ udp_socket_create
    \/ \E s \in SocketId :
          \/ \E port \in Port : udp_socket_bind(s, port)
          \/ \E ip \in Addr, port \in Port : udp_socket_connect(s, ip, port)
          \/ udp_socket_close(s)
          \/ \E cb \in Callback : udp_socket_set_rx_callback(s, cb)
    \/ \E src \in Addr, src_port \in Port \cup {0},
          dest_port \in Port \cup {0} :
          udp_rx_callback(src, src_port, dest_port)

UdpSpec == UdpInit /\ [][UdpNext]_udpVars
-----------------------------------------------------------------------------
UdpTypeOK ==
    /\ sockets \in [SocketId -> Socket]
    /\ delivered \in SocketId \cup {Nobody}

(* Two open sockets never share a local port: a datagram for a bound port  *)
(* has one possible receiver, and the order of the table cannot matter.    *)
UniquePort ==
    \A s, t \in SocketId :
        /\ s # t
        /\ sockets[s].in_use /\ sockets[t].in_use
        /\ sockets[s].local_port # 0
        => sockets[s].local_port # sockets[t].local_port

(* A closed socket keeps nothing of its last life, and nothing written     *)
(* through a stale handle survives in it: no port, peer or callback of a   *)
(* former owner can reach whoever is given the slot next.                  *)
ClosedIsBlank ==
    \A s \in SocketId : ~sockets[s].in_use => sockets[s] = Zeroed

(* The pool implements the port registry: a port's holder is the open      *)
(* socket bound to it.                                                     *)
BoundTo(port) ==
    { s \in SocketId : sockets[s].in_use /\ sockets[s].local_port = port }
Registry == INSTANCE PortRegistry WITH
    Holder <- SocketId, Ports <- Port, Nobody <- Nobody,
    holder <- [port \in Port |->
                  IF BoundTo(port) = {} THEN Nobody ELSE First(BoundTo(port))]
ImplementsRegistry == Registry!RegSpec
=============================================================================
