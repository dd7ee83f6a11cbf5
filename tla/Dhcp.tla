-------------------------------- MODULE Dhcp --------------------------------
(***************************************************************************)
(* The DHCP client of tsiplib (src/tsiplib/src/dhcp.c) with its servers    *)
(* and the network between them.                                           *)
(*                                                                         *)
(* The client is single-threaded, but every message it sends may wait in   *)
(* arp_resolve, whose nested eth_poll runs dhcp_rx_callback in the middle  *)
(* of the send: calls holds the sends under way, each with the statement   *)
(* of the client that follows it.  See TsIpStack for the waiting itself.   *)
(*                                                                         *)
(* msgs holds every message ever sent.  A message may be delivered any     *)
(* number of times, in any order, at any later time, or never.  It is one  *)
(* dhcp_rx_callback lets through: right length, port, cookie and           *)
(* transaction id, the id being the same for every transaction.  Which     *)
(* packets the layers below lose is not asked: without an address they in  *)
(* fact refuse answers to a broadcast (see IpAddr) or to the address       *)
(* offered, and without a gateway that resolves, the client's broadcasts.  *)
(*                                                                         *)
(* A definition marked "Slip" is a plausible mistake in the one after it;  *)
(* no action uses it.  The properties are tried against these.             *)
(***************************************************************************)
EXTENDS Integers, Sequences

CONSTANTS
    Offers,         \* the offers servers may make
    None,           \* a zeroed address; an option that is absent
    InitialNet,     \* ip.c's configuration before any lease
    RETRY_EVERY,    \* polls between retransmissions: 30 in the code
    RETRY_LIMIT,    \* polls after which a round is given up: 300 in the code
    MAX_DEPTH       \* bound: sends under way at once (room on the C stack)

ASSUME RetryAssumption ==
    RETRY_EVERY \in Nat \ {0} /\ RETRY_LIMIT \in Nat /\ MAX_DEPTH \in Nat
(* None stands for a missing option, never for an address.                 *)
ASSUME OfferAssumption == \A o \in Offers : o.ip # None /\ o.server # None

VARIABLES
    state,        \* dhcp_state_t
    config,       \* the offered configuration; dns and the lease time fare
                  \* like netmask and gateway and are left out
    server_ip,    \* the server whose offer was taken
    dhcp_socket,  \* the client's handle: TRUE if not NULL
    open,         \* a socket bound to the client port with our callback exists
    retry_count,
    reported,     \* the last state given to the application's state_callback
    applied,      \* ip.c's address, netmask and gateway
    calls,        \* sends under way, outermost first
    msgs,         \* every message sent
    careful       \* the application never starts a client that runs

client == <<state, config, server_ip, retry_count>>
socket == <<dhcp_socket, open>>
runVars == <<client, socket, reported, applied, calls, msgs>>
dhcpVars == <<runVars, careful>>
-----------------------------------------------------------------------------
Ips == { o.ip : o \in Offers }
Servers == { o.server : o \in Offers }
Discover == [type |-> "DISCOVER"]
Request(ip, server) == [type |-> "REQUEST", ip |-> ip, server |-> server]
Ack(ip, server) == [type |-> "ACK", ip |-> ip, server |-> server]
Nak(server) == [type |-> "NAK", server |-> server]
Offered(o) == [type |-> "OFFER", offer |-> o]

Blank == [ip |-> None, netmask |-> None, gateway |-> None]
Idle == calls = <<>>

(* Slip: the callback is given the state the handler set.                  *)
ContinueAsSet(next, last) ==
    reported' = IF next = "callback" THEN "REQUESTING" ELSE last

(* The client calls udp_sendto with msg; next is what the calling function *)
(* does when it returns: its state_callback ("callback") or nothing        *)
(* ("return").  Without a socket the call fails.  A send that meets no     *)
(* wait is one that returns before anything is delivered; beyond MAX_DEPTH *)
(* only such sends are explored.                                           *)
Continue(next, last) ==
    reported' = IF next = "callback" THEN state' ELSE last
SendThen(msg, next, last) ==
    IF dhcp_socket' /\ Len(calls) < MAX_DEPTH
    THEN /\ calls' = Append(calls, [msg |-> msg, next |-> next])
         /\ reported' = last
         /\ UNCHANGED msgs
    ELSE /\ UNCHANGED calls
         /\ Continue(next, last)
         /\ \/ UNCHANGED msgs
            \/ dhcp_socket' /\ msgs' = msgs \cup {msg}

CurrentRequest == Request(config.ip, server_ip)
-----------------------------------------------------------------------------
DhcpInit ==
    /\ state = "INIT" /\ config = Blank /\ server_ip = None
    /\ dhcp_socket = FALSE /\ open = FALSE /\ retry_count = 0
    /\ reported = "INIT" /\ applied = InitialNet
    /\ calls = <<>> /\ msgs = {} /\ careful \in BOOLEAN

(* No socket left, or the client port taken (by the running client's own   *)
(* socket, which loses its handle): dhcp_start fails.                      *)
StartFails ==
    /\ dhcp_socket' = FALSE
    /\ UNCHANGED <<client, open, reported, applied, calls, msgs>>

StartSelecting ==
    /\ ~open
    /\ dhcp_socket' = TRUE /\ open' = TRUE
    /\ state' = "SELECTING" /\ retry_count' = 0
    /\ SendThen(Discover, "return", "SELECTING")
    /\ UNCHANGED <<config, server_ip, applied>>

dhcp_start ==
    /\ Idle
    /\ careful => state = "INIT"
    /\ StartFails \/ StartSelecting

(* Slip: dhcp_stop drops the handle without closing the socket.            *)
StopKeepsOpen ==
    /\ Idle
    /\ dhcp_socket' = FALSE
    /\ state' = "INIT" /\ config' = Blank
    /\ UNCHANGED <<server_ip, open, retry_count, reported, applied, calls,
                   msgs>>

dhcp_stop ==
    /\ Idle
    /\ dhcp_socket' = FALSE /\ open' = (open /\ ~dhcp_socket)
    /\ state' = "INIT" /\ config' = Blank
    /\ UNCHANGED <<server_ip, retry_count, reported, applied, calls, msgs>>

(* Slip: retransmission forgets the REQUESTING state.                      *)
UnboundSelecting == state = "SELECTING"

(* dhcp_poll.                                                              *)
Unbound == state \in {"SELECTING", "REQUESTING"}

RoundOver == retry_count + 1 > RETRY_LIMIT

PollRestart ==
    /\ Idle /\ Unbound /\ RoundOver
    /\ state' = "SELECTING" /\ retry_count' = 0
    /\ UNCHANGED <<config, server_ip, socket, applied>>
    /\ SendThen(Discover, "return", reported)

PollResend ==
    /\ Idle /\ Unbound /\ ~RoundOver
    /\ (retry_count + 1) % RETRY_EVERY = 0
    /\ retry_count' = retry_count + 1
    /\ UNCHANGED <<state, config, server_ip, socket, applied>>
    /\ SendThen(IF state = "SELECTING" THEN Discover ELSE CurrentRequest,
                "return", reported)

PollCount ==
    /\ Idle /\ Unbound /\ ~RoundOver
    /\ (retry_count + 1) % RETRY_EVERY # 0
    /\ retry_count' = retry_count + 1
    /\ UNCHANGED <<state, config, server_ip, socket, reported, applied,
                   calls, msgs>>

dhcp_poll == PollRestart \/ PollResend \/ PollCount
-----------------------------------------------------------------------------
(* dhcp_rx_callback, from tcpip_poll or from inside a send.                *)

(* An option the offer lacks keeps the value it has.                       *)
Option(new, old) == IF new = None THEN old ELSE new
OfferConfig(o) ==
    [ip |-> o.ip, netmask |-> Option(o.netmask, config.netmask),
     gateway |-> Option(o.gateway, config.gateway)]

(* Slip: an offer is saved whatever the state.                             *)
TakeOfferAnytime(o) ==
    /\ open /\ Offered(o) \in msgs
    /\ config' = OfferConfig(o) /\ server_ip' = o.server
    /\ state' = IF state = "SELECTING" THEN "REQUESTING" ELSE state
    /\ retry_count' = 0
    /\ UNCHANGED <<socket, applied>>
    /\ SendThen(Request(config'.ip, server_ip'), "callback", reported)

TakeOffer(o) ==
    /\ open /\ Offered(o) \in msgs /\ state = "SELECTING"
    /\ config' = OfferConfig(o) /\ server_ip' = o.server
    /\ state' = "REQUESTING" /\ retry_count' = 0
    /\ UNCHANGED <<socket, applied>>
    /\ SendThen(Request(config'.ip, server_ip'), "callback", reported)

(* Neither the server nor the address of the acknowledgement is compared   *)
(* with the request.                                                       *)
TakeAck(ip, server) ==
    /\ open /\ Ack(ip, server) \in msgs /\ state = "REQUESTING"
    /\ state' = "BOUND"
    /\ applied' = config
    /\ reported' = "BOUND"
    /\ UNCHANGED <<config, server_ip, retry_count, socket, calls, msgs>>

TakeNak(server) ==
    /\ open /\ Nak(server) \in msgs /\ state = "REQUESTING"
    /\ state' = "SELECTING" /\ retry_count' = 0
    /\ UNCHANGED <<config, server_ip, socket, applied>>
    /\ SendThen(Discover, "callback", reported)

(* The innermost send returns, its packet, built before the wait, on the   *)
(* wire or not.                                                            *)
Top == calls[Len(calls)]

(* Slip: the server identifier is read when the packet leaves.             *)
PacketOfLate(send) ==
    IF send.msg.type = "REQUEST" THEN [send.msg EXCEPT !.server = server_ip]
    ELSE send.msg

PacketOf(send) == send.msg

SendReturns(sent) ==
    /\ ~Idle
    /\ calls' = SubSeq(calls, 1, Len(calls) - 1)
    /\ msgs' = IF sent THEN msgs \cup {PacketOf(Top)} ELSE msgs
    /\ UNCHANGED <<client, socket, applied>>
    /\ Continue(Top.next, reported)
-----------------------------------------------------------------------------
(* The servers (not in this repository): each offers what it has and       *)
(* grants or refuses what is asked of it.                                  *)
ServerOffers(o) ==
    /\ Discover \in msgs
    /\ msgs' = msgs \cup {Offered(o)}
ServerGrants(ip, server) ==
    /\ Request(ip, server) \in msgs
    /\ msgs' = msgs \cup {Ack(ip, server)}
ServerRefuses(ip, server) ==
    /\ Request(ip, server) \in msgs
    /\ msgs' = msgs \cup {Nak(server)}
ServerStep(step) ==
    step /\ UNCHANGED <<client, socket, reported, applied, calls>>

TakeMessage ==
    \/ \E o \in Offers : TakeOffer(o)
    \/ \E ip \in Ips, server \in Servers : TakeAck(ip, server)
    \/ \E server \in Servers : TakeNak(server)

DhcpNext ==
    /\ \/ dhcp_start \/ dhcp_stop \/ dhcp_poll
       \/ TakeMessage
       \/ \E sent \in BOOLEAN : SendReturns(sent)
       \/ \E o \in Offers : ServerStep(ServerOffers(o))
       \/ \E ip \in Ips, server \in Servers :
             ServerStep(ServerGrants(ip, server) \/ ServerRefuses(ip, server))
    /\ UNCHANGED careful

DhcpSpec == DhcpInit /\ [][DhcpNext]_dhcpVars

(* The application polls, and every send returns.  Nothing is expected of  *)
(* the network or of the servers.                                          *)
DhcpFairness ==
    /\ WF_runVars(dhcp_poll)
    /\ WF_runVars(\E sent \in BOOLEAN : SendReturns(sent))
DhcpFairSpec == DhcpSpec /\ DhcpFairness
-----------------------------------------------------------------------------
Messages ==
    { Discover } \cup { Offered(o) : o \in Offers }
    \cup { Nak(s) : s \in Servers }
    \cup { Request(ip, s) : ip \in Ips, s \in Servers }
    \cup { Ack(ip, s) : ip \in Ips, s \in Servers }

DhcpTypeOK ==
    /\ state \in {"INIT", "SELECTING", "REQUESTING", "BOUND"}
    /\ reported \in {"INIT", "SELECTING", "REQUESTING", "BOUND"}
    /\ config.ip \in Ips \cup {None} /\ server_ip \in Servers \cup {None}
    /\ dhcp_socket \in BOOLEAN /\ open \in BOOLEAN
    /\ retry_count \in 0 .. RETRY_LIMIT
    /\ calls \in Seq([msg : Messages, next : {"return", "callback"}])
    /\ Len(calls) <= MAX_DEPTH
    /\ msgs \subseteq Messages

(* A bound client's lease is the one the IP layer works with, whatever     *)
(* offers, refusals and retransmissions were handled inside one another on *)
(* the way.                                                                *)
AppliedIsLease == state = "BOUND" => applied = config

(* Every REQUEST on the wire names a server and an address that server     *)
(* offered, even one sent after later offers changed both.                 *)
RequestsNameAnOffer ==
    \A m \in msgs : m.type = "REQUEST" =>
        \E o \in Offers : /\ Offered(o) \in msgs
                          /\ o.ip = m.ip /\ o.server = m.server

(* Once every call has returned, the application has been told last what   *)
(* the client's state is: a callback that runs late, after a nested        *)
(* message moved the client on, does not report the older state.  Two      *)
(* changes are never reported: that the client was stopped, and that       *)
(* dhcp_poll gave up a round, which takes it back from REQUESTING.         *)
StateIsReported ==
    Idle => \/ reported = state
            \/ state = "INIT"
            \/ state = "SELECTING" /\ reported = "REQUESTING"

(* With an application that starts only a stopped client, a client that is *)
(* not stopped owns the open socket on the client port, and a stopped one  *)
(* leaves none behind.                                                     *)
SocketFollowsState ==
    careful => (state # "INIT") = open /\ open = dhcp_socket

(* A client does not wait for ever for the answer to its request: if no    *)
(* server grants or refuses it, or the application stops the client, the   *)
(* round ends and the client looks for offers anew.  Nothing is promised   *)
(* of a lease: that takes a network the client cannot count on.            *)
RequestIsGivenUp == state = "REQUESTING" ~> state # "REQUESTING"

(* A lease the client works with was granted: dhcp.c:239 says of the       *)
(* transition to BOUND "Configuration accepted".                           *)
BoundWasGranted ==
    state = "BOUND" => Ack(config.ip, server_ip) \in msgs
=============================================================================
