----------------------------- MODULE TsIpStack -----------------------------
(***************************************************************************)
(* tsiplib at work (src/tsiplib/src: ethernet.c, arp.c, ip.c, icmp.c,      *)
(* udp.c): one thread, no queues.  ip_send resolves the next hop by        *)
(* sending ARP requests and calling eth_poll itself until the answer is in *)
(* the cache; a frame received by such a nested eth_poll runs its handler  *)
(* in the middle of the send, and that handler may send, and so wait, too. *)
(* calls is the C call stack cut down to its waiting sends.                *)
(*                                                                         *)
(* The network is any sequence of the frames in Frames: lost, late,        *)
(* duplicated and reordered frames are all among them.                     *)
(*                                                                         *)
(* Frames the driver sends are visible in tx and upcalls to the            *)
(* application in up, each for the one step that makes them.               *)
(*                                                                         *)
(* A definition marked "Slip" is a plausible mistake in the one after it;  *)
(* no action uses it.  The properties are tried against these.             *)
(***************************************************************************)
EXTENDS ArpCache, UdpSockets, Sequences

CONSTANTS
    ZeroIp,         \* 0.0.0.0
    Multicast,      \* the members of IP that are multicast addresses
    Mask,           \* ip_addr_t values used as netmasks
    DefaultMask,    \* 255.255.255.0
    Subnet,         \* Subnet[m][a] is a & m, byte by byte
    Frames,         \* the frames the driver may receive
    Targets,        \* addresses the application sends to
    Broadcast,      \* 255.255.255.255, where the DHCP client sends
    Configs,        \* what tcpip_set_ip_config is given, or a DHCP server grants
    Nothing,        \* no frame, no upcall
    ATTEMPTS,       \* ARP requests per resolution: 3 in the code
    POLLS,          \* eth_poll calls per request: 100 in the code
    MAX_DEPTH       \* bound: how many waiting sends the C stack has room for

ASSUME StackAssumption ==
    /\ ZeroIp \in IP /\ Multicast \subseteq IP /\ Addr = IP
    /\ DefaultMask \in Mask
    /\ Configs \subseteq [ip : IP, netmask : Mask, gateway : IP]
    /\ Targets \subseteq IP /\ Broadcast \in IP
    /\ ATTEMPTS \in Nat \ {0} /\ POLLS \in Nat \ {0} /\ MAX_DEPTH \in Nat \ {0}

(* What an IP packet carries.  Junk is what no protocol handler takes: an  *)
(* unknown protocol or ICMP type, a payload too short or with a bad        *)
(* checksum.                                                               *)
Echo == [kind : {"echo_request", "echo_reply"}, seq : {0, 1}]
Datagram == [kind : {"udp"}, src_port : Port \cup {0},
             dest_port : Port \cup {0}]
Junk == [kind : {"junk"}]

(* Received frames.  to: the destination MAC address is ours or multicast  *)
(* ("us"), broadcast ("all") or another station's.  ok: the header passes  *)
(* the length, version, type and checksum tests of its handler.            *)
ArpFrame == [type : {"arp"}, to : {"us", "all", "other"}, ok : BOOLEAN,
             op : {"request", "reply"}, sender_mac : Mac, sender_ip : IP,
             target_ip : IP]
IpFrame == [type : {"ip"}, to : {"us", "all", "other"}, ok : BOOLEAN,
            src_mac : Mac, src : IP, dest : IP,
            body : Echo \cup Datagram \cup Junk]

ASSUME FrameAssumption ==
    \A f \in Frames : f \in ArpFrame \/ f \in IpFrame

VARIABLES
    our_ip,      \* ip.c's our_ip
    arp_our_ip,  \* arp.c's own our_ip
    netmask, gateway,
    calls,       \* waiting ip_send calls, outermost first
    rx,          \* rx_buffer, while a send that may have been made from it waits
    tx,          \* the frame given to the driver by the last step
    up           \* the upcall made by the last step

netVars == <<our_ip, arp_our_ip, netmask, gateway>>
stackVars == <<arpVars, udpVars, netVars, calls, rx, tx, up>>
-----------------------------------------------------------------------------
Top == calls[Len(calls)]
Idle == calls = <<>>

(* The thread may enter eth_poll: from tcpip_poll when no send waits, else *)
(* from the innermost arp_resolve.                                         *)
Phase == IF Idle THEN "poll" ELSE Top.phase
MayPoll == Phase = "poll"

(* calls while its innermost send is inside eth_poll: back in arp_resolve  *)
(* the cache is looked at next.                                            *)
Polling == IF Idle THEN calls
           ELSE [calls EXCEPT ![Len(calls)].phase = "check"]

ip_addr_is_local(dest) ==
    Subnet[netmask][dest] = Subnet[netmask][our_ip]
NextHop(dest) == IF ip_addr_is_local(dest) THEN dest ELSE gateway

(* ip_addr_is_broadcast compares a & ~m, promoted to int and so with all   *)
(* its high bits clear, with ~m, whose high bits are set: never equal.     *)
ip_addr_is_broadcast(addr) == FALSE

ForUs(dest) ==
    dest = our_ip \/ ip_addr_is_broadcast(dest) \/ dest \in Multicast

ArpOut(op, dest_mac, target) ==
    [type |-> "arp", op |-> op, dest_mac |-> dest_mac,
     sender_ip |-> arp_our_ip, target_ip |-> target]
IpOut(mac, send) ==
    [type |-> "ip", dest_mac |-> mac, packet |-> send.packet,
     hop |-> send.hop, cause |-> send.cause]

(* A send of body to dest as ip_send starts it: the header is complete and *)
(* the next hop chosen before the wait.  cause is the frame it answers.    *)
Send(dest, body, cause) ==
    [packet |-> [src |-> our_ip, dest |-> dest, body |-> body],
     hop |-> NextHop(dest), cause |-> cause,
     attempts |-> 0, i |-> 0, phase |-> "poll"]

(* ip_send, over the cache c and the stack of waiting sends below it: out  *)
(* at once if the hop is known, else an ARP request and a wait.  eth_send  *)
(* falls off its end without a return value: arp_resolve may take the      *)
(* request for failed and give up.                                         *)
ip_send(send, c, below) ==
    IF InCache(c, send.hop)
    THEN /\ tx' = IpOut(Lookup(c, send.hop), send)
         /\ calls' = below
    ELSE /\ tx' = ArpOut("request", "all", send.hop)
         /\ \/ Len(below) < MAX_DEPTH /\ calls' = Append(below, send)
            \/ calls' = below
-----------------------------------------------------------------------------
StackInit ==
    /\ ArpInit /\ UdpInit
    /\ our_ip = ZeroIp /\ arp_our_ip = ZeroIp
    /\ netmask = DefaultMask /\ gateway = ZeroIp
    /\ calls = <<>> /\ rx = Nothing /\ tx = Nothing /\ up = Nothing

(* rx_buffer matters only to sends that are waiting.                       *)
Received(f) == rx' = IF calls' = <<>> THEN Nothing ELSE f

Quiet == tx' = Nothing /\ up' = Nothing /\ calls' = Polling

(* recv_packet returns nothing.                                            *)
PollEmpty ==
    /\ ~Idle /\ MayPoll
    /\ Quiet
    /\ UNCHANGED <<arpVars, udpVars, netVars, rx>>

(* eth_poll, arp_rx_callback or ip_rx_callback drop the frame unread.      *)
Dropped(f) ==
    \/ f.to = "other"
    \/ ~f.ok
    \/ f.type = "ip" /\ ~ForUs(f.dest)
PollDropped(f) ==
    /\ MayPoll /\ Dropped(f)
    /\ Quiet /\ Received(f)
    /\ UNCHANGED <<arpVars, udpVars, netVars>>

(* arp_rx_callback: the sender is remembered whoever was asked; a request  *)
(* for our address is answered.                                            *)
arp_rx_callback(f) ==
    /\ MayPoll /\ f.type = "arp" /\ ~Dropped(f)
    /\ arp_cache_add(f.sender_ip, f.sender_mac)
    /\ tx' = IF f.target_ip = arp_our_ip /\ f.op = "request"
             THEN ArpOut("reply", f.sender_mac, f.sender_ip) ELSE Nothing
    /\ up' = Nothing /\ calls' = Polling /\ Received(f)
    /\ UNCHANGED <<udpVars, netVars>>

(* Slip: the sender of an IP packet is not learnt.                         *)
IpAcceptedUnlearnt(f, kind) ==
    /\ MayPoll /\ f.type = "ip" /\ ~Dropped(f) /\ f.body.kind = kind
    /\ UNCHANGED arpVars

(* The start of ip_rx_callback for an accepted packet.                     *)
IpAccepted(f, kind) ==
    /\ MayPoll /\ f.type = "ip" /\ ~Dropped(f) /\ f.body.kind = kind
    /\ arp_cache_add(f.src, f.src_mac)

(* No protocol handler takes the packet, but its sender is remembered.     *)
Untaken(f) ==
    /\ IpAccepted(f, "junk")
    /\ Quiet /\ Received(f)
    /\ UNCHANGED <<udpVars, netVars>>

(* icmp_rx_callback answers an echo request with the identifier, sequence  *)
(* number and payload of the request.                                      *)
EchoReply(f) == Send(f.src, [kind |-> "echo_reply", seq |-> f.body.seq], f)
EchoRequest(f) ==
    /\ IpAccepted(f, "echo_request")
    /\ ip_send(EchoReply(f), cache', Polling)
    /\ up' = Nothing /\ Received(f)
    /\ UNCHANGED <<udpVars, netVars>>

(* An echo reply is reported to the application's echo callback, asked for *)
(* or not.                                                                 *)
EchoAnswer(f) ==
    /\ IpAccepted(f, "echo_reply")
    /\ tx' = Nothing /\ calls' = Polling /\ Received(f)
    /\ up' = [from |-> f.src, seq |-> f.body.seq]
    /\ UNCHANGED <<udpVars, netVars>>

(* ip_set_address passes the address on to arp_announce, which keeps a     *)
(* copy and sends a gratuitous ARP request.                                *)
Announce(ip) ==
    /\ arp_our_ip' = ip
    /\ tx' = [type |-> "arp", op |-> "request", dest_mac |-> "all",
              sender_ip |-> ip, target_ip |-> ip]
Configure(c) ==
    /\ our_ip' = c.ip /\ Announce(c.ip)
    /\ netmask' = c.netmask /\ gateway' = c.gateway

(* udp_sendto from a socket's callback, which refuses port 0.              *)
UdpReply(f) ==
    Send(f.src, [kind |-> "udp", src_port |-> f.body.dest_port,
                 dest_port |-> f.body.src_port], f)
EchoBack(f) ==
    /\ IF f.body.src_port # 0 THEN ip_send(UdpReply(f), cache', Polling)
       ELSE tx' = Nothing /\ calls' = Polling
    /\ UNCHANGED netVars

(* The DHCP client's callback, wherever in the stack of waiting sends it   *)
(* runs: an acknowledgement changes the addresses under all of them, an    *)
(* offer or a refusal has it broadcast a message of its own.  Which of     *)
(* them a datagram is, is told apart in Dhcp, not here.                    *)
dhcp_rx_callback(f) ==
    \/ tx' = Nothing /\ calls' = Polling /\ UNCHANGED netVars
    \/ /\ ip_send(Send(Broadcast, [kind |-> "udp", src_port |-> f.body.dest_port,
                                   dest_port |-> f.body.src_port], Nothing),
                  cache', Polling)
       /\ UNCHANGED netVars
    \/ (\E c \in Configs : Configure(c)) /\ calls' = Polling

(* Of a socket's callback only what it does to the stack matters: "echo"   *)
(* sends the datagram back, "dhcp" is the DHCP client's, any other keeps   *)
(* to itself.                                                              *)
UdpDatagram(f) ==
    /\ IpAccepted(f, "udp")
    /\ udp_rx_callback(f.src, f.body.src_port, f.body.dest_port)
    /\ up' = IF delivered' = Nobody THEN Nothing
             ELSE [from |-> f.src, socket |-> delivered']
    /\ LET callback == IF delivered' = Nobody THEN NoCallback
                       ELSE sockets[delivered'].rx_callback
       IN  CASE callback = "echo" -> EchoBack(f)
             [] callback = "dhcp" -> dhcp_rx_callback(f)
             [] OTHER -> tx' = Nothing /\ calls' = Polling /\ UNCHANGED netVars
    /\ Received(f)
-----------------------------------------------------------------------------
(* arp_resolve after an eth_poll.                                          *)
Waiting == Phase = "check"
Below == SubSeq(calls, 1, Len(calls) - 1)
Return == calls' = Below /\ rx' = IF Below = <<>> THEN Nothing ELSE rx
StepTop(attempts, i) ==
    /\ calls' = [calls EXCEPT ![Len(calls)] =
                    [@ EXCEPT !.attempts = attempts, !.i = i,
                              !.phase = "poll"]]
    /\ UNCHANGED rx
InWait == up' = Nothing /\ UNCHANGED <<arpVars, udpVars, netVars>>

(* Slip: the answer's destination is read from rx_buffer after the wait.   *)
TransmitFromBuffer(send) ==
    LET packet == IpOut(Lookup(cache, send.hop), send)
        sender == IF rx.type = "ip" THEN rx.src ELSE rx.sender_ip
    IN  IF send.cause = Nothing \/ rx = Nothing THEN packet
        ELSE [packet EXCEPT !.packet.dest = sender]

(* The packet built before the wait goes to the address found.             *)
Transmit(send) == IpOut(Lookup(cache, send.hop), send)
Resolved ==
    /\ Waiting /\ InCache(cache, Top.hop)
    /\ tx' = Transmit(Top)
    /\ Return /\ InWait

LastPoll == Top.i + 1 >= POLLS
LastAttempt == Top.attempts + 1 >= ATTEMPTS

PollAgain ==
    /\ Waiting /\ ~InCache(cache, Top.hop) /\ ~LastPoll
    /\ StepTop(Top.attempts, Top.i + 1)
    /\ tx' = Nothing /\ InWait

(* Slip: the request is not counted.                                       *)
AskAgainUncounted ==
    /\ Waiting /\ ~InCache(cache, Top.hop) /\ LastPoll /\ ~LastAttempt
    /\ tx' = ArpOut("request", "all", Top.hop)
    /\ StepTop(Top.attempts, 0) \/ Return
    /\ InWait

(* The next request; eth_send's missing result may end the resolution.     *)
AskAgain ==
    /\ Waiting /\ ~InCache(cache, Top.hop) /\ LastPoll /\ ~LastAttempt
    /\ tx' = ArpOut("request", "all", Top.hop)
    /\ StepTop(Top.attempts + 1, 0) \/ Return
    /\ InWait

(* Slip: the cache is not looked at after the last poll.                   *)
GiveUpUnchecked ==
    /\ Waiting /\ LastPoll /\ LastAttempt
    /\ tx' = Nothing
    /\ Return /\ InWait

GiveUp ==
    /\ Waiting /\ ~InCache(cache, Top.hop) /\ LastPoll /\ LastAttempt
    /\ tx' = Nothing
    /\ Return /\ InWait
-----------------------------------------------------------------------------
(* The application, when no call is under way.                             *)
AppSend(dest, body) ==
    /\ Idle
    /\ ip_send(Send(dest, body, Nothing), cache, <<>>)
    /\ up' = Nothing
    /\ UNCHANGED <<arpVars, udpVars, netVars, rx>>

icmp_send_echo_request(dest) ==
    AppSend(dest, [kind |-> "echo_request", seq |-> 0])

udp_sendto(s, dest, port) ==
    /\ sockets[s].in_use
    /\ AppSend(dest, [kind |-> "udp", src_port |-> sockets[s].local_port,
                      dest_port |-> port])

AppSocket ==
    /\ Idle
    /\ \/ udp_socket_create
       \/ \E s \in SocketId :
             \/ \E port \in Port : udp_socket_bind(s, port)
             \/ udp_socket_close(s)
             \/ \E cb \in Callback : udp_socket_set_rx_callback(s, cb)
    /\ tx' = Nothing /\ up' = Nothing
    /\ UNCHANGED <<arpVars, netVars, calls, rx>>

(* The application's own call; one made by a callback of a socket would do *)
(* what the DHCP client's callback does.                                   *)
tcpip_set_ip_config(c) ==
    /\ Idle
    /\ Configure(c)
    /\ up' = Nothing
    /\ UNCHANGED <<arpVars, udpVars, calls, rx>>
-----------------------------------------------------------------------------
eth_poll ==
    \/ PollEmpty
    \/ \E f \in Frames :
          \/ PollDropped(f)
          \/ arp_rx_callback(f)
          \/ Untaken(f)
          \/ EchoRequest(f)
          \/ EchoAnswer(f)
          \/ UdpDatagram(f)
arp_resolve == Resolved \/ PollAgain \/ AskAgain \/ GiveUp
Application ==
    \/ \E dest \in Targets : icmp_send_echo_request(dest)
    \/ \E s \in SocketId, dest \in Targets, port \in Port :
          udp_sendto(s, dest, port)
    \/ AppSocket
    \/ \E c \in Configs : tcpip_set_ip_config(c)

StackNext == eth_poll \/ arp_resolve \/ Application

(* The processor runs: a call under way goes on.                           *)
StackSpec ==
    /\ StackInit /\ [][StackNext]_stackVars
    /\ WF_stackVars(~Idle /\ (eth_poll \/ arp_resolve))
-----------------------------------------------------------------------------
Sends == [packet : [src : IP, dest : IP, body : Echo \cup Datagram], hop : IP,
          cause : Frames \cup {Nothing}, attempts : 0 .. ATTEMPTS - 1,
          i : 0 .. POLLS - 1, phase : {"poll", "check"}]

StackTypeOK ==
    /\ ArpTypeOK /\ UdpTypeOK
    /\ our_ip \in IP /\ arp_our_ip \in IP /\ gateway \in IP /\ netmask \in Mask
    /\ calls \in Seq(Sends) /\ Len(calls) <= MAX_DEPTH
    /\ rx \in Frames \cup {Nothing}

(* An answer that leaves, at once or after any number of nested receptions *)
(* have overwritten rx_buffer, goes to the sender of the packet it answers *)
(* and carries that packet's sequence number or ports.                     *)
AnswerFits(p, f) ==
    /\ p.dest = f.src
    /\ CASE p.body.kind = "echo_reply" ->
               f.body.kind = "echo_request" /\ f.body.seq = p.body.seq
         [] p.body.kind = "udp" ->
               /\ f.body.kind = "udp"
               /\ p.body.dest_port = f.body.src_port
               /\ p.body.src_port = f.body.dest_port
         [] OTHER -> FALSE
SentIp == tx # Nothing /\ tx.type = "ip"
AnswersTheirCause ==
    SentIp /\ tx.cause # Nothing => AnswerFits(tx.packet, tx.cause)

(* An IP packet leaves to the station that claimed its next hop last, even *)
(* when claims changed while the packet waited.                            *)
SentToClaimant == SentIp => tx.dest_mac = claim[tx.hop]

(* Answering never waits for the asker: its address has just been learnt   *)
(* from the packet.  When a handler's answer has to wait, it waits for the *)
(* gateway of that moment; later the DHCP client may change the gateway    *)
(* under it.                                                               *)
AnswerWaitsForGateway ==
    [][\A n \in 1 .. Len(calls') :
          n > Len(calls) /\ calls'[n].cause # Nothing =>
              /\ calls'[n].hop = gateway
              /\ calls'[n].hop # calls'[n].packet.dest]_stackVars

(* A waiting send that returns while its next hop is known has sent its    *)
(* packet: an answer to the very last request, received by the very last   *)
(* poll, still counts.                                                     *)
KnownHopIsUsed ==
    [][Len(calls') < Len(calls) /\ InCache(cache, Top.hop) =>
          tx' = IpOut(claim[Top.hop], Top)]_stackVars

(* Every send comes back to the application, whatever the network does.    *)
SendReturns == ~Idle ~> Idle
=============================================================================
