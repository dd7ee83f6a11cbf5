---------------------------- MODULE StackProofs ----------------------------
(***************************************************************************)
(* Proofs about the stack at work: for every network, every size of its    *)
(* tables, any number of polls and requests, and any depth of nesting.     *)
(***************************************************************************)
EXTENDS TsIpStack, TableProofs, SequenceTheorems

USE StackAssumption

(* What a frame carries, by its type.                                      *)
LEMMA FrameFields ==
    ASSUME NEW f \in Frames
    PROVE  /\ f.type = "arp" => /\ f.sender_ip \in IP /\ f.sender_mac \in Mac
           /\ f.type = "ip" => /\ f.src \in IP /\ f.src_mac \in Mac
                               /\ f.body \in Echo \cup Datagram \cup Junk
<1>1. CASE f \in ArpFrame
  BY <1>1 DEF ArpFrame
<1>2. CASE f \in IpFrame
  BY <1>2 DEF IpFrame
<1> QED
  BY <1>1, <1>2, FrameAssumption

LEMMA BodyFields ==
    ASSUME NEW b \in Echo \cup Datagram \cup Junk
    PROVE  /\ b.kind \in {"echo_request", "echo_reply"} => b.seq \in {0, 1}
           /\ b.kind = "udp" => /\ b.src_port \in Port \cup {0}
                                /\ b.dest_port \in Port \cup {0}
BY DEF Echo, Datagram, Junk
-----------------------------------------------------------------------------
(* The steps of the stack are steps of its cache and of its pool.          *)
LEMMA StepOfCache == [StackNext]_stackVars => [ArpNext]_arpVars
<1> SUFFICES ASSUME [StackNext]_stackVars PROVE [ArpNext]_arpVars
  OBVIOUS
<1>1. ASSUME NEW f \in Frames, arp_rx_callback(f)
      PROVE  [ArpNext]_arpVars
  BY <1>1, FrameFields DEF arp_rx_callback, ArpNext
<1>2. ASSUME NEW f \in Frames, NEW kind, IpAccepted(f, kind)
      PROVE  [ArpNext]_arpVars
  BY <1>2, FrameFields DEF IpAccepted, ArpNext
<1>3. CASE eth_poll
  BY <1>1, <1>2, <1>3 DEF eth_poll, PollEmpty, PollDropped, Untaken,
     EchoRequest, EchoAnswer, UdpDatagram
<1>4. CASE arp_resolve
  BY <1>4 DEF arp_resolve, Resolved, PollAgain, AskAgain, GiveUp, InWait
<1>5. CASE Application
  BY <1>5 DEF Application, icmp_send_echo_request, udp_sendto, AppSend,
     AppSocket, tcpip_set_ip_config
<1>6. CASE UNCHANGED stackVars
  BY <1>6 DEF stackVars
<1> QED
  BY <1>3, <1>4, <1>5, <1>6 DEF StackNext

LEMMA StepOfPool == [StackNext]_stackVars => [UdpNext]_udpVars
<1> SUFFICES ASSUME [StackNext]_stackVars PROVE [UdpNext]_udpVars
  OBVIOUS
<1>1. ASSUME NEW f \in Frames, UdpDatagram(f)
      PROVE  [UdpNext]_udpVars
  <2>1. /\ f.src \in Addr
        /\ f.body.src_port \in Port \cup {0} /\ f.body.dest_port \in Port \cup {0}
    BY <1>1, FrameFields, BodyFields DEF UdpDatagram, IpAccepted
  <2> QED
    BY <1>1, <2>1 DEF UdpDatagram, UdpNext
<1>2. CASE AppSocket
  BY <1>2 DEF AppSocket, UdpNext
<1>3. CASE eth_poll
  BY <1>1, <1>3 DEF eth_poll, PollEmpty, PollDropped, arp_rx_callback, Untaken,
     EchoRequest, EchoAnswer
<1>4. CASE arp_resolve
  BY <1>4 DEF arp_resolve, Resolved, PollAgain, AskAgain, GiveUp, InWait
<1>5. CASE Application
  BY <1>2, <1>5 DEF Application, icmp_send_echo_request, udp_sendto, AppSend,
     tcpip_set_ip_config
<1>6. CASE UNCHANGED stackVars
  BY <1>6 DEF stackVars
<1> QED
  BY <1>3, <1>4, <1>5, <1>6 DEF StackNext

(* The cache at work in the stack is the cache as specified, and the pool  *)
(* the pool: whatever holds of them by themselves holds of the stack.      *)
THEOREM StackRunsCache == StackSpec => ArpSpec
<1>1. StackInit => ArpInit
  BY DEF StackInit
<1> QED
  BY <1>1, StepOfCache, PTL DEF StackSpec, ArpSpec

THEOREM StackRunsPool == StackSpec => UdpSpec
<1>1. StackInit => UdpInit
  BY DEF StackInit
<1> QED
  BY <1>1, StepOfPool, PTL DEF StackSpec, UdpSpec

TablesOK == ArpTypeOK /\ FreshMac /\ UdpTypeOK

LEMMA TablesHold == StackSpec => []TablesOK
<1>1. ArpTypeOK /\ FreshMac /\ UdpTypeOK => TablesOK
  BY DEF TablesOK
<1> QED
  BY <1>1, StackRunsCache, StackRunsPool, ArpTypeCorrect, MacIsFresh,
     UdpTypeCorrect, PTL

(* An address is known as soon as it has been learnt, and a lookup finds   *)
(* its last claim.                                                         *)
LEMMA LearntIsKnown ==
    ASSUME ArpTypeOK, NEW ip \in IP, NEW mac \in Mac, arp_cache_add(ip, mac)
    PROVE  InCache(cache', ip)
<1> DEFINE k == SlotFor(cache, ip)
<1>1. k \in Slots
  BY SlotForInTable
<1>2. cache'[k] = Entry(ip, mac, ARP_CACHE_TIMEOUT)
  BY <1>1, CacheAfterAdd
<1>3. k \in Holding(cache', ip)
  BY <1>1, <1>2, Fields DEF Holding
<1> QED
  BY <1>3 DEF InCache

LEMMA LookupIsClaim ==
    ASSUME NEW c, NEW cl, \A s \in Slots : c[s].valid => c[s].mac = cl[c[s].ip],
           NEW ip, InCache(c, ip)
    PROVE  Lookup(c, ip) = cl[ip]
<1>1. First(Holding(c, ip)) \in Holding(c, ip)
  BY ScanFindsSlot DEF InCache, Holding
<1> QED
  BY <1>1 DEF Lookup, Holding
-----------------------------------------------------------------------------
(* The waiting sends.  Each is well typed, and an answer fits the packet   *)
(* it answers.                                                             *)
Backed(s) ==
    /\ s \in Sends
    /\ s.cause # Nothing => AnswerFits(s.packet, s.cause)
CallsInv ==
    /\ our_ip \in IP /\ arp_our_ip \in IP /\ gateway \in IP /\ netmask \in Mask
    /\ calls \in Seq(Sends) /\ Len(calls) <= MAX_DEPTH
    /\ rx \in Frames \cup {Nothing}
    /\ \A n \in 1 .. Len(calls) : Backed(calls[n])

(* The addresses stay, or are set anew.                                    *)
NetStep == UNCHANGED netVars \/ \E c \in Configs : Configure(c)

(* Of the sends that start in a step, one that answers has to wait for the *)
(* gateway, never for the asker.                                           *)
StartsWell ==
    \A n \in 1 .. Len(calls') :
        n > Len(calls) /\ calls'[n].cause # Nothing =>
            calls'[n].hop = gateway /\ calls'[n].hop # calls'[n].packet.dest

(* Entering eth_poll changes only where the innermost send is.             *)
LEMMA PollingTurns ==
    ASSUME CallsInv
    PROVE  /\ Polling \in Seq(Sends) /\ Len(Polling) = Len(calls)
           /\ \A n \in 1 .. Len(calls) :
                 /\ Polling[n].packet = calls[n].packet
                 /\ Polling[n].hop = calls[n].hop
                 /\ Polling[n].cause = calls[n].cause
<1>1. CASE Idle
  BY <1>1 DEF Polling, CallsInv
<1>2. CASE ~Idle
  <2>1. /\ calls \in Seq(Sends) /\ Len(calls) \in 1 .. Len(calls)
    BY <1>2 DEF Idle, CallsInv
  <2> DEFINE top == calls[Len(calls)]
             new == [top EXCEPT !.phase = "check"]
  <2>2. top \in Sends
    BY <2>1
  <2>3. /\ new \in Sends /\ new.packet = top.packet /\ new.hop = top.hop
        /\ new.cause = top.cause
    BY <2>2 DEF Sends
  <2>4. Polling = [calls EXCEPT ![Len(calls)] = new]
    BY <1>2 DEF Polling
  <2> HIDE DEF top, new
  <2>5. Polling \in Seq(Sends) /\ Len(Polling) = Len(calls)
    BY <2>1, <2>3, <2>4
  <2>6. \A n \in 1 .. Len(calls) :
           Polling[n] = IF n = Len(calls) THEN new ELSE calls[n]
    BY <2>1, <2>4
  <2> QED
    BY <2>3, <2>5, <2>6 DEF top
<1> QED
  BY <1>1, <1>2

(* A step keeps the invariant if what waits after it is backed, and starts *)
(* well if nothing more waits than before.                                 *)
LEMMA CallsStep ==
    ASSUME CallsInv, NetStep, rx' \in Frames \cup {Nothing},
           calls' \in Seq(Sends), Len(calls') <= MAX_DEPTH,
           \A n \in 1 .. Len(calls') : Backed(calls'[n])
    PROVE  CallsInv'
<1>1. our_ip' \in IP /\ arp_our_ip' \in IP /\ gateway' \in IP /\ netmask' \in Mask
  <2>1. CASE UNCHANGED netVars
    BY <2>1 DEF CallsInv, netVars
  <2>2. ASSUME NEW c \in Configs, Configure(c)
        PROVE  our_ip' \in IP /\ arp_our_ip' \in IP /\ gateway' \in IP /\ netmask' \in Mask
    <3>1. c.ip \in IP /\ c.netmask \in Mask /\ c.gateway \in IP
      OBVIOUS
    <3> QED
      BY <2>2, <3>1 DEF Configure, Announce
  <2> QED
    BY <2>1, <2>2 DEF NetStep
<1> QED
  BY <1>1 DEF CallsInv, Backed

LEMMA NoneStarts ==
    ASSUME CallsInv, calls' \in Seq(Sends), Len(calls') <= Len(calls)
    PROVE  StartsWell
<1>1. Len(calls) \in Nat /\ Len(calls') \in Nat
  BY DEF CallsInv
<1> QED
  BY <1>1 DEF StartsWell

LEMMA PollingIsBacked ==
    ASSUME CallsInv
    PROVE  /\ Polling \in Seq(Sends) /\ Len(Polling) <= MAX_DEPTH
           /\ \A n \in 1 .. Len(Polling) : Backed(Polling[n])
<1>1. Polling \in Seq(Sends) /\ Len(Polling) <= MAX_DEPTH
  BY PollingTurns DEF CallsInv
<1>2. ASSUME NEW n \in 1 .. Len(Polling)
      PROVE  Backed(Polling[n])
  <2>1. Backed(calls[n]) /\ Polling[n] \in Sends
    BY <1>1, <1>2, PollingTurns DEF CallsInv
  <2> QED
    BY <1>2, <2>1, PollingTurns DEF Backed
<1> QED
  BY <1>1, <1>2

(* A send that starts: over the stack of calls below it, at most it waits. *)
LEMMA StartIsBacked ==
    ASSUME CallsInv, NEW dest \in IP, NEW body \in Echo \cup Datagram,
           NEW cause \in Frames \cup {Nothing}, NEW c,
           cause # Nothing =>
              /\ AnswerFits(Send(dest, body, cause).packet, cause)
              /\ InCache(c, dest),
           NEW below \in Seq(Sends), Len(below) = Len(calls),
           \A n \in 1 .. Len(below) : Backed(below[n]),
           ip_send(Send(dest, body, cause), c, below)
    PROVE  /\ calls' \in Seq(Sends) /\ Len(calls') <= MAX_DEPTH
           /\ \A n \in 1 .. Len(calls') : Backed(calls'[n])
           /\ StartsWell
<1> DEFINE send == Send(dest, body, cause)
<1>1. send \in Sends
  BY DEF Send, Sends, NextHop, CallsInv
<1>2. /\ send.hop = NextHop(dest) /\ send.cause = cause /\ send.packet.dest = dest
  BY DEF Send
<1> HIDE DEF send
<1>3. CASE calls' = below
  BY <1>3, NoneStarts DEF CallsInv
<1>4. CASE /\ ~InCache(c, send.hop)
           /\ Len(below) < MAX_DEPTH /\ calls' = Append(below, send)
  <2>1. cause # Nothing => send.hop = gateway /\ send.hop # dest
    BY <1>2, <1>4 DEF NextHop
  <2>2. Backed(send)
    BY <1>1, <1>2 DEF Backed, send
  <2>3. /\ calls' \in Seq(Sends) /\ Len(calls') = Len(below) + 1
        /\ \A n \in 1 .. Len(calls') :
              calls'[n] = IF n = Len(below) + 1 THEN send ELSE below[n]
    BY <1>1, <1>4
  <2>4. Len(below) \in Nat
    OBVIOUS
  <2>5. Len(calls') <= MAX_DEPTH
    BY <1>4, <2>3, <2>4
  <2>6. StartsWell
    <3> SUFFICES ASSUME NEW n \in 1 .. Len(calls'), n > Len(calls),
                        calls'[n].cause # Nothing
                 PROVE  calls'[n].hop = gateway /\ calls'[n].hop # calls'[n].packet.dest
      BY DEF StartsWell
    <3>1. calls'[n] = send
      BY <2>3, <2>4
    <3> QED
      BY <1>2, <2>1, <3>1
  <2> QED
    BY <2>2, <2>3, <2>4, <2>5, <2>6
<1> QED
  BY <1>3, <1>4 DEF ip_send, send
-----------------------------------------------------------------------------
(* What leaves: a packet goes to the last claimant of its next hop, and an *)
(* answer fits.                                                            *)
SentWell == SentToClaimant /\ AnswersTheirCause

LEMMA NoPacketIsSent ==
    ASSUME tx' = Nothing \/ tx'.type = "arp"
    PROVE  SentWell'
BY DEF SentWell, SentToClaimant, AnswersTheirCause, SentIp

LEMMA PacketIsSentWell ==
    ASSUME FreshMac', NEW send, InCache(cache', send.hop),
           tx' = IpOut(Lookup(cache', send.hop), send),
           send.cause # Nothing => AnswerFits(send.packet, send.cause)
    PROVE  SentWell'
<1>1. Lookup(cache', send.hop) = claim'[send.hop]
  <2>1. \A s \in Slots :
           cache'[s].valid => cache'[s].mac = claim'[cache'[s].ip]
    BY DEF FreshMac
  <2> QED
    BY <2>1, LookupIsClaim
<1>2. /\ tx'.dest_mac = claim'[tx'.hop]
      /\ tx'.cause = send.cause /\ tx'.packet = send.packet
  BY <1>1 DEF IpOut
<1> QED
  BY <1>2 DEF SentWell, SentToClaimant, AnswersTheirCause, SentIp

LEMMA StartIsSentWell ==
    ASSUME FreshMac', NEW send, NEW below, ip_send(send, cache', below),
           send.cause # Nothing => AnswerFits(send.packet, send.cause)
    PROVE  SentWell'
<1>1. CASE InCache(cache', send.hop)
  BY <1>1, PacketIsSentWell DEF ip_send
<1>2. CASE ~InCache(cache', send.hop)
  BY <1>2, NoPacketIsSent DEF ip_send, ArpOut
<1> QED
  BY <1>1, <1>2
-----------------------------------------------------------------------------
(* A step and what it has to keep.                                         *)
StackStep ==
    /\ CallsInv /\ TablesOK /\ TablesOK'

LEMMA QuietPoll ==
    ASSUME StackStep, NetStep, calls' = Polling,
           rx' \in Frames \cup {Nothing}, tx' = Nothing \/ tx'.type = "arp"
    PROVE  CallsInv' /\ SentWell' /\ StartsWell
<1>1. CallsInv' /\ SentWell'
  BY PollingIsBacked, CallsStep, NoPacketIsSent DEF StackStep
<1>2. calls' \in Seq(Sends) /\ Len(calls') = Len(calls) /\ Len(calls) \in Nat
  BY PollingTurns DEF StackStep, CallsInv
<1> QED
  BY <1>1, <1>2, NoneStarts DEF StackStep

LEMMA Reception ==
    ASSUME NEW f \in Frames, Received(f)
    PROVE  rx' \in Frames \cup {Nothing}
BY DEF Received

(* A handler that sends: what it answers comes from a station that the     *)
(* cache knows by then.                                                    *)
LEMMA HandlerSends ==
    ASSUME StackStep, NEW f \in Frames, Received(f), UNCHANGED netVars,
           NEW dest \in IP, NEW body \in Echo \cup Datagram,
           NEW cause \in Frames \cup {Nothing},
           cause # Nothing =>
              /\ AnswerFits(Send(dest, body, cause).packet, cause)
              /\ InCache(cache', dest),
           ip_send(Send(dest, body, cause), cache', Polling)
    PROVE  CallsInv' /\ SentWell' /\ StartsWell
<1>1. Polling \in Seq(Sends) /\ Len(Polling) = Len(calls)
  BY PollingTurns DEF StackStep
<1>2. /\ calls' \in Seq(Sends) /\ Len(calls') <= MAX_DEPTH
      /\ \A n \in 1 .. Len(calls') : Backed(calls'[n])
      /\ StartsWell
  BY <1>1, PollingIsBacked, StartIsBacked DEF StackStep
<1>3. CallsInv'
  BY <1>2, CallsStep, Reception DEF StackStep, NetStep
<1>4. SentWell'
  BY StartIsSentWell DEF StackStep, TablesOK, Send
<1> QED
  BY <1>2, <1>3, <1>4

LEMMA AnswerStep ==
    ASSUME StackStep, NEW f \in Frames, NEW kind, IpAccepted(f, kind),
           Received(f), UNCHANGED netVars, NEW body \in Echo \cup Datagram,
           AnswerFits(Send(f.src, body, f).packet, f),
           ip_send(Send(f.src, body, f), cache', Polling)
    PROVE  CallsInv' /\ SentWell' /\ StartsWell
<1>1. f.src \in IP /\ f.src_mac \in Mac
  BY FrameFields DEF IpAccepted
<1>2. InCache(cache', f.src)
  BY <1>1, LearntIsKnown DEF IpAccepted, StackStep, TablesOK
<1> QED
  BY <1>1, <1>2, HandlerSends

LEMMA EchoRequestKeeps ==
    ASSUME StackStep, NEW f \in Frames, EchoRequest(f)
    PROVE  CallsInv' /\ SentWell' /\ StartsWell
<1> DEFINE body == [kind |-> "echo_reply", seq |-> f.body.seq]
<1>1. f.body.kind = "echo_request" /\ f.body.seq \in {0, 1}
  BY FrameFields, BodyFields DEF EchoRequest, IpAccepted
<1>2. body \in Echo
  BY <1>1 DEF Echo
<1>3. AnswerFits(Send(f.src, body, f).packet, f)
  BY <1>1 DEF AnswerFits, Send
<1> QED
  BY <1>2, <1>3, AnswerStep DEF EchoRequest, EchoReply

LEMMA UdpDatagramKeeps ==
    ASSUME StackStep, NEW f \in Frames, UdpDatagram(f)
    PROVE  CallsInv' /\ SentWell' /\ StartsWell
<1> DEFINE body == [kind |-> "udp", src_port |-> f.body.dest_port,
                    dest_port |-> f.body.src_port]
<1>1. /\ f.body.kind = "udp" /\ IpAccepted(f, "udp") /\ Received(f)
      /\ f.body.src_port \in Port \cup {0} /\ f.body.dest_port \in Port \cup {0}
  BY FrameFields, BodyFields DEF UdpDatagram, IpAccepted
<1>2. body \in Datagram
  BY <1>1 DEF Datagram
<1>3. AnswerFits(Send(f.src, body, f).packet, f)
  BY <1>1 DEF AnswerFits, Send
<1>4. CASE EchoBack(f)
  <2>1. CASE ip_send(UdpReply(f), cache', Polling)
    BY <1>1, <1>2, <1>3, <1>4, <2>1, AnswerStep DEF UdpReply, EchoBack
  <2>2. CASE tx' = Nothing /\ calls' = Polling
    BY <1>1, <1>4, <2>2, QuietPoll, Reception DEF EchoBack, NetStep
  <2> QED
    BY <1>4, <2>1, <2>2 DEF EchoBack
<1>5. CASE tx' = Nothing /\ calls' = Polling /\ UNCHANGED netVars
  BY <1>1, <1>5, QuietPoll, Reception DEF NetStep
<1>6. CASE dhcp_rx_callback(f)
  <2>1. CASE ip_send(Send(Broadcast, body, Nothing), cache', Polling) /\ UNCHANGED netVars
    BY <1>1, <1>2, <2>1, HandlerSends
  <2>2. ASSUME NEW c \in Configs, Configure(c), calls' = Polling
        PROVE  CallsInv' /\ SentWell' /\ StartsWell
    <3>1. tx'.type = "arp"
      BY <2>2 DEF Configure, Announce
    <3> QED
      BY <1>1, <2>2, <3>1, QuietPoll, Reception DEF NetStep
  <2> QED
    BY <1>5, <1>6, <2>1, <2>2 DEF dhcp_rx_callback
<1> QED
  BY <1>4, <1>5, <1>6 DEF UdpDatagram

LEMMA PollKeeps ==
    ASSUME StackStep, eth_poll
    PROVE  CallsInv' /\ SentWell' /\ StartsWell
<1>1. CASE PollEmpty
  BY <1>1, QuietPoll DEF PollEmpty, Quiet, StackStep, CallsInv, NetStep
<1>2. ASSUME NEW f \in Frames,
             PollDropped(f) \/ arp_rx_callback(f) \/ Untaken(f) \/ EchoAnswer(f)
      PROVE  CallsInv' /\ SentWell' /\ StartsWell
  <2>1. /\ UNCHANGED netVars /\ calls' = Polling /\ Received(f)
        /\ tx' = Nothing \/ tx'.type = "arp"
    BY <1>2 DEF PollDropped, Quiet, arp_rx_callback, ArpOut, Untaken,
       EchoAnswer, IpAccepted
  <2> QED
    BY <2>1, QuietPoll, Reception DEF NetStep
<1> QED
  BY <1>1, <1>2, EchoRequestKeeps, UdpDatagramKeeps DEF eth_poll
-----------------------------------------------------------------------------
(* arp_resolve: the innermost send goes on or returns.                     *)
LEMMA BelowIsBacked ==
    ASSUME CallsInv, calls # <<>>
    PROVE  /\ Below \in Seq(Sends) /\ Len(Below) = Len(calls) - 1
           /\ \A n \in 1 .. Len(Below) : Backed(Below[n])
           /\ Len(Below) <= MAX_DEPTH /\ Backed(Top)
<1>1. calls \in Seq(Sends) /\ Len(calls) \in Nat \ {0} /\ Len(calls) <= MAX_DEPTH
  BY DEF CallsInv
<1>2. /\ Below \in Seq(Sends) /\ Len(Below) = Len(calls) - 1
      /\ \A n \in 1 .. Len(Below) : Below[n] = calls[n]
  <2> DEFINE m == Len(calls) - 1
  <2>1. m \in Nat /\ m <= Len(calls) /\ \A n \in 1 .. m : calls[n] \in Sends
    BY <1>1
  <2>2. 1 \in Int /\ m \in Int
    BY <2>1
  <2> HIDE DEF m
  <2>3. /\ SubSeq(calls, 1, m) \in Seq(Sends)
        /\ Len(SubSeq(calls, 1, m)) = IF 1 <= m THEN m - 1 + 1 ELSE 0
        /\ \A i \in 1 .. m - 1 + 1 : SubSeq(calls, 1, m)[i] = calls[1 + i - 1]
    BY <2>1, <2>2, SubSeqProperties
  <2>4. /\ Len(SubSeq(calls, 1, m)) = m
        /\ \A i \in 1 .. m : SubSeq(calls, 1, m)[i] = calls[i]
    BY <2>1, <2>3
  <2> QED
    BY <2>3, <2>4 DEF Below, m
<1>3. Backed(Top) /\ \A n \in 1 .. Len(Below) : Backed(Below[n])
  BY <1>1, <1>2 DEF CallsInv, Top
<1> QED
  BY <1>1, <1>2, <1>3

LEMMA ReturnKeeps ==
    ASSUME CallsInv, calls # <<>>, Return, InWait
    PROVE  CallsInv' /\ Len(calls') = Len(calls) - 1 /\ StartsWell
<1>1. rx' \in Frames \cup {Nothing} /\ UNCHANGED netVars /\ calls' = Below
  BY DEF Return, InWait, CallsInv
<1>2. CallsInv' /\ Len(calls') = Len(calls) - 1
  BY <1>1, BelowIsBacked, CallsStep DEF NetStep
<1>3. Len(calls) \in Nat /\ calls' \in Seq(Sends)
  BY <1>2 DEF CallsInv
<1> QED
  BY <1>2, <1>3, NoneStarts

LEMMA StepTopKeeps ==
    ASSUME CallsInv, calls # <<>>, InWait,
           NEW a \in 0 .. ATTEMPTS - 1, NEW i \in 0 .. POLLS - 1, StepTop(a, i)
    PROVE  CallsInv' /\ Len(calls') = Len(calls) /\ StartsWell
<1>1. calls \in Seq(Sends) /\ Len(calls) \in 1 .. Len(calls) /\ Len(calls) <= MAX_DEPTH
  BY DEF CallsInv
<1> DEFINE top == calls[Len(calls)]
           new == [top EXCEPT !.attempts = a, !.i = i, !.phase = "poll"]
<1>2. top \in Sends /\ Backed(top)
  BY <1>1 DEF CallsInv
<1>3. /\ new \in Sends /\ new.packet = top.packet /\ new.hop = top.hop
      /\ new.cause = top.cause
  BY <1>2 DEF Sends
<1>4. Backed(new)
  BY <1>2, <1>3 DEF Backed
<1>5. /\ calls' = [calls EXCEPT ![Len(calls)] = new] /\ UNCHANGED <<netVars, rx>>
  BY DEF StepTop, InWait
<1> HIDE DEF top, new
<1>6. /\ calls' \in Seq(Sends) /\ Len(calls') = Len(calls)
      /\ \A n \in 1 .. Len(calls) :
            calls'[n] = IF n = Len(calls) THEN new ELSE calls[n]
  BY <1>1, <1>3, <1>5
<1>7. \A n \in 1 .. Len(calls') : Backed(calls'[n])
  BY <1>4, <1>6 DEF CallsInv
<1>8. StartsWell
  BY <1>1, <1>6, NoneStarts
<1> QED
  BY <1>1, <1>5, <1>6, <1>7, <1>8, CallsStep DEF CallsInv, NetStep

LEMMA ResolveKeeps ==
    ASSUME StackStep, arp_resolve
    PROVE  CallsInv' /\ SentWell' /\ StartsWell
<1>1. calls # <<>> /\ UNCHANGED cache /\ InWait
  BY DEF arp_resolve, Resolved, PollAgain, AskAgain, GiveUp, Waiting, Phase,
     Idle, InWait, arpVars
<1>2. Top \in Sends /\ Backed(Top)
  BY <1>1, BelowIsBacked DEF StackStep, Backed
<1>3. /\ Top.attempts \in 0 .. ATTEMPTS - 1 /\ Top.i \in 0 .. POLLS - 1
  BY <1>2 DEF Sends
<1>4. CASE Resolved
  <2>1. CallsInv' /\ StartsWell
    BY <1>1, <1>4, ReturnKeeps DEF Resolved, StackStep
  <2>2. /\ InCache(cache', Top.hop) /\ FreshMac'
        /\ tx' = IpOut(Lookup(cache', Top.hop), Top)
        /\ Top.cause # Nothing => AnswerFits(Top.packet, Top.cause)
    BY <1>1, <1>2, <1>4 DEF Resolved, Transmit, Backed, StackStep, TablesOK
  <2> QED
    BY <2>1, <2>2, PacketIsSentWell
<1>5. CASE PollAgain
  <2>1. Top.i + 1 \in 0 .. POLLS - 1
    BY <1>3, <1>5 DEF PollAgain, LastPoll
  <2> QED
    BY <1>1, <1>3, <1>5, <2>1, StepTopKeeps, NoPacketIsSent DEF PollAgain, StackStep
<1>6. CASE AskAgain
  <2>1. Top.attempts + 1 \in 0 .. ATTEMPTS - 1 /\ 0 \in 0 .. POLLS - 1
    BY <1>3, <1>6 DEF AskAgain, LastAttempt
  <2>2. CallsInv' /\ StartsWell
    BY <1>1, <1>6, <2>1, StepTopKeeps, ReturnKeeps DEF AskAgain, StackStep
  <2> QED
    BY <1>6, <2>2, NoPacketIsSent DEF AskAgain, ArpOut
<1>7. CASE GiveUp
  BY <1>1, <1>7, ReturnKeeps, NoPacketIsSent DEF GiveUp, StackStep
<1> QED
  BY <1>4, <1>5, <1>6, <1>7 DEF arp_resolve
-----------------------------------------------------------------------------
(* The application, while no send waits.                                   *)
LEMMA AppSendKeeps ==
    ASSUME StackStep, NEW dest \in IP, NEW body \in Echo \cup Datagram,
           AppSend(dest, body)
    PROVE  CallsInv' /\ SentWell' /\ StartsWell /\ calls = <<>>
<1>1. calls = <<>> /\ UNCHANGED <<cache, netVars, rx>>
  BY DEF AppSend, Idle, arpVars
<1>2. /\ <<>> \in Seq(Sends) /\ Len(<<>>) = Len(calls)
      /\ \A n \in 1 .. Len(<<>>) : Backed(<<>>[n])
  BY <1>1
<1>3. ip_send(Send(dest, body, Nothing), cache, <<>>)
  BY DEF AppSend
<1>4. /\ calls' \in Seq(Sends) /\ Len(calls') <= MAX_DEPTH
      /\ \A n \in 1 .. Len(calls') : Backed(calls'[n])
      /\ StartsWell
  BY <1>2, <1>3, StartIsBacked DEF StackStep
<1>5. CallsInv'
  BY <1>1, <1>4, CallsStep DEF StackStep, CallsInv, NetStep
<1>6. ip_send(Send(dest, body, Nothing), cache', <<>>)
  BY <1>1, <1>3
<1> QED
  BY <1>1, <1>4, <1>5, <1>6, StartIsSentWell DEF StackStep, TablesOK, Send

LEMMA ApplicationKeeps ==
    ASSUME StackStep, Application
    PROVE  CallsInv' /\ SentWell' /\ StartsWell /\ calls = <<>>
<1>1. ASSUME NEW dest \in Targets, icmp_send_echo_request(dest)
      PROVE  CallsInv' /\ SentWell' /\ StartsWell /\ calls = <<>>
  <2>1. [kind |-> "echo_request", seq |-> 0] \in Echo
    BY DEF Echo
  <2> QED
    BY <1>1, <2>1, AppSendKeeps DEF icmp_send_echo_request
<1>2. ASSUME NEW s \in SocketId, NEW dest \in Targets, NEW port \in Port,
             udp_sendto(s, dest, port)
      PROVE  CallsInv' /\ SentWell' /\ StartsWell /\ calls = <<>>
  <2>1. sockets[s].local_port \in Port \cup {0}
    BY DEF StackStep, TablesOK, UdpTypeOK, Socket
  <2>2. [kind |-> "udp", src_port |-> sockets[s].local_port,
         dest_port |-> port] \in Datagram
    BY <2>1 DEF Datagram
  <2> QED
    BY <1>2, <2>2, AppSendKeeps DEF udp_sendto
<1>3. CASE AppSocket
  <2>1. calls = <<>> /\ tx' = Nothing /\ UNCHANGED <<netVars, calls, rx>>
    BY <1>3 DEF AppSocket, Idle
  <2>2. CallsInv' /\ StartsWell
    BY <2>1, CallsStep, NoneStarts DEF StackStep, CallsInv, NetStep
  <2> QED
    BY <2>1, <2>2, NoPacketIsSent
<1>4. ASSUME NEW c \in Configs, tcpip_set_ip_config(c)
      PROVE  CallsInv' /\ SentWell' /\ StartsWell /\ calls = <<>>
  <2>1. calls = <<>> /\ UNCHANGED <<calls, rx>> /\ NetStep
    BY <1>4 DEF tcpip_set_ip_config, Idle, NetStep
  <2>2. tx'.type = "arp"
    BY <1>4 DEF tcpip_set_ip_config, Configure, Announce
  <2>3. CallsInv' /\ StartsWell
    BY <2>1, CallsStep, NoneStarts DEF StackStep, CallsInv
  <2> QED
    BY <2>1, <2>2, <2>3, NoPacketIsSent
<1> QED
  BY <1>1, <1>2, <1>3, <1>4 DEF Application

LEMMA StackStepKeeps ==
    CallsInv /\ TablesOK /\ TablesOK' /\ SentWell /\ [StackNext]_stackVars
       => CallsInv' /\ SentWell' /\ StartsWell
<1> SUFFICES ASSUME StackStep, SentWell, [StackNext]_stackVars
             PROVE  CallsInv' /\ SentWell' /\ StartsWell
  BY DEF StackStep
<1>1. CASE UNCHANGED stackVars
  <2>1. UNCHANGED <<claim, netVars, calls, rx, tx>>
    BY <1>1 DEF stackVars, arpVars
  <2>2. CallsInv'
    BY <2>1, CallsStep DEF StackStep, CallsInv, NetStep
  <2>3. SentWell'
    BY <2>1 DEF SentWell, SentToClaimant, AnswersTheirCause, SentIp
  <2>4. StartsWell
    BY <2>1, NoneStarts DEF StackStep, CallsInv
  <2> QED
    BY <2>2, <2>3, <2>4
<1> QED
  BY <1>1, PollKeeps, ResolveKeeps, ApplicationKeeps DEF StackNext
-----------------------------------------------------------------------------
(* What waits is always backed, and what leaves always well addressed.     *)
LEMMA StackInvariant == StackSpec => [](CallsInv /\ SentWell)
<1>1. StackInit => CallsInv /\ SentWell
  BY DEF StackInit, CallsInv, SentWell, SentToClaimant, AnswersTheirCause, SentIp
<1> QED
  BY <1>1, StackStepKeeps, TablesHold, PTL DEF StackSpec

(* The state keeps its types: the calls that wait are never more than the  *)
(* C stack has room for, and their counters never leave their loops.       *)
THEOREM StackTypeCorrect == StackSpec => []StackTypeOK
<1>1. CallsInv /\ TablesOK => StackTypeOK
  BY DEF CallsInv, TablesOK, StackTypeOK
<1> QED
  BY <1>1, StackInvariant, TablesHold, PTL

(* However many receptions have overwritten rx_buffer while it waited, an  *)
(* answer that leaves fits the packet it answers.                          *)
THEOREM AnswersAlwaysFit == StackSpec => []AnswersTheirCause
<1>1. SentWell => AnswersTheirCause
  BY DEF SentWell
<1> QED
  BY <1>1, StackInvariant, PTL

(* No packet leaves to a station that no longer claims the next hop.       *)
THEOREM PacketsReachClaimants == StackSpec => []SentToClaimant
<1>1. SentWell => SentToClaimant
  BY DEF SentWell
<1> QED
  BY <1>1, StackInvariant, PTL

(* A handler's answer never waits for the station it answers, only for     *)
(* what was the gateway when it began.                                     *)
THEOREM AnswersWaitOnlyForGateway == StackSpec => AnswerWaitsForGateway
<1>1. CallsInv /\ SentWell /\ TablesOK /\ TablesOK' /\ [StackNext]_stackVars =>
         [\A n \in 1 .. Len(calls') :
             n > Len(calls) /\ calls'[n].cause # Nothing =>
                 /\ calls'[n].hop = gateway
                 /\ calls'[n].hop # calls'[n].packet.dest]_stackVars
  BY StackStepKeeps DEF StartsWell
<1> QED
  BY <1>1, StackInvariant, TablesHold, PTL DEF StackSpec, AnswerWaitsForGateway

(* A resolution that ends although the hop is known has sent its packet.   *)
THEOREM KnownHopsAreUsed == StackSpec => KnownHopIsUsed
<1>1. CallsInv /\ TablesOK /\ TablesOK' /\ [StackNext]_stackVars =>
         [Len(calls') < Len(calls) /\ InCache(cache, Top.hop) =>
             tx' = IpOut(claim[Top.hop], Top)]_stackVars
  <2> SUFFICES ASSUME StackStep, StackNext, Len(calls') < Len(calls),
                      InCache(cache, Top.hop)
               PROVE  tx' = IpOut(claim[Top.hop], Top)
    BY DEF StackStep
  <2>1. Len(calls) \in Nat /\ calls \in Seq(Sends)
    BY DEF StackStep, CallsInv
  <2>2. ~Application
    <3> SUFFICES ASSUME Application PROVE FALSE
      OBVIOUS
    <3>1. calls = <<>> /\ calls' \in Seq(Sends)
      BY ApplicationKeeps DEF CallsInv
    <3> QED
      BY <3>1
  <2>3. ~eth_poll
    <3> SUFFICES ASSUME eth_poll PROVE FALSE
      OBVIOUS
    <3>1. Polling \in Seq(Sends) /\ Len(Polling) = Len(calls)
      BY PollingTurns DEF StackStep
    <3>2. calls' = Polling \/ \E s : calls' = Append(Polling, s)
      <4>1. CASE \E f \in Frames : UdpDatagram(f)
        BY <4>1 DEF UdpDatagram, EchoBack, dhcp_rx_callback, ip_send
      <4> QED
        BY <4>1 DEF eth_poll, PollEmpty, PollDropped, Quiet, arp_rx_callback,
           Untaken, EchoRequest, EchoAnswer, ip_send
    <3>3. Len(calls') = Len(Polling) \/ Len(calls') = Len(Polling) + 1
      BY <3>1, <3>2
    <3> QED
      BY <2>1, <3>1, <3>3
  <2>4. ~PollAgain
    BY DEF PollAgain
  <2>5. ~AskAgain /\ ~GiveUp
    BY DEF AskAgain, GiveUp
  <2>6. Resolved
    BY <2>2, <2>3, <2>4, <2>5 DEF StackNext, arp_resolve
  <2>7. Lookup(cache, Top.hop) = claim[Top.hop]
    <3>1. \A s \in Slots : cache[s].valid => cache[s].mac = claim[cache[s].ip]
      BY DEF StackStep, TablesOK, FreshMac
    <3> QED
      BY <3>1, LookupIsClaim
  <2> QED
    BY <2>6, <2>7 DEF Resolved, Transmit
<1> QED
  BY <1>1, StackInvariant, TablesHold, PTL DEF StackSpec, KnownHopIsUsed
=============================================================================
