----------------------------- MODULE DhcpProofs -----------------------------
(***************************************************************************)
(* Proofs about the DHCP client, for every set of offers, every timing of  *)
(* retransmissions and every depth of sends inside sends.                  *)
(***************************************************************************)
EXTENDS Dhcp, SequenceTheorems, TLAPS

LEMMA MessageFields ==
    /\ Discover.type # "REQUEST"
    /\ \A o \in Offers : Offered(o).type # "REQUEST"
    /\ \A s \in Servers : Nak(s).type # "REQUEST"
    /\ \A ip \in Ips, s \in Servers :
          /\ Ack(ip, s).type # "REQUEST"
          /\ Request(ip, s).ip = ip /\ Request(ip, s).server = s
BY DEF Discover, Offered, Nak, Ack, Request

LEMMA AreMessages ==
    /\ Discover \in Messages
    /\ \A o \in Offers : Offered(o) \in Messages
    /\ \A s \in Servers : Nak(s) \in Messages
    /\ \A ip \in Ips, s \in Servers :
          Ack(ip, s) \in Messages /\ Request(ip, s) \in Messages
BY DEF Messages

(* A step of the client is one of these; the servers leave it alone and    *)
(* only add messages, none of them a request.                              *)
ClientStep ==
    \/ StartFails /\ dhcp_start
    \/ StartSelecting /\ dhcp_start
    \/ dhcp_stop \/ PollRestart \/ PollResend \/ PollCount
    \/ \E o \in Offers : TakeOffer(o)
    \/ \E ip \in Ips, server \in Servers : TakeAck(ip, server)
    \/ \E server \in Servers : TakeNak(server)
    \/ \E sent \in BOOLEAN : SendReturns(sent)

ServersStep ==
    /\ UNCHANGED <<client, socket, reported, applied, calls>>
    /\ msgs \subseteq msgs'
    /\ \A m \in msgs' \ msgs : m \in Messages /\ m.type # "REQUEST"

LEMMA StepKinds ==
    ASSUME [DhcpNext]_dhcpVars
    PROVE  (ClientStep \/ ServersStep) /\ UNCHANGED careful
<1>1. ASSUME NEW o \in Offers, ServerStep(ServerOffers(o))
      PROVE  ServersStep
  BY <1>1, AreMessages, MessageFields DEF ServerStep, ServerOffers, ServersStep
<1>2. ASSUME NEW ip \in Ips, NEW server \in Servers,
             ServerStep(ServerGrants(ip, server) \/ ServerRefuses(ip, server))
      PROVE  ServersStep
  BY <1>2, AreMessages, MessageFields
     DEF ServerStep, ServerGrants, ServerRefuses, ServersStep
<1>3. CASE UNCHANGED dhcpVars
  BY <1>3 DEF dhcpVars, runVars, ServersStep
<1>4. CASE DhcpNext
  BY <1>1, <1>2, <1>4 DEF DhcpNext, ClientStep, dhcp_start, dhcp_poll, TakeMessage
<1> QED
  BY <1>3, <1>4 DEF dhcpVars

(* A bound client works with its own lease.                                *)
THEOREM LeaseIsApplied == DhcpSpec => []AppliedIsLease
<1>1. DhcpInit => AppliedIsLease
  BY DEF DhcpInit, AppliedIsLease
<1>2. AppliedIsLease /\ [DhcpNext]_dhcpVars => AppliedIsLease'
  <2> SUFFICES ASSUME AppliedIsLease, ClientStep \/ ServersStep
               PROVE  AppliedIsLease'
    BY StepKinds
  <2> QED
    BY DEF AppliedIsLease, ClientStep, ServersStep, StartFails, StartSelecting, dhcp_stop,
       PollRestart, PollResend, PollCount, Unbound, TakeOffer, TakeAck,
       TakeNak, SendReturns, client
<1> QED
  BY <1>1, <1>2, PTL DEF DhcpSpec

(* With an application that starts only a stopped client, the open socket  *)
(* is the client's as long as it is not stopped, and gone when it is.      *)
THEOREM SocketAlwaysFollowsState == DhcpSpec => []SocketFollowsState
<1>1. DhcpInit => SocketFollowsState
  BY DEF DhcpInit, SocketFollowsState
<1>2. SocketFollowsState /\ [DhcpNext]_dhcpVars => SocketFollowsState'
  <2> SUFFICES ASSUME SocketFollowsState, ClientStep \/ ServersStep,
                      UNCHANGED careful, careful
               PROVE  SocketFollowsState'
    BY StepKinds DEF SocketFollowsState
  <2> USE DEF SocketFollowsState
  <2>1. CASE StartFails /\ dhcp_start
    BY <2>1 DEF StartFails, dhcp_start, client
  <2>2. CASE StartSelecting
    BY <2>2 DEF StartSelecting
  <2>3. CASE dhcp_stop
    <3>1. ~(open /\ ~dhcp_socket)
      BY Zenon
    <3>2. state' = "INIT" /\ dhcp_socket' = FALSE /\ open' = FALSE
      BY <2>3, <3>1 DEF dhcp_stop
    <3> QED
      BY <3>2
  <2>4. CASE PollRestart \/ PollResend \/ PollCount
    BY <2>4 DEF PollRestart, PollResend, PollCount, Unbound, socket
  <2>5. CASE \E o \in Offers : TakeOffer(o)
    BY <2>5 DEF TakeOffer, socket
  <2>6. CASE \E ip \in Ips, server \in Servers : TakeAck(ip, server)
    BY <2>6 DEF TakeAck, socket
  <2>7. CASE \E server \in Servers : TakeNak(server)
    BY <2>7 DEF TakeNak, socket
  <2>8. CASE \E sent \in BOOLEAN : SendReturns(sent)
    BY <2>8 DEF SendReturns, client, socket
  <2>9. CASE ServersStep
    BY <2>9 DEF ServersStep, client, socket
  <2> QED
    BY <2>1, <2>2, <2>3, <2>4, <2>5, <2>6, <2>7, <2>8, <2>9 DEF ClientStep
<1> QED
  BY <1>1, <1>2, PTL DEF DhcpSpec
-----------------------------------------------------------------------------
Sends == [msg : Messages, next : {"return", "callback"}]

(* What was sent or is being sent.                                         *)
OnTheirWay == msgs \cup { calls[i].msg : i \in 1 .. Len(calls) }

(* A request names an offer that was made.                                 *)
Backed(ip, server) ==
    \E o \in Offers : Offered(o) \in msgs /\ o.ip = ip /\ o.server = server

(* Not only what is on the wire is backed, but what waits to be sent and   *)
(* what would be sent again.                                               *)
RequestsInv ==
    /\ DhcpTypeOK
    /\ \A m \in OnTheirWay : m.type = "REQUEST" => Backed(m.ip, m.server)
    /\ state = "REQUESTING" => Backed(config.ip, server_ip)

(* A send starts at most one message on its way.                           *)
LEMMA SendThenAdds ==
    ASSUME DhcpTypeOK, NEW msg \in Messages, NEW next \in {"return", "callback"},
           NEW last, SendThen(msg, next, last)
    PROVE  /\ calls' \in Seq(Sends) /\ Len(calls') <= MAX_DEPTH
           /\ msgs \subseteq msgs' /\ msgs' \subseteq Messages
           /\ OnTheirWay' \subseteq OnTheirWay \cup {msg}
           /\ reported' \in {last, state'}
<1> DEFINE send == [msg |-> msg, next |-> next]
<1>1. calls \in Seq(Sends) /\ msgs \subseteq Messages /\ Len(calls) <= MAX_DEPTH
  BY DEF DhcpTypeOK, Sends
<1>2. CASE dhcp_socket' /\ Len(calls) < MAX_DEPTH
  <2>1. calls' = Append(calls, send) /\ reported' = last /\ msgs' = msgs
    BY <1>2 DEF SendThen
  <2>2. send \in Sends /\ send.msg = msg
    BY DEF Sends
  <2> HIDE DEF send
  <2>3. calls' \in Seq(Sends) /\ Len(calls') = Len(calls) + 1
    BY <1>1, <2>1, <2>2
  <2>4. Len(calls') <= MAX_DEPTH
    BY <1>1, <1>2, <2>3, RetryAssumption
  <2>5. \A i \in 1 .. Len(calls') :
           \/ calls'[i] = send
           \/ i \in 1 .. Len(calls) /\ calls'[i] = calls[i]
    BY <1>1, <2>1, <2>2, <2>3
  <2>6. OnTheirWay' \subseteq OnTheirWay \cup {msg}
    BY <2>1, <2>2, <2>5 DEF OnTheirWay
  <2> QED
    BY <1>1, <2>1, <2>3, <2>4, <2>6
<1>3. CASE ~(dhcp_socket' /\ Len(calls) < MAX_DEPTH)
  <2>1. /\ calls' = calls /\ (msgs' = msgs \/ msgs' = msgs \cup {msg})
        /\ reported' \in {last, state'}
    BY <1>3 DEF SendThen, Continue
  <2> QED
    BY <1>1, <2>1 DEF OnTheirWay
<1> QED
  BY <1>2, <1>3

(* A send that returns adds nothing.                                       *)
LEMMA SendReturnsAddsNothing ==
    ASSUME DhcpTypeOK, NEW sent \in BOOLEAN, SendReturns(sent)
    PROVE  /\ calls' \in Seq(Sends) /\ Len(calls') <= MAX_DEPTH
           /\ msgs \subseteq msgs' /\ msgs' \subseteq Messages
           /\ OnTheirWay' \subseteq OnTheirWay
           /\ reported' \in {reported, state'}
           /\ Len(calls) \in Nat \ {0} /\ Len(calls') = Len(calls) - 1
           /\ \A i \in 1 .. Len(calls') : calls'[i] = calls[i]
<1>1. /\ calls \in Seq(Sends) /\ msgs \subseteq Messages
      /\ Len(calls) <= MAX_DEPTH /\ calls # <<>>
  BY DEF DhcpTypeOK, Sends, SendReturns, Idle
<1>2. Len(calls) \in 1 .. Len(calls) /\ Top \in Sends
  BY <1>1 DEF Top
<1>3. Top.msg \in Messages /\ Top.msg \in OnTheirWay
  BY <1>2 DEF Top, OnTheirWay, Sends
<1>4. /\ calls' = SubSeq(calls, 1, Len(calls) - 1)
      /\ msgs' = msgs \/ msgs' = msgs \cup {Top.msg}
      /\ reported' \in {reported, state'}
  BY DEF SendReturns, PacketOf, Continue
<1>5. /\ calls' \in Seq(Sends) /\ Len(calls') = Len(calls) - 1
      /\ \A i \in 1 .. Len(calls') :
            i \in 1 .. Len(calls) /\ calls'[i] = calls[i]
  <2>1. PICK n \in Nat : Len(calls) = n + 1
    <3>1. Len(calls) \in Nat /\ Len(calls) # 0
      BY <1>1
    <3> QED
      BY <3>1, Len(calls) - 1 \in Nat
  <2>2. \A i \in 1 .. n : i \in 1 .. Len(calls) /\ calls[i] \in Sends
    BY <1>1, <2>1
  <2>3. calls' = SubSeq(calls, 1, n)
    BY <1>4, <2>1
  <2>4. /\ calls' \in Seq(Sends)
        /\ Len(calls') = IF 1 <= n THEN n - 1 + 1 ELSE 0
        /\ \A i \in 1 .. n - 1 + 1 : calls'[i] = calls[1 + i - 1]
    BY <2>2, <2>3, SubSeqProperties
  <2>5. n - 1 + 1 = n /\ (IF 1 <= n THEN n - 1 + 1 ELSE 0) = n
    OBVIOUS
  <2>6. \A i \in 1 .. n : 1 + i - 1 = i
    OBVIOUS
  <2>7. Len(calls') = n /\ \A i \in 1 .. n : calls'[i] = calls[i]
    BY <2>4, <2>5, <2>6
  <2> QED
    BY <2>1, <2>2, <2>4, <2>7
<1>6. Len(calls') <= MAX_DEPTH
  BY <1>1, <1>5, RetryAssumption
<1>7. OnTheirWay' \subseteq OnTheirWay
  BY <1>3, <1>4, <1>5 DEF OnTheirWay
<1> QED
  BY <1>1, <1>3, <1>4, <1>5, <1>6, <1>7

(* What is to be shown of a step that starts at most one message.          *)
LEMMA RequestsKept ==
    ASSUME RequestsInv, msgs \subseteq msgs', NEW msg,
           OnTheirWay' \subseteq OnTheirWay \cup {msg},
           msg.type = "REQUEST" => Backed(msg.ip, msg.server)
    PROVE  \A m \in OnTheirWay' :
              m.type = "REQUEST" => Backed(m.ip, m.server)'
BY DEF RequestsInv, Backed

LEMMA CurrentRequestIsBacked ==
    ASSUME RequestsInv, state = "REQUESTING"
    PROVE  /\ CurrentRequest \in Messages
           /\ Backed(CurrentRequest.ip, CurrentRequest.server)
<1>1. config.ip \in Ips /\ server_ip \in Servers
  BY DEF RequestsInv, Backed, Ips, Servers
<1> QED
  BY <1>1, AreMessages, MessageFields DEF RequestsInv, CurrentRequest

(* What a step does to the client's own state, and that it sends nothing   *)
(* that is not backed.                                                     *)
RequestsStep ==
    /\ state' \in {"INIT", "SELECTING", "REQUESTING", "BOUND"}
    /\ config'.ip \in Ips \cup {None} /\ server_ip' \in Servers \cup {None}
    /\ dhcp_socket' \in BOOLEAN /\ open' \in BOOLEAN
    /\ retry_count' \in 0 .. RETRY_LIMIT
    /\ reported' \in {"INIT", "SELECTING", "REQUESTING", "BOUND"}
    /\ calls' \in Seq(Sends) /\ Len(calls') <= MAX_DEPTH
    /\ msgs \subseteq msgs' /\ msgs' \subseteq Messages
    /\ \A m \in OnTheirWay' : m.type = "REQUEST" => Backed(m.ip, m.server)'
    /\ state' = "REQUESTING" => Backed(config'.ip, server_ip')

LEMMA RequestsStepSuffices == RequestsStep => RequestsInv'
BY DEF RequestsStep, RequestsInv, DhcpTypeOK, Sends, Backed

(* The steps that send.                                                    *)
LEMMA SendKeepsRequests ==
    ASSUME RequestsInv, NEW msg \in Messages,
           NEW next \in {"return", "callback"},
           NEW last \in {"INIT", "SELECTING", "REQUESTING", "BOUND"},
           SendThen(msg, next, last),
           msg.type = "REQUEST" => Backed(msg.ip, msg.server),
           state' \in {"INIT", "SELECTING", "REQUESTING", "BOUND"},
           config'.ip \in Ips \cup {None}, server_ip' \in Servers \cup {None},
           dhcp_socket' \in BOOLEAN, open' \in BOOLEAN,
           retry_count' \in 0 .. RETRY_LIMIT,
           state' = "REQUESTING" => Backed(config'.ip, server_ip')
    PROVE  RequestsStep
<1>1. /\ calls' \in Seq(Sends) /\ Len(calls') <= MAX_DEPTH
      /\ msgs \subseteq msgs' /\ msgs' \subseteq Messages
      /\ OnTheirWay' \subseteq OnTheirWay \cup {msg}
      /\ reported' \in {last, state'}
  BY SendThenAdds DEF RequestsInv
<1>2. \A m \in OnTheirWay' : m.type = "REQUEST" => Backed(m.ip, m.server)'
  BY <1>1, RequestsKept
<1> QED
  BY <1>1, <1>2 DEF RequestsStep

(* The steps that send nothing.                                            *)
LEMMA SilenceKeepsRequests ==
    ASSUME RequestsInv, UNCHANGED <<calls, msgs>>,
           state' \in {"INIT", "SELECTING", "REQUESTING", "BOUND"},
           reported' \in {"INIT", "SELECTING", "REQUESTING", "BOUND"},
           config'.ip \in Ips \cup {None}, server_ip' \in Servers \cup {None},
           dhcp_socket' \in BOOLEAN, open' \in BOOLEAN,
           retry_count' \in 0 .. RETRY_LIMIT,
           state' = "REQUESTING" => Backed(config'.ip, server_ip')
    PROVE  RequestsStep
BY DEF RequestsInv, RequestsStep, DhcpTypeOK, Sends, OnTheirWay, Backed

LEMMA ClientStepKeepsRequests ==
    ASSUME RequestsInv, ClientStep
    PROVE  RequestsStep
<1> USE DEF RequestsInv, DhcpTypeOK
<1>1. CASE StartFails
  BY <1>1, SilenceKeepsRequests DEF StartFails, client
<1>2. CASE StartSelecting
  BY <1>2, SendKeepsRequests, AreMessages, MessageFields, RetryAssumption
     DEF StartSelecting
<1>3. CASE dhcp_stop
  <2>1. config'.ip = None
    BY <1>3 DEF dhcp_stop, Blank
  <2> QED
    BY <1>3, <2>1, SilenceKeepsRequests DEF dhcp_stop
<1>4. CASE PollRestart
  BY <1>4, SendKeepsRequests, AreMessages, MessageFields, RetryAssumption
     DEF PollRestart, socket
<1>5. CASE PollResend
  <2>1. retry_count' \in 0 .. RETRY_LIMIT
    BY <1>5, RetryAssumption DEF PollResend, RoundOver
  <2>2. PICK msg : /\ msg = IF state = "SELECTING" THEN Discover ELSE CurrentRequest
                   /\ SendThen(msg, "return", reported)
    BY <1>5 DEF PollResend
  <2>3. msg \in Messages /\ (msg.type = "REQUEST" => Backed(msg.ip, msg.server))
    BY <1>5, <2>2, CurrentRequestIsBacked, AreMessages, MessageFields
       DEF PollResend, Unbound
  <2> QED
    BY <1>5, <2>1, <2>2, <2>3, SendKeepsRequests DEF PollResend, socket
<1>6. CASE PollCount
  <2>1. retry_count' \in 0 .. RETRY_LIMIT
    BY <1>6, RetryAssumption DEF PollCount, RoundOver
  <2> QED
    BY <1>6, <2>1, SilenceKeepsRequests DEF PollCount, socket
<1>7. ASSUME NEW o \in Offers, TakeOffer(o)
      PROVE  RequestsStep
  <2>1. config'.ip = o.ip /\ server_ip' = o.server /\ o.ip \in Ips /\ o.server \in Servers
    BY <1>7 DEF TakeOffer, OfferConfig, Ips, Servers
  <2>2. Backed(o.ip, o.server)
    BY <1>7 DEF TakeOffer, Backed
  <2>3. /\ Request(o.ip, o.server) \in Messages
        /\ Request(o.ip, o.server).ip = o.ip
        /\ Request(o.ip, o.server).server = o.server
    BY <2>1, AreMessages, MessageFields
  <2>4. SendThen(Request(o.ip, o.server), "callback", reported)
    BY <1>7, <2>1 DEF TakeOffer
  <2> QED
    BY <1>7, <2>1, <2>2, <2>3, <2>4, SendKeepsRequests, RetryAssumption
       DEF TakeOffer, socket
<1>8. ASSUME NEW ip \in Ips, NEW server \in Servers, TakeAck(ip, server)
      PROVE  RequestsStep
  BY <1>8, SilenceKeepsRequests DEF TakeAck, socket
<1>9. ASSUME NEW server \in Servers, TakeNak(server)
      PROVE  RequestsStep
  BY <1>9, SendKeepsRequests, AreMessages, MessageFields, RetryAssumption
     DEF TakeNak, socket
<1>10. ASSUME NEW sent \in BOOLEAN, SendReturns(sent)
       PROVE  RequestsStep
  <2>1. /\ calls' \in Seq(Sends) /\ Len(calls') <= MAX_DEPTH
        /\ msgs \subseteq msgs' /\ msgs' \subseteq Messages
        /\ OnTheirWay' \subseteq OnTheirWay
        /\ reported' \in {reported, state'}
    BY <1>10, SendReturnsAddsNothing
  <2>2. UNCHANGED <<client, socket>>
    BY <1>10 DEF SendReturns
  <2> QED
    BY <2>1, <2>2 DEF RequestsStep, Backed, client, socket
<1> QED
  BY <1>1, <1>2, <1>3, <1>4, <1>5, <1>6, <1>7, <1>8, <1>9, <1>10 DEF ClientStep

LEMMA ServersKeepRequests == ASSUME RequestsInv, ServersStep PROVE RequestsInv'
BY DEF RequestsInv, ServersStep, DhcpTypeOK, OnTheirWay, Backed, client, socket

LEMMA RequestsInvariant == DhcpSpec => []RequestsInv
<1>1. DhcpInit => RequestsInv
  <2> SUFFICES ASSUME DhcpInit PROVE RequestsInv
    OBVIOUS
  <2>1. calls = <<>> /\ msgs = {} /\ OnTheirWay = {}
    BY DEF DhcpInit, OnTheirWay
  <2>2. calls \in Seq(Sends) /\ Len(calls) <= MAX_DEPTH
    BY <2>1, RetryAssumption
  <2>3. config.ip = None /\ retry_count \in 0 .. RETRY_LIMIT
    BY RetryAssumption DEF DhcpInit, Blank
  <2> QED
    BY <2>1, <2>2, <2>3 DEF DhcpInit, RequestsInv, DhcpTypeOK, Sends
<1>2. RequestsInv /\ [DhcpNext]_dhcpVars => RequestsInv'
  BY StepKinds, ClientStepKeepsRequests, RequestsStepSuffices, ServersKeepRequests
<1> QED
  BY <1>1, <1>2, PTL DEF DhcpSpec

(* Every REQUEST on the wire names a server and an address that this       *)
(* server offered, though it may leave long after it was built, and later  *)
(* offers and refusals were handled meanwhile.                             *)
THEOREM RequestsAreBacked == DhcpSpec => []RequestsNameAnOffer
<1>1. RequestsInv => RequestsNameAnOffer
  BY DEF RequestsInv, RequestsNameAnOffer, OnTheirWay, Backed
<1> QED
  BY <1>1, RequestsInvariant, PTL
-----------------------------------------------------------------------------
(* What the application knows.  A state_callback is due while a send that  *)
(* it follows is under way.                                                *)
CallbackDue == \E i \in 1 .. Len(calls) : calls[i].next = "callback"

Told ==
    \/ reported = state
    \/ state = "INIT"
    \/ state = "SELECTING" /\ reported = "REQUESTING"

ReportInv == Told \/ CallbackDue

LEMMA SendThenReports ==
    ASSUME calls \in Seq(Sends), NEW msg \in Messages,
           NEW next \in {"return", "callback"}, NEW last, SendThen(msg, next, last)
    PROVE  /\ CallbackDue => CallbackDue'
           /\ next = "return" => reported' = last
           /\ next = "callback" => CallbackDue' \/ reported' = state'
<1> DEFINE send == [msg |-> msg, next |-> next]
<1>1. CASE dhcp_socket' /\ Len(calls) < MAX_DEPTH
  <2>1. calls' = Append(calls, send) /\ reported' = last
    BY <1>1 DEF SendThen
  <2>2. send \in Sends /\ send.next = next
    BY DEF Sends
  <2> HIDE DEF send
  <2>3. /\ Len(calls') = Len(calls) + 1 /\ Len(calls) \in Nat
        /\ calls'[Len(calls) + 1] = send
        /\ \A i \in 1 .. Len(calls) : calls'[i] = calls[i]
    BY <2>1, <2>2
  <2>4. CallbackDue => CallbackDue'
    BY <2>3 DEF CallbackDue
  <2>5. next = "callback" => CallbackDue'
    BY <2>2, <2>3 DEF CallbackDue
  <2> QED
    BY <2>1, <2>4, <2>5
<1>2. CASE ~(dhcp_socket' /\ Len(calls) < MAX_DEPTH)
  BY <1>2 DEF SendThen, Continue, CallbackDue
<1> QED
  BY <1>1, <1>2

LEMMA SendReturnsReports ==
    ASSUME DhcpTypeOK, NEW sent \in BOOLEAN, SendReturns(sent)
    PROVE  \/ reported' = state'
           \/ reported' = reported /\ (CallbackDue => CallbackDue')
<1>1. /\ Len(calls) \in Nat \ {0} /\ Len(calls') = Len(calls) - 1
      /\ \A i \in 1 .. Len(calls') : calls'[i] = calls[i]
  BY SendReturnsAddsNothing
<1>2. CASE calls[Len(calls)].next = "callback"
  BY <1>2 DEF SendReturns, Continue, Top
<1>3. CASE calls[Len(calls)].next # "callback"
  <2>1. reported' = reported
    BY <1>3 DEF SendReturns, Continue, Top
  <2>2. ASSUME NEW i \in 1 .. Len(calls), calls[i].next = "callback"
        PROVE  CallbackDue'
    <3>1. i # Len(calls)
      BY <1>3, <2>2
    <3>2. i \in 1 .. Len(calls')
      BY <1>1, <3>1
    <3> QED
      BY <1>1, <2>2, <3>2 DEF CallbackDue
  <2> QED
    BY <2>1, <2>2 DEF CallbackDue
<1> QED
  BY <1>2, <1>3

LEMMA ReportStep ==
    ASSUME RequestsInv, ReportInv, ClientStep \/ ServersStep
    PROVE  ReportInv'
<1>1. calls \in Seq(Sends) /\ DhcpTypeOK
  BY DEF RequestsInv, DhcpTypeOK, Sends
<1>2. ASSUME UNCHANGED <<state, reported, calls>>
      PROVE  ReportInv'
  BY <1>2 DEF ReportInv, Told, CallbackDue
<1>3. CASE (StartFails /\ dhcp_start) \/ PollCount \/ ServersStep
  BY <1>2, <1>3 DEF StartFails, PollCount, ServersStep, client
<1>4. CASE StartSelecting
  <2>1. reported' = "SELECTING" /\ state' = "SELECTING"
    BY <1>1, <1>4, SendThenReports, AreMessages DEF StartSelecting
  <2> QED
    BY <2>1 DEF ReportInv, Told
<1>5. CASE dhcp_stop
  BY <1>5 DEF dhcp_stop, ReportInv, Told
<1>6. CASE PollRestart
  <2>1. reported' = reported /\ state' = "SELECTING"
    BY <1>1, <1>6, SendThenReports, AreMessages DEF PollRestart
  <2>2. ~CallbackDue
    BY <1>6 DEF PollRestart, Idle, CallbackDue
  <2> QED
    BY <1>6, <2>1, <2>2 DEF ReportInv, Told, PollRestart, Unbound
<1>7. CASE PollResend
  <2>1. PICK msg \in Messages : SendThen(msg, "return", reported)
    BY <1>7, AreMessages, CurrentRequestIsBacked DEF PollResend, Unbound
  <2>2. reported' = reported /\ state' = state /\ (CallbackDue => CallbackDue')
    BY <1>1, <1>7, <2>1, SendThenReports DEF PollResend
  <2> QED
    BY <2>2 DEF ReportInv, Told
<1>8. ASSUME NEW o \in Offers, TakeOffer(o)
      PROVE  ReportInv'
  <2>1. Request(config'.ip, server_ip') \in Messages
    BY <1>8, AreMessages DEF TakeOffer, OfferConfig, Ips, Servers
  <2>2. CallbackDue' \/ reported' = state'
    BY <1>1, <1>8, <2>1, SendThenReports DEF TakeOffer
  <2> QED
    BY <2>2 DEF ReportInv, Told
<1>9. ASSUME NEW ip \in Ips, NEW server \in Servers, TakeAck(ip, server)
      PROVE  ReportInv'
  BY <1>9 DEF TakeAck, ReportInv, Told
<1>10. ASSUME NEW server \in Servers, TakeNak(server)
       PROVE  ReportInv'
  <2>1. CallbackDue' \/ reported' = state'
    BY <1>1, <1>10, AreMessages, SendThenReports DEF TakeNak
  <2> QED
    BY <2>1 DEF ReportInv, Told
<1>11. ASSUME NEW sent \in BOOLEAN, SendReturns(sent)
       PROVE  ReportInv'
  <2>1. state' = state
    BY <1>11 DEF SendReturns, client
  <2> QED
    BY <1>1, <1>11, <2>1, SendReturnsReports DEF ReportInv, Told
<1> QED
  BY <1>3, <1>4, <1>5, <1>6, <1>7, <1>8, <1>9, <1>10, <1>11 DEF ClientStep

(* When no call is under way the application has been told the client's    *)
(* state, but for a stop and for a round that dhcp_poll gave up.  Inside   *)
(* the calls it need not have been; then the callback is still due, and    *)
(* reports the state of its own moment, which is why nested messages do no *)
(* harm.                                                                   *)
THEOREM StateIsAlwaysReported == DhcpSpec => []StateIsReported
<1>1. DhcpInit => ReportInv
  BY DEF DhcpInit, ReportInv, Told
<1>2. RequestsInv /\ ReportInv /\ [DhcpNext]_dhcpVars => ReportInv'
  BY StepKinds, ReportStep
<1>3. ReportInv => StateIsReported
  BY DEF ReportInv, Told, CallbackDue, StateIsReported, Idle
<1> QED
  BY <1>1, <1>2, <1>3, RequestsInvariant, PTL DEF DhcpSpec
=============================================================================
