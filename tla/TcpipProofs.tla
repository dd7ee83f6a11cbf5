---------------------------- MODULE TcpipProofs ----------------------------
(***************************************************************************)
(* Proofs about the life of the stack, for every size of its tables and    *)
(* every choice of layers: what the cache and the pool keep by themselves  *)
(* they keep in the stack, and what the stack adds to it.                  *)
(***************************************************************************)
EXTENDS Tcpip, TableProofs

(* dhcp_start takes the first free socket, binds it and gives it its       *)
(* callback.  It asked first whether the port is taken.                    *)
LEMMA DhcpTakesOneSlot ==
    ASSUME UdpTypeOK, DhcpOpens
    PROVE  /\ dhcpSocket' \in SocketId /\ ~sockets[dhcpSocket'].in_use
           /\ Rewrites(dhcpSocket')
           /\ sockets'[dhcpSocket'].in_use
           /\ sockets'[dhcpSocket'].local_port = DhcpPort
           /\ sockets'[dhcpSocket'].rx_callback = DhcpCallback
<1> DEFINE s == First(FreeSockets)
           new == [Zeroed EXCEPT !.in_use = TRUE, !.local_port = DhcpPort,
                                 !.rx_callback = DhcpCallback]
<1>1. s \in FreeSockets
  BY ScanFindsSocket DEF DhcpOpens, CanOpen, FreeSockets
<1>2. s \in SocketId /\ ~sockets[s].in_use
  BY <1>1 DEF FreeSockets
<1>3. /\ sockets' = [sockets EXCEPT ![s] = new] /\ dhcpSocket' = s
      /\ ~PortTaken(s, DhcpPort)
  BY DEF DhcpOpens, CanOpen
<1>4. /\ new \in Socket /\ new.in_use
      /\ new.local_port = DhcpPort /\ new.rx_callback = DhcpCallback
  BY LifeAssumption DEF Zeroed, Socket
<1> HIDE DEF s, new
<1>5. sockets'[s] = new
  BY <1>2, <1>3 DEF UdpTypeOK
<1> QED
  BY <1>2, <1>3, <1>4, <1>5 DEF Rewrites

(* The steps of the stack are steps of its cache and of its pool.          *)
LEMMA StepOfCache == [TcpipNext]_tcpipVars => [ArpNext]_arpVars
<1> SUFFICES ASSUME [TcpipNext]_tcpipVars PROVE [ArpNext]_arpVars
  OBVIOUS
<1>1. ASSUME NEW d \in BOOLEAN, NEW c \in Configs, tcpip_init(d, c)
      PROVE  [ArpNext]_arpVars
  BY <1>1 DEF tcpip_init, Refuse, Accept, InitArp, ArpNext
<1>2. CASE tcpip_shutdown
  BY <1>2 DEF tcpip_shutdown, ArpNext
<1>3. CASE dhcp_start \/ dhcp_stop \/ AppCall
  BY <1>3 DEF dhcp_start, dhcp_stop, AppCall
<1>4. CASE Receive
  <2>1. PICK ip \in Addr, mac \in Mac : Learn(ip, mac)
    BY <1>4 DEF Receive, ReceiveArp, ReceiveUdp
  <2> QED
    BY <2>1, LifeAssumption DEF Learn, ArpNext
<1>5. CASE UNCHANGED tcpipVars
  BY <1>5 DEF tcpipVars
<1> QED
  BY <1>1, <1>2, <1>3, <1>4, <1>5 DEF TcpipNext

LifeTypeOK ==
    /\ ArpTypeOK /\ UdpTypeOK
    /\ dhcpSocket \in SocketId \cup {Nobody}
    /\ apps \subseteq SocketId

LEMMA StepOfPool ==
    LifeTypeOK /\ [TcpipNext]_tcpipVars => UdpTypeOK' /\ PoolStep
<1> SUFFICES ASSUME LifeTypeOK, [TcpipNext]_tcpipVars
             PROVE  UdpTypeOK' /\ PoolStep
  OBVIOUS
<1> USE DEF LifeTypeOK
<1>1. CASE [UdpNext]_udpVars
  BY <1>1, UdpTypeStep, StepShape
<1>2. CASE DhcpOpens
  <2>1. PoolStep
    BY <1>2, DhcpTakesOneSlot DEF PoolStep
  <2> QED
    BY <1>2, <2>1, TableKept DEF UdpTypeOK, DhcpOpens
<1>3. ASSUME NEW d \in BOOLEAN, NEW c \in Configs, tcpip_init(d, c)
      PROVE  [UdpNext]_udpVars
  BY <1>3 DEF tcpip_init, Refuse, Accept, InitUdp, UdpNext
<1>4. ASSUME CloseDhcp \/ UNCHANGED udpVars
      PROVE  [UdpNext]_udpVars
  BY <1>4 DEF CloseDhcp, UdpNext
<1>5. CASE tcpip_shutdown \/ dhcp_stop
  BY <1>1, <1>4, <1>5 DEF tcpip_shutdown, dhcp_stop
<1>6. CASE dhcp_start
  BY <1>1, <1>2, <1>6 DEF dhcp_start, DhcpCannot
<1>7. ASSUME AppCall
      PROVE  [UdpNext]_udpVars
  <2>1. CASE AppCreate
    BY <2>1 DEF AppCreate, UdpNext
  <2>2. ASSUME NEW s \in apps, AppUse(s) \/ AppClose(s)
        PROVE  [UdpNext]_udpVars
    BY <2>2 DEF AppUse, AppClose, UdpNext
  <2> QED
    BY <1>7, <2>1, <2>2 DEF AppCall
<1>8. ASSUME Receive
      PROVE  [UdpNext]_udpVars
  <2>1. \/ UNCHANGED udpVars
        \/ \E ip \in Addr, src_port \in Port, dest_port \in Port :
              udp_rx_callback(ip, src_port, dest_port)
    BY <1>8 DEF Receive, ReceiveArp, ReceiveUdp
  <2> QED
    BY <2>1 DEF UdpNext
<1>9. CASE UNCHANGED tcpipVars
  BY <1>1, <1>9 DEF tcpipVars
<1> QED
  BY <1>1, <1>3, <1>5, <1>6, <1>7, <1>8, <1>9 DEF TcpipNext

LEMMA LifeTypeStep == LifeTypeOK /\ [TcpipNext]_tcpipVars => LifeTypeOK'
<1> SUFFICES ASSUME LifeTypeOK, [TcpipNext]_tcpipVars PROVE LifeTypeOK'
  OBVIOUS
<1>1. ArpTypeOK' /\ UdpTypeOK'
  BY StepOfCache, ArpTypeStep, StepOfPool DEF LifeTypeOK
<1>2. dhcpSocket' \in SocketId \cup {Nobody} /\ apps' \subseteq SocketId
  <2> USE DEF LifeTypeOK
  <2>1. ASSUME NEW d \in BOOLEAN, NEW c \in Configs, tcpip_init(d, c)
        PROVE  dhcpSocket' \in SocketId \cup {Nobody} /\ apps' \subseteq SocketId
    BY <2>1 DEF tcpip_init, Refuse, Accept, InitUdp, dhcpVars
  <2>2. CASE tcpip_shutdown \/ dhcp_stop
    BY <2>2 DEF tcpip_shutdown, dhcp_stop, CloseDhcp, dhcpVars
  <2>3. CASE dhcp_start
    BY <2>3, DhcpTakesOneSlot DEF dhcp_start, DhcpCannot
  <2>4. CASE AppCall
    <3>1. First(FreeSockets) \in SocketId \/ FreeSockets = {}
      BY ScanFindsSocket DEF FreeSockets
    <3> QED
      BY <2>4, <3>1 DEF AppCall, AppCreate, AppUse, AppClose,
         udp_socket_create, dhcpVars
  <2>5. CASE Receive
    BY <2>5 DEF Receive, ReceiveArp, ReceiveUdp, dhcpVars
  <2>6. CASE UNCHANGED tcpipVars
    BY <2>6 DEF tcpipVars, dhcpVars
  <2> QED
    BY <2>1, <2>2, <2>3, <2>4, <2>5, <2>6 DEF TcpipNext
<1> QED
  BY <1>1, <1>2 DEF LifeTypeOK

LEMMA LifeTypeCorrect == TcpipSpec => []LifeTypeOK
<1>1. TcpipInit => LifeTypeOK
  BY Blank DEF TcpipInit, ArpInit, UdpInit, LifeTypeOK, ArpTypeOK, Cleared, UdpTypeOK
<1> QED
  BY <1>1, LifeTypeStep, PTL DEF TcpipSpec
-----------------------------------------------------------------------------
(* What the cache and the pool promise holds through any number of lives.  *)
THEOREM LifeKeepsPorts == TcpipSpec => []UniquePort
<1>1. TcpipInit => UniquePort
  BY Blank DEF TcpipInit, UdpInit, UniquePort
<1>2. LifeTypeOK /\ UniquePort /\ [TcpipNext]_tcpipVars => UniquePort'
  BY StepOfPool, UniquenessKept DEF LifeTypeOK
<1> QED
  BY <1>1, <1>2, LifeTypeCorrect, PTL DEF TcpipSpec

(* Starts, refused starts and shutdowns do to the cache what its own       *)
(* specification allows: the theorems on the cache hold in every life.     *)
THEOREM LifeRunsCache == TcpipSpec => ArpSpec
<1>1. TcpipInit => ArpInit
  BY DEF TcpipInit
<1> QED
  BY <1>1, StepOfCache, PTL DEF TcpipSpec, ArpSpec

(* The registry of ports is kept through any number of lives: no start,    *)
(* refused start or shutdown moves a port from one holder to another, and  *)
(* the DHCP client takes its port only when nobody holds it.               *)
THEOREM LifeImplementsRegistry == TcpipSpec => ImplementsRegistry
<1>1. TcpipInit => Registry!RegInit
  <2> SUFFICES ASSUME TcpipInit PROVE Registry!RegInit
    OBVIOUS
  <2>1. \A port \in Port : BoundTo(port) = {}
    BY Blank DEF TcpipInit, UdpInit, BoundTo
  <2> QED
    BY <2>1 DEF Registry!RegInit
<1>2. LifeTypeOK /\ UniquePort /\ UniquePort' /\ [TcpipNext]_tcpipVars
         => [Registry!RegNext]_Holders
  BY RegistryStep, StepOfPool DEF LifeTypeOK
<1> QED
  BY <1>1, <1>2, LifeTypeCorrect, LifeKeepsPorts, PTL
     DEF TcpipSpec, ImplementsRegistry, Registry!RegSpec, Holders, HolderOf

(* A stack initialised with ARP holds no address it learned before that.   *)
(* Frames may be received, and addresses learned, after a shutdown: it is  *)
(* the start that empties the cache, and a refused one does not count.     *)
THEOREM CacheIsOfThisLife == TcpipSpec => []CacheOfThisLife
<1>1. TcpipInit => CacheOfThisLife
  BY DEF TcpipInit, CacheOfThisLife
<1>2. LifeTypeOK /\ CacheOfThisLife /\ [TcpipNext]_tcpipVars => CacheOfThisLife'
  <2> SUFFICES ASSUME LifeTypeOK, CacheOfThisLife, [TcpipNext]_tcpipVars,
                      initialized', Enabled(layers', "arp")
               PROVE  Known(cache') \subseteq learned'
    BY DEF CacheOfThisLife
  <2>1. ASSUME NEW d \in BOOLEAN, NEW c \in Configs, tcpip_init(d, c)
        PROVE  Known(cache') \subseteq learned'
    <3>1. CASE Refuse(d, c)
      BY <3>1 DEF Refuse, CacheOfThisLife, arpVars
    <3>2. CASE Accept(d, c)
      <4>1. arp_cache_flush
        BY <3>2 DEF Accept, InitArp
      <4>2. \A s \in Slots : ~cache'[s].valid
        BY <4>1, Fields DEF arp_cache_flush, Cleared
      <4> QED
        BY <4>2 DEF Known, InCache, Holding
    <3> QED
      BY <2>1, <3>1, <3>2 DEF tcpip_init
  <2>2. CASE UNCHANGED <<cache, learned, initialized, layers>>
    BY <2>2 DEF CacheOfThisLife
  <2>3. CASE Receive
    <3>1. PICK ip \in Addr, mac \in Mac : Learn(ip, mac)
      BY <2>3 DEF Receive, ReceiveArp, ReceiveUdp
    <3>2. Known(cache) \subseteq learned /\ learned' = learned \cup {ip}
      <4>1. UNCHANGED <<initialized, layers>>
        BY <2>3 DEF Receive, ReceiveArp, ReceiveUdp, lifeVars
      <4> QED
        BY <3>1, <4>1 DEF CacheOfThisLife, Learn
    <3>3. ASSUME NEW i \in Known(cache'), i # ip PROVE i \in Known(cache)
      <4>1. PICK s \in Slots : cache'[s].valid /\ cache'[s].ip = i
        BY <3>3 DEF Known, InCache, Holding
      <4>2. cache'[s] = IF s = SlotFor(cache, ip)
                        THEN Entry(ip, mac, ARP_CACHE_TIMEOUT) ELSE cache[s]
        BY <3>1, CacheAfterAdd, LifeAssumption DEF Learn, LifeTypeOK
      <4>3. cache'[s] = cache[s]
        BY <3>3, <4>1, <4>2, Fields, LifeAssumption
      <4> QED
        BY <3>3, <4>1, <4>3 DEF Known, InCache, Holding
    <3> QED
      BY <3>2, <3>3
  <2>4. CASE tcpip_shutdown
    BY <2>4 DEF tcpip_shutdown
  <2>5. CASE dhcp_start \/ dhcp_stop \/ AppCall
    BY <2>2, <2>5 DEF dhcp_start, dhcp_stop, AppCall, lifeVars, arpVars
  <2>6. CASE UNCHANGED tcpipVars
    BY <2>2, <2>6 DEF tcpipVars, lifeVars, arpVars
  <2> QED
    BY <2>1, <2>3, <2>4, <2>5, <2>6 DEF TcpipNext
<1> QED
  BY <1>1, <1>2, LifeTypeCorrect, PTL DEF TcpipSpec

(* DHCP has a socket only in a stack that runs: a shutdown closes it, or   *)
(* is seen to leave it.                                                    *)
DhcpInLife == ~stranded /\ dhcpSocket # Nobody => initialized

Open(s) == sockets[s].in_use
OwnersInv == LifeTypeOK /\ SocketsHaveOwners /\ DhcpInLife

(* What a call does to the one socket it is about.                         *)
LEMMA CreateOpens ==
    ASSUME LifeTypeOK, udp_socket_create
    PROVE  /\ First(FreeSockets) \in SocketId /\ ~Open(First(FreeSockets))
           /\ \A t \in SocketId : IF t = First(FreeSockets) THEN Open(t)'
                                  ELSE sockets'[t] = sockets[t]
<1>1. First(FreeSockets) \in FreeSockets
  BY ScanFindsSocket DEF udp_socket_create, FreeSockets
<1> QED
  BY <1>1, Blank DEF udp_socket_create, FreeSockets, LifeTypeOK, UdpTypeOK, Open

LEMMA UseKeepsOpen ==
    ASSUME LifeTypeOK, NEW s \in SocketId, AppUse(s)
    PROVE  /\ Open(s) /\ Open(s)'
           /\ \A t \in SocketId \ {s} : sockets'[t] = sockets[t]
<1>1. Open(s)
  BY DEF AppUse, udp_socket_bind, udp_socket_connect,
     udp_socket_set_rx_callback, Open
<1>2. /\ sockets' = [sockets EXCEPT ![s] = sockets'[s]]
      /\ sockets'[s].in_use = sockets[s].in_use
  <2>1. sockets \in [SocketId -> Socket] /\ sockets[s] \in Socket
    BY DEF LifeTypeOK, UdpTypeOK
  <2>2. CASE \E port \in Port : udp_socket_bind(s, port)
    BY <2>1, <2>2 DEF udp_socket_bind, Socket
  <2>3. CASE \E ip \in Addr, port \in Port : udp_socket_connect(s, ip, port)
    BY <2>1, <2>3 DEF udp_socket_connect, Socket
  <2>4. CASE \E cb \in Callback : udp_socket_set_rx_callback(s, cb)
    BY <2>1, <2>4 DEF udp_socket_set_rx_callback, Socket
  <2> QED
    BY <2>2, <2>3, <2>4 DEF AppUse
<1> QED
  BY <1>1, <1>2 DEF LifeTypeOK, UdpTypeOK, Open

LEMMA CloseCloses ==
    ASSUME LifeTypeOK, NEW s \in SocketId, udp_socket_close(s)
    PROVE  \A t \in SocketId : IF t = s THEN ~Open(t)'
                               ELSE sockets'[t] = sockets[t]
BY Blank DEF udp_socket_close, LifeTypeOK, UdpTypeOK, Open

(* Stopping DHCP closes the socket it has, and no other.                   *)
LEMMA StopClosesItsOwn ==
    ASSUME OwnersInv, ~stranded, CloseDhcp
    PROVE  /\ \A s \in SocketId : Open(s)' <=> s \in apps
           /\ dhcpSocket' = Nobody /\ dhcpRuns' = FALSE
<1> USE DEF OwnersInv
<1>1. CASE dhcpSocket = Nobody
  BY <1>1 DEF CloseDhcp, udpVars, SocketsHaveOwners, Open
<1>2. CASE dhcpSocket # Nobody
  <2>1. /\ dhcpSocket \in SocketId /\ udp_socket_close(dhcpSocket)
        /\ dhcpSocket \notin apps
    BY <1>2 DEF CloseDhcp, SocketsHaveOwners, LifeTypeOK
  <2>2. \A t \in SocketId : IF t = dhcpSocket THEN ~Open(t)'
                            ELSE sockets'[t] = sockets[t]
    BY <2>1, CloseCloses
  <2>3. \A t \in SocketId : Open(t) <=> t \in apps \/ t = dhcpSocket
    BY <1>2 DEF SocketsHaveOwners, Open
  <2> QED
    BY <2>1, <2>2, <2>3 DEF CloseDhcp, Open
<1> QED
  BY <1>1, <1>2

(* The owners after a step that leaves DHCP without a socket.              *)
LEMMA OwnersWithoutDhcp ==
    ASSUME \A s \in SocketId : Open(s)' <=> s \in apps', LifeTypeOK',
           dhcpSocket' = Nobody, dhcpRuns' = FALSE
    PROVE  SocketsHaveOwners' /\ DhcpInLife'
BY NobodyAssumption DEF SocketsHaveOwners, DhcpInLife, LifeTypeOK, Open, SocketId

(* The owners after a step of the application's: DHCP's socket is as it    *)
(* was.                                                                    *)
LEMMA OwnersAfterCall ==
    ASSUME OwnersInv, LifeTypeOK', ~stranded,
           UNCHANGED <<initialized, stranded, dhcpSocket, dhcpRuns>>,
           \A s \in SocketId \ {dhcpSocket} : Open(s)' <=> s \in apps',
           dhcpSocket \in SocketId =>
               sockets'[dhcpSocket] = sockets[dhcpSocket] /\ dhcpSocket \notin apps'
    PROVE  SocketsHaveOwners' /\ DhcpInLife'
<1> USE DEF OwnersInv
<1>1. DhcpInLife'
  BY DEF DhcpInLife
<1>2. CASE dhcpSocket = Nobody
  BY <1>1, <1>2, NobodyAssumption, OwnersWithoutDhcp
     DEF SocketsHaveOwners, SocketId
<1>3. CASE dhcpSocket # Nobody
  <2>1. dhcpSocket \in SocketId /\ Open(dhcpSocket)
    BY <1>3 DEF SocketsHaveOwners, LifeTypeOK, Open
  <2>2. \A s \in SocketId : Open(s)' <=> s \in apps' \cup {dhcpSocket}
    BY <2>1 DEF Open
  <2>3. { s \in SocketId : sockets'[s].in_use } = apps' \cup {dhcpSocket}
    BY <2>1, <2>2 DEF Open, LifeTypeOK
  <2>4. /\ sockets'[dhcpSocket].local_port = DhcpPort
        /\ sockets'[dhcpSocket].rx_callback = DhcpCallback
        /\ dhcpRuns' = (dhcpSocket' # Nobody)
    BY <1>3, <2>1 DEF SocketsHaveOwners
  <2> QED
    BY <1>1, <1>3, <2>1, <2>3, <2>4 DEF SocketsHaveOwners
<1> QED
  BY <1>2, <1>3

(* Every open socket has one owner that knows it as open, and DHCP's is on *)
(* its port, over any number of starts with any layers, refused ones       *)
(* included, until a shutdown leaves the DHCP client running.              *)
THEOREM EverySocketHasAnOwner == TcpipSpec => []SocketsHaveOwners
<1>1. TcpipInit => SocketsHaveOwners /\ DhcpInLife
  BY Blank DEF TcpipInit, UdpInit, SocketsHaveOwners, DhcpInLife
<1>2. OwnersInv /\ [TcpipNext]_tcpipVars => SocketsHaveOwners' /\ DhcpInLife'
  <2> SUFFICES ASSUME OwnersInv, [TcpipNext]_tcpipVars, ~stranded'
               PROVE  SocketsHaveOwners' /\ DhcpInLife'
    BY DEF SocketsHaveOwners, DhcpInLife
  <2>1. LifeTypeOK /\ LifeTypeOK'
    BY LifeTypeStep DEF OwnersInv
  <2>2. ~stranded
    <3>1. stranded' = stranded \/ tcpip_shutdown
      BY DEF TcpipNext, tcpip_init, Refuse, Accept, dhcp_start, dhcp_stop,
         AppCall, Receive, ReceiveArp, ReceiveUdp, lifeVars, tcpipVars
    <3>2. tcpip_shutdown => ~stranded
      BY DEF tcpip_shutdown
    <3> QED
      BY <3>1, <3>2
  <2>3. ASSUME UNCHANGED <<sockets, apps, initialized, stranded,
                           dhcpSocket, dhcpRuns>>
        PROVE  SocketsHaveOwners' /\ DhcpInLife'
    BY <2>3 DEF OwnersInv, SocketsHaveOwners, DhcpInLife
  <2>4. ASSUME NEW d \in BOOLEAN, NEW c \in Configs, tcpip_init(d, c)
        PROVE  SocketsHaveOwners' /\ DhcpInLife'
    <3>1. CASE Refuse(d, c)
      BY <2>3, <3>1 DEF Refuse, udpVars, dhcpVars
    <3>2. CASE Accept(d, c)
      <4>1. ~initialized /\ dhcpSocket = Nobody /\ dhcpRuns = FALSE
        BY <2>2, <3>2 DEF Accept, OwnersInv, DhcpInLife, SocketsHaveOwners
      <4>2. dhcpSocket' = Nobody /\ dhcpRuns' = FALSE
        BY <3>2, <4>1 DEF Accept
      <4>3. \A s \in SocketId : Open(s) <=> s \in apps
        BY <2>2, <4>1, NobodyAssumption
           DEF OwnersInv, SocketsHaveOwners, Open, SocketId
      <4>4. \/ UNCHANGED <<sockets, apps>>
            \/ apps' = {} /\ sockets' = [s \in SocketId |-> Zeroed]
        BY <3>2 DEF Accept, InitUdp, udp_init, udpVars
      <4>5. \A s \in SocketId : Open(s)' <=> s \in apps'
        BY <4>3, <4>4, Blank DEF Open
      <4> QED
        BY <2>1, <4>2, <4>5, OwnersWithoutDhcp
    <3> QED
      BY <2>4, <3>1, <3>2 DEF tcpip_init
  <2>5. CASE tcpip_shutdown
    <3>1. CASE "dhcp" \in config
      <4>1. CloseDhcp /\ apps' = apps
        BY <2>5, <3>1 DEF tcpip_shutdown
      <4> QED
        BY <2>1, <2>2, <4>1, StopClosesItsOwn, OwnersWithoutDhcp
    <3>2. CASE "dhcp" \notin config
      <4>1. dhcpSocket = Nobody /\ dhcpRuns = FALSE
        BY <2>2, <2>5, <3>2 DEF tcpip_shutdown, OwnersInv, SocketsHaveOwners
      <4>2. UNCHANGED <<sockets, apps, dhcpSocket, dhcpRuns>>
        BY <2>5, <3>2 DEF tcpip_shutdown, udpVars, dhcpVars
      <4>3. \A s \in SocketId : Open(s) <=> s \in apps
        BY <2>2, <4>1, NobodyAssumption DEF OwnersInv, SocketsHaveOwners, Open, SocketId
      <4> QED
        BY <2>1, <4>1, <4>2, <4>3, OwnersWithoutDhcp DEF Open
    <3> QED
      BY <3>1, <3>2
  <2>6. CASE dhcp_stop
    <3>1. CloseDhcp /\ apps' = apps
      BY <2>6 DEF dhcp_stop
    <3> QED
      BY <2>1, <2>2, <3>1, StopClosesItsOwn, OwnersWithoutDhcp
  <2>7. CASE dhcp_start
    <3>1. dhcpSocket = Nobody /\ ~dhcpRuns /\ initialized /\ "dhcp" \in config
      BY <2>2, <2>7 DEF dhcp_start, OwnersInv, SocketsHaveOwners
    <3>2. UNCHANGED <<initialized, stranded, apps>>
      BY <2>7 DEF dhcp_start, lifeVars
    <3>3. \A s \in SocketId : Open(s) <=> s \in apps
      BY <2>2, <3>1, NobodyAssumption DEF OwnersInv, SocketsHaveOwners, Open, SocketId
    <3>4. CASE DhcpCannot
      <4>1. dhcpSocket' = Nobody /\ dhcpRuns' = dhcpRuns /\ sockets' = sockets
        BY <3>4 DEF DhcpCannot, udpVars
      <4>2. dhcpRuns' = FALSE
        BY <2>2, <3>1, <4>1 DEF OwnersInv, SocketsHaveOwners
      <4> QED
        BY <2>1, <3>2, <3>3, <4>1, <4>2, OwnersWithoutDhcp DEF Open
    <3>5. CASE DhcpOpens
      <4>0. PICK k \in SocketId : k = dhcpSocket'
        BY <2>1, <3>5, DhcpTakesOneSlot DEF LifeTypeOK
      <4>1. /\ k \in SocketId /\ ~Open(k) /\ Open(k)'
            /\ sockets'[k].local_port = DhcpPort
            /\ sockets'[k].rx_callback = DhcpCallback
        BY <2>1, <3>5, <4>0, DhcpTakesOneSlot DEF LifeTypeOK, Open
      <4>2. \A t \in SocketId \ {k} : sockets'[t] = sockets[t]
        BY <2>1, <3>5, <4>0, DhcpTakesOneSlot DEF LifeTypeOK, UdpTypeOK, Rewrites
      <4>3. dhcpRuns' = TRUE /\ k # Nobody
        BY <3>5, <4>1, NobodyAssumption DEF DhcpOpens, SocketId
      <4>4. \A s \in SocketId : Open(s)' <=> s \in apps' \cup {k}
        BY <3>2, <3>3, <4>1, <4>2 DEF Open
      <4>5. { s \in SocketId : sockets'[s].in_use } = apps' \cup {k}
        BY <2>1, <4>1, <4>4 DEF Open, LifeTypeOK
      <4>6. k \notin apps'
        BY <3>2, <3>3, <4>1
      <4> QED
        BY <3>1, <3>2, <4>0, <4>1, <4>3, <4>5, <4>6 DEF SocketsHaveOwners, DhcpInLife
    <3> QED
      BY <2>7, <3>4, <3>5 DEF dhcp_start
  <2>8. CASE AppCall
    <3>1. UNCHANGED <<initialized, stranded, dhcpSocket, dhcpRuns>>
      BY <2>8 DEF AppCall, lifeVars, dhcpVars
    <3>2. /\ \A s \in SocketId : Open(s) <=> s \in apps \/ s = dhcpSocket
          /\ dhcpSocket \notin apps
      BY <2>2, NobodyAssumption DEF OwnersInv, SocketsHaveOwners, Open, SocketId
    <3>3. CASE AppCreate
      <4> DEFINE k == First(FreeSockets)
      <4>1. /\ k \in SocketId /\ ~Open(k) /\ apps' = apps \cup {k}
            /\ \A t \in SocketId : IF t = k THEN Open(t)'
                                   ELSE sockets'[t] = sockets[t]
        BY <2>1, <3>3, CreateOpens DEF AppCreate
      <4> HIDE DEF k
      <4>2. k # dhcpSocket
        BY <3>2, <4>1
      <4>3. \A s \in SocketId \ {dhcpSocket} : Open(s)' <=> s \in apps'
        BY <3>2, <4>1 DEF Open
      <4> QED
        BY <2>1, <2>2, <3>1, <3>2, <4>1, <4>2, <4>3, OwnersAfterCall
    <3>4. ASSUME NEW s \in apps, AppUse(s)
          PROVE  SocketsHaveOwners' /\ DhcpInLife'
      <4>1. /\ s \in SocketId /\ apps' = apps /\ Open(s)'
            /\ \A t \in SocketId \ {s} : sockets'[t] = sockets[t]
        BY <2>1, <3>4, UseKeepsOpen DEF AppUse, LifeTypeOK
      <4>2. \A t \in SocketId \ {dhcpSocket} : Open(t)' <=> t \in apps'
        BY <3>2, <4>1 DEF Open
      <4> QED
        BY <2>1, <2>2, <3>1, <3>2, <4>1, <4>2, OwnersAfterCall
    <3>5. ASSUME NEW s \in apps, AppClose(s)
          PROVE  SocketsHaveOwners' /\ DhcpInLife'
      <4>1. /\ s \in SocketId /\ apps' = apps \ {s}
            /\ \A t \in SocketId : IF t = s THEN ~Open(t)'
                                   ELSE sockets'[t] = sockets[t]
        BY <2>1, <3>5, CloseCloses DEF AppClose, LifeTypeOK
      <4>2. \A t \in SocketId \ {dhcpSocket} : Open(t)' <=> t \in apps'
        BY <3>2, <4>1 DEF Open
      <4> QED
        BY <2>1, <2>2, <3>1, <3>2, <4>1, <4>2, OwnersAfterCall
    <3> QED
      BY <2>8, <3>3, <3>4, <3>5 DEF AppCall
  <2>9. CASE Receive
    <3>1. UNCHANGED <<sockets, apps, initialized, stranded,
                      dhcpSocket, dhcpRuns>>
      BY <2>9 DEF Receive, ReceiveArp, ReceiveUdp, udp_rx_callback, udpVars,
         lifeVars, dhcpVars
    <3> QED
      BY <2>3, <3>1
  <2>10. CASE UNCHANGED tcpipVars
    BY <2>3, <2>10 DEF tcpipVars, udpVars, lifeVars, dhcpVars
  <2> QED
    BY <2>4, <2>5, <2>6, <2>7, <2>8, <2>9, <2>10 DEF TcpipNext
<1> QED
  BY <1>1, <1>2, LifeTypeCorrect, PTL DEF TcpipSpec, OwnersInv
=============================================================================
