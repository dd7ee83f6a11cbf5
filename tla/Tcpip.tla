------------------------------- MODULE Tcpip -------------------------------
(***************************************************************************)
(* The life of the stack (src/tsiplib/src/tcpip.c): it is initialised with *)
(* a driver and a choice of layers, works, is shut down and initialised    *)
(* again.  Each layer keeps its state in static variables that outlive a   *)
(* shutdown: here the ARP cache, the UDP sockets, the tables of callbacks, *)
(* and the DHCP client's handle of its socket.                             *)
(*                                                                         *)
(* The application keeps to its own sockets, starts DHCP only in a stack   *)
(* initialised with it and only when it is stopped.  It may initialise the *)
(* stack at any time; one that runs refuses, but not before it has taken   *)
(* over the new choice of layers and the new driver.                       *)
(*                                                                         *)
(* A definition marked "Slip" is a plausible mistake in the one after it;  *)
(* no action uses it.  The properties are tried against these.             *)
(***************************************************************************)
EXTENDS ArpCache, UdpSockets

CONSTANTS
    Configs,             \* sets of layers an application enables
    DhcpPort,            \* 68
    DhcpCallback         \* dhcp_rx_callback

ASSUME LifeAssumption ==
    /\ Addr \subseteq IP /\ DhcpPort \in Port
    /\ DhcpCallback \in Callback \ {NoCallback}

VARIABLES
    initialized,         \* _initialized
    config,              \* _config: the layers enabled
    driver,              \* _driver is not NULL
    ethCallbacks,        \* the types of frame with a callback
    ipHandlers,          \* the protocols with a handler
    dhcpSocket,          \* dhcp_socket: a socket, or Nobody
    dhcpRuns,            \* the DHCP client's state is not DHCP_STATE_INIT
    apps,                \* history: the sockets of the application
    learned,             \* history: the IP addresses learned since tcpip_init
    layers,              \* history: the layers tcpip_init last initialised
    stranded             \* history: a shutdown left the DHCP client running

layerVars == <<ethCallbacks, ipHandlers>>
lifeVars == <<initialized, config, driver, layers, stranded>>
dhcpVars == <<dhcpSocket, dhcpRuns>>
tcpipVars == <<arpVars, udpVars, layerVars, lifeVars, dhcpVars, apps, learned>>
-----------------------------------------------------------------------------
(* The layers tcpip_init initialises: none without those below it.         *)
Needs(layer) ==
    CASE layer = "ethernet" -> {"ethernet"}
      [] layer \in {"arp", "ip"} -> {layer, "ethernet"}
      [] OTHER -> {layer, "ip", "ethernet"}
Enabled(c, layer) == Needs(layer) \subseteq c

TcpipInit ==
    /\ ArpInit /\ UdpInit
    /\ initialized = FALSE /\ config = {} /\ driver = FALSE
    /\ ethCallbacks = {} /\ ipHandlers = {}
    /\ dhcpSocket = Nobody /\ dhcpRuns = FALSE
    /\ apps = {} /\ learned = {} /\ layers = {} /\ stranded = FALSE

(* A call that is refused has stored its arguments already.                *)
Refuse(d, c) ==
    /\ initialized \/ ~d
    /\ config' = c /\ driver' = d
    /\ UNCHANGED <<arpVars, udpVars, layerVars, initialized, dhcpVars, apps,
                   learned, layers, stranded>>

(* eth_init clears the callbacks, arp_init the cache, ip_init the          *)
(* handlers, udp_init the sockets; dhcp_init leaves the handle.            *)
RegisterLayers(c) ==
    /\ ethCallbacks' = IF Enabled(c, "ethernet")
                       THEN {"arp", "ip"} \cap { l \in c : Enabled(c, l) }
                       ELSE ethCallbacks
    /\ ipHandlers' = IF Enabled(c, "ip")
                     THEN {"icmp", "udp"} \cap { l \in c : Enabled(c, l) }
                     ELSE ipHandlers

(* Slip: arp_init relies on the flush at shutdown.                         *)
InitArpTrusting(c) == UNCHANGED arpVars

InitArp(c) == IF Enabled(c, "arp") THEN arp_cache_flush ELSE UNCHANGED arpVars
InitUdp(c) ==
    IF Enabled(c, "udp") THEN udp_init /\ apps' = {}
    ELSE UNCHANGED <<udpVars, apps>>

Accept(d, c) ==
    /\ ~initialized /\ d
    /\ config' = c /\ driver' = d /\ initialized' = TRUE
    /\ RegisterLayers(c) /\ InitArp(c) /\ InitUdp(c)
    /\ dhcpRuns' = (dhcpRuns /\ ~Enabled(c, "dhcp"))
    /\ learned' = {} /\ layers' = c
    /\ UNCHANGED <<dhcpSocket, stranded>>

tcpip_init(d, c) == Refuse(d, c) \/ Accept(d, c)

(* Slip: DHCP's socket is left to the next udp_init.                       *)
CloseDhcpNot == UNCHANGED <<udpVars, dhcpSocket>> /\ dhcpRuns' = FALSE

(* dhcp_stop.                                                              *)
CloseDhcp ==
    /\ IF dhcpSocket # Nobody /\ sockets[dhcpSocket].in_use
       THEN udp_socket_close(dhcpSocket) ELSE UNCHANGED udpVars
    /\ dhcpSocket' = Nobody /\ dhcpRuns' = FALSE

tcpip_shutdown ==
    /\ initialized
    /\ IF "dhcp" \in config THEN CloseDhcp ELSE UNCHANGED <<udpVars, dhcpVars>>
    /\ stranded' = (stranded \/ (dhcpSocket # Nobody /\ "dhcp" \notin config))
    /\ IF "arp" \in config THEN arp_cache_flush ELSE UNCHANGED arpVars
    /\ initialized' = FALSE
    /\ UNCHANGED <<layerVars, config, driver, apps, learned, layers>>
-----------------------------------------------------------------------------
(* A frame: from tcpip_poll, or from the eth_poll of an arp_resolve that   *)
(* waits, which does not ask whether the stack runs.                       *)
Learn(ip, mac) == arp_cache_add(ip, mac) /\ learned' = learned \cup {ip}
ReceiveArp(ip, mac) ==
    /\ driver /\ "arp" \in ethCallbacks
    /\ Learn(ip, mac)
    /\ UNCHANGED <<udpVars, layerVars, lifeVars, dhcpVars, apps>>
ReceiveUdp(ip, mac, src_port, dest_port) ==
    /\ driver /\ "ip" \in ethCallbacks
    /\ Learn(ip, mac)
    /\ IF "udp" \in ipHandlers THEN udp_rx_callback(ip, src_port, dest_port)
       ELSE UNCHANGED udpVars
    /\ UNCHANGED <<layerVars, lifeVars, dhcpVars, apps>>

(* The application's calls.                                                *)
AppCreate ==
    /\ udp_socket_create
    /\ apps' = apps \cup {First(FreeSockets)}
AppUse(s) ==
    /\ \/ \E port \in Port : udp_socket_bind(s, port)
       \/ \E ip \in Addr, port \in Port : udp_socket_connect(s, ip, port)
       \/ \E cb \in Callback \ {DhcpCallback} : udp_socket_set_rx_callback(s, cb)
    /\ UNCHANGED apps
AppClose(s) == udp_socket_close(s) /\ apps' = apps \ {s}
AppCall ==
    /\ AppCreate \/ \E s \in apps : AppUse(s) \/ AppClose(s)
    /\ UNCHANGED <<arpVars, layerVars, lifeVars, dhcpVars, learned>>

(* dhcp_start creates a socket, and closes it again if its port is taken.  *)
CanOpen == FreeSockets # {} /\ ~PortTaken(First(FreeSockets), DhcpPort)
DhcpOpens ==
    /\ CanOpen
    /\ sockets' = [sockets EXCEPT ![First(FreeSockets)] =
          [Zeroed EXCEPT !.in_use = TRUE, !.local_port = DhcpPort,
                         !.rx_callback = DhcpCallback]]
    /\ delivered' = Nobody
    /\ dhcpSocket' = First(FreeSockets) /\ dhcpRuns' = TRUE
DhcpCannot ==
    /\ ~CanOpen
    /\ dhcpSocket' = Nobody
    /\ UNCHANGED <<udpVars, dhcpRuns>>
dhcp_start ==
    /\ initialized /\ "dhcp" \in config /\ ~dhcpRuns /\ driver
    /\ DhcpOpens \/ DhcpCannot
    /\ UNCHANGED <<arpVars, layerVars, lifeVars, apps, learned>>
dhcp_stop ==
    /\ CloseDhcp
    /\ UNCHANGED <<arpVars, layerVars, lifeVars, apps, learned>>
-----------------------------------------------------------------------------
Receive ==
    \E ip \in Addr, mac \in Mac :
        \/ ReceiveArp(ip, mac)
        \/ \E src_port, dest_port \in Port : ReceiveUdp(ip, mac, src_port, dest_port)

TcpipNext ==
    \/ \E d \in BOOLEAN, c \in Configs : tcpip_init(d, c)
    \/ tcpip_shutdown \/ dhcp_start \/ dhcp_stop
    \/ AppCall \/ Receive

TcpipSpec == TcpipInit /\ [][TcpipNext]_tcpipVars
-----------------------------------------------------------------------------
(* Every open socket has one owner, which knows it as open: the            *)
(* application's are never closed under it, and DHCP's handle is NULL or   *)
(* that of its own socket, on its port.  This holds over any number of     *)
(* lives with any layers, refused initialisations included, as long as     *)
(* every shutdown stopped the DHCP client that ran.  One does not when a   *)
(* refused initialisation has taken DHCP out of the layers of the running  *)
(* stack; then DHCP's handle outlives its socket, and may close whoever is *)
(* given the slot next.                                                    *)
SocketsHaveOwners ==
    ~stranded =>
        /\ { s \in SocketId : sockets[s].in_use } = apps \cup ({dhcpSocket} \ {Nobody})
        /\ dhcpSocket \notin apps
        /\ dhcpSocket # Nobody =>
              /\ sockets[dhcpSocket].local_port = DhcpPort
              /\ sockets[dhcpSocket].rx_callback = DhcpCallback
        /\ dhcpRuns = (dhcpSocket # Nobody)

(* A stack initialised with ARP holds no address it learned before that,   *)
(* though frames may be received after a shutdown, and whatever layers     *)
(* refused initialisations have named since.  One initialised without ARP  *)
(* may resolve with what an earlier life left.                             *)
CacheOfThisLife ==
    initialized /\ Enabled(layers, "arp") => Known(cache) \subseteq learned
=============================================================================
