CONSTANTS
    a1 = a1
    m1 = m1
    IP = {a1, a2, a3, a4}
    Mac = {m1, m2}
    NoMac = NoMac
    ARP_CACHE_SIZE = 3
    ARP_CACHE_TIMEOUT = 300
    Addr = {a1, a2}
    Port = {7, 68}
    Callback = {cb, dhcp_rx_callback}
    NoAddr = NoAddr
    NoCallback = NoCallback
    Nobody = Nobody
    MAX_UDP_SOCKETS = 3
    Configs <- MCConfigs
    DhcpPort = 68
    DhcpCallback = dhcp_rx_callback
SPECIFICATION MCSpec
INVARIANTS
    UniqueIp FreshMac UniquePort ClosedIsBlank SocketsHaveOwners
    CacheOfThisLife
PROPERTIES EvictsOnlyWhenFull ImplementsRegistry
