CONSTANTS
    zero = zero
    me = me
    peer = peer
    gw = gw
    far = far
    group = group
    all = all
    m24 = m24
    mp = mp
    mg = mg
    mh = mh
    IP <- MCIP
    Addr <- MCIP
    ZeroIp = zero
    Multicast = {group}
    Mac = {mp, mg, mh}
    NoMac = NoMac
    ARP_CACHE_SIZE = 2
    ARP_CACHE_TIMEOUT = 300
    Port = {7}
    Callback = {"echo", "dhcp"}
    NoAddr = NoAddr
    NoCallback = NoCallback
    Nobody = Nobody
    MAX_UDP_SOCKETS = 1
    Mask = {m24}
    DefaultMask = m24
    Subnet <- MCSubnet
    Frames <- MCFrames
    Targets = {peer, far}
    Broadcast = all
    Configs <- MCConfigs
    Nothing = Nothing
    ATTEMPTS = 2
    POLLS = 2
    MAX_DEPTH = 2
SPECIFICATION StackSpec
INVARIANTS AnswersTheirCause SentToClaimant
PROPERTIES AnswerWaitsForGateway KnownHopIsUsed
