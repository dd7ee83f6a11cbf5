CONSTANTS
    s1 = s1
    s2 = s2
    ip1 = ip1
    ip2 = ip2
    mask = mask
    gw = gw
    noip = noip
    None = None
    Offers <- MCOffers
    InitialNet <- MCInitialNet
    RETRY_EVERY = 2
    RETRY_LIMIT = 3
    MAX_DEPTH = 3
SPECIFICATION DhcpFairSpec
INVARIANTS
    AppliedIsLease RequestsNameAnOffer StateIsReported SocketFollowsState
PROPERTY RequestIsGivenUp
