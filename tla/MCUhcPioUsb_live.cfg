CONSTANTS
    get = get
    set = set
    in = in
    NoXfer = NoXfer
    Xfers <- MCControl
    Addr <- MCControlAddr
    Ep <- MCControlEp
    HasData <- MCControlHasData
    PoolSize = 2
    SlotCount = 1
    Bounces = FALSE
SPECIFICATION FairSpec
INVARIANT PortAgrees
PROPERTY EveryTransferReturns
