CONSTANTS
    get = get
    set = set
    in = in
    NoXfer = NoXfer
    Xfers <- MCXfers
    Addr <- MCAddr
    Ep <- MCEp
    HasData <- MCHasData
    PoolSize = 3
    SlotCount = 2
    Bounces = FALSE
SPECIFICATION Spec
INVARIANT OpenedOnFirstUse
