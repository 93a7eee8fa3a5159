CONSTANTS
    get = get
    in = in
    NoXfer = NoXfer
    Xfers <- MCXfers
    Addr <- MCAddr
    Ep <- MCEp
    HasData <- MCHasData
    PoolSize = 2
    SlotCount = 2
    Bounces = FALSE
    CallerOutranks = TRUE
SPECIFICATION DqSpec
INVARIANT BufferHeldWhileOnWire
