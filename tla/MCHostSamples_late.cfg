CONSTANTS
    addr = addr
    dev = dev
    str = str
    NoXfer = NoXfer
    Xfers <- MCXfers
    Addr <- MCAddr
    Ep <- MCEp
    HasData <- MCHasData
    Script <- MCScript
    Needed = 2
    Buffers = 2
    PoolSize = 3
    SlotCount = 1
    Bounces = FALSE
    CallerOutranks = TRUE
SPECIFICATION SamplesSpec
INVARIANT EveryWaitIsOwn
