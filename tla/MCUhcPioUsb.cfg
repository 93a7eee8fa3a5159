CONSTANTS
    get = get
    set = set
    in = in
    NoXfer = NoXfer
    Xfers <- MCXfers
    Addr <- MCAddr
    Ep <- MCEp
    HasData <- MCHasData
    PoolSize = 2
    SlotCount = 2
    Bounces = TRUE
SPECIFICATION Spec
INVARIANTS
    TypeOK
    BufferHeldWhileOnWire
    NoLostCompletion
    SuccessMeansAcked
    StagesInOrder
    ListMatchesTable
    KickFindsIdleEndpoint
PROPERTY ImplementsTransferService
