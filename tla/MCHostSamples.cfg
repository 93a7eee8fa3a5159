CONSTANTS
    addr = addr
    dev = dev
    str = str
    NoXfer = NoXfer
    Xfers <- MCXfers
    Addr <- MCAddr
    Ep <- MCEp
    HasData <- MCHasData
    Script <- MCScript
    Needed = 2
    Buffers = 2
    PoolSize = 2
    SlotCount = 1
    Bounces = FALSE
    CallerOutranks = FALSE
SPECIFICATION FairSamples
PROPERTIES
    EveryDeviceEnumerated
    EachDeviceReset
    AbortQuiets
INVARIANTS
    SamplesTypeOK
    OwnCompletion
    BuffersBack
    AwakeForDevice
    ResetDoneIsCurrent
    BufferHeldUnlessLeft
    ReturnOnlyQueued
