CONSTANTS
    in1 = in1
    in2 = in2
    out1 = out1
    addr = addr
    read = read
    write = write
    nodata = nodata
    NoBuf = NoBuf
    NoReq = NoReq
    Eps <- None
    Bufs <- None
    EpOf <- NoFunction
    Requests <- MCRequests
    Kind <- MCKind
    AllocFails = TRUE
    Patience = "device"
SPECIFICATION Spec
INVARIANTS
    AddressApplied
    StageFollowsHost
    SurfacedOnce
PROPERTIES
    AddressOnlyAfterStatus
