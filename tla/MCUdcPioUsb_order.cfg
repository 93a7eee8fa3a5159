CONSTANTS
    in1 = in1
    in2 = in2
    out1 = out1
    addr = addr
    read = read
    write = write
    nodata = nodata
    NoBuf = NoBuf
    NoReq = NoReq
    Eps <- None
    Bufs <- None
    EpOf <- NoFunction
    Requests <- MCAddrNodata
    Kind <- MCAddrNodataKind
    AllocFails = FALSE
    Patience = "stages"
SPECIFICATION Spec
INVARIANTS
    AddressApplied
