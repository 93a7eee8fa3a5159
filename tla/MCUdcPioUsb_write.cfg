CONSTANTS
    in1 = in1
    in2 = in2
    out1 = out1
    addr = addr
    read = read
    write = write
    nodata = nodata
    NoBuf = NoBuf
    NoReq = NoReq
    Eps <- None
    Bufs <- None
    EpOf <- NoFunction
    Requests <- MCWrite
    Kind <- MCWriteKind
    AllocFails = FALSE
    Patience = "device"
SPECIFICATION Spec
INVARIANTS
    WriteReported
