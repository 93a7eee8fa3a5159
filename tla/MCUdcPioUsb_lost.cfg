CONSTANTS
    in1 = in1
    in2 = in2
    out1 = out1
    addr = addr
    read = read
    write = write
    nodata = nodata
    NoBuf = NoBuf
    NoReq = NoReq
    Eps <- MCPair
    Bufs <- MCPairBufs
    EpOf <- MCPairEpOf
    Requests <- None
    Kind <- NoFunction
    AllocFails = FALSE
    Patience = "device"
SPECIFICATION FairSpec
PROPERTIES
    CompletionForwarded
