---------------------------- MODULE MCUdcPioUsb ----------------------------
(* Instances of UdcPioUsb for TLC.                                         *)
EXTENDS UdcPioUsb

CONSTANTS in1, in2, out1, addr, read, write, nodata

\* A class with two buffers for its IN endpoint (EP1, slot 3).
MCIn == {3}
MCInBufs == {in1, in2}
MCInEpOf == [b \in MCInBufs |-> 3]

\* A class with one buffer for that endpoint and one for its OUT endpoint (EP2, slot 4).
MCPair == {3, 4}
MCPairBufs == {in1, out1}
MCPairEpOf == (in1 :> 3) @@ (out1 :> 4)

\* One control request of each kind.
MCRequests == {addr, read, write, nodata}
MCKind == (addr :> "address") @@ (read :> "read") @@ (write :> "write")
          @@ (nodata :> "nodata")
MCAddrNodata == {addr, nodata}
MCAddrNodataKind == [r \in MCAddrNodata |-> MCKind[r]]
MCWrite == {write}
MCWriteKind == [r \in MCWrite |-> MCKind[r]]

None == {}
NoFunction == [b \in {} |-> 0]
=============================================================================
