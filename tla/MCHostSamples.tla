---------------------------- MODULE MCHostSamples ----------------------------
(* Instances of HostSamples for TLC.                                       *)
EXTENDS HostSamples

CONSTANTS addr, dev, str

\* The script of enumerate_and_dump, cut to one of each kind of step: SET_ADDRESS at
\* address 0 and a descriptor at address 1, which must succeed, and a string.
MCXfers == {addr, dev, str}
MCScript == <<addr, dev, str>>
MCAddr == (addr :> 0) @@ (dev :> 1) @@ (str :> 1)
MCEp == (addr :> 0) @@ (dev :> 128) @@ (str :> 128)
MCHasData == [x \in MCXfers |-> x # addr]
=============================================================================
