----------------------------- MODULE MCUhcPioUsb -----------------------------
(* Instances of UhcPioUsb for TLC.                                         *)
EXTENDS UhcPioUsb

CONSTANTS get, set, in      \* the transfers

\* A control read of device 1 with a data stage, a SET_ADDRESS-like request to
\* device 0 without one, and a bulk IN of device 1.
MCXfers == {get, set, in}
MCAddr == (get :> 1) @@ (set :> 0) @@ (in :> 1)
MCEp == (get :> 128) @@ (set :> 0) @@ (in :> 129)
MCHasData == (get :> TRUE) @@ (set :> FALSE) @@ (in :> FALSE)

\* The two control transfers on their own, to the same device.
MCControl == {get, set}
MCControlAddr == [x \in MCControl |-> 1]
MCControlEp == (get :> 128) @@ (set :> 0)
MCControlHasData == (get :> TRUE) @@ (set :> FALSE)
=============================================================================
