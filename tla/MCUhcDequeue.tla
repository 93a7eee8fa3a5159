---------------------------- MODULE MCUhcDequeue ----------------------------
(* Instances of UhcDequeue for TLC.                                        *)
EXTENDS UhcDequeue

CONSTANTS get, in

\* A control read with a data stage and a bulk IN, both of device 1.
MCXfers == {get, in}
MCAddr == [x \in MCXfers |-> 1]
MCEp == (get :> 128) @@ (in :> 129)
MCHasData == (get :> TRUE) @@ (in :> FALSE)
=============================================================================
