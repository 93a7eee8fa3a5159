--------------------------- MODULE PicoPioUsbHost ---------------------------
(***************************************************************************)
(* The host half of sekigon-gonnoc/Pico-PIO-USB as drivers/usb/host/       *)
(* uhc_pio_usb.c uses it: the endpoint pool that pio_usb_host_endpoint_open*)
(* carves slots from, the lookup by (device address, endpoint address), the*)
(* start and the end of a transfer, and the three per-endpoint bitmaps of  *)
(* root_port_t.  The library is not part of the repository, so this is a   *)
(* library of operators on values: the driver module owns the variables.   *)
(*                                                                         *)
(* An endpoint address is the USB byte: bit 7 is the direction, bits 3 to 0*)
(* are the number, and the rest is reserved and zero.                      *)
(***************************************************************************)
EXTENDS Naturals, FiniteSets

CONSTANTS
    Xfers,       \* the uhc_transfer structs of the application
    NoXfer,      \* the NULL transfer pointer
    PoolSize     \* PIO_USB_EP_POOL_CNT, the length of the endpoint pool

ASSUME PoolAssumption == PoolSize \in Nat \ {0}
ASSUME NoXferAssumption == NoXfer \notin Xfers

Pool == 1..PoolSize

DevAddrs == 0..127
EpAddrs == (0..15) \cup (128..143)
EpBase(ep) == ep % 128           \* "ep & 0x7f"
IsControl(ep) == ep % 16 = 0     \* "(ep & 0x0f) == 0"
IsIn(ep) == ep >= 128

Stages == {"SETUP", "DATA", "STATUS"}

\* root->ep_complete, root->ep_stalled, root->ep_error
Regs == {"complete", "stalled", "error"}

\* What pio_usb_ll_transfer_start was last handed for an endpoint: whose bytes,
\* and for which stage (the library keeps a buffer pointer and a PID).
Transactions == [xfer : Xfers \cup {NoXfer}, stage : Stages]

\* One pool slot; "used" is the library's size != 0.
Endpoints == [used : BOOLEAN, dev_addr : DevAddrs, ep_num : EpAddrs,
              has_transfer : BOOLEAN, xact : Transactions]

FreeEndpoint == [used |-> FALSE, dev_addr |-> 0, ep_num |-> 0,
                 has_transfer |-> FALSE,
                 xact |-> [xfer |-> NoXfer, stage |-> "SETUP"]]

\* Loops that take the lowest index: the set holding it, empty when S is.
First(S) == {i \in S : \A j \in S : i <= j}

FreeSlots(pool) == {i \in Pool : ~pool[i].used}

Busy(pool) == {i \in Pool : pool[i].used /\ pool[i].has_transfer}

\* pio_usb_host_endpoint_open: take the first free pool slot.  It never looks
\* for a slot already open on the same (device, endpoint).
OpenAt(pool, i, dev, ep) ==
    [pool EXCEPT ![i] = [FreeEndpoint EXCEPT !.used = TRUE,
                                             !.dev_addr = dev, !.ep_num = ep]]

\* Slots a (device, endpoint) names; the control endpoint is one slot for both
\* directions.
Lookup(pool, dev, ep) ==
    {i \in Pool : /\ pool[i].used
                  /\ pool[i].dev_addr = dev
                  /\ \/ pool[i].ep_num = ep
                     \/ IsControl(pool[i].ep_num) /\ IsControl(ep)}

\* pio_usb_host_send_setup / pio_usb_host_endpoint_transfer on an idle slot.
StartAt(pool, i, ep, x, stage) ==
    [pool EXCEPT ![i] = [@ EXCEPT !.ep_num = ep, !.has_transfer = TRUE,
                                  !.xact = [xfer |-> x, stage |-> stage]]]

\* pio_usb_ll_transfer_complete on every slot of a set.
Complete(pool, done) ==
    [i \in Pool |-> IF i \in done THEN [pool[i] EXCEPT !.has_transfer = FALSE]
                                  ELSE pool[i]]
=============================================================================
