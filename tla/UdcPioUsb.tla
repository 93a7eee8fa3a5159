------------------------------ MODULE UdcPioUsb ------------------------------
(***************************************************************************)
(* drivers/usb/device/udc_pio_usb.c: the Zephyr device controller driver.  *)
(*                                                                         *)
(* Three parties run concurrently.  The PIO receive interrupt ends a       *)
(* transaction in the library and calls pio_usb_device_irq_handler, all in *)
(* one go.  The driver thread turns the flags of the interrupt into calls  *)
(* of the USB device stack.  The stack and the classes call the UDC API,   *)
(* one call at a time (the UDC mutex, which the thread does not take).  The*)
(* interrupt may fall between any two steps of the other two.              *)
(*                                                                         *)
(* An endpoint is named by its slot in the library's pool: twice the       *)
(* endpoint number, plus one for IN.                                       *)
(***************************************************************************)
EXTENDS Naturals, SequencesExt

CONSTANTS
    Eps,           \* pool slots of the classes' endpoints
    Bufs,          \* the net_bufs of the classes
    EpOf,          \* [Bufs -> Eps]
    Requests,      \* the control requests the host makes, each once
    Kind,          \* [Requests -> Kinds]
    NoBuf, NoReq,  \* the NULL net_buf, no request
    AllocFails,    \* may udc_ctrl_alloc return NULL?
    Patience       \* what the host waits for: see HostSetup

OUT0 == 0
IN0 == 1
Kinds == {"read", "write", "nodata", "address"}

ASSUME EpsAssumption == Eps \subseteq 2..15 /\ EpOf \in [Bufs -> Eps]
ASSUME RequestsAssumption == Kind \in [Requests -> Kinds]
ASSUME NullAssumption == NoBuf \notin Bufs /\ NoReq \notin Requests
ASSUME SwitchAssumption == AllocFails \in BOOLEAN
ASSUME PatienceAssumption == Patience \in {"device", "stages", "none"}

Slots == {OUT0, IN0} \cup Eps

\* EP0 buffers: a request's data, or the zero-length packet of its status.
CtrlBufs == [req : Requests, what : {"data", "status"}]
Buffers == Bufs \cup CtrlBufs

ASSUME BuffersAssumption == CtrlBufs \cap (Bufs \cup {NoBuf}) = {}

CtrlStages == {"SETUP", "DATA_OUT", "DATA_IN", "STATUS_OUT", "STATUS_IN", "ERROR"}
Flags == {"reset", "setup", "ep_done"}
PCs == {"idle", "setup", "load", "clear", "store", "handle"}

VARIABLES
    \* Pico-PIO-USB
    pep,              \* [Slots -> Endpoints], the endpoint_t of each slot
    ep_complete,      \* root->ep_complete
    setup_packet,     \* root->setup_packet: whose bytes it holds
    dev_addr,         \* root->dev_addr: the request that assigned it
    \* Zephyr udc_common and the stack
    fifo,             \* [Slots -> Seq(Buffers)]
    halted,           \* [Slots -> BOOLEAN], cfg->stat.halted
    stage,            \* the control pipe's stage
    told,             \* the stack's messages on EP0, not yet acted on
    call,             \* the buffer of an ep_enqueue half done (or NoBuf)
    owner,            \* [Bufs -> {"app", "udc"}]
    result,           \* [Bufs -> Results], how a buffer last came back
    parked,           \* buffers queued while their endpoint was halted (history)
    \* endpoints whose completions and buffers have lost step (history), until an
    \* ep_dequeue finds no completion on its way:
    raced,            \* an ep_dequeue found one
    overtaken,        \* a buffer was kicked off behind one that was never moved
    dropped,          \* a completion bit was lost
    \* struct udc_pio_usb_data_priv
    flags, enabled,
    pending_address,  \* the request to apply (NoReq: address_pending is false)
    \* the driver thread
    pc,
    f,                \* the flags it took
    pending,          \* drain_ep_complete's local copy of the bitmap
    reg,              \* the register of the "&=" between its load and store
    \* the USB host, and what happened on the wire (history)
    host,             \* the request it is in, its stage, the address it uses
    moved,            \* buffers of the classes transferred whole
    issued,           \* requests made so far
    surfaced          \* [Requests -> Nat], times the stack was handed the SETUP

Endpoints == [open : BOOLEAN, stalled : BOOLEAN, has_transfer : BOOLEAN,
              buf : Buffers \cup {NoBuf}]
Results == {"none", "ok", "aborted", "refused"}

picoVars == <<pep, ep_complete, setup_packet, dev_addr>>
lapseVars == <<raced, overtaken, dropped>>
epVars == <<fifo, halted, call, owner, result, parked, lapseVars>>
ctrlVars == <<stage, told, pending_address>>
threadVars == <<pc, f, pending, reg>>
hostVars == <<host, moved, issued, surfaced>>
vars == <<pep, ep_complete, setup_packet, dev_addr, fifo, halted, stage, told,
          call, owner, result, parked, raced, overtaken, dropped, flags, enabled,
          pending_address, pc, f, pending, reg, host, moved, issued, surfaced>>

\* pio_usb_device_init opens the control pair, the stack the others.
Init ==
    /\ pep = [s \in Slots |-> [open |-> TRUE, stalled |-> FALSE,
                               has_transfer |-> FALSE, buf |-> NoBuf]]
    /\ ep_complete = {}
    /\ setup_packet = NoReq
    /\ dev_addr = NoReq
    /\ fifo = [s \in Slots |-> <<>>]
    /\ halted = [s \in Slots |-> FALSE]
    /\ stage = "SETUP"
    /\ told = <<>>
    /\ call = NoBuf
    /\ owner = [b \in Bufs |-> "app"]
    /\ result = [b \in Bufs |-> "none"]
    /\ parked = {}
    /\ raced = {} /\ overtaken = {} /\ dropped = {}
    /\ flags = {}
    /\ enabled = FALSE
    /\ pending_address = NoReq
    /\ pc = "idle"
    /\ f = {}
    /\ pending = {}
    /\ reg = {}
    /\ host = [req |-> NoReq, step |-> "idle", addr |-> NoReq]
    /\ moved = {}
    /\ issued = {}
    /\ surfaced = [r \in Requests |-> 0]
-----------------------------------------------------------------------------
(* pio_usb_ll_transfer_start / _complete and the interrupt                 *)

\* kick_off_in, kick_off_out: an endpoint that is open and idle takes the buffer.
Accepts(s) == pep[s].open /\ ~pep[s].has_transfer
KickOff(s, b) == [pep EXCEPT ![s].has_transfer = TRUE, ![s].buf = b]

\* pio_usb_device_irq_handler: set the thread's flags.
IrqHandler(ints) == flags' = flags \cup ints

\* The library answers to its own address only ("address matching", 25-26).
Addressed == host.addr = dev_addr

\* The host moves the last packet of what slot s is transferring.
WireDone(s) ==
    /\ Addressed
    /\ pep[s].open /\ pep[s].has_transfer /\ ~pep[s].stalled
    /\ pep' = [pep EXCEPT ![s].has_transfer = FALSE]
    /\ ep_complete' = ep_complete \cup {s}
    /\ IrqHandler({"ep_done"})

HostTransfers(s) ==
    /\ s \in Eps
    /\ WireDone(s)
    /\ moved' = moved \cup {pep[s].buf}
    /\ dropped' = dropped \cup ({s} \cap ep_complete)
    /\ UNCHANGED <<setup_packet, dev_addr, fifo, halted, call, owner, result, parked,
                   raced, overtaken, enabled, ctrlVars, threadVars, host, issued,
                   surfaced>>

\* Nothing on its way between interrupt, thread and stack, and EP0 IN idle: the
\* device will do nothing more of its own accord.
Quiet ==
    /\ flags = {} /\ ep_complete = {} /\ pc = "idle"
    /\ told = <<>> /\ call = NoBuf /\ ~pep[IN0].has_transfer

\* A SETUP packet arrives.  The most patient host lets the device come to rest
\* first; another ends the stages of one request before it begins the next, which
\* may find the driver thread behind; a third begins when it likes, as after a
\* handshake that got lost.
HostSetup(r) ==
    /\ Addressed
    /\ r \notin issued
    /\ Patience = "device" => Quiet /\ host.step = "idle"
    /\ Patience = "stages" => host.step = "idle"
    /\ setup_packet' = r
    /\ IrqHandler({"setup"})
    /\ issued' = issued \cup {r}
    /\ host' = [host EXCEPT !.req = r,
                   !.step = CASE Kind[r] = "read" -> "data_in"
                              [] Kind[r] = "write" -> "data_out"
                              [] OTHER -> "status_in"]
    /\ UNCHANGED <<pep, ep_complete, dev_addr, epVars, enabled, ctrlVars,
                   threadVars, moved, surfaced>>

\* An IN transaction on EP0.  The status of a SET_ADDRESS done, the host uses
\* the new address.
HostControlIn ==
    /\ host.step \in {"data_in", "status_in"}
    /\ WireDone(IN0)
    /\ host' = IF host.step = "data_in" THEN [host EXCEPT !.step = "status_out"]
               ELSE [host EXCEPT !.step = "idle",
                        !.addr = IF Kind[host.req] = "address" THEN host.req ELSE @]
    /\ UNCHANGED <<setup_packet, dev_addr, epVars, enabled, ctrlVars, threadVars,
                   moved, issued, surfaced>>

\* The data of a control write; nothing ever arms EP0 OUT for a status.
HostControlOut ==
    /\ host.step = "data_out"
    /\ WireDone(OUT0)
    /\ host' = [host EXCEPT !.step = "status_in"]
    /\ UNCHANGED <<setup_packet, dev_addr, epVars, enabled, ctrlVars, threadVars,
                   moved, issued, surfaced>>

\* The host gives up on a request, or resets the bus.
HostGivesUp(ints) ==
    /\ Patience = "device" => Quiet
    /\ Patience = "stages" => host.step = "status_out"
    /\ host.step # "idle"
    /\ host' = [host EXCEPT !.step = "idle"]
    /\ IrqHandler(ints)
    /\ UNCHANGED <<picoVars, epVars, enabled, ctrlVars, threadVars, moved, issued,
                   surfaced>>

Host ==
    \/ \E s \in Eps : HostTransfers(s)
    \/ \E r \in Requests : HostSetup(r)
    \/ HostControlIn
    \/ HostControlOut
    \/ \E ints \in {{}, {"reset"}} : HostGivesUp(ints)
-----------------------------------------------------------------------------
(* The driver thread                                                       *)

\* Faulty: the flags are read, not taken.
ThreadWakesReads ==
    /\ pc = "idle" /\ enabled
    /\ f' = flags
    /\ pc' = "setup"
    /\ UNCHANGED <<picoVars, epVars, flags, enabled, ctrlVars, pending, reg, hostVars>>

\* Take the flags; a reset is told to the stack, which answers with API calls.
ThreadWakes ==
    /\ pc = "idle" /\ enabled
    /\ f' = flags
    /\ flags' = {}
    /\ pc' = "setup"
    /\ UNCHANGED <<picoVars, epVars, enabled, ctrlVars, pending, reg, hostVars>>

AfterSetup == IF "ep_done" \in f THEN "load" ELSE "idle"

NoSetup ==
    /\ pc = "setup" /\ "setup" \notin f
    /\ pc' = AfterSetup
    /\ UNCHANGED <<picoVars, epVars, flags, enabled, ctrlVars, f, pending, reg,
                   hostVars>>

\* udc_ctrl_update_stage on a SETUP
StageOf == [read |-> "DATA_IN", write |-> "DATA_OUT", nodata |-> "STATUS_IN",
            address |-> "STATUS_IN"]

\* handle_setup: hand the packet that is in root->setup_packet to the stack, or,
\* for a control write, arm EP0 OUT and say nothing yet.
HandleSetup ==
    LET r == setup_packet IN
    /\ pc = "setup" /\ "setup" \in f
    /\ stage' = StageOf[Kind[r]]
    /\ IF Kind[r] = "write"
       THEN /\ pep' = IF Accepts(OUT0) THEN KickOff(OUT0, [req |-> r, what |-> "data"])
                      ELSE pep
            /\ UNCHANGED <<told, surfaced>>
       ELSE /\ told' = Append(told, [req |-> r, what |-> Kind[r]])
            /\ surfaced' = [surfaced EXCEPT ![r] = @ + 1]
            /\ UNCHANGED pep
    /\ pc' = AfterSetup
    /\ UNCHANGED <<ep_complete, setup_packet, dev_addr, epVars, flags, enabled,
                   pending_address, f, pending, reg, host, moved, issued>>

\* No buffer for the SETUP, or none for the data of a control write.
HandleSetupNoMem ==
    /\ AllocFails
    /\ pc = "setup" /\ "setup" \in f
    /\ \/ UNCHANGED stage
       \/ Kind[setup_packet] = "write" /\ stage' = "DATA_OUT"
    /\ pc' = AfterSetup
    /\ UNCHANGED <<picoVars, epVars, flags, enabled, told, pending_address, f,
                   pending, reg, hostVars>>

\* Faulty: the bits are numbered from one.
DrainLoadFromOne ==
    /\ pc = "load"
    /\ pending' = {s + 1 : s \in ep_complete}
    /\ pc' = "clear"
    /\ UNCHANGED <<picoVars, epVars, flags, enabled, ctrlVars, f, reg, hostVars>>

\* drain_ep_complete: "pending = root->ep_complete; root->ep_complete &= ~pending",
\* two loads and a store that the interrupt may fall between.
DrainLoad ==
    /\ pc = "load"
    /\ pending' = ep_complete
    /\ pc' = "clear"
    /\ UNCHANGED <<picoVars, epVars, flags, enabled, ctrlVars, f, reg, hostVars>>

DrainReload ==
    /\ pc = "clear"
    /\ reg' = ep_complete \ pending
    /\ pc' = "store"
    /\ UNCHANGED <<picoVars, epVars, flags, enabled, ctrlVars, f, pending, hostVars>>

DrainStore ==
    /\ pc = "store"
    /\ ep_complete' = reg
    /\ dropped' = dropped \cup ((ep_complete \ (reg \cup pending)) \cap Eps)
    /\ reg' = {}
    /\ pc' = "handle"
    /\ UNCHANGED <<pep, setup_packet, dev_addr, fifo, halted, call, owner, result,
                   parked, raced, overtaken, flags, enabled, ctrlVars, f, pending,
                   hostVars>>

\* udc_ctrl_update_stage on a data or status buffer of slot s
NextStage(s) ==
    CASE s = OUT0 /\ stage = "DATA_OUT" -> "STATUS_IN"
      [] s = OUT0 /\ stage = "STATUS_OUT" -> "SETUP"
      [] s = IN0 /\ stage = "DATA_IN" -> "STATUS_OUT"
      [] s = IN0 /\ stage = "STATUS_IN" -> "SETUP"
      [] OTHER -> stage

\* handle_ep_complete on slot s, with the buffer udc_buf_get finds.  On an
\* endpoint of a class, give the buffer back; on EP0, advance the control stage,
\* handing the stack a control write whose data is there, and applying the
\* address with a STATUS IN.
BulkDone(s, b) ==
    /\ owner' = [owner EXCEPT ![b] = "app"]
    /\ result' = [result EXCEPT ![b] = "ok"]
    /\ UNCHANGED <<stage, told, surfaced, dev_addr, pending_address>>

\* Faulty: the address is applied with the status of a control read.
AppliesAddressOnRead(s) ==
    s = OUT0 /\ stage = "STATUS_OUT" /\ pending_address # NoReq

AppliesAddress(s) == s = IN0 /\ stage = "STATUS_IN" /\ pending_address # NoReq

\* Faulty: the stage is not updated after the data of a control read.
ControlDoneKeepsStage(s, b) ==
    /\ stage' = IF stage = "DATA_IN" THEN stage ELSE NextStage(s)
    /\ IF AppliesAddress(s)
       THEN dev_addr' = pending_address /\ pending_address' = NoReq
       ELSE UNCHANGED <<dev_addr, pending_address>>
    /\ UNCHANGED <<told, surfaced, owner, result>>

ControlDone(s, b) ==
    /\ stage' = NextStage(s)
    /\ IF s = OUT0 /\ stage = "DATA_OUT"
       THEN /\ told' = Append(told, [req |-> b.req, what |-> "nodata"])
            /\ surfaced' = [surfaced EXCEPT ![b.req] = @ + 1]
       ELSE UNCHANGED <<told, surfaced>>
    /\ IF AppliesAddress(s)
       THEN dev_addr' = pending_address /\ pending_address' = NoReq
       ELSE UNCHANGED <<dev_addr, pending_address>>
    /\ UNCHANGED <<owner, result>>

\* Faulty: the buffer is looked at, not taken off the fifo.
HandleEpCompletePeeks(s) ==
    IF fifo[s] = <<>>
    THEN UNCHANGED <<fifo, stage, told, surfaced, dev_addr, pending_address, owner,
                     result>>
    ELSE /\ IF s \in Eps THEN BulkDone(s, Head(fifo[s]))
                          ELSE ControlDone(s, Head(fifo[s]))
         /\ UNCHANGED fifo

HandleEpComplete(s) ==
    IF fifo[s] = <<>>
    THEN UNCHANGED <<fifo, stage, told, surfaced, dev_addr, pending_address, owner,
                     result>>
    ELSE LET b == Head(fifo[s]) IN
         /\ fifo' = [fifo EXCEPT ![s] = Tail(@)]
         /\ IF s \in Eps THEN BulkDone(s, b) ELSE ControlDone(s, b)

DrainNext ==
    /\ pc = "handle"
    /\ \E s \in pending :
          /\ \A t \in pending : s <= t
          /\ pending' = pending \ {s}
          /\ HandleEpComplete(s)
    /\ UNCHANGED <<pep, ep_complete, setup_packet, halted, call, parked, lapseVars,
                   flags, enabled, pc, f, reg, host, moved, issued>>

\* Faulty: the flags are cleared after dispatch.
DrainDoneClears ==
    /\ pc = "handle" /\ pending = {}
    /\ pc' = "idle"
    /\ flags' = {}
    /\ UNCHANGED <<picoVars, epVars, enabled, ctrlVars, f, pending, reg, hostVars>>

\* Faulty: the loop ends with the first endpoint.
DrainDoneEarly ==
    /\ pc = "handle"
    /\ pending' = {}
    /\ pc' = "idle"
    /\ UNCHANGED <<picoVars, epVars, flags, enabled, ctrlVars, f, reg, hostVars>>

DrainDone ==
    /\ pc = "handle" /\ pending = {}
    /\ pc' = "idle"
    /\ UNCHANGED <<picoVars, epVars, flags, enabled, ctrlVars, f, pending, reg,
                   hostVars>>

ThreadStep ==
    \/ ThreadWakes
    \/ NoSetup \/ HandleSetup \/ HandleSetupNoMem
    \/ DrainLoad \/ DrainReload \/ DrainStore
    \/ DrainNext \/ DrainDone
-----------------------------------------------------------------------------
(* The UDC API                                                             *)

ApiFree == call = NoBuf

\* udc_pio_usb_ep_enqueue, first part: udc_buf_put.  A class may have any number of
\* buffers on an endpoint; none is linked into a fifo twice.
EnqueuePut(b) ==
    /\ ApiFree
    /\ owner[b] = "app" /\ b \notin Range(fifo[EpOf[b]])
    /\ fifo' = [fifo EXCEPT ![EpOf[b]] = Append(@, b)]
    /\ owner' = [owner EXCEPT ![b] = "udc"]
    /\ result' = [result EXCEPT ![b] = "none"]
    /\ moved' = moved \ {b}
    /\ parked' = parked \ {b}
    /\ call' = b
    /\ UNCHANGED <<picoVars, halted, lapseVars, flags, enabled, ctrlVars, threadVars,
                   host, issued, surfaced>>

\* Faulty: the address takes effect at once.
SetAddressNow ==
    /\ ApiFree
    /\ told # <<>> /\ Head(told).what = "address"
    /\ dev_addr' = Head(told).req
    /\ told' = [told EXCEPT ![1].what = "nodata"]
    /\ UNCHANGED <<pep, ep_complete, setup_packet, epVars, stage, pending_address,
                   flags, enabled, threadVars, hostVars>>

\* The stack acts on a control request: it assigns the address a SET_ADDRESS
\* asks for, then queues the data or the status on EP0 IN.
SetAddress ==
    /\ ApiFree
    /\ told # <<>> /\ Head(told).what = "address"
    /\ pending_address' = Head(told).req
    /\ told' = [told EXCEPT ![1].what = "nodata"]
    /\ UNCHANGED <<picoVars, epVars, stage, flags, enabled, threadVars, hostVars>>

StackAnswers ==
    /\ ApiFree
    /\ told # <<>> /\ Head(told).what \in {"read", "nodata"}
    /\ LET b == [req |-> Head(told).req,
                 what |-> IF Head(told).what = "read" THEN "data" ELSE "status"]
       IN  fifo' = [fifo EXCEPT ![IN0] = Append(@, b)] /\ call' = b
    /\ told' = Tail(told)
    /\ UNCHANGED <<picoVars, halted, owner, result, parked, lapseVars, stage,
                   pending_address, flags, enabled, threadVars, hostVars>>

\* Second part: a halted endpoint keeps the buffer for later; else kick it off.
\* When that fails the caller gets the error, and the buffer stays in the fifo.
CallSlot == IF call \in Bufs THEN EpOf[call] ELSE IN0
EnqueueKick ==
    LET s == CallSlot IN
    /\ call # NoBuf
    /\ call' = NoBuf
    /\ \/ /\ halted[s]
          /\ parked' = parked \cup ({call} \cap Bufs)
          /\ UNCHANGED <<pep, owner, result, overtaken>>
       \/ /\ ~halted[s] /\ Accepts(s)
          /\ pep' = KickOff(s, call)
          /\ overtaken' = IF s \in Eps /\ ~(Range(fifo[s]) \subseteq moved \cup {call})
                          THEN overtaken \cup {s} ELSE overtaken
          /\ UNCHANGED <<owner, result, parked>>
       \/ /\ ~halted[s] /\ ~Accepts(s)
          /\ owner' = [b \in Bufs |-> IF b = call THEN "app" ELSE owner[b]]
          /\ result' = [b \in Bufs |-> IF b = call THEN "refused" ELSE result[b]]
          /\ UNCHANGED <<pep, parked, overtaken>>
    /\ UNCHANGED <<ep_complete, setup_packet, dev_addr, fifo, halted, raced, dropped,
                   flags, enabled, ctrlVars, threadVars, hostVars>>

\* Faulty: the endpoint goes on transferring.
NotStopped(s) == pep

Stopped(s) == [pep EXCEPT ![s].has_transfer = FALSE]

\* udc_pio_usb_ep_dequeue, with interrupts locked: abort what is in the fifo and
\* stop the endpoint, but leave a completion that is on its way.
EpDequeue(s) ==
    /\ ApiFree
    /\ owner' = [b \in Bufs |-> IF b \in Range(fifo[s]) THEN "app" ELSE owner[b]]
    /\ result' = [b \in Bufs |-> IF b \in Range(fifo[s]) THEN "aborted" ELSE result[b]]
    /\ fifo' = [fifo EXCEPT ![s] = <<>>]
    /\ pep' = Stopped(s)
    /\ IF s \in ep_complete \cup pending
       THEN raced' = raced \cup {s} /\ UNCHANGED <<overtaken, dropped>>
       ELSE /\ raced' = raced \ {s}
            /\ overtaken' = overtaken \ {s}
            /\ dropped' = dropped \ {s}
    /\ UNCHANGED <<ep_complete, setup_packet, dev_addr, halted, call, parked, flags,
                   enabled, ctrlVars, threadVars, hostVars>>

\* Faulty: halting an endpoint also ends its transfer.
SetHaltDropsTransfer(s, on) ==
    /\ ApiFree
    /\ halted' = [halted EXCEPT ![s] = on]
    /\ pep' = [pep EXCEPT ![s].stalled = on,
                       ![s].has_transfer = @ /\ ~on]
    /\ UNCHANGED <<ep_complete, setup_packet, dev_addr, fifo, call, owner, result,
                   parked, lapseVars, flags, enabled, ctrlVars, threadVars, hostVars>>

\* udc_pio_usb_ep_set_halt, udc_pio_usb_ep_clear_halt
SetHalt(s, on) ==
    /\ ApiFree
    /\ halted' = [halted EXCEPT ![s] = on]
    /\ pep' = [pep EXCEPT ![s].stalled = on]
    /\ UNCHANGED <<ep_complete, setup_packet, dev_addr, fifo, call, owner, result,
                   parked, lapseVars, flags, enabled, ctrlVars, threadVars, hostVars>>

\* udc_pio_usb_ep_enable and _ep_disable (size = 0), which drop
\* nothing that is queued.  The common layer clears stat.halted when it enables.
EpEnable(s) ==
    /\ ApiFree
    /\ ~pep[s].open
    /\ pep' = [pep EXCEPT ![s].open = TRUE]
    /\ halted' = [halted EXCEPT ![s] = FALSE]
    /\ UNCHANGED <<ep_complete, setup_packet, dev_addr, fifo, call, owner, result,
                   parked, lapseVars, flags, enabled, ctrlVars, threadVars, hostVars>>

EpDisable(s) ==
    /\ ApiFree
    /\ pep[s].open
    /\ pep' = [pep EXCEPT ![s].open = FALSE]
    /\ UNCHANGED <<ep_complete, setup_packet, dev_addr, epVars, flags, enabled,
                   ctrlVars, threadVars, hostVars>>

SetEnabled(on) ==
    /\ ApiFree
    /\ enabled' = on
    /\ UNCHANGED <<picoVars, epVars, flags, ctrlVars, threadVars, hostVars>>

Api ==
    \/ \E b \in Bufs : EnqueuePut(b)
    \/ SetAddress
    \/ StackAnswers
    \/ EnqueueKick
    \/ \E s \in Eps : EpDequeue(s) \/ EpEnable(s) \/ EpDisable(s)
    \/ \E s \in Eps, on \in BOOLEAN : SetHalt(s, on)
    \/ \E on \in BOOLEAN : SetEnabled(on)

Next == Host \/ ThreadStep \/ Api

Spec == Init /\ [][Next]_vars

\* The driver thread keeps running and a call of the API returns.
FairSpec == Spec /\ WF_vars(ThreadStep) /\ WF_vars(EnqueueKick)
-----------------------------------------------------------------------------
(* Properties                                                              *)

UdcTypeOK ==
    /\ pep \in [Slots -> Endpoints]
    /\ ep_complete \subseteq Slots /\ pending \subseteq Slots /\ reg \subseteq Slots
    /\ setup_packet \in Requests \cup {NoReq} /\ dev_addr \in Requests \cup {NoReq}
    /\ pending_address \in Requests \cup {NoReq}
    /\ fifo \in [Slots -> Seq(Buffers)]
    /\ halted \in [Slots -> BOOLEAN]
    /\ stage \in CtrlStages
    /\ told \in Seq([req : Requests, what : Kinds])
    /\ call \in Buffers \cup {NoBuf}
    /\ owner \in [Bufs -> {"app", "udc"}]
    /\ result \in [Bufs -> Results]
    /\ parked \subseteq Bufs
    /\ raced \subseteq Eps /\ overtaken \subseteq Eps /\ dropped \subseteq Eps
    /\ flags \subseteq Flags /\ f \subseteq Flags
    /\ enabled \in BOOLEAN
    /\ pc \in PCs
    /\ host \in [req : Requests \cup {NoReq}, addr : Requests \cup {NoReq},
                 step : {"idle", "data_in", "data_out", "status_in", "status_out"}]
    /\ moved \subseteq Bufs
    /\ issued \subseteq Requests
    /\ surfaced \in [Requests -> Nat]

\* A class is told its buffer went through only if the host moved that buffer
\* (handle_ep_complete takes whatever is first in the fifo), except where a stale bit or
\* a buffer left behind has put the two out of step, until the next clean dequeue.
OkMeansMoved ==
    [][\A b \in Bufs : result'[b] = "ok" /\ result[b] # "ok" =>
          b \in moved \/ EpOf[b] \in raced \cup overtaken]_result

\* The library reads or writes a net_buf only while the driver holds it: what an
\* endpoint is transferring is in the endpoint's fifo, though each completion takes
\* off whatever comes first, unless a dequeue left it a stale bit.
Fifos == Eps \cup {IN0}
WireHoldsQueued ==
    \A s \in Fifos \ raced : pep[s].has_transfer => pep[s].buf \in Range(fifo[s])

\* The driver owns the buffers in its fifos, each in its own, and no others, but for
\* those it refused: their callers have the error, and the fifo keeps them (544-555).
FifoOwned ==
    /\ \A b \in Bufs : owner[b] = "udc" => b \in Range(fifo[EpOf[b]])
    /\ \A s \in Eps : \A b \in Range(fifo[s]) :
          b \in Bufs /\ EpOf[b] = s /\ (owner[b] = "udc" \/ result[b] = "refused")

\* A completion bit is one the thread has in hand, or will wake for: the flags are
\* taken before the bitmap is read, and the interrupt sets the bit before the flag
\* (286, 262, 336).
CompletionFlagged ==
    \A s \in ep_complete :
        \/ "ep_done" \in flags
        \/ pc = "load" \/ (pc = "setup" /\ "ep_done" \in f)
        \/ pc \in {"clear", "store"} /\ s \in pending

\* A buffer in the fifo of an idle endpoint, when all is at rest, has one of four
\* stories: it was queued on a halted endpoint (left for "after clear_halt", 547, which
\* does nothing about it, 529-537), or refused; or the host has moved it, and its
\* completion was lost, or went to a buffer before it.
Lapsed == raced \cup overtaken \cup dropped
StrandedHasCause ==
    flags = {} /\ ep_complete = {} /\ pc = "idle" /\ call = NoBuf =>
        \A s \in Eps : ~pep[s].has_transfer => \A b \in Range(fifo[s]) :
            \/ b \in parked
            \/ result[b] = "refused"
            \/ b \in moved /\ s \in Lapsed

\* The inductive invariant behind these properties.  Each endpoint has buffers of its
\* own, and a SETUP that is flagged has its packet.
ClassBufs(s) == {b \in Bufs : EpOf[b] = s}
ControlInv ==
    /\ fifo[OUT0] \in Seq(CtrlBufs) /\ fifo[IN0] \in Seq(CtrlBufs)
    /\ \A s \in Eps : pep[s].has_transfer => pep[s].buf \in ClassBufs(s)
    /\ "setup" \in flags \cup f => setup_packet \in Requests

\* The thread in its clearing of the bitmap.
BitmapInv ==
    /\ pc \in {"idle", "setup", "load"} => pending = {}
    /\ pc \in {"clear", "store"} => pending \subseteq ep_complete
    /\ pc = "store" => reg \subseteq ep_complete \ pending

\* No buffer is in a fifo twice, and each has come to where StrandedHasCause finds it.
HeldInv(s) ==
    /\ IsInjective(fifo[s])
    /\ \A b \in Range(fifo[s]) :
          \/ b \in moved \cup parked \/ result[b] = "refused"
          \/ call = b
          \/ pep[s].has_transfer /\ pep[s].buf = b

\* What is on the wire comes after those that the completions on their way will take off
\* the fifo, and what is being queued after it.
Completions(s) ==
    (IF s \in ep_complete THEN 1 ELSE 0)
    + (IF pc = "handle" /\ s \in pending THEN 1 ELSE 0)
Outstanding(s) == Completions(s) + (IF pep[s].has_transfer THEN 1 ELSE 0)
QueueInv(s) ==
    /\ Outstanding(s) <= Len(fifo[s])
    /\ pep[s].has_transfer =>
          \E j \in DOMAIN fifo[s] : j > Completions(s) /\ fifo[s][j] = pep[s].buf
    /\ call # NoBuf /\ s = CallSlot =>
          Outstanding(s) < Len(fifo[s]) /\ Last(fifo[s]) = call

\* An endpoint in step moves its buffers in the order they were queued: the moved ones
\* come first, then the one on the wire; and the completions on their way are those of
\* the moved ones, of all of them unless one was lost.
StepInv(s) ==
    LET q == fifo[s] IN
    /\ \A i, j \in DOMAIN q : i <= j /\ q[j] \in moved => q[i] \in moved
    /\ \A i \in DOMAIN q : i <= Completions(s) => q[i] \in moved
    /\ s \notin dropped => \A i \in DOMAIN q : i > Completions(s) => q[i] \notin moved
    /\ pep[s].has_transfer => pep[s].buf \notin moved \cup {call}
    /\ pep[s].has_transfer =>
          \A i, j \in DOMAIN q : i < j /\ q[j] = pep[s].buf => q[i] \in moved
    /\ call \in Bufs /\ s = CallSlot => call \notin moved

UdcInv ==
    /\ UdcTypeOK /\ ControlInv /\ BitmapInv /\ CompletionFlagged
    /\ FifoOwned /\ \A s \in Eps : HeldInv(s)
    /\ \A s \in Fifos \ raced : QueueInv(s)
    /\ \A s \in Eps \ (raced \cup overtaken) : StepInv(s)

\* "drain ep_complete bitmap, forward queued buffers to the device stack"
\* (udc_pio_usb.c:32-34): what the host has moved comes back to its class.
CompletionForwarded ==
    <>[]enabled =>
        \A b \in Bufs : b \in moved /\ owner[b] = "udc" ~> owner[b] = "app"

\* Of an endpoint in step every moved buffer does, with what its callers do meanwhile.
ForwardedUntilLapsed ==
    <>[]enabled =>
        \A b \in Bufs :
            b \in moved /\ owner[b] = "udc" /\ EpOf[b] \notin Lapsed
                ~> owner[b] = "app" \/ EpOf[b] \in Lapsed

\* Nor does any order of steps lose it before: until the buffer is back, its bit is set.
MovedIsNoted ==
    \A b \in moved : owner[b] = "udc" /\ EpOf[b] \notin Lapsed
        => EpOf[b] \in ep_complete \cup pending

\* SET_ADDRESS takes effect with its own STATUS IN, not before: the driver
\* assigns only the address the host has begun to use (comment at 444-446).
AddressOnlyAfterStatus == [][dev_addr' = host.addr]_dev_addr

\* And not later than the handling of that STATUS IN: while the host uses an
\* address the device has not assigned, the completion is on its way
\* ("apply any pending SET_ADDRESS now", 242-244).
AddressApplied ==
    host.addr \notin {NoReq, dev_addr} => IN0 \in ep_complete \cup pending

\* What StageFollowsHost and AddressApplied take for granted where a class moves data:
\* that the store of the bitmap overwrites no bit the interrupt has set (263).
NothingOverwritten == pc = "store" => ep_complete = reg \cup pending

\* The driver and the host agree on the stage of a request that the stack has
\* been handed, whenever the thread has caught up.
HostStage == [data_in |-> "DATA_IN", data_out |-> "DATA_OUT",
              status_in |-> "STATUS_IN", status_out |-> "STATUS_OUT"]
CaughtUp == flags = {} /\ ep_complete = {} /\ pc = "idle"
StageFollowsHost ==
    CaughtUp /\ host.step # "idle" /\ surfaced[host.req] > 0
        => stage = HostStage[host.step]

\* The stack is handed every SETUP packet once at most ("our IRQ override has
\* already snapshotted the bytes", 161-165).
SurfacedOnce == \A r \in Requests : surfaced[r] <= 1
-----------------------------------------------------------------------------
(* What the comments say, and the code does not do                         *)

\* "defer the upper-layer notification until the OUT data arrives" (184-186):
\* once it has, and the thread has caught up, the stack knows of the request.
WriteReported ==
    CaughtUp /\ host.step = "status_in" /\ Kind[host.req] = "write"
        => surfaced[host.req] > 0

\* What it does instead: no fifo ever holds the data buffer, so that the stack is handed
\* no control write at all (196, 216).
WritesUnheard ==
    fifo[OUT0] = <<>> /\ \A r \in Requests : Kind[r] = "write" => surfaced[r] = 0
=============================================================================
