------------------------------ MODULE UhcPioUsb ------------------------------
(***************************************************************************)
(* drivers/usb/host/uhc_pio_usb.c: the Zephyr host controller driver.      *)
(*                                                                         *)
(* Two sides run concurrently and share everything below: the driver thread*)
(* (uhc_pio_usb_thread and the functions it calls), and the callers of the *)
(* UHC API.  API calls exclude each other (the UHC mutex); the thread never*)
(* takes that mutex, so an API call may fall between any two of its steps. *)
(* The thread is split at every point where an API call or a callback can  *)
(* see a difference; "pc" is where it stands.                              *)
(***************************************************************************)
EXTENDS PicoPioUsbHost, SequencesExt

CONSTANTS
    Addr,        \* [Xfers -> DevAddrs]  xfer->addr
    Ep,          \* [Xfers -> EpAddrs]   xfer->ep
    HasData,     \* [Xfers -> BOOLEAN]   xfer->buf != NULL and wLength != 0
    SlotCount,   \* ARRAY_SIZE(priv->inflight)
    Bounces      \* may the line drop and return within one frame?

ASSUME XferAssumption ==
    /\ Addr \in [Xfers -> DevAddrs]
    /\ Ep \in [Xfers -> EpAddrs]
    /\ HasData \in [Xfers -> BOOLEAN]
ASSUME SlotAssumption == SlotCount \in Nat \ {0}
ASSUME BouncesAssumption == Bounces \in BOOLEAN

Slots == 1..SlotCount
Control(x) == IsControl(Ep[x])

RootEvents == {"NONE", "CONNECT", "DISCONNECT"}
Errors == {"OK", "EIO", "EPIPE", "ENODEV"}
Phases == Regs \cup {"flush", "pump"}
PCs == {"frame", "surface", "flush", "load", "bits", "kick", "return", "free",
        "pump"}

VARIABLES
    \* Pico-PIO-USB
    pool,         \* [Pool -> Endpoints]
    bits,         \* [Regs -> SUBSET Pool], the per-endpoint bitmaps
    root,         \* root_port_t: connected, suspended, event
    line,         \* is a device pulling D+ or D- up?
    \* Zephyr uhc_common and the transfers themselves
    queue,        \* the UHC transfer list
    owner,        \* [Xfers -> {"app", "uhc"}]: who may touch the struct
    stage,        \* [Xfers -> Stages]: xfer->stage
    result,       \* [Xfers -> Errors \cup {"none"}]: xfer->err once returned
    acked,        \* [Xfers -> SUBSET Stages]: stages done on the wire (history)
    \* struct uhc_pio_usb_data_priv
    inflight,     \* [Slots -> InflightSlots]
    last_root_event,
    enabled,
    resetting,    \* a caller is inside uhc_pio_usb_bus_reset
    \* the driver thread
    pc,
    phase,        \* which loop "bits", "kick", "return" and "free" serve
    pending,      \* drain_endpoint_bitmap's local copy of the bitmap
    cur,          \* the slot in hand (1 when there is none)
    xfer,         \* the transfer in hand (NoXfer when there is none)
    err           \* the error in hand

picoVars == <<pool, bits, root>>
xferVars == <<queue, owner, stage, result, acked>>
apiVars == <<enabled, resetting>>
threadVars == <<pc, phase, pending, cur, xfer, err>>
vars == <<pool, bits, root, line, queue, owner, stage, result, acked, inflight,
          last_root_event, enabled, resetting, pc, phase, pending, cur, xfer,
          err>>

InflightSlots == [xfer : Xfers \cup {NoXfer}, dev_addr : DevAddrs,
                  ep_addr : EpAddrs, open : BOOLEAN, started : BOOLEAN]

\* slot_free: memset(slot, 0, sizeof(*slot))
EmptySlot == [xfer |-> NoXfer, dev_addr |-> 0, ep_addr |-> 0,
              open |-> FALSE, started |-> FALSE]

Occupied == {s \in Slots : inflight[s].xfer # NoXfer}
Vacant == {s \in Slots : inflight[s].xfer = NoXfer}

\* slot_for_xfer
SlotFor(x) == First({s \in Slots : inflight[s].xfer = x})

Init ==
    /\ pool = [i \in Pool |-> FreeEndpoint]
    /\ bits = [r \in Regs |-> {}]
    /\ root = [connected |-> FALSE, suspended |-> TRUE, event |-> "NONE"]
    /\ line \in BOOLEAN
    /\ queue = <<>>
    /\ owner = [x \in Xfers |-> "app"]
    /\ stage = [x \in Xfers |-> "SETUP"]
    /\ result = [x \in Xfers |-> "none"]
    /\ acked = [x \in Xfers |-> {}]
    /\ inflight = [s \in Slots |-> EmptySlot]
    /\ last_root_event = "NONE"
    /\ enabled = FALSE
    /\ resetting = FALSE
    /\ pc = "frame"
    /\ phase = "pump"
    /\ pending = {}
    /\ cur = 1
    /\ xfer = NoXfer
    /\ err = "OK"
-----------------------------------------------------------------------------
(* pio_usb_host_frame and the interrupt override it calls                  *)

\* Faulty: the library's own handler, which clears every bitmap.
UpstreamIrqHandler(event, ints, b) ==
    [event |-> IF "disconnect" \in ints THEN "DISCONNECT"
               ELSE IF "connect" \in ints THEN "CONNECT" ELSE event,
     bits |-> [r \in Regs |-> {}]]

\* Faulty: disconnects are not translated.
IrqHandlerConnectOnly(event, ints, b) ==
    [event |-> IF "connect" \in ints THEN "CONNECT" ELSE event, bits |-> b]

\* pio_usb_host_irq_handler: translate the connect and disconnect interrupts
\* into root->event, a disconnect winning when both are flagged, and leave the
\* per-endpoint bitmaps alone for the drain pass.
IrqHandler(event, ints, b) ==
    [event |-> IF "disconnect" \in ints THEN "DISCONNECT"
               ELSE IF "connect" \in ints THEN "CONNECT" ELSE event,
     bits |-> b]

\* Every frame ends in the interrupt handler and then in surface_root_events.
FrameEnds(b, connected, suspended, ints) ==
    LET irq == IrqHandler(root.event, ints, b) IN
    /\ bits' = irq.bits
    /\ root' = [connected |-> connected, suspended |-> suspended,
                event |-> irq.event]
    /\ pc' = "surface"
    /\ UNCHANGED <<line, queue, owner, stage, result, inflight, last_root_event,
                   apiVars, phase, pending, cur, xfer, err>>

FrameStarts == pc = "frame" /\ enabled

\* A working bus: each queued endpoint gets a transaction, which the device
\* answers for good or not yet ("none": NAK, or more packets to come).
FrameTransacts(answer) ==
    LET done == {i \in Busy(pool) : answer[i] # "none"}
        ok == {i \in Busy(pool) : answer[i] = "complete"}
    IN  /\ FrameStarts
        /\ root.connected /\ ~root.suspended /\ line
        /\ pool' = Complete(pool, done)
        /\ acked' = [x \in Xfers |-> acked[x] \cup
                        {pool[i].xact.stage : i \in {j \in ok : pool[j].xact.xfer = x}}]
        /\ FrameEnds([r \in Regs |-> bits[r] \cup {i \in done : answer[i] = r}],
                     TRUE, FALSE, {})

\* The device is gone: fail every queued transfer.  A suspended port need not
\* be polled.  When the line bounces the same frame reports a new connection.
FrameDisconnects ==
    /\ FrameStarts
    /\ root.connected /\ (~line \/ Bounces)
    /\ pool' = Complete(pool, Busy(pool))
    /\ FrameEnds([bits EXCEPT !["error"] = @ \cup Busy(pool)], line, TRUE,
                 IF line THEN {"disconnect", "connect"} ELSE {"disconnect"})
    /\ UNCHANGED acked

\* A new device: the port comes up suspended, until the bus is reset.
FrameConnects ==
    /\ FrameStarts
    /\ ~root.connected /\ line
    /\ FrameEnds(bits, TRUE, TRUE, {"connect"})
    /\ UNCHANGED <<pool, acked>>

\* Nothing to do on a suspended or an empty port.
FrameIdles ==
    /\ FrameStarts
    /\ IF root.connected THEN root.suspended ELSE ~line
    /\ FrameEnds(bits, root.connected, root.suspended, {})
    /\ UNCHANGED <<pool, acked>>

Answers == [Busy(pool) -> Regs \cup {"none"}]

Frame ==
    \/ \E answer \in Answers : FrameTransacts(answer)
    \/ FrameDisconnects
    \/ FrameConnects
    \/ FrameIdles
-----------------------------------------------------------------------------
(* surface_root_events                                                     *)

\* Tell the stack of a port event that differs from the last one told; on a
\* disconnect, go on to release the slot table.
SurfaceRootEvents ==
    LET lost == root.event # last_root_event /\ root.event = "DISCONNECT" IN
    /\ pc = "surface"
    /\ last_root_event' = root.event
    /\ IF lost THEN pc' = "flush" /\ phase' = "flush"
               ELSE pc' = "load" /\ phase' = "complete"
    /\ UNCHANGED <<picoVars, line, xferVars, inflight, apiVars, pending, cur,
                   xfer, err>>

\* Hand back what the next occupied slot holds, or leave the loop.
FlushSlot ==
    /\ pc = "flush"
    /\ \E s \in First(Occupied) : cur' = s /\ xfer' = inflight[s].xfer
    /\ err' = "ENODEV"
    /\ pc' = "return"
    /\ UNCHANGED <<picoVars, line, xferVars, inflight, last_root_event, apiVars,
                   phase, pending>>

FlushDone ==
    /\ pc = "flush"
    /\ Occupied = {}
    /\ pc' = "load"
    /\ phase' = "complete"
    /\ UNCHANGED <<picoVars, line, xferVars, inflight, last_root_event, apiVars,
                   pending, cur, xfer, err>>
-----------------------------------------------------------------------------
(* drain_endpoint_bitmap, called on ep_complete, ep_stalled, ep_error      *)

RegError == [complete |-> "OK", stalled |-> "EPIPE", error |-> "EIO"]
NextReg == [complete |-> "stalled", stalled |-> "error"]

\* Faulty: the lowest bit is counted from one.
LoadBitsFromOne ==
    /\ pc = "load"
    /\ pending' = {i + 1 : i \in bits[phase]}
    /\ bits' = [bits EXCEPT ![phase] = @ \ bits[phase]]
    /\ err' = RegError[phase]
    /\ pc' = "bits"
    /\ UNCHANGED <<pool, root, line, xferVars, inflight, last_root_event,
                   apiVars, phase, cur, xfer>>

LoadBits ==
    /\ pc = "load"
    /\ pending' = bits[phase]
    /\ bits' = [bits EXCEPT ![phase] = @ \ bits[phase]]
    /\ err' = RegError[phase]
    /\ pc' = "bits"
    /\ UNCHANGED <<pool, root, line, xferVars, inflight, last_root_event,
                   apiVars, phase, cur, xfer>>

\* The slot an endpoint's event belongs to; the direction bit is ignored.
Match(i) ==
    First({s \in Occupied : /\ pool[i].used
                            /\ inflight[s].dev_addr = pool[i].dev_addr
                            /\ EpBase(inflight[s].ep_addr) = EpBase(pool[i].ep_num)})

SkipBit ==
    /\ pc = "bits"
    /\ \E i \in First(pending) : Match(i) = {} /\ pending' = pending \ {i}
    /\ UNCHANGED <<picoVars, line, xferVars, inflight, last_root_event, apiVars,
                   pc, phase, cur, xfer, err>>

\* A transfer ends with its endpoint's event: on an error, for anything but a
\* control transfer, and for a control transfer after its STATUS stage.
Finished(x) == err # "OK" \/ ~Control(x) \/ stage[x] = "STATUS"

FinishXfer ==
    /\ pc = "bits"
    /\ \E i \in First(pending) : \E s \in Match(i) :
          /\ Finished(inflight[s].xfer)
          /\ pending' = pending \ {i}
          /\ cur' = s
          /\ xfer' = inflight[s].xfer
    /\ pc' = "return"
    /\ UNCHANGED <<picoVars, line, xferVars, inflight, last_root_event, apiVars,
                   phase, err>>

\* Faulty: SETUP is followed by STATUS whether or not there is data.
NextStageSkipsData(x) == "STATUS"

NextStage(x) == IF stage[x] = "SETUP" /\ HasData[x] THEN "DATA" ELSE "STATUS"

AdvanceStage ==
    /\ pc = "bits"
    /\ \E i \in First(pending) : \E s \in Match(i) :
          LET x == inflight[s].xfer IN
          /\ ~Finished(x)
          /\ pending' = pending \ {i}
          /\ cur' = s
          /\ xfer' = x
          /\ stage' = [stage EXCEPT ![x] = NextStage(x)]
    /\ pc' = "kick"
    /\ UNCHANGED <<picoVars, line, queue, owner, result, acked, inflight,
                   last_root_event, apiVars, phase, err>>

DrainDone ==
    /\ pc = "bits"
    /\ pending = {}
    /\ IF phase = "error" THEN pc' = "pump" /\ phase' = "pump"
                          ELSE pc' = "load" /\ phase' = NextReg[phase]
    /\ err' = "OK"
    /\ UNCHANGED <<picoVars, line, xferVars, inflight, last_root_event, apiVars,
                   pending, cur, xfer>>
-----------------------------------------------------------------------------
(* kick_stage, uhc_xfer_return, slot_free                                  *)

\* The endpoint address the current stage goes to; STATUS runs against DATA.
WireEp(x) ==
    IF ~Control(x) \/ stage[x] = "DATA" THEN Ep[x]
    ELSE IF stage[x] = "STATUS" /\ ~IsIn(Ep[x]) THEN 128 ELSE 0

WireStage(x) == IF Control(x) THEN stage[x] ELSE "DATA"

\* ensure_endpoint_open: the pool afterwards, in a set that is empty when the
\* pool has no slot left.
Opened(slot) ==
    IF slot.open THEN {pool}
    ELSE {OpenAt(pool, i, slot.dev_addr, slot.ep_addr) : i \in First(FreeSlots(pool))}

\* The endpoint that takes the transaction, if there is one and it is idle.
Takers(p, slot, x) ==
    {i \in First(Lookup(p, slot.dev_addr, WireEp(x))) : ~p[i].has_transfer}

AfterKick == IF phase = "pump" THEN "frame" ELSE "bits"

\* Nothing in hand any more: the locals of the function die.
LetGo == cur' = 1 /\ xfer' = NoXfer

KickStage ==
    /\ pc = "kick"
    /\ LET slot == inflight[cur]
           opened == Opened(slot)
       IN  IF \A p \in opened : Takers(p, slot, xfer) = {}
           THEN /\ IF opened = {}
                   THEN UNCHANGED <<pool, inflight>>
                   ELSE /\ pool' \in opened
                        /\ inflight' = [inflight EXCEPT ![cur].open = TRUE]
                /\ err' = "EIO"
                /\ pc' = "return"
                /\ UNCHANGED <<cur, xfer>>
           ELSE /\ \E p \in opened : \E i \in Takers(p, slot, xfer) :
                      pool' = StartAt(p, i, WireEp(xfer), xfer, WireStage(xfer))
                /\ inflight' = [inflight EXCEPT ![cur].open = TRUE,
                                                ![cur].started = TRUE]
                /\ pc' = AfterKick
                /\ LetGo
                /\ UNCHANGED err
    /\ UNCHANGED <<bits, root, line, xferVars, last_root_event, apiVars, phase,
                   pending>>

\* uhc_xfer_return (uhc_common): unlink, record the error, tell the stack.
UhcXferReturn ==
    /\ pc = "return"
    /\ queue' = RemoveFirst(queue, xfer)
    /\ owner' = [owner EXCEPT ![xfer] = "app"]
    /\ result' = [result EXCEPT ![xfer] = err]
    /\ pc' = "free"
    /\ UNCHANGED <<picoVars, line, stage, acked, inflight, last_root_event,
                   apiVars, phase, pending, cur, xfer, err>>

AfterFree ==
    CASE phase = "flush" -> "flush" [] phase = "pump" -> "frame" [] OTHER -> "bits"

\* Faulty: the slot is marked idle but keeps its transfer.
SlotFreeKeepsXfer ==
    /\ pc = "free"
    /\ inflight' = [inflight EXCEPT ![cur].open = FALSE, ![cur].started = FALSE]
    /\ pc' = AfterFree
    /\ LetGo
    /\ err' = IF phase \in Regs THEN err ELSE "OK"
    /\ UNCHANGED <<picoVars, line, xferVars, last_root_event, apiVars, phase,
                   pending>>

SlotFree ==
    /\ pc = "free"
    /\ inflight' = [inflight EXCEPT ![cur] = EmptySlot]
    /\ pc' = AfterFree
    /\ LetGo
    /\ err' = IF phase \in Regs THEN err ELSE "OK"
    /\ UNCHANGED <<picoVars, line, xferVars, last_root_event, apiVars, phase,
                   pending>>
-----------------------------------------------------------------------------
(* process_pending_xfers                                                   *)

\* slot_alloc into slot s
SlotAlloc(s, x) ==
    [inflight EXCEPT ![s] = [EmptySlot EXCEPT !.xfer = x, !.dev_addr = Addr[x],
                                              !.ep_addr = Ep[x]]]

\* Faulty: a slot that has started is kicked again.
KickSlotsAgain(x) == IF SlotFor(x) # {} THEN SlotFor(x) ELSE First(Vacant)

\* The slots the head may be kicked from: its own, unless that one has started
\* already, or else the first vacant one.
KickSlots(x) ==
    IF SlotFor(x) # {} THEN {s \in SlotFor(x) : ~inflight[s].started}
    ELSE First(Vacant)

PumpHead ==
    /\ pc = "pump"
    /\ queue # <<>>
    /\ LET x == Head(queue) IN
       /\ xfer' = x
       /\ \E s \in KickSlots(x) :
             /\ cur' = s
             /\ inflight' = IF SlotFor(x) # {} THEN inflight ELSE SlotAlloc(s, x)
    /\ pc' = "kick"
    /\ UNCHANGED <<picoVars, line, xferVars, last_root_event, apiVars, phase,
                   pending, err>>

PumpNothing ==
    /\ pc = "pump"
    /\ queue # <<>> => KickSlots(Head(queue)) = {}
    /\ pc' = "frame"
    /\ UNCHANGED <<picoVars, line, xferVars, inflight, last_root_event, apiVars,
                   phase, pending, cur, xfer, err>>

ThreadStep ==
    \/ SurfaceRootEvents \/ FlushSlot \/ FlushDone
    \/ LoadBits \/ SkipBit \/ FinishXfer \/ AdvanceStage \/ DrainDone
    \/ KickStage \/ UhcXferReturn \/ SlotFree
    \/ PumpHead \/ PumpNothing
-----------------------------------------------------------------------------
(* The UHC API, one caller at a time, and the world                        *)

ApiFree == ~resetting

\* uhc_pio_usb_ep_enqueue of a transfer that is the application's; it comes
\* from uhc_xfer_alloc, which zeroes stage and err.
EpEnqueue(x) ==
    /\ ApiFree
    /\ owner[x] = "app"
    /\ queue' = Append(queue, x)
    /\ owner' = [owner EXCEPT ![x] = "uhc"]
    /\ stage' = [stage EXCEPT ![x] = "SETUP"]
    /\ result' = [result EXCEPT ![x] = "none"]
    /\ acked' = [acked EXCEPT ![x] = {}]
    /\ UNCHANGED <<picoVars, line, inflight, last_root_event, apiVars, threadVars>>

SetEnabled(on) ==
    /\ ApiFree
    /\ enabled' = on
    /\ UNCHANGED <<picoVars, line, xferVars, inflight, last_root_event, resetting,
                   threadVars>>

Enable == SetEnabled(TRUE)
Disable == SetEnabled(FALSE)

SetSuspended(on) ==
    /\ root' = [root EXCEPT !.suspended = on]
    /\ UNCHANGED <<pool, bits, line, xferVars, inflight, last_root_event, enabled,
                   threadVars>>

BusSuspend == ApiFree /\ SetSuspended(TRUE) /\ UNCHANGED resetting
BusResume == ApiFree /\ SetSuspended(FALSE) /\ UNCHANGED resetting

\* uhc_pio_usb_bus_reset sleeps 50 ms between its two halves, holding the API.
BusResetStart == ApiFree /\ SetSuspended(TRUE) /\ resetting' = TRUE
BusResetEnd == resetting /\ SetSuspended(FALSE) /\ resetting' = FALSE

Api ==
    \/ \E x \in Xfers : EpEnqueue(x)
    \/ Enable \/ Disable
    \/ BusSuspend \/ BusResume \/ BusResetStart \/ BusResetEnd

\* A device is plugged in or pulled out.
Replug ==
    /\ line' = ~line
    /\ UNCHANGED <<picoVars, xferVars, inflight, last_root_event, apiVars,
                   threadVars>>

Next == Frame \/ ThreadStep \/ Api \/ Replug

Spec == Init /\ [][Next]_vars

\* The driver thread keeps running (higher-priority threads leave it time), a
\* caller inside a bus reset returns, and a device that is asked again and again
\* answers in the end.
Answered(i) ==
    \E answer \in Answers : i \in DOMAIN answer /\ answer[i] # "none"
                            /\ FrameTransacts(answer)

ThreadFairness ==
    WF_vars(Frame) /\ WF_vars(ThreadStep) /\ WF_vars(BusResetEnd)
DeviceFairness == \A i \in Pool : SF_vars(Answered(i))

FairSpec == Spec /\ ThreadFairness /\ DeviceFairness
-----------------------------------------------------------------------------
(* Properties                                                              *)

TypeOK ==
    /\ pool \in [Pool -> Endpoints]
    /\ bits \in [Regs -> SUBSET Pool]
    /\ root \in [connected : BOOLEAN, suspended : BOOLEAN, event : RootEvents]
    /\ line \in BOOLEAN
    /\ queue \in Seq(Xfers)
    /\ owner \in [Xfers -> {"app", "uhc"}]
    /\ stage \in [Xfers -> Stages]
    /\ result \in [Xfers -> Errors \cup {"none"}]
    /\ acked \in [Xfers -> SUBSET Stages]
    /\ inflight \in [Slots -> InflightSlots]
    /\ last_root_event \in RootEvents
    /\ enabled \in BOOLEAN
    /\ resetting \in BOOLEAN
    /\ pc \in PCs
    /\ phase \in Phases
    /\ pending \in SUBSET Pool
    /\ cur \in Slots
    /\ xfer \in Xfers \cup {NoXfer}
    /\ err \in Errors

\* A transfer's buffer is not given back while the wire still uses it: whatever
\* an endpoint is transferring belongs to a transfer the driver still holds
\* (uhc_xfer_return only after the library is done with the endpoint).
BufferHeldWhileOnWire ==
    \A i \in Busy(pool) : /\ pool[i].xact.xfer \in Xfers
                          /\ owner[pool[i].xact.xfer] = "uhc"

\* No completion is lost on its way from the frame to the drain pass: a slot
\* that has started is waiting for a busy endpoint, or the endpoint's event is
\* recorded, or the thread is working on it.  (The reason for overriding
\* pio_usb_host_irq_handler.)
Noted(x) ==
    \E i \in (UNION {bits[r] : r \in Regs}) \cup pending \cup Busy(pool) :
        pool[i].xact.xfer = x
NoLostCompletion ==
    \A s \in Occupied : inflight[s].started =>
        \/ Noted(inflight[s].xfer)
        \/ cur = s /\ pc \in {"kick", "return", "free"}

\* Success is reported only for a transfer the device acknowledged whole: every
\* stage of a control transfer, DATA included when it has one.
Plan(x) == IF ~Control(x) THEN {"DATA"}
           ELSE {"SETUP", "STATUS"} \cup (IF HasData[x] THEN {"DATA"} ELSE {})
SuccessMeansAcked == \A x \in Xfers : result[x] = "OK" => acked[x] = Plan(x)

\* The stages of a transfer reach the wire in order, each after the device has
\* acknowledged those before it.
Before(x, s) == CASE s = "SETUP" -> {}
                  [] s = "DATA" -> Plan(x) \cap {"SETUP"}
                  [] s = "STATUS" -> Plan(x) \ {"STATUS"}
StagesInOrder ==
    \A i \in Busy(pool) :
        LET t == pool[i].xact IN acked[t.xfer] = Before(t.xfer, t.stage)

\* The list and the slot table agree: one transfer is in flight at most, and it is the
\* head of the list, save while its slot is being freed.
HeadOnlyInFlight ==
    \A s \in Occupied :
        \/ queue # <<>> /\ inflight[s].xfer = Head(queue)
        \/ pc = "free" /\ cur = s /\ inflight[s].xfer = xfer
OneInFlight == \A s, t \in Occupied : s = t
ListMatchesTable == HeadOnlyInFlight /\ OneInFlight

\* uhc_xfer_return takes a transfer off a list it is on: the node is linked.
ReturnOnlyQueued == pc = "return" => xfer \in Range(queue)

\* A stage is kicked on an idle endpoint, so the only kick that can fail is one
\* the endpoint pool has no slot for.
KickFindsIdleEndpoint ==
    pc = "kick" => \A p \in Opened(inflight[cur]) :
                       Takers(p, inflight[cur], xfer) # {}

\* Between frames the stack has been told the state of the port: connected if
\* and only if the last event surfaced is a connect.
PortAgrees == pc \notin {"surface"} =>
    (root.connected <=> last_root_event = "CONNECT")

\* On a bus that stays operational every queued transfer comes back.
Operational == enabled /\ line /\ root.connected /\ ~root.suspended
EveryTransferReturns ==
    <>[]Operational => \A x \in Xfers : owner[x] = "uhc" ~> owner[x] = "app"

\* The driver implements the transfer service: seen through the list, the
\* device's acknowledgements and the results, every step of the thread, of the
\* callers and of the bus is one of the service's, or none.
Service == INSTANCE UhcTransferService
    WITH StagesOf <- [x \in Xfers |-> Plan(x)], Failures <- Errors \ {"OK"}
ImplementsTransferService == Service!Spec
-----------------------------------------------------------------------------
(* The inductive invariant behind the safety properties                    *)

\* Every event the thread has not yet handled.
Events == {i \in Pool : i \in pending \/ \E r \in Regs : i \in bits[r]}

\* The program counter and the loop it serves.
PhaseInv ==
    /\ pc \in {"frame", "surface", "pump"} => phase = "pump"
    /\ pc = "flush" => phase = "flush"
    /\ pc \in {"load", "bits"} => phase \in Regs
    /\ pc = "kick" => phase # "flush"

\* The list holds each transfer once, and just those the driver owns.
QueueInv ==
    /\ \A j, k \in 1..Len(queue) : queue[j] = queue[k] => j = k
    /\ \A x \in Xfers :
          owner[x] = "uhc" <=> \E k \in 1..Len(queue) : queue[k] = x

\* A vacant slot is all zero; at most one is occupied, by the head of the list
\* or, once that has been returned, by the transfer in hand (if no dequeue wiped it).
SlotInv ==
    /\ \A s \in Slots : inflight[s].xfer = NoXfer => inflight[s] = EmptySlot
    /\ OneInFlight
    /\ HeadOnlyInFlight
    /\ pc \in {"kick", "return"} =>
          xfer \in Xfers /\ inflight[cur].xfer = xfer /\ queue # <<>> /\ xfer = Head(queue)
    /\ pc = "free" =>
          xfer \in Xfers /\ \A s \in Occupied : s = cur /\ inflight[s].xfer = xfer

\* At most one endpoint is transferring, for the transfer of a started slot, and
\* none while an event is waiting or a slot is being kicked or released.
WireInv ==
    /\ \A i, j \in Busy(pool) : i = j
    /\ \A i \in Busy(pool) : \E s \in Occupied :
          inflight[s].started /\ inflight[s].xfer = pool[i].xact.xfer
    /\ Events # {} \/ pc \in {"kick", "return", "free", "flush"} => Busy(pool) = {}

\* At most one event waits, in one place, and none between the drain pass and
\* the next frame.
EventInv ==
    /\ \A q, r \in Regs : \A i \in bits[q], j \in bits[r] : q = r /\ i = j
    /\ \A i, j \in pending : i = j
    /\ pending # {} => \A r \in Regs : bits[r] = {}
    /\ pc \in {"frame", "pump"} => Events = {}
    /\ pc \in {"surface", "load", "flush"} \/ phase \in {"pump", "flush"} => pending = {}
    /\ phase = "pump" /\ pc # "surface" => Events = {}
    /\ phase \in {"stalled", "error"} => bits["complete"] = {}
    /\ phase = "error" => bits["stalled"] = {}
    /\ phase \in Regs /\ pc # "load" => bits[phase] = {}
    /\ pc = "kick" => Events = {}
    /\ pc \in {"return", "free"} /\ phase # "flush" => Events = {}

\* A disconnect that is news has retired every transaction.
RootInv ==
    /\ pc # "surface" => last_root_event = root.event
    /\ pc = "surface" /\ root.event # last_root_event /\ root.event = "DISCONNECT"
          => Busy(pool) = {}
    /\ phase = "flush" => Busy(pool) = {}

IInv == TypeOK /\ PhaseInv /\ QueueInv /\ SlotInv /\ WireInv /\ EventInv /\ RootInv

\* What more it takes for the properties about acknowledgements.  What is on the wire
\* is the stage its transfer is at, and the device has acknowledged those before it;
\* a completion adds that stage, a success is a complete transfer.
Reached(x) == acked[x] = Before(x, WireStage(x))
Completions == bits["complete"] \cup (IF phase = "complete" THEN pending ELSE {})
AckInv ==
    /\ \A i \in Busy(pool) : LET x == pool[i].xact.xfer IN
          pool[i].xact.stage = WireStage(x) /\ Reached(x)
    /\ pc # "free" /\ Completions # {} => \A s \in Occupied :
          LET x == inflight[s].xfer IN
          acked[x] = Before(x, WireStage(x)) \cup {WireStage(x)}
    /\ pc = "kick" => Reached(xfer)
    /\ pc = "return" /\ err = "OK" => acked[xfer] = Plan(xfer)
    /\ pc = "bits" /\ pending # {} => err = RegError[phase]
    /\ SuccessMeansAcked

\* A transfer the driver holds is at its beginning until a slot of its own has started.
\* ("free" comes after the return: the slot's transfer may be a new submission.)
UnderWay(x) == pc # "free" /\ \E s \in Occupied : inflight[s].xfer = x /\ inflight[s].started
FreshInv ==
    \A x \in Xfers :
        /\ stage[x] = "DATA" => HasData[x]
        /\ owner[x] = "uhc" => result[x] = "none"
        /\ owner[x] = "uhc" /\ ~UnderWay(x) => stage[x] = "SETUP" /\ acked[x] = {}

\* The endpoint on the wire, and the one an event waits for, answer to the slot in
\* use, which has started; and the library has an endpoint for a slot that is open.
Serves(i, s) ==
    /\ pool[i].used
    /\ pool[i].dev_addr = inflight[s].dev_addr
    /\ \/ pool[i].ep_num = inflight[s].ep_addr
       \/ IsControl(pool[i].ep_num) /\ IsControl(inflight[s].ep_addr)
LinkInv ==
    \A s \in Occupied :
        /\ inflight[s].ep_addr = Ep[inflight[s].xfer]
        /\ \A i \in Busy(pool) \cup Events :
              Serves(i, s) /\ pool[i].xact.xfer = inflight[s].xfer /\ inflight[s].started
        /\ inflight[s].open => \E i \in Pool : Serves(i, s)

\* A slot that is not in hand waits for the one or the other.
WaitInv ==
    \A s \in Occupied :
        \/ Busy(pool) \cup Events # {}
        \/ cur = s /\ pc \in {"kick", "return", "free"}

\* A line that does not bounce is reported as it is.
PortInv == ~Bounces => (root.connected <=> root.event = "CONNECT")

SInv == IInv /\ AckInv /\ FreshInv /\ LinkInv /\ PortInv
-----------------------------------------------------------------------------
(* What the comments and the README say, and the code does not do          *)

\* "We open lazily on first use" (uhc_pio_usb.c:29-33): the library's pool holds
\* one slot per endpoint of a device.
OpenedOnFirstUse ==
    \A i, j \in Pool :
        /\ pool[i].used /\ pool[j].used
        /\ pool[i].dev_addr = pool[j].dev_addr
        /\ \/ pool[i].ep_num = pool[j].ep_num
           \/ IsControl(pool[i].ep_num) /\ IsControl(pool[j].ep_num)
        => i = j
=============================================================================
