# Formal models of the Pico-PIO-USB controller drivers

TLA+ models of the two Zephyr drivers of this repository and of the two host
applications beside them, the TLC configurations that check them, and
machine-checked proofs. Paths are relative to the repository (`src/` in
`PROJECT.json`'s entries); `uhc:` is `drivers/usb/host/uhc_pio_usb.c`, `udc:` is
`drivers/usb/device/udc_pio_usb.c`, `desc:` is
`samples/pio_usb_host_descriptor/src/main.c` and `link:` is
`samples/pio_usb_host/src/main.c`, all followed by line numbers.

    tlc -workers 2 -config MCUhcPioUsb.cfg MCUhcPioUsb     # any run of PROJECT.json
    tlapm UhcPioUsb_proofs.tla                             # any of the seven *_proofs modules

## 1. Inventory

The repository bridges sekigon-gonnoc's Pico-PIO-USB library to Zephyr's USB
host and device controller APIs. The library, Zephyr's `uhc_common` and
`udc_common`, and the USB stacks are not in it.

| Part | State | Operations | Talks to |
|---|---|---|---|
| UHC driver, `uhc` | in-flight table (120-140), `last_root_event`, `enabled`, `stop`, `queue_sem` | driver thread: frame, root events, three drain passes, pump (487-523); API: init, enable, disable, shutdown, bus_reset, bus_suspend, bus_resume, ep_enqueue, ep_dequeue | library calls; shares the UHC transfer list with its callers and `root_port_t` with the library; events to the host stack |
| UDC driver, `udc` | `flags`, `enabled`, `pending_address`, `address_pending`, `work_sem` | interrupt override (316-340); thread: flags, `handle_setup`, `drain_ep_complete` (273-304); API: enable, disable, set_address, ep_enable, ep_disable, ep_set_halt, ep_clear_halt, ep_enqueue, ep_dequeue, init, shutdown | called from the receive interrupt; shares fifos, `root->ep_complete` and endpoints with callers and the interrupt |
| Pico-PIO-USB (external) | endpoint pool, `root_port_t`: bitmaps, event, connected, suspended, setup_packet, dev_addr | host: frame, endpoint_open, send_setup, endpoint_transfer, abort; device: packet interrupt, transfer_start | the wire; the interrupt overrides |
| Zephyr uhc_common, udc_common, stacks (external) | transfer list; fifos, control stage, stat.halted | append, peek, return; put, get, get-all, update_stage, submit | the drivers |
| Time and alarm glue, `zephyr/pico_time_glue.c`, `zephyr/shim/` | none | busy waits, sleeps; timers that never fire | the library |
| IRQ glue, `zephyr/pico_irq_glue.c` | none | register, enable an interrupt | the library |
| Build, Kconfig, bindings | none | | |
| Sample: descriptor reader, `desc` | `connected`, two binary semaphores, a pool of two buffers | event callback in the driver thread; main: wait, bus reset, enumeration, `issue_setup` with a 1.5 s time-out | the UHC API |
| Sample: link test, `link` | `connected`, `reset_done` | event callback; main polls every 500 ms and resets the bus | the UHC API |
| Samples: device, descriptor peer | none | initialise, enable, log | the UDC API |

**What is hard.** Nothing here takes a common lock. The API calls exclude each
other by the UHC or UDC mutex, but neither driver thread takes it, and the
device driver's interrupt respects nobody. So the difficulties are
interleavings of the thread with callers and with the interrupt; state read and
used later (the list's head, a slot, the completion bitmap, the SETUP packet);
order lost by bitmaps and flag words; transfers that must come back exactly
once, through errors, NAKs, unplugging and time-outs; and the two fixed-size
tables. `PROJECT.json` lists these hazards one by one with their lines and the
properties that watch them.

**What makes each part correct.**

- UHC driver: buffers are not given back while the wire uses them; every
  transfer comes back once, with success only if the device acknowledged all its
  stages; stages go out in order; list and slot table agree; no completion is
  lost; the stack knows the state of the port.
- UDC driver: buffers moved by the host come back to their class, and only
  those; a fifo's buffers are the driver's; each SETUP is handed up once; the
  control stage follows the host; an address is applied exactly with its own
  STATUS IN.
- Start and stop: one thread on a driver's one stack; nothing of an earlier
  session is acted on; a driver that is enabled works.
- Samples: each wait ends with its own completion; buffers come back however an
  enumeration ends; each device attached is reset and begun with.

## 2. Plan

The order followed, the most important behaviour first:

1. `PicoPioUsbHost` - the library's host half, as operators.
2. `UhcPioUsb` - the host driver, its thread and the API.
3. `UhcTransferService` - what it promises, and the refinement.
4. `UhcPioUsb_proofs` - inductive invariant, type correctness, safety.
5. `UhcDequeue` - ep_dequeue composed with `UhcPioUsb`.
6. `UdcPioUsb` - the device driver, bulk endpoints and EP0.
7. `UdcPioUsb_proofs`, `UhcTransferService_proofs`, `UhcDequeue_proofs` - the
   device driver's invariant, the proof of the refinement, what a dequeue between
   any two steps leaves intact.
8. `HostSamples` on `UhcDequeue`, `DriverLifecycle`, and their proofs.
9. `UdcControl_proofs` - control stage, address and SETUPs of EP0.

What composes what: `UhcPioUsb` EXTENDS `PicoPioUsbHost` and instantiates
`UhcTransferService`; `UhcDequeue` EXTENDS `UhcPioUsb`; `HostSamples` EXTENDS
`UhcDequeue`. `UdcPioUsb` and `DriverLifecycle` stand alone. The device driver has
no abstract specification like the host's: what a class could rely on, each buffer
given back once and as moved only if it was, does not hold of the code for every
order of calls (section 6), so it is stated as properties that name the exceptions.

Worth adding, least important last: the pool behind EP0's buffers; lengths,
`(uint8_t)xfer->timeout` (uhc:209) and tailroom against wLength (uhc:311-319), once
the library's side of them is at hand.

## 3. The host driver: `UhcPioUsb` and `PicoPioUsbHost`

`PicoPioUsbHost` has no variables: it says what the library calls do to a pool.
`OpenAt` takes a free slot without looking for one already open; `Lookup` finds
the slots of a (device, endpoint), one for both directions of a control
endpoint; `StartAt` and `Complete` begin and end a transaction. An endpoint
keeps whose transaction it has and which stage, where the library keeps a
buffer pointer and a PID.

`UhcPioUsb` has the driver. Names follow the code: `inflight`,
`last_root_event`, `enabled`, `root`; `bits[r]` stands for `root->ep_complete`,
`ep_stalled`, `ep_error`; `queue` is the list of `uhc_common`; `owner`, `acked`
and `line` are the world's. The thread's position is `pc`, its locals are
`pending`, `cur`, `xfer`, `err`; `phase` says which loop a kick or return
belongs to.

| Action | Code |
|---|---|
| `FrameTransacts`, `FrameDisconnects`, `FrameConnects`, `FrameIdles` | the wait, the `enabled` test and `pio_usb_host_frame` with the interrupt override `IrqHandler` (uhc:77-93, 495-510) |
| `SurfaceRootEvents`, `FlushSlot`, `FlushDone` | `surface_root_events` (252-288) |
| `LoadBits`, `SkipBit`, `FinishXfer`, `AdvanceStage`, `DrainDone` | `drain_endpoint_bitmap`, three times (359-447, 516-518) |
| `KickStage` | `kick_stage` with `ensure_endpoint_open` (231-248, 293-353) |
| `UhcXferReturn`, `SlotFree` | the two calls that end a transfer (279-281, 442-445, 482-483) |
| `PumpHead`, `PumpNothing` | `process_pending_xfers` (455-485) |
| `EpEnqueue`, `Enable`, `Disable`, `BusSuspend`, `BusResume`, `BusResetStart`, `BusResetEnd` | the API (597-674) |
| `Replug` | a device is attached or pulled out |

*Atomicity.* A step of the thread runs from one point where another party can
see or cause a difference to the next: a callback to the stack
(`uhc_xfer_return`), the list (peek, append), the slot table, the library's
state. An API call of the host driver changes shared state in one place, so it
is one step, but for the bus reset with its sleep and for `ep_dequeue`. Reading
and clearing a bitmap (364-365) is one step: in this driver the interrupt
override runs inside `pio_usb_host_frame`, in the thread itself. The
`k_sem_take` has a time-out of 1 ms and its result is ignored, so the semaphore
only hurries the thread and is left out. The list's append and unlink are taken
as atomic, and no common lock of this repository makes them so: the list belongs to
`uhc_common`, which is not in it. Locals that a function leaves are
reset (`LetGo`) to keep equal states equal.

*Data.* A transfer is a model value with a device address, an endpoint address
(the USB byte: number 0 to 15, bit 7 for IN, the reserved bits clear), whether it has a data stage, a stage and a result.
Lengths, descriptors, packets, toggles and polling intervals are left out; a
transaction lasts any number of frames before the device answers it with
completion, stall or error, or never. `Bounces` says whether the line may drop
and return in one frame. A transfer's owner does not touch it until it returns.

*The library* is what the driver's comments and calls say it is: a frame fails
all busy endpoints on a disconnect (uhc:274-276), a connected port comes up
suspended until the bus reset, which is how the samples use it.

*`UhcDequeue`* adds `uhc_pio_usb_ep_dequeue` (676-690) as three steps, lookup,
abort, free, on behalf of a caller that then takes the transfer back, as
`issue_setup` does (samples/pio_usb_host_descriptor/src/main.c:156-160, where the
transfer is a local variable). `CallerOutranks` says whether the thread can run
between the steps. The driver's priority, 8, is configurable and preemptible
(zephyr/Kconfig:23-30), so both are real.

`UhcTransferService` is the abstract specification: a first-in first-out list
whose head alone progresses, whose stages the device acknowledges in order, and
which comes back with success only when all are acknowledged. It has no thread,
slots, endpoints or frames. `ImplementsTransferService` is the refinement: list,
acknowledgements and results are mapped to themselves, the stages of a transfer
to `Plan`, so a completion in a frame is an acknowledgement, `UhcXferReturn` a
return, `EpEnqueue` a submission, and everything else stutters.

*`HostSamples`* puts the two applications on top, each the only caller of the
API on its board (`firmware` says which). `DriverThread` is a step of the driver
together with the callbacks it will make (`todo`); `Callback` is one statement of
`uhc_event`, so that main can run between the flag and the semaphore.

| Action | Code |
|---|---|
| `Callback` with `UponConnect`, `UponRemoval`, `UponRequest` | `uhc_event` (desc:74-107, link:65-110) |
| `Boot`, `TakeConnect`, `CheckConnected` | main up to the loop, and its wait (desc:378-414) |
| `BusReset`, `ResetReturns` | `uhc_bus_reset`, in which main sleeps (desc:284, link:153) |
| `Alloc`, `Pause`, `GiveUp`, `StepDone` | `enumerate_and_dump` and `fetch_string`: buffers taken, the pause after SET_ADDRESS, early returns, unrefs (desc:229-251, 279-374) |
| `Arm`, `Submit`, `SubmitFails`, `TakeDone`, `TimeOut`, `DequeueCall` | `issue_setup` (desc:134-162) |
| `Poll`, `PollAbsent` | the loop of the link test (link:150-161) |

An enumeration is a constant `Script` of transfers, the first `Needed` of which
share a buffer and end the enumeration when they fail; the others take a buffer
each and may fail. `CallerOutranks` is as in `UhcDequeue`: main has priority 0 and is
above the driver thread as the samples are built, so that the thread runs only while
main sleeps (`Asleep`); the run `samples` drops that restriction (FALSE) and so has
the behaviours of both orders, the proofs are for either, and `samples_late` is
violated with it.

A transfer that times out stays on the list, and the thread goes on with it, although
the struct is a local variable of an `issue_setup` that has returned. The model lets
it keep what was in it until the enumeration queues it again: a late completion then
falls into a later wait, which is what `OwnCompletion` and `samples_late` are about.
What a thread reads from a frame that has been used for something else is anything at
all, and is not modelled. When a struct that is still linked is queued a second time
(`Relinks`) the list itself is broken, and main stops there.

## 4. The device driver: `UdcPioUsb`

Three parties: the interrupt (the host's actions end in `IrqHandler`), the
thread, the callers. `pep`, `ep_complete`, `setup_packet` and `dev_addr` are the
library's, `fifo`, `halted`, `stage` are `udc_common`'s, `told` holds what the
stack was told on EP0 and has not acted on; `flags`, `enabled` and
`pending_address` are the driver's.

| Action | Code |
|---|---|
| `HostTransfers`, `HostControlIn`, `HostControlOut`, `HostSetup`, `HostGivesUp` | the host's transactions, with `pio_usb_device_irq_handler` (udc:316-340) |
| `ThreadWakes`, `NoSetup` | `atomic_clear`, tests of the flags (280-302) |
| `HandleSetup`, `HandleSetupNoMem` | `handle_setup` (168-207), with its two failed allocations |
| `DrainLoad`, `DrainReload`, `DrainStore` | `pending = root->ep_complete; root->ep_complete &= ~pending` (262-263): a load, a second load, a store |
| `DrainNext`, `DrainDone` | the loop and `handle_ep_complete` (211-257, 264-268) |
| `EnqueuePut`, `EnqueueKick` | `ep_enqueue` (539-557) in two steps, since an interrupt or the thread may fall between `udc_buf_put` and the kick |
| `EpDequeue` | `ep_dequeue` (559-576), one step: it locks interrupts |
| `EpEnable`, `EpDisable`, `SetHalt`, `SetEnabled` | 409-422, 488-537 |
| `SetAddress`, `StackAnswers` | the stack acting on a request: `set_address` (441-450), then data or status on EP0 IN |

*Atomicity.* The interrupt's action includes what the library did before
calling the override. `handle_setup` is one step although it reads the SETUP
packet twice (178, 187): the second time for wLength alone, which the model leaves out
with all lengths. The clearing of the bitmap is split because the
interrupt changes the bitmap behind the thread's back.

Classes and stack call the API in any order: any number of buffers on an endpoint,
enabled or not, dequeues at any time. What then goes out of step is recorded, not
excluded. Until an `ep_dequeue` of the endpoint that finds no completion on its way,

- `raced` has the endpoints where an `ep_dequeue` found one, which takes the next
  buffer off the fifo (559-576);
- `overtaken` those where a buffer was kicked off behind one that stays in the fifo
  unmoved, having been refused or parked by a halt (544-556);
- `dropped` those that lost a completion, to the store of 263 or because a bit was
  still set when the next transfer set it;

and `parked` has the buffers that were queued under a halt. Each property says which
of these it has to except; all of them occur in `udc_bulk`.

*Assumptions on the parties not in the repository:*

- `Patience`: `"device"`, the host begins a request when the device has come to
  rest; `"stages"`, when the stages of the one before have ended on the wire,
  which may find the driver thread behind; `"none"`, at any time.
- The library answers only packets to its own address (comment at 25-26), so
  after SET_ADDRESS the host reaches the device only once the new address is
  applied. Its own reaction to a bus reset, and to a SETUP that interrupts a
  request on EP0, is not in the repository and not modelled. EP0 OUT carries the
  data of control writes; a status OUT is never armed by anything in the driver
  and the host gives it up.
- On a SET_ADDRESS the stack calls `set_address` before it queues the STATUS
  stage. `AddressApplied` rests on that order.

## 5. Start and stop: `DriverLifecycle`

Both drivers go through the same steps, so one module has both, with `driver` to
tell them apart. A thread's pass over its work is one state, `"work"`: what it does
there is the business of the other modules. `flags` records only whether the
device driver's flags were set since the last init began (`"fresh"`) or before
(`"stale"`).

| Action | Code |
|---|---|
| `CallInit`, `InitReset`, `InitCreate`, `InitFails` | init: the library, the fields, the thread, and where either driver may fail (uhc:537-587, udc:356-407) |
| `Enable`, `Disable` | uhc:597-615, udc:409-422; each one step, since neither calls the library's start and stop, which would wait for a timer that zephyr/pico_time_glue.c:55-98 never fires (uhc:589-595) |
| `CallShutdown`, `ShutdownJoin`, `ShutdownEnd` | uhc:617-628, udc:424-439; the join may time out (`JoinTimesOut`) and goes on |
| `TestStop`, `Wake`, `WorkDone` | the loop of either thread (uhc:495-522, udc:280-303) |
| `Interrupt` | `pio_usb_device_irq_handler` (udc:316-340); zephyr/pico_irq_glue.c enables the interrupt and nothing disables it, so it goes on after a shutdown or a failed init |

The common layer lets the other calls through only after an init that succeeded,
and serialises them.

## 6. The runs

| Run | Result | What it shows |
|---|---|---|
| `uhc_core` | pass, 1.7 M states | safety of the host driver and refinement of the transfer service |
| `uhc_live` | pass, 130 k | every queued transfer returns on an operational bus; the port's state is told |
| `udc_bulk` | pass, 824 k | the class endpoints under any order of calls: truth of results, ownership, why buffers are left behind or lost, and that all others come back |
| `udc_control` | pass, 14 k | control stage, address, one hand-over per SETUP |
| `samples` | pass, 1.8 M | the host applications on driver and ep_dequeue: devices begun with, buffers back, own completions, and what a dequeue at any step leaves intact |
| `lifecycle` | pass, 4.2 k | init, enable, disable, shutdown of both drivers |
| `uhc_reopen` | violated | the pool gets a slot per transfer, not per endpoint |
| `uhc_ghost` | violated | a dequeued transfer's buffer goes on the wire later |
| `udc_lost` | violated | the clearing of the bitmap loses a completion |
| `udc_write` | violated | a control write with data is never handed to the stack |
| `udc_order` | violated | a SETUP overtaking a completion costs a SET_ADDRESS |
| `samples_late` | violated | a late completion ends the wait of the transfer after it |

**Properties of `uhc_core`.** `BufferHeldWhileOnWire`: an endpoint transfers for
a transfer the driver still owns. `NoLostCompletion`: a started slot waits for a
busy endpoint, a recorded event or the thread. `SuccessMeansAcked`,
`StagesInOrder`: about stages and acknowledgements. `ListMatchesTable`: one
transfer in flight at most, the head of the list.
`KickFindsIdleEndpoint`: the only kick that fails is one with no pool slot left.

**Properties of `udc_control`.** `AddressApplied`, `AddressOnlyAfterStatus`: the
device answers to an address when its host uses it, and not before.
`StageFollowsHost`: at rest the driver is at the stage the host is at.
`SurfacedOnce`: no SETUP is handed up twice. All four are for a host that waits
until the device has come to rest; with one that does not wait the first is refuted by
`udc_order`, and the others fail too (`SurfacedOnce` with
one that waits for nothing at all).

**Properties of `udc_bulk`.** None assumes anything of the callers. `OkMeansMoved`: a
class is told "ok" only of what the host moved, except on an endpoint that is raced or
overtaken. `WireHoldsQueued`: what the wire holds is in the fifo, except on one that is
raced. `FifoOwned`: a buffer in a fifo is the driver's, or one it refused: its caller
has the error and the fifo has the buffer (544-556). `CompletionFlagged`: the bitmap
and the flag word, read in one order and set in the other, never leave a bit with a
thread that will not look. `MovedIsNoted`: until its endpoint has lapsed (`Lapsed`:
raced, overtaken or dropped), what the host has moved keeps its bit until its buffer is
back; it is the safety half of `ForwardedUntilLapsed`, by which it does come back.
`StrandedHasCause`: a buffer left at rest in the fifo of an idle endpoint was parked by a halt,
which nothing picks up again (529-537, against the comment at 547), or was refused, or
was moved on an endpoint that has lapsed; no other order of calls leaves one behind.

**Properties of `samples`.** `EveryDeviceEnumerated`: a device that connects and
stays is begun with; the flag, set before the semaphore is given, and the
semaphore, taken before the flag is read, never leave main asleep beside it
(`AwakeForDevice` is its safety half: the wake-up is there or on its way).
`EachDeviceReset`: the link test resets the bus for each device, provided a poll has
seen the absence of the one before (`seen_absent`); two devices swapped within
500 ms are one to it (`ResetDoneIsCurrent` is its safety half). `OwnCompletion`:
a wait that began with an empty list and no completion half told, between
`uhc_xfer_return` and `k_sem_give` (`quiet`), ends with its own transfer's result, and
as long as no transfer was ever left on the list (`left`) it reads success only if the
device acknowledged each stage. Transfers that were left on the list do complete late in
this run; what becomes of a wait that is not quiet then shows `samples_late`.
`BuffersBack`: every way out of an enumeration gives its buffers back.
`BufferHeldUnlessLeft`: the fault of `uhc_ghost` needs a transfer that a time-out left
on the list; until `issue_setup` has returned with one, also when `ep_dequeue` ran and
the transfer came back as it did, the wire holds no buffer that main has back.
`AbortQuiets`: while the slot still holds the transfer, an abort ends every transaction
of it, though its endpoint may have turned direction and have several pool slots; but
for a transaction that went to address 0, because an earlier dequeue wiped the slot when
the thread was about to kick it (uhc:302-349). Nothing is said of a slot that was given
to the next transfer between lookup and abort: abort and wipe then hit that one.
`ReturnOnlyQueued`: slots wiped at any step never make the thread unlink what is not on
the list.

**Properties of `lifecycle`.** `OneThread`: one thread on the one stack, none
between shutdown and init, unless a join timed out (`timed_out`): its result is
dropped, the next init clears the stop flag the old thread has not read, and two
threads share a stack. `SessionWhole`: while the driver is up its latest thread
lives and is not told to stop, and the fields are this init's. `NoStaleWork`: no
thread acts on flags of before its init.
`WorksWhenEnabled`: a driver that stays enabled has a thread that works, whatever
shutdowns, failed inits and joins there were before.

**Bounds.** `uhc_core` has a control read with a data stage and a bulk IN of one
device and a control transfer without data of device 0: two endpoints of one
device, two devices, both kinds of control transfer, and three waiters for one
head. Each may be submitted again for ever. `PoolSize` 2 is less than the
endpoints they need, so that the pool runs out in the middle of each transfer;
`SlotCount` 2 is one more than the one slot that is ever in use (theorem
`ListAndTableAgree`), so a second use would show. The liveness runs of the host
driver use the two control transfers. `uhc_ghost` has a control read, whose
endpoint turns direction, and a bulk IN of the same device. `samples` has an enumeration
cut to one step of each kind (a needed read, a needed write without data, a string), the
sample's pool of two buffers, any number of devices, failures and time-outs, and two
slots of the library's pool, so that one endpoint may have both and the pool runs out.
`lifecycle` has three threads at most; a second alive needs one timed-out join, a
third two. `udc_bulk` has one endpoint with two
buffers, enough for each lapse; that endpoints disturb each other, through the bitmap alone,
is `udc_lost`'s subject, which has two, and the proofs are for any number. (Two endpoints
with a buffer each have 15 million states, too many for a run of a few minutes.
The safety properties were checked on
them once, and hold.) The control runs have one request of each
kind, in any order. Requests are made once each, the one bound on histories; a
fault needs two requests. Deadlock is checked in every run.

**Fairness.** Host: weak fairness of frame and thread (the thread has a 1 ms
time-out and nothing above it runs for ever), and of the end of a bus reset (a
sleep of 50 ms); strong fairness of the device's answers: one that is polled for
ever answers in the end, be it with an error. Without that last assumption a device
that always answers NAK holds up the whole list, since only its head is
started: that is how this driver is, and the property asks for what it can
deliver. Device: weak fairness of the thread and of the second half of a call. `samples`: weak fairness of the driver
thread with its callbacks and of main; a wait of `issue_setup` ends, by a
completion or by its time-out. `lifecycle`: weak fairness of a call in progress and
of each thread; nothing forces a call to begin.
Nothing is assumed of hosts, classes or callers. `EveryTransferReturns` asks for
returns only if the bus stays operational from some point, and
`CompletionForwarded` only if the driver stays enabled.

**What the violated runs mean.** Each is a statement of a comment or of the
README and is refuted by the code as it is; `PROJECT.json` quotes the line.

- `uhc_reopen`: "We open lazily on first use" (uhc:32). `open` is kept in the
  in-flight slot, which `slot_free` zeroes. Every transfer takes one more slot of
  the library's pool and nothing closes any, so in the end `ensure_endpoint_open`
  fails and every new transfer returns -EIO.
- `uhc_ghost`: `ep_dequeue` takes the transfer off the slot table or finds
  nothing there, and leaves it on the list. The next tick starts it again, with a
  buffer, and in the sample a stack frame, that its owner has reused.
- `udc_lost`: udc:263 is not atomic. The run has the plain case, two
  endpoints in use: one completes while the other's bit is cleared. A single endpoint can
  lose a bit too, after a dequeue or with a second buffer.
- `udc_write`: the buffer armed at udc:196 is never put in the fifo that
  `udc_buf_get` looks in (216).
- `udc_order`: the thread looks at SETUP before EP_DONE (udc:297-302). If the
  host sends SET_ADDRESS before the thread has handled the previous request's
  status, that status ends the stage of SET_ADDRESS, and its real status finds
  the stage SETUP, where nothing is applied. The device keeps its old address
  and the host goes on with the new one.
- `samples_late`: the semaphore of desc:150 is one for all transfers. A transfer that
  timed out is still on the list; it completes after the next `k_sem_reset` and ends
  that wait, and `issue_setup` returns the 0 that `xfer.err` began with. It happens
  with main above the driver thread, as the sample is built.

**Mutants.** For each property of a passing run there is an operator marked
*Faulty* just before the one it replaces: the library's own interrupt handler,
a slot that is kicked twice, a data stage that is skipped, a slot freed by half,
bits counted from one, an address applied at once, and so on.

**Other divergences, not runs.** On a disconnect the flush walks the slot table
(uhc:277-283), which holds the head of the list only: transfers behind it hear
nothing until a device is there again, though README.md:27 promises a
completion event for what is queued. README.md:29 says the build omits
`pio_usb_device.c` in device mode; drivers/usb/device/CMakeLists.txt:18 compiles
it and udc:377 calls it.

## 7. The proofs

Every theorem is proved for any value of the constants, from the assumptions of
the modules: pool and slot table are not empty, the null transfer is no transfer,
addresses are bytes, class buffers go to class endpoints, control buffers are none of
theirs.

| Module | Theorems |
|---|---|
| `UhcPioUsb_proofs` | `Invariance` (`IInv`), `TypeCorrect`, `BufferSafety`, `ListAndTableAgree`, `ReturnIsLinked` |
| `UhcTransferService_proofs` | `ServiceInvariance` (`SInv`, `WaitInv`), `SuccessIsComplete`, `StagesFollow`, `CompletionsKept`, `KickIsIdle`, `PortReported` (on a line that does not bounce), `DriverImplementsService` (the refinement) |
| `UhcDequeue_proofs` | `DequeueTypeCorrect`, `DequeueReturnsQueued`, `AbortFindsTransfer` (but for a transaction sent to address 0) |
| `UdcPioUsb_proofs` | for any host, stack and classes, in any order of calls: `UdcInvariance` (`UdcInv`), `UdcTypeCorrect`, `BitsAreFlagged`, `FifosAreOwned`, `WireBufferQueued`, `OkIsMoved`, `BitsAreKept`, `StrandedIsExplained`, `NoWriteIsHeard` |
| `UdcControl_proofs` | for a host that lets the device come to rest (`Patience` is `"device"`) `HandedOnce`, `AddressAfterStatus`; on runs that overwrite no completion `AddressInTime`, `StageIsHosts`; without class endpoints `AloneKeepsBits`, and with it `AddressInTimeAlone`, `StageIsHostsAlone` |
| `HostSamples_proofs` | `BuffersComeBack`, `SamplesTyped`, `WaitsEndWithOwn`, `HeldUntilLeft`, `MainIsAwake`, `ResetIsForThis`, `SamplesAreCallers` (a behaviour of the samples is one of `UhcDequeue`) |
| `DriverLifecycle_proofs` | `LifecycleInvariance`, `LifecycleTyped`, `OneThreadAtATime`, `SessionIsWhole`, `StaleWorkDropped` |

*`IInv`.* `BufferHeldWhileOnWire` is not inductive: returning a transfer
is safe only if its endpoint is idle, which holds since the thread returns it
on the endpoint's event (or on a kick that failed, or a flush), and there is only
one event because there is only one transaction, because only the head of the
list is started. `IInv` says this: `SlotInv`, one occupied slot, the head's;
`WireInv`, one busy endpoint, of a started slot, and none while an event waits or
the thread is kicking or releasing; `EventInv`, at most one event, in one place,
and none between a drain pass and the next frame; `QueueInv`, the list holds just
the driver's transfers, each once; `PhaseInv`, `RootInv`, where the thread stands
and what a surfaced disconnect implies. There is a lemma per group of actions
(frames, events, loading bits, finishing, kicking, returning, pumping, calls).

*`SInv`* adds what success needs. `AckInv`: the stages before the one a transfer
stands at are acknowledged, and that one too exactly when its completion bit
waits. `FreshInv`: what is not under way has acknowledged nothing. `LinkInv`: a busy
endpoint, or an event, is that of a started slot's transfer. `PortInv`: port and line
agree. `WaitInv`, on its own: a slot that is not in hand has one or the other to wait
for, which is what `CompletionsKept` needs and what an abort by `ep_dequeue` takes away.
Then a completion in a frame is an acknowledgement of the head's next stage, a
return with success comes after the last one, and all other steps stutter, which is
`DriverImplementsService`. `KickIsIdle` needs a least pool slot among those that
match, which well-foundedness of the naturals gives.

*`UhcDequeue`.* A slot wiped under the thread's feet breaks `IInv`, and rightly so:
`BufferHeldWhileOnWire` is refuted by `uhc_ghost`. Three things survive. `DqInv`: the
slot the caller and the thread hold is one of the table's. `HeldQueued`: no two slots
hold one transfer, and what a slot holds is on the list until it is returned, so what
the thread returns is linked. `FoundInv`: the library fills its pool from the low end
and frees nothing, so the slot a lookup finds for an endpoint stays the one it finds,
however many are opened after it, and a transaction at its transfer's device is on
that one; the stages of a control transfer all name the same pool slots.

*`UdcInv`.* `ControlInv`, each endpoint has buffers of its own and a flagged SETUP its packet;
`BitmapInv`, the completion bits in the bitmap, in `pending` and in `reg`;
`CompletionFlagged`; `FifoOwned` and `HeldInv(s)`: no buffer is twice in a fifo, and
each one there is on the wire, moved, parked, refused or just being queued.
`QueueInv(s)`, of endpoints that are not raced: the completions on their way are no more
than the buffers that stand before the one on the wire, so that handling them never takes
that one off. `StepInv(s)`, of endpoints neither raced nor overtaken: the moved buffers
come first in the fifo, then the one on the wire, and the completions on their way are
those of the moved ones, of all of them unless one was dropped. Then a completion takes
off a moved buffer (`OkIsMoved`), and a moved buffer has a completion (`BitsAreKept`). An
endpoint comes back in step with an `ep_dequeue` that finds no completion: it empties the
fifo and stops the transfer, so there is nothing left to disagree. Lapses are not
assumed away: the invariant says from which step on an endpoint is out of step. Nor is
any of the exceptions idle: each of these statements becomes false in `udc_bulk`'s instance
when one of them is taken out.

*EP0.* One request is under way at a time and is in one place (`PipeInv`): a SETUP on
its way to the thread, the stack or EP0 IN at work on the answer, or a completion on
its way; the host begins the next when all three are past. `AddressInv` ties the
pending address to the STATUS IN in that place. With class traffic the store of
udc:263 may overwrite EP0's completion (`udc_lost`), and `AddressApplied` and
`StageFollowsHost` fail with it, as they do for a host ahead of the thread, which
all the theorems about EP0 leave out. `StagesInv` is kept by every step as long as it does
not: EP0 IN's fifo holds the one answer from its queueing to its completion, the
completion is in the bitmap or in the thread's copy, not in both, and the stage stands
where the request does. So `AddressInTime` and `StageIsHosts` hold on all behaviours
that satisfy `[]NothingOverwritten`, for any endpoints and any callers. `AloneInv`
removes the hypothesis for a device without class endpoints, which is what the run
checks: the thread is then at the bitmap only between a transaction and the request
after it.

*`LifecycleInv`* adds to `OneThread` and `SessionWhole` what a call in progress has
already done: before the end of a shutdown the driver is disabled and, unless a join
timed out, its thread gone; once the fields are reset no flag is stale and `stop` is
clear. *`BuffersInv`*: free buffers and
main's one add up to the pool. *`OwnInv`*: in a wait that
began quiet the list has no transfer but main's own, and the semaphore is given only for
that one, whatever timed out before. *`DriverInv`*: until
a transfer is left on the list (`left`) the driver keeps `SInv` beneath the
samples. An abort only takes a transaction off the wire (`AbortKeeps`). The wipe either
leaves its transfer on the list, which `left` records, or finds the list empty, and then
the slot is free or the one the thread is about to free (`WipeKeeps`), which is why
`IInv` asks less of a thread at "free" than of one elsewhere. `HeldUntilLeft` follows,
and with it the second half of `WaitsEndWithOwn`: while no transfer was left, a success
main reads is one of `SInv`. *`FlagInv`* and
*`DeviceInv`*: what is left of a callback agrees with the last event surfaced, the flag
with that event once the callback is done, and the link sample is in a reset, or has
one to its credit, only for the device that is there, unless that was removed since the
last poll.

*Only model-checked.* Every invariant and every action property of the passing runs
is proved. Liveness under fairness (`EveryTransferReturns`,
`ForwardedUntilLapsed`, `EveryDeviceEnumerated`, `EachDeviceReset`,
`WorksWhenEnabled`) and ENABLED are beyond the prover, as is induction
over data; no module that a proof uses declares a RECURSIVE operator.

## 8. Not modelled

Packets, timing and signalling, speed selection, lengths and intervals,
isochronous transfers, remote wake-up (not supported by the driver), the pool
behind EP0's buffers, the reset event handed to the device stack, decoding and
printing of descriptors, logging, busy waits, the timers of the glue, which
never fire and which no call of the drivers waits for, build files, and the two
samples that only start a driver or do nothing. Components and reasons are in
`PROJECT.json`.
