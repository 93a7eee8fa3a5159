----------------------------- MODULE HostSamples -----------------------------
(***************************************************************************)
(* The two applications of the host driver, each the only caller of the    *)
(* UHC API on its board, composed with the driver of UhcPioUsb and the     *)
(* ep_dequeue of UhcDequeue:                                               *)
(*   samples/pio_usb_host_descriptor  waits for a device and enumerates it,*)
(*       one transfer at a time, giving up on a transfer after 1.5 s;      *)
(*   samples/pio_usb_host             polls a flag and resets the bus once *)
(*       per device.                                                       *)
(* In both, uhc_event runs in the driver thread and main in its own.       *)
(***************************************************************************)
EXTENDS UhcDequeue

CONSTANTS
    Script,    \* the transfers of an enumeration, in order
    Needed,    \* how many of them must succeed: the others may fail
    Buffers    \* NET_BUF_POOL_FIXED_DEFINE(desc_pool, ...)

ASSUME ScriptAssumption ==
    /\ Script \in Seq(Xfers)
    /\ Needed \in 1..Len(Script)
    /\ Buffers \in Nat

Firmware == {"descriptor", "link"}
Callbacks == {"set", "clear", "give", "done"}
MainPCs == {"boot", "wait", "check", "reset", "resetting", "alloc", "pause", "arm",
            "submit", "await", "dequeue", "woken", "gaveup", "poll", "absent"}

VARIABLES
    firmware,     \* which sample the board runs; never changes
    \* uhc_event and what it shares with main
    todo,         \* what is left of the callback in progress
    connected,
    connect_sem, xfer_done,   \* binary semaphores, the descriptor sample's
    \* main
    mpc,
    at,           \* the step of Script
    free,         \* buffers of desc_pool not in use
    reset_done,   \* the link sample's
    \* history
    quiet,        \* had every earlier transfer come back, and been told of, when
                  \* issue_setup last began?
    left,         \* has issue_setup returned with its transfer still on the list?
    attempted,    \* has main reset the bus since the last connect?
    seen_absent   \* has main seen the flag clear since the last removal?

callbackVars == <<todo, connected, connect_sem, xfer_done, seen_absent, attempted>>
semVars == <<connect_sem, xfer_done>>
mainVars == <<mpc, at, free, reset_done, quiet, left>>
historyVars == <<attempted, seen_absent>>
sampleVars == <<firmware, todo, connected, connect_sem, xfer_done, mpc, at, free,
                reset_done, quiet, left, attempted, seen_absent>>

SamplesInit ==
    /\ DqInit
    /\ firmware \in Firmware
    /\ todo = <<>>
    /\ connected = FALSE
    /\ connect_sem = FALSE /\ xfer_done = FALSE
    /\ mpc = "boot"
    /\ at = 1
    /\ free = Buffers
    /\ reset_done = FALSE
    /\ quiet = TRUE
    /\ left = FALSE
    /\ attempted = FALSE
    /\ seen_absent = TRUE
-----------------------------------------------------------------------------
(* uhc_event, called by the driver thread                                  *)

\* Faulty: main is woken before the flag is set.
UponConnectGivesFirst == IF firmware = "link" THEN <<"set">> ELSE <<"give", "set">>

UponConnect == IF firmware = "link" THEN <<"set">> ELSE <<"set", "give">>
UponRemoval == <<"clear">>
UponRequest == IF firmware = "link" THEN <<>> ELSE <<"done">>

\* The event the step the thread is about to take submits, if any.
Submits ==
    IF pc = "return" THEN UponRequest
    ELSE IF pc # "surface" \/ root.event = last_root_event THEN <<>>
    ELSE CASE root.event = "CONNECT" -> UponConnect
           [] root.event = "DISCONNECT" -> UponRemoval
           [] OTHER -> <<>>

\* A buffer serves the needed steps, and each other step has one of its own.
OwnBuffer(step) == step > Needed

\* Main sleeps; when it outranks the driver thread, that thread runs only then.  The
\* first allocation follows the pause after the bus reset, the others wait for a buffer.
Asleep ==
    \/ mpc \in {"boot", "resetting", "poll", "pause"}
    \/ mpc = "wait" /\ ~connect_sem
    \/ mpc = "await" /\ ~xfer_done
    \/ mpc = "alloc" /\ (~OwnBuffer(at) \/ free = 0)
DriverMayRun == CallerOutranks => Asleep

DriverThread ==
    /\ DriverMayRun
    /\ todo = <<>>
    /\ Frame \/ ThreadStep
    /\ todo' = Submits
    /\ UNCHANGED <<dq, firmware, connected, semVars, mainVars, historyVars>>

Callback ==
    /\ DriverMayRun
    /\ todo # <<>>
    /\ todo' = Tail(todo)
    /\ LET do == Head(todo) IN
       /\ connected' = (do = "set" \/ (connected /\ do # "clear"))
       /\ connect_sem' = (connect_sem \/ do = "give")
       /\ xfer_done' = (xfer_done \/ do = "done")
       /\ attempted' = (attempted /\ do # "set")
       /\ seen_absent' = (seen_absent /\ do # "clear")
    /\ UNCHANGED <<vars, dq, firmware, mainVars>>
-----------------------------------------------------------------------------
(* main                                                                    *)

\* A step of main that calls nothing of the driver's.
Local == UNCHANGED <<vars, dq, firmware, todo, connected>>

\* uhc_init and uhc_enable, then the loop.
Boot ==
    /\ mpc = "boot"
    /\ Enable
    /\ mpc' = IF firmware = "link" THEN "poll" ELSE "wait"
    /\ UNCHANGED <<dq, firmware, callbackVars, at, free, reset_done, quiet, left>>

TakeConnect ==
    /\ mpc = "wait" /\ connect_sem
    /\ connect_sem' = FALSE
    /\ mpc' = "check"
    /\ Local /\ UNCHANGED <<xfer_done, at, free, reset_done, quiet, left, historyVars>>

CheckConnected ==
    /\ mpc = "check"
    /\ mpc' = IF connected THEN "reset" ELSE "wait"
    /\ Local /\ UNCHANGED <<semVars, at, free, reset_done, quiet, left, historyVars>>

\* uhc_bus_reset sleeps; main is in it from BusReset to ResetReturns.
BusReset ==
    /\ mpc = "reset"
    /\ BusResetStart
    /\ mpc' = "resetting"
    /\ attempted' = TRUE
    /\ UNCHANGED <<dq, firmware, todo, connected, semVars, at, free, reset_done,
                   quiet, left, seen_absent>>

ResetReturns ==
    /\ mpc = "resetting"
    /\ BusResetEnd
    /\ IF firmware = "link" THEN mpc' = "poll" /\ reset_done' = TRUE
                            ELSE mpc' = "alloc" /\ UNCHANGED reset_done
    /\ at' = 1
    /\ UNCHANGED <<dq, firmware, callbackVars, free, quiet, left>>

\* What follows a step of the script: the next one, after a pause when it was
\* SET_ADDRESS, or the wait for a connect.
Begin(step) == IF OwnBuffer(step) THEN "alloc" ELSE "arm"
GoOn ==
    IF at = Len(Script) THEN mpc' = "wait" /\ at' = 1
    ELSE mpc' = (IF HasData[Script[at]] THEN Begin(at + 1) ELSE "pause") /\ at' = at + 1

Pause ==
    /\ mpc = "pause"
    /\ mpc' = Begin(at)
    /\ Local /\ UNCHANGED <<semVars, at, free, reset_done, quiet, left, historyVars>>

Alloc ==
    /\ mpc = "alloc"
    /\ IF free > 0 THEN mpc' = "arm" /\ free' = free - 1 /\ UNCHANGED at
       ELSE /\ IF OwnBuffer(at) THEN GoOn ELSE mpc' = "wait" /\ UNCHANGED at
            /\ UNCHANGED free
    /\ Local /\ UNCHANGED <<semVars, reset_done, quiet, left, historyVars>>

\* Faulty: issue_setup does not reset the semaphore.
ArmKeeps ==
    /\ mpc = "arm"
    /\ quiet' = (queue = <<>> /\ "done" \notin Range(todo))
    /\ mpc' = "submit"
    /\ Local /\ UNCHANGED <<semVars, at, free, reset_done, left, historyVars>>

\* issue_setup: k_sem_reset, then uhc_ep_enqueue.
Arm ==
    /\ mpc = "arm"
    /\ xfer_done' = FALSE
    /\ quiet' = (queue = <<>> /\ "done" \notin Range(todo))
    /\ mpc' = "submit"
    /\ Local /\ UNCHANGED <<connect_sem, at, free, reset_done, left, historyVars>>

\* The struct of a transfer that timed out, a local of issue_setup, keeps what is in it
\* until it is queued again.  When it is still linked then, nothing is said of the list.
Relinks == mpc = "submit" /\ Script[at] \in Range(queue)

Submit ==
    /\ mpc = "submit"
    /\ ~Relinks
    /\ EpEnqueue(Script[at])
    /\ mpc' = "await"
    /\ UNCHANGED <<dq, firmware, callbackVars, at, free, reset_done, quiet, left>>

\* uhc_ep_enqueue reports an error: there is nothing to wait for.
SubmitFails ==
    /\ mpc = "submit"
    /\ mpc' = "gaveup"
    /\ Local /\ UNCHANGED <<semVars, at, free, reset_done, quiet, left, historyVars>>

TakeDone ==
    /\ mpc = "await" /\ xfer_done
    /\ xfer_done' = FALSE
    /\ mpc' = "woken"
    /\ Local /\ UNCHANGED <<connect_sem, at, free, reset_done, quiet, left, historyVars>>

\* K_MSEC(1500) have passed, then uhc_ep_dequeue.
TimeOut ==
    /\ mpc = "await" /\ ~xfer_done
    /\ mpc' = "dequeue"
    /\ Local /\ UNCHANGED <<semVars, at, free, reset_done, quiet, left, historyVars>>

DequeueCall ==
    /\ mpc = "dequeue"
    /\ \/ DequeueLookup(Script[at]) /\ UNCHANGED <<mpc, left>>
       \/ DequeueAbort /\ UNCHANGED <<mpc, left>>
       \/ /\ DequeueMiss(Script[at]) \/ DequeueFree
          /\ mpc' = "gaveup"
          /\ left' = (left \/ queue # <<>>)
    /\ UNCHANGED <<firmware, callbackVars, at, free, reset_done, quiet>>

\* issue_setup returns xfer.err, which nobody has written when the completion was
\* another's.  The data of a read may be too short, and there is none without a DATA
\* stage.
Delivered == mpc = "woken" /\ result[Script[at]] \in {"OK", "none"}
Good == Delivered /\ (HasData[Script[at]] => "DATA" \in acked[Script[at]])
Bad == mpc = "gaveup" \/ (mpc = "woken" /\ (Delivered => HasData[Script[at]]))

\* Faulty: an early return of enumerate_and_dump keeps the buffer.
GiveUpKeepsBuffer ==
    /\ Bad /\ at <= Needed
    /\ mpc' = "wait" /\ at' = 1
    /\ Local /\ UNCHANGED <<semVars, free, reset_done, quiet, left, historyVars>>

\* A needed step failed: unref the buffer and wait for the next device.
GiveUp ==
    /\ Bad /\ at <= Needed
    /\ mpc' = "wait" /\ at' = 1
    /\ free' = free + 1
    /\ Local /\ UNCHANGED <<semVars, reset_done, quiet, left, historyVars>>

\* Faulty: the buffer the needed steps share is given back after each of them.
StepDoneUnrefs ==
    /\ Good \/ (at > Needed /\ Bad)
    /\ GoOn
    /\ free' = free + 1
    /\ Local /\ UNCHANGED <<semVars, reset_done, quiet, left, historyVars>>

\* A step is done, or was not needed.
StepDone ==
    /\ Good \/ (at > Needed /\ Bad)
    /\ GoOn
    /\ free' = IF at >= Needed THEN free + 1 ELSE free
    /\ Local /\ UNCHANGED <<semVars, reset_done, quiet, left, historyVars>>

\* The link sample reads the flag, and a second time when it did not reset the bus.
Poll ==
    /\ mpc = "poll"
    /\ mpc' = IF connected /\ ~reset_done THEN "reset" ELSE "absent"
    /\ Local /\ UNCHANGED <<semVars, at, free, reset_done, quiet, left, historyVars>>

\* Faulty: the flag is never cleared.
PollAbsentKeeps ==
    /\ mpc = "absent"
    /\ mpc' = "poll"
    /\ seen_absent' = (seen_absent \/ ~connected)
    /\ Local /\ UNCHANGED <<semVars, at, free, quiet, left, attempted, reset_done>>

PollAbsent ==
    /\ mpc = "absent"
    /\ mpc' = "poll"
    /\ reset_done' = (reset_done /\ connected)
    /\ seen_absent' = (seen_absent \/ ~connected)
    /\ Local /\ UNCHANGED <<semVars, at, free, quiet, left, attempted>>

Main ==
    \/ Boot
    \/ TakeConnect \/ CheckConnected \/ BusReset \/ ResetReturns
    \/ Alloc \/ Pause \/ Arm \/ Submit \/ SubmitFails
    \/ TakeDone \/ TimeOut \/ DequeueCall
    \/ GiveUp \/ StepDone
    \/ Poll \/ PollAbsent

SamplesNext ==
    \/ DriverThread
    \/ Callback
    \/ Main
    \/ Replug /\ UNCHANGED <<dq, sampleVars>>

SamplesSpec == SamplesInit /\ [][SamplesNext]_<<vars, dq, sampleVars>>

\* The driver thread and main keep running; in particular a wait of main times out
\* unless it is ended before.
FairSamples ==
    /\ SamplesSpec
    /\ WF_<<vars, dq, sampleVars>>(DriverThread \/ Callback)
    /\ WF_<<vars, dq, sampleVars>>(Main)
-----------------------------------------------------------------------------
(* Properties                                                              *)

SamplesTypeOK ==
    /\ DqTypeOK
    /\ firmware \in Firmware
    /\ todo \in Seq(Callbacks)
    /\ {connected, connect_sem, xfer_done, reset_done, quiet, left, attempted,
        seen_absent} \subseteq BOOLEAN
    /\ mpc \in MainPCs
    /\ at \in 1..Len(Script)
    /\ free \in 0..Buffers

\* "only signals completion at the end" (129-131): a wait of issue_setup ends with the
\* completion of its own transfer, if that was the only one to come when the wait was
\* prepared; and as long as none was ever left on the list it ends with success only when
\* the device acknowledged each stage.
OwnCompletion ==
    mpc = "woken" /\ quiet =>
        LET x == Script[at] IN
        /\ result[x] # "none"
        /\ ~left /\ result[x] = "OK" => acked[x] = Plan(x)

\* "we issue one transfer at a time and free between issues" (61-63): however an
\* enumeration ends, its buffers are back when main waits for the next device.
BuffersBack == mpc = "wait" => free = Buffers

\* The inductive invariant behind BuffersBack: main holds one buffer from Alloc to the
\* end of the step it serves.
Holding ==
    \/ mpc \in {"arm", "submit", "await", "dequeue", "woken", "gaveup"}
    \/ mpc = "pause" /\ ~OwnBuffer(at)
BuffersInv ==
    /\ mpc \in MainPCs /\ at \in 1..Len(Script) /\ free \in Nat
    /\ free + (IF Holding THEN 1 ELSE 0) = Buffers

\* The inductive invariant behind OwnCompletion: a wait that began quiet has no transfer
\* on the list but its own, and the semaphore is given only for that one.
Told == xfer_done \/ "done" \in Range(todo)
OwnInv == quiet =>
    /\ mpc = "submit" => queue = <<>> /\ ~Told
    /\ mpc \in {"await", "dequeue"} => Range(queue) \subseteq {Script[at]}
    /\ (mpc = "await" /\ Told) \/ mpc = "woken" => result[Script[at]] # "none"

\* "Signal the main thread that a device is here" (84-87): a device that connects and is
\* not begun with yet has main on its way to it.  The flag is set before the semaphore
\* is given, and taken in the other order; a removal and a new device may come between
\* any two of these steps.
AwakeForDevice ==
    firmware = "descriptor" /\ connected /\ ~attempted =>
        connect_sem \/ "give" \in Range(todo) \/ mpc \in {"check", "reset"}

\* A device whose predecessor's absence was polled is never taken for one that had its
\* reset, even when it connected while main was still in the reset of the one before.
ResetDoneIsCurrent ==
    firmware = "link" /\ connected /\ ~attempted /\ seen_absent => ~reset_done

\* The inductive invariant behind them.  What is left of a callback agrees with the last
\* event the driver surfaced, and the flag with that event once the callback is done; in
\* the link sample, main is at or in a reset only for the device that is there, unless
\* that one has been removed since the last poll.
FlagInv ==
    /\ todo \in IF firmware = "link" THEN {<<>>, <<"set">>, <<"clear">>}
               ELSE {<<>>, <<"set", "give">>, <<"give">>, <<"clear">>, <<"done">>}
    /\ "set" \in Range(todo) => last_root_event = "CONNECT" /\ ~connected
    /\ "clear" \in Range(todo) => last_root_event = "DISCONNECT"
    /\ connected /\ "clear" \notin Range(todo) => last_root_event = "CONNECT"
    /\ root.event = "NONE" => last_root_event = "NONE"
DeviceInv ==
    /\ AwakeForDevice
    /\ firmware = "link" /\ seen_absent =>
          /\ mpc \in {"reset", "resetting"} => connected
          /\ mpc = "resetting" => attempted
          /\ ~connected \/ ~attempted => ~reset_done

\* Until a transfer is left on the list the samples are among the callers UhcPioUsb
\* describes, and ep_dequeue does the driver no harm: no buffer main has back, or has freed
\* since, goes on the wire.
BufferHeldUnlessLeft == ~left => BufferHeldWhileOnWire

\* The inductive invariant behind it: that of UhcPioUsb, until then.
DriverInv == ~left => SInv

\* Where main is, as far as the driver can tell: what UhcDequeue asks of a caller.
CallerInv ==
    /\ dq.step # "idle" => mpc = "dequeue"
    /\ resetting <=> mpc = "resetting"

\* Each device that connects is enumerated, or at least begun with, unless it is
\* removed first: the semaphore and the flag, given and set in two steps, never
\* leave main asleep with a device connected.
EveryDeviceEnumerated ==
    firmware = "descriptor" =>
        (connected /\ ~attempted ~> attempted \/ ~connected \/ Relinks)

\* "if a device just connected, perform a bus reset (required before issuing any
\* transfers" (143-145), for a device whose predecessor's absence was polled.
EachDeviceReset ==
    firmware = "link" =>
        (connected /\ ~attempted /\ seen_absent ~> attempted \/ ~connected)
-----------------------------------------------------------------------------
(* What the comments say, and the code does not do                         *)

\* "only signals completion at the end" (129-131) of the one transfer there is: each wait
\* of issue_setup that the semaphore ends is ended by its own transfer.
EveryWaitIsOwn == mpc = "woken" => result[Script[at]] # "none"
=============================================================================
