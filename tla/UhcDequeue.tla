----------------------------- MODULE UhcDequeue -----------------------------
(***************************************************************************)
(* uhc_pio_usb_ep_dequeue on top of UhcPioUsb: a caller that gives up on a *)
(* transfer (issue_setup of samples/pio_usb_host_descriptor after 1.5 s)   *)
(* reads the slot table, aborts the endpoint and wipes the slot, without a *)
(* lock the driver thread would respect.  The call may begin at any step of*)
(* the thread; whether the thread may also run in the middle of the call   *)
(* depends on the caller's priority.  The transfer may have been returned  *)
(* just before.  When the call returns, the caller takes it back.          *)
(***************************************************************************)
EXTENDS UhcPioUsb

CONSTANT CallerOutranks  \* callers' priority is above the driver thread's

ASSUME CallerAssumption == CallerOutranks \in BOOLEAN

VARIABLE dq   \* the call in progress: its next step, its transfer and slot

NoCall == [step |-> "idle", xfer |-> NoXfer, slot |-> 1]

DqInit == Init /\ dq = NoCall

\* slot_for_xfer and the reading of slot->started
DequeueLookup(x) ==
    /\ ApiFree /\ dq.step = "idle"
    /\ \E s \in SlotFor(x) :
          dq' = [step |-> IF inflight[s].started THEN "abort" ELSE "free",
                 xfer |-> x, slot |-> s]
    /\ UNCHANGED vars

\* A transfer with no slot: nothing to do, and the caller takes it back.
DequeueMiss(x) ==
    /\ ApiFree /\ dq.step = "idle"
    /\ SlotFor(x) = {}
    /\ owner' = [owner EXCEPT ![x] = "app"]
    /\ UNCHANGED <<picoVars, line, queue, stage, result, acked, inflight,
                   last_root_event, apiVars, threadVars, dq>>

\* Faulty: the endpoint is looked for by its address as it is, although a control
\* endpoint changes direction with the stage.
DequeueAbortExact ==
    /\ dq.step = "abort"
    /\ LET slot == inflight[dq.slot] IN
       pool' = Complete(pool, {i \in Pool : /\ pool[i].dev_addr = slot.dev_addr
                                            /\ pool[i].ep_num = slot.ep_addr})
    /\ dq' = [dq EXCEPT !.step = "free"]
    /\ UNCHANGED <<bits, root, line, xferVars, inflight, last_root_event, apiVars,
                   threadVars>>

\* pio_usb_host_endpoint_abort_transfer on the endpoint the slot names.
DequeueAbort ==
    /\ dq.step = "abort"
    /\ LET slot == inflight[dq.slot] IN
       pool' = Complete(pool, First(Lookup(pool, slot.dev_addr, slot.ep_addr)))
    /\ dq' = [dq EXCEPT !.step = "free"]
    /\ UNCHANGED <<bits, root, line, xferVars, inflight, last_root_event, apiVars,
                   threadVars>>

\* slot_free; the transfer stays on the UHC list.
DequeueFree ==
    /\ dq.step = "free"
    /\ inflight' = [inflight EXCEPT ![dq.slot] = EmptySlot]
    /\ owner' = [owner EXCEPT ![dq.xfer] = "app"]
    /\ dq' = NoCall
    /\ UNCHANGED <<picoVars, line, queue, stage, result, acked, last_root_event,
                   apiVars, threadVars>>

Dequeue ==
    \/ \E x \in Xfers : DequeueLookup(x) \/ DequeueMiss(x)
    \/ DequeueAbort \/ DequeueFree

\* A transfer still linked is not submitted again: the list would be corrupted.
DqApi ==
    \/ \E x \in Xfers : x \notin Range(queue) /\ EpEnqueue(x)
    \/ Enable \/ Disable
    \/ BusSuspend \/ BusResume \/ BusResetStart \/ BusResetEnd

DqNext ==
    \/ (CallerOutranks => dq.step = "idle") /\ (Frame \/ ThreadStep) /\ UNCHANGED dq
    \/ dq.step = "idle" /\ DqApi /\ UNCHANGED dq
    \/ Replug /\ UNCHANGED dq
    \/ Dequeue

DqSpec == DqInit /\ [][DqNext]_<<vars, dq>>
-----------------------------------------------------------------------------
DqTypeOK ==
    /\ TypeOK
    /\ dq \in [step : {"idle", "abort", "free"}, xfer : Xfers \cup {NoXfer},
               slot : Slots]

\* The inductive invariant behind ReturnOnlyQueued here, where a slot may be wiped at any
\* time: no two slots hold one transfer, what a slot holds is on the list until it is
\* returned, and so is what the thread is about to kick or return, in no other slot.
HeldQueued ==
    /\ \A s \in Occupied : inflight[s].xfer \in Range(queue) \/ (pc = "free" /\ s = cur)
    /\ \A s, t \in Occupied : inflight[s].xfer = inflight[t].xfer => s = t
    /\ pc \in {"kick", "return"} =>
          xfer \in Range(queue) /\ \A t \in Occupied \ {cur} : inflight[t].xfer # xfer

\* What AbortQuiets rests on.  The pool is filled from its low end and nothing leaves it.
\* A transaction is at its transfer's device, or at address 0 when the slot was wiped
\* before the kick; at the device it is on the lowest pool slot the transfer's endpoint
\* names, the one a lookup finds.  An occupied slot names that device and endpoint.
FoundInv ==
    /\ \A i, j \in Pool : j <= i /\ pool[i].used => pool[j].used
    /\ \A i \in Busy(pool) : LET x == pool[i].xact.xfer IN
          /\ x \in Xfers
          /\ pool[i].dev_addr \in {0, Addr[x]}
          /\ pool[i].dev_addr = Addr[x] => i \in First(Lookup(pool, Addr[x], Ep[x]))
    /\ \A s \in Occupied : LET x == inflight[s].xfer IN
          inflight[s].dev_addr = Addr[x] /\ inflight[s].ep_addr = Ep[x]
    /\ \A s \in Vacant : inflight[s].dev_addr = 0
    /\ pc = "kick" => inflight[cur].xfer \in {xfer, NoXfer}

\* While the slot still holds the transfer, the abort ends every transaction of it,
\* whichever stage the control endpoint was turned to and however many pool slots were
\* opened for the same endpoint before.  One escapes: a kick that met the slot wiped by an
\* earlier dequeue has gone to address 0, where an abort at the device does not look.
AbortQuiets ==
    [][dq.step = "abort" /\ inflight[dq.slot].xfer = dq.xfer =>
          \A i \in Busy(pool') :
              pool'[i].xact.xfer = dq.xfer =>
                  pool'[i].dev_addr = 0 /\ Addr[dq.xfer] # 0]_dq
=============================================================================
