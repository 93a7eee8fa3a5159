-------------------------- MODULE UdcControl_proofs --------------------------
(***************************************************************************)
(* Proofs about EP0 of UdcPioUsb, for any requests, for a host that lets   *)
(* the device come to rest before it begins a request, and with            *)
(* allocations that may fail: each SETUP is handed up once, an address is  *)
(* applied with its own STATUS IN; and, as long as the thread's store of   *)
(* the bitmap overwrites no completion, no later, and the control stage    *)
(* follows the host.  Without class endpoints, it overwrites none.  A host *)
(* that does not wait is outside all of these.                             *)
(***************************************************************************)
EXTENDS UdcPioUsb_proofs

\* A SETUP on its way to the thread; the stack or EP0 IN at work on the answer; the
\* answer's completion on its way back.
Taken == pc = "setup" /\ "setup" \in f
Flagged == "setup" \in flags \/ Taken
Answering == told # <<>> \/ call \in CtrlBufs \/ pep[IN0].has_transfer
Answered == IN0 \in ep_complete \cup pending

IsWrite == Kind[host.req] = "write"
IsAddress == Kind[host.req] = "address"
FirstStep == IF Kind[host.req] = "read" THEN "data_in" ELSE "status_in"

\* EP0 is never disabled nor halted, and nothing gets into the fifo of EP0 OUT.
PipeOpen == pep[IN0].open /\ ~halted[IN0] /\ fifo[OUT0] = <<>>

\* One request at a time, in one place at a time: flagged, with the stack, between the
\* two parts of ep_enqueue, on EP0 IN.
OneRequest ==
    /\ host.req \in issued \cup {NoReq}
    /\ Flagged => setup_packet = host.req /\ ~Answering /\ ~Answered
    /\ ~("setup" \in flags /\ Taken)
    /\ Answering => ~Answered /\ host.req \in Requests /\ ~IsWrite
    /\ (Flagged \/ Answering) /\ ~IsWrite => host.step = FirstStep
    /\ told # <<>> => call \notin CtrlBufs /\ ~pep[IN0].has_transfer
    /\ call \in CtrlBufs => ~pep[IN0].has_transfer

\* The stack was handed a request that is not flagged any more, and no write.
HandedOver ==
    \A r \in Requests :
        /\ surfaced[r] <= 1
        /\ surfaced[r] > 0 => r \in issued /\ Kind[r] # "write"
        /\ Flagged /\ r = host.req => surfaced[r] = 0

\* What the stack is told on EP0 is the host's request; once it has set the address, the
\* message that is left asks for the status.
Message ==
    told # <<>> =>
        /\ told = <<Head(told)>> /\ Head(told).req = host.req
        /\ \/ Head(told).what = Kind[host.req]
           \/ IsAddress /\ Head(told).what = "nodata" /\ pending_address = host.req

\* An address to be applied is that of the request under way, or is in use by the host
\* already, which the device then does not hear.
AddressInv ==
    /\ {dev_addr, host.addr} \subseteq issued \cup {NoReq}
    /\ Flagged \/ Answering => host.req \notin {dev_addr, host.addr}
    /\ (call \in CtrlBufs \/ pep[IN0].has_transfer) /\ IsAddress =>
          pending_address = host.req
    /\ pending_address # NoReq =>
          /\ pending_address # dev_addr
          /\ \/ host.addr = pending_address
             \/ host.req = pending_address /\ IsAddress /\ Answering

PipeInv == PipeOpen /\ OneRequest /\ HandedOver /\ Message /\ AddressInv

\* The completion of the answer is in the bitmap or in the thread's copy, not in both
\* when the thread handles it.
BitOnce == pc = "handle" => IN0 \notin ep_complete \cap pending

\* EP0 IN's fifo holds the answer from its queueing to its completion.
AnswerQueued ==
    IF call \in CtrlBufs \/ pep[IN0].has_transfer \/ Answered
    THEN \E b \in CtrlBufs : fifo[IN0] = <<b>> ELSE fifo[IN0] = <<>>

\* Where the stage stands while a request that was handed over goes on.
StageInv ==
    /\ host.step # "idle" => host.req \in Requests
    /\ host.step = "data_out" => IsWrite
    /\ Answering \/ Answered => host.req \in Requests /\ surfaced[host.req] > 0
    /\ host.req \in Requests /\ surfaced[host.req] > 0 =>
          IF Answered
          THEN /\ stage = StageOf[Kind[host.req]]
               /\ host.step = IF Kind[host.req] = "read" THEN "status_out" ELSE "idle"
          ELSE host.step # "idle" => stage = HostStage[host.step]
    /\ host.addr \notin {NoReq, dev_addr} =>
          Answered /\ pending_address = host.addr /\ stage = "STATUS_IN"

StagesInv == BitOnce /\ AnswerQueued /\ StageInv

\* Without class endpoints, the thread is at the bitmap only between a transaction on
\* EP0 and the host's next request, so it loses no bit.
Draining ==
    \/ "ep_done" \in flags \/ (pc = "setup" /\ "ep_done" \in f)
    \/ pc \in {"load", "clear", "store", "handle"}
    \/ ep_complete # {}
AloneInv ==
    /\ Draining => host.step # "data_out" /\ ~Answering /\ (Flagged => IsWrite)
    /\ pc \in {"clear", "store"} => pending = ep_complete
    /\ pc = "store" => reg = {}
-----------------------------------------------------------------------------
(* PipeInv, whatever the classes do                                        *)

\* What these invariants see of a step that is none of EP0's.
PipeVars == <<setup_packet, dev_addr, told, pending_address, host, issued, surfaced>>
PipeKeeps ==
    /\ UNCHANGED PipeVars
    /\ pep'[IN0] = pep[IN0] /\ halted'[IN0] = halted[IN0] /\ fifo'[OUT0] = fifo[OUT0]
    /\ call' \in CtrlBufs <=> call \in CtrlBufs
    /\ Flagged' => Flagged
    /\ "setup" \in flags' /\ Taken' => "setup" \in flags /\ Taken
    /\ Answered' => Answered

LEMMA PipeKept == ASSUME PipeInv, PipeKeeps PROVE PipeInv'
<1> USE DEF PipeKeeps, PipeVars
<1>1. (Answering' <=> Answering) /\ (IsWrite' <=> IsWrite) /\ (IsAddress' <=> IsAddress)
      /\ FirstStep' = FirstStep
  BY DEF Answering, IsWrite, IsAddress, FirstStep
<1>2. PipeOpen' /\ HandedOver' /\ Message'
  BY <1>1 DEF PipeInv, PipeOpen, HandedOver, Message
<1>3. OneRequest'
  BY <1>1 DEF PipeInv, OneRequest
<1>4. AddressInv'
  BY <1>1 DEF PipeInv, AddressInv
<1> QED
  BY <1>2, <1>3, <1>4 DEF PipeInv

\* The classes' calls and transfers, and the thread's steps that handle no buffer.
LEMMA PipeClass ==
    ASSUME BaseInv, PipeInv,
           \/ \E s \in Eps : HostTransfers(s) \/ EpDequeue(s) \/ EpEnable(s) \/ EpDisable(s)
           \/ \E s \in Eps, on \in BOOLEAN : SetHalt(s, on)
           \/ \E on \in BOOLEAN : SetEnabled(on)
           \/ \E b \in Bufs : EnqueuePut(b)
           \/ NoSetup \/ DrainLoad \/ DrainReload \/ DrainStore \/ DrainDone
    PROVE  PipeInv'
<1> USE SlotFacts DEF picoVars, epVars, lapseVars, ctrlVars, threadVars, hostVars
<1>1. /\ pep \in [Slots -> Endpoints] /\ fifo \in [Slots -> Seq(Buffers)]
      /\ halted \in [Slots -> BOOLEAN]
  BY DEF BaseInv, UdcTypeOK
<1>2. CASE \E s \in Eps : HostTransfers(s)
  <2>1. PICK s \in Eps : HostTransfers(s)
    BY <1>2
  <2>2. PipeKeeps
    BY <1>1, <2>1 DEF HostTransfers, WireDone, IrqHandler, PipeKeeps, PipeVars, Flagged,
       Taken, Answered
  <2> QED
    BY <2>2, PipeKept
<1>3. CASE \E s \in Eps : EpDequeue(s) \/ EpEnable(s) \/ EpDisable(s)
  <2>1. PICK s \in Eps : EpDequeue(s) \/ EpEnable(s) \/ EpDisable(s)
    BY <1>3
  <2>2. PipeKeeps
    BY <1>1, <2>1 DEF EpDequeue, Stopped, EpEnable, EpDisable, PipeKeeps, PipeVars,
       Flagged, Taken, Answered
  <2> QED
    BY <2>2, PipeKept
<1>4. CASE \E s \in Eps, on \in BOOLEAN : SetHalt(s, on)
  <2>1. PICK s \in Eps, on \in BOOLEAN : SetHalt(s, on)
    BY <1>4
  <2>2. PipeKeeps
    BY <1>1, <2>1 DEF SetHalt, PipeKeeps, PipeVars, Flagged, Taken, Answered
  <2> QED
    BY <2>2, PipeKept
<1>5. CASE \E on \in BOOLEAN : SetEnabled(on)
  <2>1. PipeKeeps
    BY <1>5 DEF SetEnabled, PipeKeeps, PipeVars, Flagged, Taken, Answered
  <2> QED
    BY <2>1, PipeKept
<1>6. CASE \E b \in Bufs : EnqueuePut(b)
  <2>1. PICK b \in Bufs : EnqueuePut(b)
    BY <1>6
  <2>2. call \notin CtrlBufs /\ call' \notin CtrlBufs
    BY <2>1, BuffersAssumption DEF EnqueuePut, ApiFree
  <2>3. PipeKeeps
    BY <1>1, <2>1, <2>2 DEF EnqueuePut, PipeKeeps, PipeVars, Flagged, Taken, Answered
  <2> QED
    BY <2>3, PipeKept
<1>7. CASE NoSetup \/ DrainLoad \/ DrainReload \/ DrainStore \/ DrainDone
  <2>1. /\ UNCHANGED <<PipeVars, pep, halted, fifo, call, flags, f>>
        /\ pc' = "setup" => pc = "setup"
    BY <1>7 DEF NoSetup, AfterSetup, DrainLoad, DrainReload, DrainStore, DrainDone, PipeVars
  <2>2. Answered' => Answered
    BY <1>7 DEF NoSetup, DrainLoad, DrainReload, DrainStore, DrainDone, Answered, BaseInv,
       BitmapInv
  <2>3. PipeKeeps
    BY <2>1, <2>2 DEF PipeKeeps, Flagged, Taken
  <2> QED
    BY <2>3, PipeKept
<1> QED
  BY <1>2, <1>3, <1>4, <1>5, <1>6, <1>7

\* A host that is patient finds the pipe empty.
LEMMA PipeSetup ==
    ASSUME BaseInv, PipeInv, Patience = "device", NEW r \in Requests, HostSetup(r)
    PROVE  PipeInv'
<1> USE DEF picoVars, epVars, lapseVars, ctrlVars, threadVars, hostVars
<1>1. /\ Quiet /\ Addressed /\ r \notin issued /\ issued' = issued \cup {r}
      /\ setup_packet' = r /\ flags' = flags \cup {"setup"}
      /\ host'.req = r /\ host'.addr = host.addr /\ pc = "idle"
      /\ Kind[r] # "write" => host'.step = IF Kind[r] = "read" THEN "data_in" ELSE "status_in"
      /\ UNCHANGED <<pep, ep_complete, dev_addr, fifo, halted, call, stage, told,
                     pending_address, pc, f, pending, surfaced>>
  BY DEF HostSetup, IrqHandler, Quiet, BaseInv, UdcTypeOK
<1>2. ~Answering' /\ ~Answered' /\ ~Taken' /\ told' = <<>> /\ call' \notin CtrlBufs
  BY <1>1, BuffersAssumption
  DEF Quiet, Answering, Answered, Taken, BaseInv, BitmapInv
<1>3. PipeOpen' /\ Message'
  BY <1>1, <1>2 DEF PipeInv, PipeOpen, Message
<1>4. OneRequest'
  BY <1>1, <1>2 DEF OneRequest, Flagged, Taken, IsWrite, FirstStep
<1>5. HandedOver'
  <2>1. surfaced[r] \in Nat /\ ~(surfaced[r] > 0)
    BY <1>1 DEF PipeInv, HandedOver, BaseInv, UdcTypeOK
  <2>2. surfaced[r] = 0
    BY <2>1
  <2> QED
    BY <1>1, <2>2 DEF PipeInv, HandedOver
<1>6. AddressInv'
  <2>1. pending_address = NoReq
    BY <1>1, <1>2 DEF PipeInv, AddressInv, Addressed, Answering
  <2>2. r # NoReq
    BY NullAssumption
  <2> QED
    BY <1>1, <1>2, <2>1, <2>2 DEF PipeInv, AddressInv, Answering
<1> QED
  BY <1>3, <1>4, <1>5, <1>6 DEF PipeInv

\* The host's transactions on EP0.
LEMMA PipeControl ==
    ASSUME BaseInv, PipeInv, HostControlIn \/ HostControlOut PROVE PipeInv'
<1> USE SlotFacts DEF picoVars, epVars, lapseVars, ctrlVars, threadVars, hostVars
<1>0. host \in [req : Requests \cup {NoReq}, addr : Requests \cup {NoReq},
                step : {"idle", "data_in", "data_out", "status_in", "status_out"}]
      /\ pep \in [Slots -> Endpoints]
  BY DEF BaseInv, UdcTypeOK
<1>1. CASE HostControlIn
  <2>1. /\ Addressed /\ pep[IN0].has_transfer /\ ~pep'[IN0].has_transfer
        /\ pep'[IN0].open = pep[IN0].open /\ ep_complete' = ep_complete \cup {IN0}
        /\ flags' = flags \cup {"ep_done"}
        /\ UNCHANGED <<setup_packet, dev_addr, fifo, halted, call, told, pending_address,
                       pc, f, pending, issued, surfaced>>
    BY <1>0, <1>1 DEF HostControlIn, WireDone, IrqHandler, Endpoints
  <2>2. /\ Answering /\ told = <<>> /\ call \notin CtrlBufs /\ ~Flagged /\ ~IsWrite
        /\ host.req \in Requests /\ host.step = FirstStep
    BY <2>1 DEF PipeInv, OneRequest, Answering
  <2>3. /\ host'.req = host.req
        /\ IsAddress => host'.addr = host.req
        /\ ~IsAddress => host'.addr = host.addr
    BY <1>0, <1>1, <2>2 DEF HostControlIn, FirstStep, IsAddress
  <2>4. ~Answering' /\ ~Flagged'
    BY <2>1, <2>2 DEF Answering, Flagged, Taken
  <2>5. PipeOpen' /\ HandedOver' /\ Message'
    BY <2>1, <2>2, <2>3, <2>4 DEF PipeInv, PipeOpen, HandedOver, Message
  <2>6. OneRequest'
    BY <2>1, <2>2, <2>3, <2>4 DEF PipeInv, OneRequest, Flagged, Taken
  <2>7. AddressInv'
    <3>1. {dev_addr, host'.addr} \subseteq issued \cup {NoReq}
      BY <2>2, <2>3 DEF PipeInv, AddressInv, OneRequest
    <3>2. pending_address # NoReq =>
              pending_address # dev_addr /\ host'.addr = pending_address
      BY <2>1, <2>2, <2>3 DEF PipeInv, AddressInv, Addressed
    <3> QED
      BY <2>1, <2>2, <2>4, <3>1, <3>2 DEF AddressInv
  <2> QED
    BY <2>5, <2>6, <2>7 DEF PipeInv
<1>2. CASE HostControlOut
  <2>1. /\ host.step = "data_out" /\ host' = [host EXCEPT !.step = "status_in"]
        /\ pep'[IN0] = pep[IN0] /\ ep_complete' = ep_complete \cup {OUT0}
        /\ flags' = flags \cup {"ep_done"}
        /\ UNCHANGED <<setup_packet, dev_addr, fifo, halted, call, told, pending_address,
                       pc, f, pending, issued, surfaced>>
    BY <1>0, <1>2 DEF HostControlOut, WireDone, IrqHandler
  <2>2. host'.req = host.req /\ host'.addr = host.addr
    BY <1>0, <2>1
  <2>3. /\ Answering' <=> Answering
        /\ Answered' <=> Answered
        /\ Flagged' <=> Flagged
        /\ Taken' <=> Taken
        /\ IsWrite' <=> IsWrite
        /\ IsAddress' <=> IsAddress
    BY <2>1, <2>2 DEF Answering, Answered, Flagged, Taken, IsWrite, IsAddress
  <2>4. ~((Flagged \/ Answering) /\ ~IsWrite)
    BY <2>1 DEF PipeInv, OneRequest, FirstStep
  <2>5. PipeOpen' /\ HandedOver' /\ Message' /\ AddressInv'
    BY <2>1, <2>2, <2>3 DEF PipeInv, PipeOpen, HandedOver, Message, AddressInv
  <2>6. OneRequest'
    BY <2>1, <2>2, <2>3, <2>4 DEF PipeInv, OneRequest
  <2> QED
    BY <2>5, <2>6 DEF PipeInv
<1> QED
  BY <1>1, <1>2

\* It gives up a request only when nothing more will come of it.
LEMMA PipeGivesUp ==
    ASSUME BaseInv, PipeInv, Patience = "device", NEW ints \in {{}, {"reset"}},
           HostGivesUp(ints)
    PROVE  PipeInv'
<1> USE DEF picoVars, epVars, lapseVars, ctrlVars, threadVars, hostVars
<1>1. /\ Quiet /\ host'.req = host.req /\ host'.addr = host.addr /\ flags' = flags \cup ints
      /\ UNCHANGED <<setup_packet, pep, dev_addr, fifo, halted, call, told, pending_address,
                     ep_complete, pc, f, pending, issued, surfaced>>
  BY DEF HostGivesUp, IrqHandler, BaseInv, UdcTypeOK
<1>2. ~Answering' /\ ~Flagged' /\ ~Answering /\ told' = <<>> /\ call' \notin CtrlBufs
  BY <1>1, BuffersAssumption DEF Quiet, Answering, Flagged, Taken
<1>3. PipeOpen' /\ HandedOver' /\ Message'
  BY <1>1, <1>2 DEF PipeInv, PipeOpen, HandedOver, Message
<1>4. OneRequest' /\ AddressInv'
  BY <1>1, <1>2 DEF PipeInv, OneRequest, AddressInv, Answering, Flagged
<1> QED
  BY <1>3, <1>4 DEF PipeInv

\* The thread takes the flags, and drops a SETUP it has no buffer for.
LEMMA PipeWakes ==
    ASSUME BaseInv, PipeInv, ThreadWakes \/ HandleSetupNoMem PROVE PipeInv'
<1> USE DEF picoVars, epVars, lapseVars, ctrlVars, threadVars, hostVars
<1>1. /\ UNCHANGED PipeVars /\ UNCHANGED <<pep, halted, fifo, call, ep_complete, pending>>
      /\ Flagged' => Flagged
      /\ ~("setup" \in flags' /\ Taken')
  BY DEF ThreadWakes, HandleSetupNoMem, AfterSetup, Flagged, Taken, PipeVars, PipeInv,
     OneRequest
<1> QED
  BY <1>1, PipeKept DEF PipeKeeps, Answered

\* The SETUP that is flagged is handed up, or EP0 OUT armed for its data.
LEMMA PipeHandle == ASSUME BaseInv, PipeInv, HandleSetup PROVE PipeInv'
<1> USE SlotFacts DEF picoVars, epVars, lapseVars, ctrlVars, threadVars, hostVars
<1> DEFINE r == setup_packet
<1>1. /\ Taken /\ Flagged /\ r = host.req /\ r \in Requests /\ ~Answering /\ ~Answered
      /\ "setup" \notin flags /\ surfaced[r] = 0 /\ r \in issued
      /\ told = <<>> /\ call \notin CtrlBufs /\ ~pep[IN0].has_transfer
  BY NullAssumption DEF HandleSetup, Flagged, Taken, PipeInv, OneRequest, HandedOver, Answering,
     BaseInv, ControlInv
<1>2. /\ UNCHANGED <<ep_complete, setup_packet, dev_addr, epVars, flags, pending_address,
                     f, pending, host, issued>>
      /\ pc' # "setup" /\ ~Flagged'
      /\ pep'[IN0] = pep[IN0]
  BY <1>1 DEF HandleSetup, AfterSetup, KickOff, Flagged, Taken, BaseInv, UdcTypeOK
<1>3. PipeOpen'
  BY <1>2 DEF PipeInv, PipeOpen
<1>4. CASE IsWrite
  <2>1. UNCHANGED <<told, surfaced>>
    BY <1>1, <1>4 DEF HandleSetup, IsWrite
  <2>2. PipeKeeps
    BY <1>2, <2>1 DEF PipeKeeps, PipeVars, Flagged, Taken, Answered
  <2> QED
    BY <2>2, PipeKept
<1>5. CASE ~IsWrite
  <2>1. /\ told' = <<[req |-> r, what |-> Kind[r]]>>
        /\ surfaced' = [surfaced EXCEPT ![r] = @ + 1]
    BY <1>1, <1>5 DEF HandleSetup, IsWrite
  <2>2. Answering' /\ ~Answered' /\ told' # <<>>
        /\ Head(told') = [req |-> r, what |-> Kind[r]]
    BY <1>1, <1>2, <2>1 DEF Answering, Answered
  <2>3. Message'
    BY <1>1, <1>2, <2>1, <2>2 DEF Message
  <2>4. OneRequest'
    BY <1>1, <1>2, <1>5, <2>2 DEF PipeInv, OneRequest, IsWrite, FirstStep, Taken
  <2>5. surfaced'[r] = 1 /\ \A q \in Requests \ {r} : surfaced'[q] = surfaced[q]
    BY <1>1, <2>1 DEF BaseInv, UdcTypeOK
  <2>6. HandedOver'
    BY <1>1, <1>2, <1>5, <2>5 DEF PipeInv, HandedOver, IsWrite
  <2>7. AddressInv'
    BY <1>1, <1>2, <2>2 DEF PipeInv, AddressInv, IsAddress
  <2> QED
    BY <1>3, <2>3, <2>4, <2>6, <2>7 DEF PipeInv
<1> QED
  BY <1>4, <1>5

\* A completion: EP0 IN's ends the request's turn, and may apply the address.
LEMMA PipeDrains ==
    ASSUME BaseInv, PipeInv, DrainNext
    PROVE  PipeInv' /\ (dev_addr' # dev_addr => dev_addr' = host.addr)
<1> USE SlotFacts DEF picoVars, epVars, lapseVars, ctrlVars, threadVars, hostVars
<1>0. PICK s \in pending : pending' = pending \ {s} /\ HandleEpComplete(s)
  BY DEF DrainNext
<1>1. /\ UNCHANGED <<pep, ep_complete, setup_packet, halted, call, flags, pc, f, host, issued>>
      /\ pc = "handle" /\ s \in Slots
  BY DEF DrainNext, BaseInv, UdcTypeOK
<1>2. fifo'[OUT0] = fifo[OUT0]
  BY <1>0, <1>1 DEF HandleEpComplete, PipeInv, PipeOpen, BaseInv, UdcTypeOK
<1>3. UNCHANGED <<told, surfaced>>
  BY <1>0 DEF HandleEpComplete, BulkDone, ControlDone, PipeInv, PipeOpen
<1>4. CASE UNCHANGED <<dev_addr, pending_address>>
  <2>1. PipeKeeps
    BY <1>0, <1>1, <1>2, <1>3, <1>4 DEF PipeKeeps, PipeVars, Flagged, Taken, Answered
  <2> QED
    BY <1>4, <2>1, PipeKept
<1>5. CASE ~UNCHANGED <<dev_addr, pending_address>>
  <2>1. /\ s = IN0 /\ pending_address # NoReq
        /\ dev_addr' = pending_address /\ pending_address' = NoReq
    BY <1>0, <1>5 DEF HandleEpComplete, BulkDone, ControlDone, AppliesAddress
  <2>2. Answered /\ ~Answering /\ ~Flagged
    BY <1>0, <2>1 DEF Answered, PipeInv, OneRequest
  <2>3. host.addr = pending_address
    BY <2>1, <2>2 DEF PipeInv, AddressInv
  <2>4. ~Answering' /\ ~Flagged' /\ ~Taken' /\ told' = <<>>
    BY <1>1, <1>3, <2>2 DEF Answering, Flagged, Taken
  <2>5. PipeOpen' /\ Message' /\ HandedOver'
    BY <1>1, <1>2, <1>3, <2>4 DEF PipeInv, PipeOpen, Message, HandedOver
  <2>6. OneRequest'
    BY <1>1, <2>4 DEF PipeInv, OneRequest, Answering
  <2>7. AddressInv'
    BY <1>1, <2>1, <2>3, <2>4 DEF PipeInv, AddressInv, Answering
  <2> QED
    BY <2>1, <2>3, <2>5, <2>6, <2>7 DEF PipeInv
<1> QED
  BY <1>4, <1>5

\* The stack acts on what it was told.
LEMMA PipeStack ==
    ASSUME BaseInv, PipeInv, SetAddress \/ StackAnswers PROVE PipeInv'
<1> USE SlotFacts DEF picoVars, epVars, lapseVars, ctrlVars, threadVars, hostVars
<1> DEFINE t == Head(told)
<1>1. /\ told # <<>> /\ told = <<t>> /\ t.req = host.req /\ call = NoBuf
      /\ Answering /\ ~Flagged /\ ~Answered /\ host.req \in Requests
      /\ ~pep[IN0].has_transfer /\ call \notin CtrlBufs
  BY DEF SetAddress, StackAnswers, ApiFree, PipeInv, OneRequest, Message, Answering
<1>2. /\ UNCHANGED <<pep, ep_complete, pending, setup_packet, dev_addr, halted, flags, pc, f,
                     host, issued, surfaced>>
      /\ fifo'[OUT0] = fifo[OUT0]
  BY DEF SetAddress, StackAnswers, BaseInv, UdcTypeOK
<1>3. PipeOpen' /\ HandedOver' /\ ~Flagged' /\ ~Taken' /\ ~Answered'
  BY <1>1, <1>2 DEF PipeInv, PipeOpen, HandedOver, Flagged, Taken, Answered
<1>4. CASE SetAddress
  <2>1. /\ t.what = "address" /\ pending_address' = host.req /\ call' = call
        /\ told' = [told EXCEPT ![1].what = "nodata"]
    BY <1>1, <1>4 DEF SetAddress
  <2>2. IsAddress
    BY <1>1, <2>1 DEF PipeInv, Message, IsAddress
  <2>3. /\ told' # <<>> /\ told' = <<Head(told')>> /\ Head(told').req = host.req
        /\ Head(told').what = "nodata"
    <3>1. told \in Seq([req : Requests, what : Kinds])
      BY DEF BaseInv, UdcTypeOK
    <3>2. t \in [req : Requests, what : Kinds]
      BY <1>1, <3>1, HeadTailProperties
    <3> DEFINE u == [t EXCEPT !.what = "nodata"]
    <3>3. u.req = host.req /\ u.what = "nodata"
      BY <1>1, <3>2
    <3>4. told' = <<u>>
      <4> HIDE DEF t
      <4> QED
        BY <1>1, <2>1
    <3> HIDE DEF u
    <3> QED
      BY <3>3, <3>4
  <2>4. Answering' /\ Message'
    BY <1>2, <2>1, <2>2, <2>3 DEF Answering, Message, IsAddress
  <2>5. OneRequest'
    BY <1>1, <1>2, <1>3, <2>1, <2>4
    DEF PipeInv, OneRequest, IsWrite, FirstStep, Answering
  <2>6. AddressInv'
    <3>1. host.req # dev_addr
      BY <1>1 DEF PipeInv, AddressInv
    <3> QED
      BY <1>1, <1>2, <2>1, <2>2, <2>4, <3>1 DEF PipeInv, AddressInv, IsAddress
  <2> QED
    BY <1>3, <2>4, <2>5, <2>6 DEF PipeInv
<1>5. CASE StackAnswers
  <2>1. /\ t.what \in {"read", "nodata"} /\ told' = Tail(told)
        /\ call' = [req |-> t.req, what |-> IF t.what = "read" THEN "data" ELSE "status"]
        /\ UNCHANGED pending_address
    BY <1>5 DEF StackAnswers
  <2>2. told' = <<>>
    <3> HIDE DEF t
    <3> QED
      BY <1>1, <2>1
  <2>3. call' \in CtrlBufs
    <3>1. t.req \in Requests
      BY <1>1
    <3> HIDE DEF t
    <3> QED
      BY <2>1, <3>1 DEF CtrlBufs
  <2>4. Answering' /\ Message'
    BY <2>2, <2>3 DEF Answering, Message
  <2>5. OneRequest'
    BY <1>1, <1>2, <1>3, <2>2, <2>3, <2>4 DEF PipeInv, OneRequest, IsWrite, FirstStep
  <2>6. IsAddress => pending_address = host.req
    BY <1>1, <2>1 DEF PipeInv, Message, IsAddress
  <2>7. AddressInv'
    BY <1>1, <1>2, <1>3, <2>1, <2>4, <2>6 DEF PipeInv, AddressInv, IsAddress
  <2> QED
    BY <1>3, <2>4, <2>5, <2>7 DEF PipeInv
<1> QED
  BY <1>4, <1>5

\* EP0 IN is idle and takes the answer.
LEMMA PipeKick == ASSUME BaseInv, PipeInv, EnqueueKick PROVE PipeInv'
<1> USE SlotFacts DEF picoVars, epVars, lapseVars, ctrlVars, threadVars, hostVars
<1>0. pep \in [Slots -> Endpoints] /\ call \in Bufs \cup CtrlBufs /\ call' = NoBuf
      /\ NoBuf \notin CtrlBufs
  BY BuffersAssumption DEF EnqueueKick, BaseInv, UdcTypeOK, Buffers
<1>1. UNCHANGED <<ep_complete, setup_packet, dev_addr, fifo, halted, flags, ctrlVars,
                  threadVars, hostVars>>
  BY DEF EnqueueKick
<1>2. CASE call \in Bufs
  <2>1. EpOf[call] \in Eps /\ call \notin CtrlBufs
    BY <1>2, BuffersAssumption
  <2>2. pep'[IN0] = pep[IN0]
    BY <1>0, <1>2, <2>1 DEF EnqueueKick, CallSlot, KickOff
  <2>3. PipeKeeps
    BY <1>0, <1>1, <2>1, <2>2 DEF PipeKeeps, PipeVars, Flagged, Taken, Answered
  <2> QED
    BY <2>3, PipeKept
<1>3. CASE call \in CtrlBufs
  <2>1. call \notin Bufs
    BY <1>3, BuffersAssumption
  <2>2. ~halted[IN0] /\ Accepts(IN0) /\ told = <<>> /\ Answering
    BY <1>3 DEF PipeInv, PipeOpen, OneRequest, Accepts, Answering
  <2>3. pep' = KickOff(IN0, call)
    BY <2>1, <2>2 DEF EnqueueKick, CallSlot
  <2>4. pep'[IN0].has_transfer /\ pep'[IN0].open = pep[IN0].open
    BY <1>0, <2>3 DEF KickOff, Endpoints
  <2>5. /\ Answering' /\ UNCHANGED <<Flagged, Taken, Answered, IsWrite, IsAddress, FirstStep>>
    BY <1>1, <2>4 DEF Answering, Flagged, Taken, Answered, IsWrite, IsAddress, FirstStep
  <2>6. PipeOpen' /\ HandedOver' /\ Message'
    BY <1>1, <2>2, <2>4, <2>5 DEF PipeInv, PipeOpen, HandedOver, Message
  <2>7. OneRequest'
    BY <1>0, <1>1, <2>2, <2>5 DEF PipeInv, OneRequest
  <2>8. AddressInv'
    BY <1>1, <1>3, <2>2, <2>5 DEF PipeInv, AddressInv
  <2> QED
    BY <2>6, <2>7, <2>8 DEF PipeInv
<1> QED
  BY <1>0, <1>2, <1>3

\* Every step keeps PipeInv, and only a completion changes the device's address.
LEMMA PipeStep ==
    Patience = "device" =>
        (BaseInv /\ PipeInv /\ [Next]_vars
            => PipeInv' /\ (dev_addr' # dev_addr => dev_addr' = host.addr))
<1> SUFFICES ASSUME Patience = "device", BaseInv, PipeInv, [Next]_vars
             PROVE  PipeInv' /\ (dev_addr' # dev_addr => dev_addr' = host.addr)
  OBVIOUS
<1> USE DEF picoVars, epVars, lapseVars, ctrlVars, threadVars, hostVars
<1>1. CASE DrainNext
  BY <1>1, PipeDrains
<1>2. CASE UNCHANGED vars
  BY <1>2, PipeKept DEF vars, PipeKeeps, PipeVars, Flagged, Taken, Answered
<1>3. CASE Host
  <2>1. PipeInv'
    BY <1>3, PipeClass, PipeSetup, PipeControl, PipeGivesUp DEF Host
  <2>2. UNCHANGED dev_addr
    BY <1>3 DEF Host, HostTransfers, HostSetup, HostControlIn, HostControlOut, WireDone,
       HostGivesUp
  <2> QED
    BY <2>1, <2>2
<1>4. CASE ThreadStep /\ ~DrainNext
  <2>1. PipeInv'
    BY <1>4, PipeClass, PipeWakes, PipeHandle DEF ThreadStep
  <2>2. UNCHANGED dev_addr
    BY <1>4 DEF ThreadStep, ThreadWakes, NoSetup, HandleSetup, HandleSetupNoMem, DrainLoad,
       DrainReload, DrainStore, DrainDone
  <2> QED
    BY <2>1, <2>2
<1>5. CASE Api
  <2>1. PipeInv'
    BY <1>5, PipeClass, PipeStack, PipeKick DEF Api
  <2>2. UNCHANGED dev_addr
    BY <1>5 DEF Api, EnqueuePut, SetAddress, StackAnswers, EnqueueKick, EpDequeue, EpEnable,
       EpDisable, SetHalt, SetEnabled
  <2> QED
    BY <2>1, <2>2
<1> QED
  BY <1>1, <1>2, <1>3, <1>4, <1>5 DEF Next

LEMMA PipeInit == Init => BaseInv /\ PipeInv
<1>1. ASSUME Init PROVE BaseInv
  <2>1. UdcTypeOK /\ ControlInv /\ BitmapInv
    BY <1>1, SlotFacts, EmptySeq
    DEF Init, UdcTypeOK, ControlInv, BitmapInv, Endpoints, CtrlStages, Flags, PCs, Results
  <2> QED
    BY <2>1 DEF BaseInv
<1>2. Init => PipeInv
  BY SlotFacts, BuffersAssumption, NullAssumption
  DEF Init, PipeInv, PipeOpen, OneRequest, HandedOver, Message, AddressInv, Flagged, Taken,
      Answering, Answered
<1> QED
  BY <1>1, <1>2

\* The stack is handed each SETUP once at most, by a host that is patient, although the
\* flag is set by the interrupt and the packet read later, and whatever the classes do.
THEOREM HandedOnce == Patience = "device" => (Spec => []SurfacedOnce)
<1> SUFFICES ASSUME Patience = "device" PROVE Spec => []SurfacedOnce
  OBVIOUS
<1>1. BaseInv /\ PipeInv /\ [Next]_vars => BaseInv' /\ PipeInv'
  BY PipeStep, BaseStep
<1>2. PipeInv => SurfacedOnce
  BY DEF PipeInv, HandedOver, SurfacedOnce
<1> QED
  BY <1>1, <1>2, PipeInit, PTL DEF Spec

\* The device takes the address its host has begun to use, never an earlier or a later
\* request's, even if class traffic makes the driver lose EP0's completions.
THEOREM AddressAfterStatus == Patience = "device" => (Spec => AddressOnlyAfterStatus)
<1> SUFFICES ASSUME Patience = "device" PROVE Spec => AddressOnlyAfterStatus
  OBVIOUS
<1>1. BaseInv /\ PipeInv /\ [Next]_vars =>
          BaseInv' /\ PipeInv' /\ [dev_addr' = host.addr]_dev_addr
  BY PipeStep, BaseStep
<1> QED
  BY <1>1, PipeInit, PTL DEF Spec, AddressOnlyAfterStatus
-----------------------------------------------------------------------------
(* StagesInv, as long as no completion is overwritten                      *)

LEMMA StagesFacts ==
    ASSUME BaseInv
    PROVE  /\ host \in [req : Requests \cup {NoReq}, addr : Requests \cup {NoReq},
                        step : {"idle", "data_in", "data_out", "status_in", "status_out"}]
           /\ pep \in [Slots -> Endpoints] /\ fifo \in [Slots -> Seq(Buffers)]
           /\ surfaced \in [Requests -> Nat]
           /\ \A r \in Requests : Kind[r] \in Kinds
BY RequestsAssumption DEF BaseInv, UdcTypeOK

\* What AnswerQueued and StageInv see of a step that is none of EP0's.
StageVars == <<told, stage, host, surfaced, dev_addr, pending_address>>
StagesKeeps ==
    /\ UNCHANGED StageVars
    /\ pep'[IN0] = pep[IN0] /\ fifo'[IN0] = fifo[IN0]
    /\ call' \in CtrlBufs <=> call \in CtrlBufs
    /\ Answered' <=> Answered
    /\ BitOnce'

LEMMA StagesKept == ASSUME StagesInv, StagesKeeps PROVE StagesInv'
<1>1. AnswerQueued'
  BY DEF StagesInv, AnswerQueued, StagesKeeps
<1>2. StageInv'
  BY DEF StagesInv, StageInv, StagesKeeps, StageVars, Answering, IsWrite
<1> QED
  BY <1>1, <1>2 DEF StagesInv, StagesKeeps

\* The classes' calls and transfers.
LEMMA StagesClass ==
    ASSUME BaseInv, StagesInv,
           \/ \E s \in Eps : HostTransfers(s) \/ EpDequeue(s) \/ EpEnable(s) \/ EpDisable(s)
           \/ \E s \in Eps, on \in BOOLEAN : SetHalt(s, on)
           \/ \E on \in BOOLEAN : SetEnabled(on)
           \/ \E b \in Bufs : EnqueuePut(b)
           \/ EnqueueKick /\ call \in Bufs
    PROVE  StagesInv'
<1> USE SlotFacts, StagesFacts DEF picoVars, epVars, lapseVars, ctrlVars, threadVars, hostVars
<1>1. CASE \E s \in Eps : HostTransfers(s)
  <2>1. PICK s \in Eps : HostTransfers(s)
    BY <1>1
  <2>2. StagesKeeps
    BY <2>1 DEF HostTransfers, WireDone, StagesKeeps, StageVars, Answered, StagesInv, BitOnce
  <2> QED
    BY <2>2, StagesKept
<1>2. CASE \E s \in Eps : EpDequeue(s) \/ EpEnable(s) \/ EpDisable(s)
  <2>1. PICK s \in Eps : EpDequeue(s) \/ EpEnable(s) \/ EpDisable(s)
    BY <1>2
  <2>2. StagesKeeps
    BY <2>1 DEF EpDequeue, Stopped, EpEnable, EpDisable, StagesKeeps, StageVars, Answered,
       StagesInv, BitOnce
  <2> QED
    BY <2>2, StagesKept
<1>3. CASE \/ \E s \in Eps, on \in BOOLEAN : SetHalt(s, on)
           \/ \E on \in BOOLEAN : SetEnabled(on)
  <2>1. StagesKeeps
    BY <1>3 DEF SetHalt, SetEnabled, StagesKeeps, StageVars, Answered, StagesInv, BitOnce
  <2> QED
    BY <2>1, StagesKept
<1>4. CASE \E b \in Bufs : EnqueuePut(b)
  <2>1. PICK b \in Bufs : EnqueuePut(b)
    BY <1>4
  <2>2. call \notin CtrlBufs /\ call' \notin CtrlBufs
    BY <2>1, BuffersAssumption DEF EnqueuePut, ApiFree
  <2>3. StagesKeeps
    BY <2>1, <2>2 DEF EnqueuePut, StagesKeeps, StageVars, Answered, StagesInv, BitOnce
  <2> QED
    BY <2>3, StagesKept
<1>5. CASE EnqueueKick /\ call \in Bufs
  <2>1. CallSlot \in Eps /\ call \notin CtrlBufs /\ call' \notin CtrlBufs
    BY <1>5, BuffersAssumption DEF EnqueueKick, CallSlot
  <2>2. pep'[IN0] = pep[IN0]
    BY <1>5, <2>1 DEF EnqueueKick, KickOff
  <2>3. StagesKeeps
    BY <1>5, <2>1, <2>2 DEF EnqueueKick, StagesKeeps, StageVars, Answered, StagesInv, BitOnce
  <2> QED
    BY <2>3, StagesKept
<1> QED
  BY <1>1, <1>2, <1>3, <1>4, <1>5

\* The thread on its way to the bitmap and through it.  The store is where the answer's
\* bit would be lost.
LEMMA StagesThread ==
    ASSUME BaseInv, StagesInv, NothingOverwritten,
           ThreadWakes \/ NoSetup \/ DrainLoad \/ DrainReload \/ DrainStore \/ DrainDone
    PROVE  StagesInv'
<1> USE DEF picoVars, epVars, lapseVars, ctrlVars, threadVars, hostVars
<1>1. UNCHANGED <<StageVars, pep, fifo, call>>
  BY DEF ThreadWakes, NoSetup, DrainLoad, DrainReload, DrainStore, DrainDone, StageVars
<1>2. Answered' <=> Answered
  BY DEF ThreadWakes, NoSetup, DrainLoad, DrainReload, DrainStore, DrainDone, Answered,
     BaseInv, BitmapInv, NothingOverwritten
<1>3. BitOnce'
  BY DEF ThreadWakes, NoSetup, AfterSetup, DrainLoad, DrainReload, DrainStore, DrainDone,
     BitOnce, BaseInv, BitmapInv
<1> QED
  BY <1>1, <1>2, <1>3, StagesKept DEF StagesKeeps

\* The host begins and gives up requests when nothing is on its way.
LEMMA StagesBegins ==
    ASSUME BaseInv, PipeInv, StagesInv, Patience = "device",
           \/ \E r \in Requests : HostSetup(r)
           \/ \E ints \in {{}, {"reset"}} : HostGivesUp(ints)
    PROVE  StagesInv'
<1> USE StagesFacts DEF picoVars, epVars, lapseVars, ctrlVars, threadVars, hostVars
<1>1. /\ Quiet
      /\ UNCHANGED <<pep, ep_complete, dev_addr, fifo, call, stage, told, pending_address,
                     pc, pending, surfaced>>
      /\ host'.addr = host.addr
  BY DEF HostSetup, HostGivesUp, IrqHandler, Quiet
<1>2. ~Answering' /\ ~Answered' /\ ~Answered /\ call \notin CtrlBufs
  BY <1>1, BuffersAssumption DEF Quiet, Answering, Answered, BaseInv, BitmapInv
<1>3. BitOnce' /\ AnswerQueued'
  BY <1>1, <1>2 DEF StagesInv, BitOnce, AnswerQueued
<1>4. CASE \E r \in Requests : HostSetup(r)
  <2>1. PICK r \in Requests : HostSetup(r)
    BY <1>4
  <2>2. /\ Addressed /\ r \notin issued /\ host'.req = r
        /\ host'.step = "data_out" => Kind[r] = "write"
    BY <2>1 DEF HostSetup
  <2>3. ~(surfaced[r] > 0)
    BY <2>2 DEF PipeInv, HandedOver
  <2> QED
    BY <1>1, <1>2, <1>3, <2>2, <2>3 DEF StagesInv, StageInv, IsWrite, Addressed
<1>5. CASE \E ints \in {{}, {"reset"}} : HostGivesUp(ints)
  <2>1. host'.step = "idle" /\ host'.req = host.req
    BY <1>5 DEF HostGivesUp
  <2> QED
    BY <1>1, <1>2, <1>3, <2>1 DEF StagesInv, StageInv
<1> QED
  BY <1>4, <1>5

\* A transaction on EP0 ends a stage of the request the host is in.
LEMMA StagesControl ==
    ASSUME BaseInv, PipeInv, StagesInv, HostControlIn \/ HostControlOut
    PROVE  StagesInv'
<1> USE StagesFacts, SlotFacts DEF picoVars, epVars, lapseVars, ctrlVars, threadVars, hostVars
<1>1. CASE HostControlIn
  <2>1. /\ Addressed /\ pep[IN0].has_transfer /\ ~pep'[IN0].has_transfer
        /\ ep_complete' = ep_complete \cup {IN0}
        /\ UNCHANGED <<dev_addr, fifo, call, stage, told, pending_address,
                       pc, pending, surfaced>>
    BY <1>1 DEF HostControlIn, WireDone, IrqHandler, Endpoints
  <2>2. /\ Answering /\ told = <<>> /\ call \notin CtrlBufs /\ ~Answered
        /\ ~IsWrite /\ host.req \in Requests /\ host.step = FirstStep
        /\ IsAddress => pending_address = host.req
    BY <2>1 DEF PipeInv, OneRequest, AddressInv, Answering
  <2>3. surfaced[host.req] > 0 /\ stage = HostStage[FirstStep]
    BY <2>2 DEF StagesInv, StageInv, FirstStep
  <2>4. /\ host'.req = host.req
        /\ host'.step = IF Kind[host.req] = "read" THEN "status_out" ELSE "idle"
        /\ host'.addr = IF IsAddress THEN host.req ELSE host.addr
    BY <1>1, <2>2 DEF HostControlIn, FirstStep, IsAddress
  <2>5. ~Answering' /\ Answered'
    BY <2>1, <2>2 DEF Answering, Answered
  <2>6. BitOnce'
    BY <2>1, <2>2 DEF BitOnce, StagesInv, Answered
  <2>7. AnswerQueued'
    BY <2>1, <2>5 DEF StagesInv, AnswerQueued
  <2>8. stage = StageOf[Kind[host.req]] /\ (IsAddress => stage = "STATUS_IN")
    BY <2>2, <2>3 DEF StageOf, HostStage, FirstStep, IsWrite, IsAddress, Kinds
  <2>9. StageInv'
    BY <2>1, <2>2, <2>3, <2>4, <2>5, <2>8 DEF StageInv, Addressed
  <2> QED
    BY <2>6, <2>7, <2>9 DEF StagesInv
<1>2. CASE HostControlOut
  <2>1. /\ host.step = "data_out" /\ host' = [host EXCEPT !.step = "status_in"]
        /\ pep'[IN0] = pep[IN0] /\ ep_complete' = ep_complete \cup {OUT0}
        /\ UNCHANGED <<dev_addr, fifo, call, stage, told, pending_address,
                       pc, pending, surfaced>>
    BY <1>2 DEF HostControlOut, WireDone, IrqHandler
  <2>2. /\ IsWrite /\ host.req \in Requests
        /\ host'.req = host.req /\ host'.step = "status_in" /\ host'.addr = host.addr
    BY <2>1 DEF StagesInv, StageInv
  <2>3. ~(surfaced[host.req] > 0) /\ ~Answering /\ ~Answered
    BY <2>2 DEF PipeInv, HandedOver, IsWrite, StagesInv, StageInv
  <2>4. ~Answering' /\ ~Answered' /\ IsWrite'
    BY <2>1, <2>2, <2>3 DEF Answering, Answered, IsWrite
  <2>5. BitOnce' /\ AnswerQueued'
    BY <2>1, <2>3, <2>4 DEF StagesInv, AnswerQueued, BitOnce, Answered
  <2>6. StageInv'
    BY <2>1, <2>2, <2>3, <2>4 DEF StagesInv, StageInv
  <2> QED
    BY <2>5, <2>6 DEF StagesInv
<1> QED
  BY <1>1, <1>2

\* The SETUP handled sets the stage for the request the host is in.
LEMMA StagesHandle ==
    ASSUME BaseInv, PipeInv, StagesInv, HandleSetup \/ HandleSetupNoMem
    PROVE  StagesInv'
<1> USE StagesFacts, SlotFacts DEF picoVars, epVars, lapseVars, ctrlVars, threadVars, hostVars
<1>1. /\ Flagged /\ setup_packet = host.req /\ host.req \in Requests
      /\ ~Answering /\ ~Answered /\ surfaced[host.req] = 0
      /\ call \notin CtrlBufs /\ ~pep[IN0].has_transfer
      /\ ~IsWrite => host.step = FirstStep
  BY DEF HandleSetup, HandleSetupNoMem, Flagged, Taken, PipeInv, OneRequest, HandedOver,
     Answering, BaseInv, ControlInv
<1>2. /\ UNCHANGED <<ep_complete, dev_addr, fifo, call, pending_address, pending, host>>
      /\ pc' \in {"load", "idle"} /\ ~Answered'
      /\ pep'[IN0] = pep[IN0]
  BY <1>1 DEF HandleSetup, HandleSetupNoMem, AfterSetup, KickOff, Answered
<1>3. AnswerQueued' /\ BitOnce'
  BY <1>1, <1>2 DEF StagesInv, AnswerQueued, BitOnce
<1>4. CASE UNCHANGED <<told, surfaced>>
  <2>1. ~Answering'
    BY <1>1, <1>2, <1>4 DEF Answering
  <2>2. StageInv'
    BY <1>1, <1>2, <1>4, <2>1 DEF StagesInv, StageInv, IsWrite
  <2> QED
    BY <1>3, <2>2 DEF StagesInv
<1>5. CASE HandleSetup /\ ~IsWrite
  <2>1. /\ stage' = StageOf[Kind[host.req]]
        /\ surfaced' = [surfaced EXCEPT ![host.req] = @ + 1]
    BY <1>1, <1>5 DEF HandleSetup, IsWrite
  <2>2. surfaced'[host.req] > 0
    BY <1>1, <2>1
  <2>3. stage' = HostStage[host.step]
    BY <1>1, <1>5, <2>1 DEF StageOf, HostStage, FirstStep, IsWrite, Kinds
  <2>4. StageInv'
    BY <1>1, <1>2, <2>2, <2>3 DEF StagesInv, StageInv, IsWrite
  <2> QED
    BY <1>3, <2>4 DEF StagesInv
<1> QED
  BY <1>1, <1>4, <1>5 DEF HandleSetup, HandleSetupNoMem, IsWrite

\* The completion of the answer: the stage moves on as the host has, and the address is
\* applied that the host uses.
LEMMA StagesDrains ==
    ASSUME BaseInv, PipeInv, StagesInv, DrainNext PROVE StagesInv'
<1> USE StagesFacts, SlotFacts DEF picoVars, epVars, lapseVars, ctrlVars, threadVars, hostVars
<1>1. PICK s \in pending : pending' = pending \ {s} /\ HandleEpComplete(s)
  BY DEF DrainNext
<1>2. /\ UNCHANGED <<pep, ep_complete, call, flags, pc, f, host>>
      /\ pc = "handle" /\ s \in Slots
  BY DEF DrainNext, BaseInv, UdcTypeOK
<1>3. CASE s # IN0
  <2>1. s = OUT0 => fifo[s] = <<>>
    BY DEF PipeInv, PipeOpen
  <2>2. UNCHANGED StageVars /\ fifo'[IN0] = fifo[IN0]
    BY <1>1, <1>2, <1>3, <2>1 DEF HandleEpComplete, BulkDone, StageVars, Slots
  <2>3. (Answered' <=> Answered) /\ BitOnce'
    BY <1>1, <1>2, <1>3 DEF Answered, StagesInv, BitOnce
  <2> QED
    BY <1>2, <2>2, <2>3, StagesKept DEF StagesKeeps
<1>4. CASE s = IN0
  <2>1. /\ Answered /\ ~Answering /\ host.req \in Requests
        /\ surfaced[host.req] > 0 /\ stage = StageOf[Kind[host.req]] /\ ~IsWrite
        /\ host.step = IF Kind[host.req] = "read" THEN "status_out" ELSE "idle"
    BY <1>1, <1>4 DEF Answered, PipeInv, OneRequest, HandedOver, StagesInv, StageInv, IsWrite
  <2>2. PICK b \in CtrlBufs : fifo[IN0] = <<b>>
    BY <2>1 DEF StagesInv, AnswerQueued
  <2>3. /\ fifo' = [fifo EXCEPT ![IN0] = Tail(@)]
        /\ ControlDone(IN0, Head(fifo[IN0]))
    BY <1>1, <1>4, <2>2 DEF HandleEpComplete
  <2>4. fifo'[IN0] = <<>>
    BY <2>2, <2>3
  <2>5. /\ stage' = NextStage(IN0) /\ UNCHANGED <<told, surfaced>>
        /\ IF stage = "STATUS_IN" /\ pending_address # NoReq
           THEN dev_addr' = pending_address ELSE UNCHANGED dev_addr
    BY <2>3 DEF ControlDone, AppliesAddress
  <2>6. host.step # "idle" => stage' = HostStage[host.step]
    BY <2>1, <2>5 DEF StageOf, NextStage, HostStage
  <2>7. ~Answered' /\ ~Answering' /\ call \notin CtrlBufs /\ ~pep[IN0].has_transfer
    BY <1>1, <1>2, <1>4, <2>1, <2>5 DEF Answered, Answering, StagesInv, BitOnce
  <2>8. BitOnce' /\ AnswerQueued'
    BY <1>2, <2>4, <2>7 DEF BitOnce, AnswerQueued, Answered
  <2>9. host.addr \in {NoReq, dev_addr'}
    <3>1. CASE host.addr \in {NoReq, dev_addr}
      BY <3>1, PipeDrains
    <3>2. CASE host.addr \notin {NoReq, dev_addr}
      BY <2>5, <3>2 DEF StagesInv, StageInv
    <3> QED
      BY <3>1, <3>2
  <2>10. StageInv'
    BY <1>2, <2>5, <2>6, <2>7, <2>9 DEF StagesInv, StageInv, IsWrite
  <2> QED
    BY <2>8, <2>10 DEF StagesInv
<1> QED
  BY <1>3, <1>4

\* The stack and EP0 IN at work on the answer.
LEMMA StagesAnswers ==
    ASSUME BaseInv, PipeInv, StagesInv,
           SetAddress \/ StackAnswers \/ (EnqueueKick /\ call \notin Bufs)
    PROVE  StagesInv'
<1> USE StagesFacts, SlotFacts DEF picoVars, epVars, lapseVars, ctrlVars, threadVars, hostVars
<1>1. /\ Answering /\ ~Answered
      /\ UNCHANGED <<ep_complete, pending, dev_addr, pc, host, stage, surfaced>>
  <2>1. Answering
    BY BuffersAssumption
    DEF SetAddress, StackAnswers, EnqueueKick, Answering, BaseInv, UdcTypeOK, Buffers
  <2> QED
    BY <2>1 DEF SetAddress, StackAnswers, EnqueueKick, PipeInv, OneRequest
<1>2. BitOnce' /\ ~Answered'
  BY <1>1 DEF StagesInv, BitOnce, Answered
<1>3. StageInv'
  BY <1>1, <1>2 DEF StagesInv, StageInv, IsWrite
<1>4. AnswerQueued'
  <2>1. CASE SetAddress
    BY <1>2, <1>1, <2>1 DEF SetAddress, StagesInv, AnswerQueued
  <2>2. CASE StackAnswers
    <3> DEFINE b == [req |-> Head(told).req,
                     what |-> IF Head(told).what = "read" THEN "data" ELSE "status"]
    <3>1. /\ call' = b /\ fifo' = [fifo EXCEPT ![IN0] = Append(@, b)]
          /\ told # <<>> /\ Head(told).req \in Requests
      BY <2>2 DEF StackAnswers, PipeInv, OneRequest, Message, Answering
    <3>2. b \in CtrlBufs
      BY <3>1 DEF CtrlBufs
    <3>3. fifo[IN0] = <<>>
      BY <1>1, <3>1 DEF PipeInv, OneRequest, StagesInv, AnswerQueued
    <3> HIDE DEF b
    <3>4. fifo'[IN0] = <<b>>
      BY <3>1, <3>3
    <3> QED
      BY <3>1, <3>2, <3>4 DEF AnswerQueued
  <2>3. CASE EnqueueKick /\ call \notin Bufs
    <3>1. call \in CtrlBufs
      BY <2>3 DEF EnqueueKick, BaseInv, UdcTypeOK, Buffers
    <3>2. ~halted[IN0] /\ Accepts(IN0)
      BY <3>1 DEF PipeInv, PipeOpen, OneRequest, Accepts
    <3>3. pep' = KickOff(IN0, call) /\ fifo' = fifo
      BY <2>3, <3>2 DEF EnqueueKick, CallSlot
    <3>4. pep'[IN0].has_transfer
      BY <3>3 DEF KickOff, Endpoints
    <3> QED
      BY <3>1, <3>3, <3>4 DEF StagesInv, AnswerQueued
  <2> QED
    BY <2>1, <2>2, <2>3
<1> QED
  BY <1>2, <1>3, <1>4 DEF StagesInv

LEMMA StagesStep ==
    Patience = "device" =>
        (BaseInv /\ PipeInv /\ StagesInv /\ NothingOverwritten /\ [Next]_vars => StagesInv')
<1> SUFFICES ASSUME Patience = "device", BaseInv, PipeInv, StagesInv, NothingOverwritten,
                    [Next]_vars
             PROVE  StagesInv'
  OBVIOUS
<1>1. CASE UNCHANGED vars
  <2>1. StagesKeeps
    BY <1>1 DEF vars, StagesKeeps, StageVars, Answered, BitOnce, StagesInv
  <2> QED
    BY <2>1, StagesKept
<1>2. CASE Host
  BY <1>2, StagesClass, StagesBegins, StagesControl DEF Host
<1>3. CASE ThreadStep
  BY <1>3, StagesThread, StagesHandle, StagesDrains DEF ThreadStep
<1>4. CASE Api
  BY <1>4, StagesClass, StagesAnswers DEF Api
<1> QED
  BY <1>1, <1>2, <1>3, <1>4 DEF Next

LEMMA StagesInit == Init => StagesInv
BY SlotFacts, BuffersAssumption, NullAssumption
DEF Init, StagesInv, BitOnce, AnswerQueued, StageInv, Answering, Answered

LEMMA StagesAlways ==
    Patience = "device" => (Spec /\ []NothingOverwritten => [](BaseInv /\ StagesInv))
<1> SUFFICES ASSUME Patience = "device"
             PROVE  Spec /\ []NothingOverwritten => [](BaseInv /\ StagesInv)
  OBVIOUS
<1>1. BaseInv /\ PipeInv /\ StagesInv /\ NothingOverwritten /\ [Next]_vars
          => BaseInv' /\ PipeInv' /\ StagesInv'
  BY PipeStep, BaseStep, StagesStep
<1> QED
  BY <1>1, PipeInit, StagesInit, PTL DEF Spec

\* The address is applied no later than its STATUS IN is handled, whatever the classes
\* do, on every run where the store of the bitmap overwrites nothing.
THEOREM AddressInTime ==
    Patience = "device" => (Spec => ([]NothingOverwritten => []AddressApplied))
<1> SUFFICES ASSUME Patience = "device"
             PROVE  Spec => ([]NothingOverwritten => []AddressApplied)
  OBVIOUS
<1>1. StagesInv => AddressApplied
  BY DEF StagesInv, StageInv, Answered, AddressApplied
<1> QED
  BY <1>1, StagesAlways, PTL

\* And on those runs the control stage is the host's whenever the thread has caught up.
THEOREM StageIsHosts ==
    Patience = "device" => (Spec => ([]NothingOverwritten => []StageFollowsHost))
<1> SUFFICES ASSUME Patience = "device"
             PROVE  Spec => ([]NothingOverwritten => []StageFollowsHost)
  OBVIOUS
<1>1. BaseInv /\ StagesInv => StageFollowsHost
  BY DEF BaseInv, BitmapInv, StagesInv, StageInv, Answered, StageFollowsHost, CaughtUp
<1> QED
  BY <1>1, StagesAlways, PTL
-----------------------------------------------------------------------------
(* Without class endpoints, nothing is overwritten                         *)

LEMMA AloneStep ==
    Eps = {} /\ Patience = "device" =>
        (BaseInv /\ PipeInv /\ StagesInv /\ AloneInv /\ [Next]_vars => AloneInv')
<1> SUFFICES ASSUME Eps = {}, Patience = "device", BaseInv, PipeInv, StagesInv, AloneInv,
                    [Next]_vars
             PROVE  AloneInv'
  OBVIOUS
<1> USE StagesFacts, SlotFacts DEF picoVars, epVars, lapseVars, ctrlVars, threadVars, hostVars
<1>0. Bufs = {} /\ Slots = {OUT0, IN0}
  BY EpsAssumption DEF Slots
<1>1. CASE UNCHANGED vars
  BY <1>1 DEF vars, AloneInv, Draining, Answering, Flagged, Taken, IsWrite
<1>2. CASE \/ \E r \in Requests : HostSetup(r)
           \/ \E ints \in {{}, {"reset"}} : HostGivesUp(ints)
  <2>1. /\ Quiet /\ UNCHANGED <<ep_complete, pc>> /\ "ep_done" \notin flags'
    BY <1>2 DEF HostSetup, HostGivesUp, IrqHandler, Quiet
  <2>2. ~Draining' /\ pc' = "idle"
    BY <2>1 DEF Quiet, Draining
  <2> QED
    BY <2>2 DEF AloneInv
<1>3. CASE HostControlIn
  <2>1. /\ pep[IN0].has_transfer /\ ~pep'[IN0].has_transfer
        /\ UNCHANGED <<call, told, pc, f>> /\ flags' = flags \cup {"ep_done"}
        /\ host'.step # "data_out"
    BY <1>3 DEF HostControlIn, WireDone, IrqHandler, Endpoints
  <2>2. told = <<>> /\ call \notin CtrlBufs /\ ~Flagged /\ ~Draining
    BY <2>1 DEF PipeInv, OneRequest, AloneInv, Answering
  <2>3. ~Answering' /\ ~Flagged'
    BY <2>1, <2>2 DEF Answering, Flagged, Taken
  <2> QED
    BY <2>1, <2>2, <2>3 DEF AloneInv, Draining
<1>4. CASE HostControlOut
  <2>1. /\ host.step = "data_out" /\ host'.req = host.req /\ host'.step = "status_in"
        /\ pep'[IN0] = pep[IN0] /\ UNCHANGED <<call, told, pc, f>>
        /\ flags' = flags \cup {"ep_done"}
    BY <1>4 DEF HostControlOut, WireDone, IrqHandler
  <2>2. IsWrite /\ ~Draining /\ host.req \in Requests
    BY <2>1 DEF AloneInv, StagesInv, StageInv
  <2>3. ~Answering
    BY <2>2 DEF PipeInv, HandedOver, IsWrite, StagesInv, StageInv
  <2>4. ~Answering' /\ IsWrite'
    BY <2>1, <2>2, <2>3 DEF Answering, IsWrite
  <2> QED
    BY <2>1, <2>2, <2>4 DEF AloneInv, Draining
<1>5. CASE HandleSetup \/ HandleSetupNoMem
  <2>1. /\ Flagged /\ ~Answering /\ setup_packet = host.req
        /\ call \notin CtrlBufs /\ ~pep[IN0].has_transfer
    BY <1>5 DEF HandleSetup, HandleSetupNoMem, Flagged, Taken, PipeInv, OneRequest, Answering
  <2>2. /\ UNCHANGED <<ep_complete, call, flags, f, host>>
        /\ pc' \in {"load", "idle"} /\ ~Flagged'
        /\ pep'[IN0] = pep[IN0]
        /\ Draining' => Draining
        /\ told' # <<>> => told # <<>> \/ ~IsWrite
    BY <1>5, <2>1 DEF HandleSetup, HandleSetupNoMem, AfterSetup, KickOff, Flagged, Taken,
       Draining, PipeInv, OneRequest, IsWrite
  <2>3. Draining' => ~Answering'
    BY <2>1, <2>2 DEF AloneInv, Answering
  <2> QED
    BY <2>2, <2>3 DEF AloneInv
<1>6. CASE ThreadWakes \/ NoSetup \/ \E on \in BOOLEAN : SetEnabled(on)
  <2>1. /\ UNCHANGED <<ep_complete, pending, reg, host, pep, call, told>>
        /\ pc' \in {"clear", "store"} => pc' = pc
        /\ Draining' => Draining
        /\ Flagged' => Flagged
    BY <1>6 DEF ThreadWakes, NoSetup, SetEnabled, AfterSetup, Draining, Flagged, Taken
  <2> QED
    BY <2>1 DEF AloneInv, Answering, IsWrite
<1>7. CASE DrainLoad \/ DrainReload \/ DrainStore \/ DrainNext \/ DrainDone
  <2>1. /\ UNCHANGED <<flags, f, host, pep, call>>
        /\ told' # <<>> => told # <<>>
        /\ Draining' => Draining
        /\ Flagged' => Flagged
    <3>1. CASE DrainNext
      <4>1. PICK s \in pending : HandleEpComplete(s)
        BY <3>1 DEF DrainNext
      <4>2. told' = told
        BY <1>0, <4>1, <3>1 DEF HandleEpComplete, ControlDone, PipeInv, PipeOpen, BaseInv, UdcTypeOK
      <4> QED
        BY <3>1, <4>2 DEF DrainNext, Draining, Flagged, Taken
    <3> QED
      BY <1>7, <3>1 DEF DrainLoad, DrainReload, DrainStore, DrainDone, Draining, Flagged, Taken
  <2>2. /\ pc' \in {"clear", "store"} => pending' = ep_complete'
        /\ pc' = "store" => reg' = {}
    BY <1>7 DEF DrainLoad, DrainReload, DrainStore, DrainNext, DrainDone, AloneInv
  <2> QED
    BY <2>1, <2>2 DEF AloneInv, Answering, IsWrite
<1>8. CASE SetAddress \/ StackAnswers \/ EnqueueKick
  <2>1. Answering
    BY <1>0, <1>8, BuffersAssumption
    DEF SetAddress, StackAnswers, EnqueueKick, Answering, BaseInv, UdcTypeOK, Buffers
  <2>2. ~Draining
    BY <2>1 DEF AloneInv
  <2>3. ~Draining' /\ UNCHANGED pc
    BY <1>8, <2>2 DEF SetAddress, StackAnswers, EnqueueKick, Draining
  <2> QED
    BY <2>2, <2>3 DEF AloneInv, Draining
<1> QED
  BY <1>0, <1>1, <1>2, <1>3, <1>4, <1>5, <1>6, <1>7, <1>8 DEF Next, Host, ThreadStep, Api

\* A device that is still without class endpoints, as it is while the host enumerates
\* it, overwrites no completion of EP0.
THEOREM AloneKeepsBits ==
    Eps = {} /\ Patience = "device" => (Spec => []NothingOverwritten)
<1> SUFFICES ASSUME Eps = {}, Patience = "device" PROVE Spec => []NothingOverwritten
  OBVIOUS
<1>1. Init => AloneInv
  BY SlotFacts DEF Init, AloneInv, Draining
<1>2. AloneInv => NothingOverwritten
  BY DEF AloneInv, NothingOverwritten
<1>3. BaseInv /\ PipeInv /\ StagesInv /\ AloneInv /\ [Next]_vars
          => BaseInv' /\ PipeInv' /\ StagesInv' /\ AloneInv'
  BY <1>2, PipeStep, BaseStep, StagesStep, AloneStep
<1> QED
  BY <1>1, <1>2, <1>3, PipeInit, StagesInit, PTL DEF Spec

\* So, for the host that lets the device come to rest before each request, and while the
\* device has no endpoints but EP0, the address is in time with nothing assumed about the
\* store.  For a host that does not wait it is false: see the run udc_order.
THEOREM AddressInTimeAlone ==
    Eps = {} /\ Patience = "device" => (Spec => []AddressApplied)
BY AddressInTime, AloneKeepsBits, PTL

\* For that host and device, the control stage is the host's too, with nothing assumed
\* about the store; it is no theorem for a host that runs ahead of the thread.
THEOREM StageIsHostsAlone ==
    Eps = {} /\ Patience = "device" => (Spec => []StageFollowsHost)
BY StageIsHosts, AloneKeepsBits, PTL
=============================================================================
