--------------------- MODULE UhcTransferService_proofs ---------------------
(***************************************************************************)
(* Proofs that UhcPioUsb gives the service of UhcTransferService, for any  *)
(* set of transfers, any pool size and any slot table: what the device has *)
(* acknowledged follows the stages, success means all of them, completions *)
(* are not lost, and every step is a step of the service or none.          *)
(***************************************************************************)
EXTENDS UhcPioUsb_proofs, WellFoundedInduction

USE DEF picoVars, xferVars, apiVars, threadVars
-----------------------------------------------------------------------------
(* What follows from IInv                                                  *)

\* The head of the list is the driver's.
LEMMA HeadOwned ==
    ASSUME IInv, queue # <<>>
    PROVE  Head(queue) \in Xfers /\ owner[Head(queue)] = "uhc"
<1>1. /\ Head(queue) \in Xfers /\ Len(queue) \in Nat \ {0} /\ queue[1] = Head(queue)
  BY HeadTailProperties, EmptySeq DEF IInv, TypeOK
<1> QED
  BY <1>1 DEF IInv, QueueInv

\* A slot in use has the head of the list, and is the only one.
LEMMA SlotUsed ==
    ASSUME IInv, NEW s \in Occupied
    PROVE  /\ s \in Slots /\ s \in Nat /\ inflight[s].xfer \in Xfers
           /\ inflight[s] \in InflightSlots
           /\ \A t \in Occupied : t = s
           /\ pc # "free" => /\ queue # <<>> /\ inflight[s].xfer = Head(queue)
                             /\ owner[inflight[s].xfer] = "uhc"
           /\ pc \in {"kick", "return", "free"} => cur = s /\ inflight[s].xfer = xfer
<1>1. s \in Slots /\ s \in Nat /\ inflight[s].xfer \in Xfers /\ inflight[s] \in InflightSlots
  BY DEF Occupied, Slots, IInv, TypeOK, InflightSlots
<1>2. \A t \in Occupied : t = s
  BY DEF IInv, SlotInv, OneInFlight
<1>3. pc # "free" => queue # <<>> /\ inflight[s].xfer = Head(queue)
  BY DEF IInv, SlotInv, HeadOnlyInFlight
<1>4. pc \in {"kick", "return", "free"} => cur = s /\ inflight[s].xfer = xfer
  <2> SUFFICES ASSUME pc \in {"kick", "return", "free"}
               PROVE  cur = s /\ inflight[s].xfer = xfer
    OBVIOUS
  <2>1. CASE pc = "free"
    BY <2>1 DEF IInv, SlotInv
  <2>2. CASE pc \in {"kick", "return"}
    <3>1. cur \in Slots /\ inflight[cur].xfer = xfer /\ xfer \in Xfers
      BY <2>2 DEF IInv, SlotInv, TypeOK
    <3>2. cur \in Occupied
      BY <3>1, NoXferAssumption DEF Occupied
    <3> QED
      BY <1>2, <3>1, <3>2
  <2> QED
    BY <2>1, <2>2
<1> QED
  BY <1>1, <1>2, <1>3, <1>4, HeadOwned

\* A transaction on the wire is the slot's.
LEMMA BusyXfer ==
    ASSUME IInv, NEW i \in Busy(pool)
    PROVE  /\ \E s \in Occupied : inflight[s].started
           /\ \A s \in Occupied : inflight[s].xfer = pool[i].xact.xfer
           /\ \A j \in Busy(pool) : j = i
           /\ pool[i].xact.xfer \in Xfers /\ owner[pool[i].xact.xfer] = "uhc"
           /\ pc \notin {"kick", "return", "free", "flush"}
           /\ Events = {} /\ i \in Pool
<1>1. PICK s \in Occupied : inflight[s].started /\ inflight[s].xfer = pool[i].xact.xfer
  BY DEF IInv, WireInv
<1>2. /\ \A j \in Busy(pool) : j = i
      /\ pc \notin {"kick", "return", "free", "flush"} /\ Events = {}
  BY DEF IInv, WireInv
<1> QED
  BY <1>1, <1>2, SlotUsed DEF Busy

\* While the library is being asked for a stage, or a transfer leaves, the wire is idle.
LEMMA InHand ==
    ASSUME IInv, pc \in {"kick", "return", "free"}
    PROVE  /\ xfer \in Xfers /\ cur \in Slots
           /\ Busy(pool) = {}
           /\ pc # "free" => /\ cur \in Occupied /\ inflight[cur].xfer = xfer
                             /\ owner[xfer] = "uhc" /\ queue # <<>> /\ xfer = Head(queue)
           /\ phase # "flush" => Events = {}
<1>1. /\ xfer \in Xfers /\ cur \in Slots
      /\ pc # "free" => cur \in Occupied /\ inflight[cur].xfer = xfer
  BY NoXferAssumption DEF IInv, SlotInv, TypeOK, Occupied
<1>2. Busy(pool) = {}
  BY DEF IInv, WireInv
<1>3. phase # "flush" => Events = {}
  BY DEF IInv, EventInv
<1> QED
  BY <1>1, <1>2, <1>3, SlotUsed

\* slot_free leaves no slot in use.
LEMMA FreeEmpties == ASSUME IInv, SlotFree PROVE Occupied' = {}
<1>1. pc = "free" /\ inflight' = [inflight EXCEPT ![cur] = EmptySlot]
  BY DEF SlotFree
<1>2. \A s \in Slots : s # cur => inflight[s].xfer = NoXfer
  BY <1>1, SlotUsed DEF Occupied
<1> QED
  BY <1>1, <1>2 DEF Occupied, EmptySlot, IInv, TypeOK

\* Completions are events.
LEMMA CompletionsAreEvents == ASSUME IInv PROVE Completions \subseteq Events
<1>1. bits \in [Regs -> SUBSET Pool] /\ pending \subseteq Pool /\ "complete" \in Regs
  BY DEF IInv, TypeOK, Regs
<1> QED
  BY <1>1 DEF Completions, Events

\* Retiring transactions changes nothing else of an endpoint.
LEMMA CompleteKeeps ==
    ASSUME NEW p \in [Pool -> Endpoints], NEW D, NEW i \in Pool
    PROVE  /\ Complete(p, D)[i].used = p[i].used
           /\ Complete(p, D)[i].dev_addr = p[i].dev_addr
           /\ Complete(p, D)[i].ep_num = p[i].ep_num
           /\ Complete(p, D)[i].xact = p[i].xact
<1>1. Complete(p, D)[i] = IF i \in D THEN [p[i] EXCEPT !.has_transfer = FALSE] ELSE p[i]
  BY DEF Complete
<1>2. p[i] \in Endpoints
  OBVIOUS
<1> QED
  BY <1>1, <1>2 DEF Endpoints
-----------------------------------------------------------------------------
(* The port                                                                *)

LEMMA PortStep == IInv /\ PortInv /\ [Next]_vars => PortInv'
<1> SUFFICES ASSUME IInv, PortInv, [Next]_vars, ~Bounces PROVE (root.connected <=> root.event = "CONNECT")'
  BY DEF PortInv
<1>1. root.connected <=> root.event = "CONNECT"
  BY DEF PortInv
<1>2. root \in [connected : BOOLEAN, suspended : BOOLEAN, event : RootEvents]
  BY DEF IInv, TypeOK
<1>3. CASE Frame
  <2>1. CASE \E answer \in Answers : FrameTransacts(answer)
    BY <1>1, <2>1 DEF FrameTransacts, FrameEnds, IrqHandler
  <2>2. CASE FrameDisconnects
    BY <2>2 DEF FrameDisconnects, FrameEnds, IrqHandler
  <2>3. CASE FrameConnects
    BY <2>3 DEF FrameConnects, FrameEnds, IrqHandler
  <2>4. CASE FrameIdles
    BY <1>1, <2>4 DEF FrameIdles, FrameEnds, IrqHandler
  <2> QED
    BY <1>3, <2>1, <2>2, <2>3, <2>4 DEF Frame
<1>4. CASE UNCHANGED root
  BY <1>1, <1>4
<1>5. ASSUME NEW on \in BOOLEAN, SetSuspended(on)
      PROVE  (root.connected <=> root.event = "CONNECT")'
  <2>1. root'.connected = root.connected /\ root'.event = root.event
    BY <1>2, <1>5 DEF SetSuspended
  <2> QED
    BY <1>1, <2>1
<1>6. CASE ThreadStep
  <2>1. UNCHANGED root
    BY <1>6 DEF ThreadStep, SurfaceRootEvents, FlushSlot, FlushDone, LoadBits, SkipBit,
       FinishXfer, AdvanceStage, DrainDone, KickStage, UhcXferReturn, SlotFree,
       PumpHead, PumpNothing
  <2> QED
    BY <1>4, <2>1
<1>7. CASE Api \/ Replug
  <2>1. CASE BusSuspend \/ BusResume \/ BusResetStart \/ BusResetEnd
    BY <1>5, <2>1 DEF BusSuspend, BusResume, BusResetStart, BusResetEnd
  <2>2. CASE (\E x \in Xfers : EpEnqueue(x)) \/ Enable \/ Disable \/ Replug
    BY <1>4, <2>2 DEF EpEnqueue, Enable, Disable, SetEnabled, Replug
  <2> QED
    BY <1>7, <2>1, <2>2 DEF Api
<1> QED
  BY <1>3, <1>4, <1>6, <1>7 DEF Next, vars
-----------------------------------------------------------------------------
(* Acknowledgements                                                        *)

\* The completion of its stage, added to the stages before it.
LEMMA StagePlan ==
    ASSUME NEW x \in Xfers, stage[x] \in Stages, stage[x] = "DATA" => HasData[x]
    PROVE  /\ WireStage(x) \in Plan(x)
           /\ ~Control(x) \/ stage[x] = "STATUS" =>
                 Before(x, WireStage(x)) \cup {WireStage(x)} = Plan(x)
           /\ stage[x] = "SETUP" => Before(x, WireStage(x)) = {}
           /\ WireStage(x) \notin Before(x, WireStage(x))
<1>1. CASE ~Control(x)
  BY <1>1 DEF WireStage, Plan, Before
<1>2. CASE Control(x) /\ stage[x] = "SETUP"
  BY <1>2 DEF WireStage, Plan, Before
<1>3. CASE Control(x) /\ stage[x] = "DATA"
  BY <1>3 DEF WireStage, Plan, Before
<1>4. CASE Control(x) /\ stage[x] = "STATUS"
  BY <1>4 DEF WireStage, Plan, Before
<1> QED
  BY <1>1, <1>2, <1>3, <1>4 DEF Stages

\* Steps that move neither the wire, the slots nor the acknowledgements.
LEMMA AckFrame ==
    ASSUME AckInv, UNCHANGED <<pool, stage, acked, result, inflight>>,
           Completions' \subseteq Completions,
           pc' # "kick", pc' # "free" => pc # "free",
           pc' = "return" /\ err' = "OK" => acked[xfer'] = Plan(xfer'),
           pc' = "bits" /\ pending' # {} => err' = RegError[phase']
    PROVE  AckInv'
<1>1. UNCHANGED <<Busy(pool), Occupied>>
  BY DEF Busy, Occupied
<1>2. \A x : WireStage(x)' = WireStage(x) /\ Reached(x)' <=> Reached(x)
  BY DEF WireStage, Reached
<1>3. ASSUME NEW i \in Busy(pool)'
      PROVE  (LET x == pool[i].xact.xfer IN pool[i].xact.stage = WireStage(x) /\ Reached(x))'
  BY <1>1, <1>2 DEF AckInv
<1>4. ASSUME (pc # "free" /\ Completions # {})', NEW s \in Occupied'
      PROVE  (acked[inflight[s].xfer] = Before(inflight[s].xfer, WireStage(inflight[s].xfer))
                                            \cup {WireStage(inflight[s].xfer)})'
  BY <1>1, <1>4 DEF AckInv, WireStage
<1>5. SuccessMeansAcked'
  BY DEF AckInv, SuccessMeansAcked
<1> QED
  BY <1>3, <1>4, <1>5 DEF AckInv

\* The surfacing of port events, the flush loop, the drain passes' bookkeeping.
LEMMA AckPasses ==
    ASSUME IInv, AckInv,
           SurfaceRootEvents \/ FlushSlot \/ FlushDone \/ LoadBits \/ SkipBit \/ DrainDone
           \/ PumpNothing
    PROVE  AckInv'
<1>1. CASE SurfaceRootEvents \/ FlushDone
  <2>1. /\ pending = {} /\ pc # "free" /\ pc' \in {"flush", "load"}
        /\ UNCHANGED <<pool, bits, stage, acked, result, inflight, pending>>
    BY <1>1 DEF SurfaceRootEvents, FlushDone, IInv, EventInv
  <2> QED
    BY <2>1, AckFrame DEF Completions
<1>2. CASE FlushSlot
  <2>1. /\ pc # "free" /\ pc' = "return" /\ err' = "ENODEV"
        /\ UNCHANGED <<pool, bits, stage, acked, result, inflight, pending, phase>>
    BY <1>2 DEF FlushSlot
  <2> QED
    BY <2>1, AckFrame DEF Completions
<1>3. CASE LoadBits
  <2>1. /\ pc = "load" /\ pc' = "bits" /\ pending = {} /\ phase' = phase
        /\ err' = RegError[phase] /\ phase \in Regs
        /\ UNCHANGED <<pool, stage, acked, result, inflight>>
        /\ pending' = bits[phase] /\ bits' = [bits EXCEPT ![phase] = {}]
    BY <1>3 DEF LoadBits, IInv, EventInv, PhaseInv
  <2>2. bits \in [Regs -> SUBSET Pool] /\ "complete" \in Regs
    BY DEF IInv, TypeOK, Regs
  <2>3. Completions' \subseteq Completions
    BY <2>1, <2>2 DEF Completions
  <2> QED
    BY <2>1, <2>3, AckFrame
<1>4. CASE SkipBit
  <2>1. /\ pc = "bits" /\ pc' = "bits" /\ pending' \subseteq pending
        /\ UNCHANGED <<pool, bits, stage, acked, result, inflight, phase, err>>
    BY <1>4 DEF SkipBit
  <2>2. Completions' \subseteq Completions
    BY <2>1 DEF Completions
  <2>3. pending' # {} => err' = RegError[phase']
    BY <2>1 DEF AckInv
  <2> QED
    BY <2>1, <2>2, <2>3, AckFrame
<1>5. CASE DrainDone
  <2>1. /\ pc = "bits" /\ pc' \in {"pump", "load"} /\ pending = {}
        /\ UNCHANGED <<pool, bits, stage, acked, result, inflight, pending>>
    BY <1>5 DEF DrainDone
  <2> QED
    BY <2>1, AckFrame DEF Completions
<1>6. CASE PumpNothing
  <2>1. /\ pc = "pump" /\ pc' = "frame"
        /\ UNCHANGED <<pool, bits, stage, acked, result, inflight, pending, phase>>
    BY <1>6 DEF PumpNothing
  <2> QED
    BY <2>1, AckFrame DEF Completions
<1> QED
  BY <1>1, <1>2, <1>3, <1>4, <1>5, <1>6

\* The bit in hand, matched to the slot in use: an error, or the completion of the
\* stage the transfer is at.
LEMMA BitInHand ==
    ASSUME IInv, AckInv, FreshInv, pc = "bits", NEW i \in First(pending), NEW s \in Match(i)
    PROVE  LET x == inflight[s].xfer IN
           /\ s \in Occupied /\ x \in Xfers /\ owner[x] = "uhc"
           /\ err = "OK" => acked[x] = Before(x, WireStage(x)) \cup {WireStage(x)}
           /\ pending \ {i} = {} /\ \A r \in Regs : bits[r] = {}
           /\ Busy(pool) = {}
<1>1. s \in Occupied
  BY DEF Match, First
<1>2. i \in pending
  BY LastEvent
<1>3. err = "OK" => phase = "complete"
  <2>1. err = RegError[phase] /\ phase \in Regs
    BY <1>2 DEF AckInv, IInv, PhaseInv
  <2> QED
    BY <2>1 DEF RegError, Regs
<1>4. err = "OK" => Completions # {}
  BY <1>2, <1>3 DEF Completions
<1> QED
  BY <1>1, <1>4, SlotUsed, LastEvent DEF AckInv

LEMMA AckFinish == ASSUME IInv, AckInv, FreshInv, FinishXfer PROVE AckInv'
<1>1. /\ pc = "bits" /\ pc' = "return"
      /\ UNCHANGED <<pool, bits, stage, acked, result, inflight, phase, err>>
  BY DEF FinishXfer
<1>2. PICK i \in First(pending) : \E s \in Match(i) :
          Finished(inflight[s].xfer) /\ pending' = pending \ {i} /\ xfer' = inflight[s].xfer
  BY DEF FinishXfer
<1>3. PICK s \in Match(i) :
          Finished(inflight[s].xfer) /\ pending' = pending \ {i} /\ xfer' = inflight[s].xfer
  BY <1>2
<1> DEFINE x == inflight[s].xfer
<1>4. x \in Xfers /\ (err = "OK" => acked[x] = Before(x, WireStage(x)) \cup {WireStage(x)})
  BY <1>1, <1>3, BitInHand
<1>5. err = "OK" => ~Control(x) \/ stage[x] = "STATUS"
  BY <1>3 DEF Finished
<1>6. stage[x] \in Stages /\ (stage[x] = "DATA" => HasData[x])
  BY <1>4 DEF IInv, TypeOK, FreshInv
<1>7. err = "OK" => acked[x] = Plan(x)
  BY <1>4, <1>5, <1>6, StagePlan
<1>8. Completions' \subseteq Completions
  BY <1>1, <1>3 DEF Completions
<1> QED
  BY <1>1, <1>3, <1>7, <1>8, AckFrame

LEMMA AckAdvance == ASSUME IInv, AckInv, FreshInv, AdvanceStage PROVE AckInv'
<1>1. /\ pc = "bits" /\ pc' = "kick"
      /\ UNCHANGED <<pool, bits, acked, result, inflight, phase, err>>
  BY DEF AdvanceStage
<1>2. PICK i \in First(pending) : \E s \in Match(i) :
          /\ ~Finished(inflight[s].xfer) /\ pending' = pending \ {i}
          /\ xfer' = inflight[s].xfer
          /\ stage' = [stage EXCEPT ![inflight[s].xfer] = NextStage(inflight[s].xfer)]
  BY DEF AdvanceStage
<1>3. PICK s \in Match(i) :
          /\ ~Finished(inflight[s].xfer) /\ pending' = pending \ {i}
          /\ xfer' = inflight[s].xfer
          /\ stage' = [stage EXCEPT ![inflight[s].xfer] = NextStage(inflight[s].xfer)]
  BY <1>2
<1>4. PICK x \in Xfers : x = inflight[s].xfer
  BY <1>1, <1>3, BitInHand
<1>5. /\ err = "OK" => acked[x] = Before(x, WireStage(x)) \cup {WireStage(x)}
      /\ pending' = {} /\ \A r \in Regs : bits[r] = {}
      /\ Busy(pool) = {}
  BY <1>1, <1>3, <1>4, BitInHand
<1>6. Busy(pool)' = {} /\ Completions' = {}
  BY <1>1, <1>5, Derived DEF Completions, Regs
<1>7. Reached(xfer)'
  <2>1. err = "OK" /\ Control(x) /\ stage[x] # "STATUS"
    BY <1>3, <1>4 DEF Finished
  <2>2. stage[x] \in Stages /\ (stage[x] = "DATA" => HasData[x])
    BY DEF IInv, TypeOK, FreshInv
  <2>3. stage'[x] = IF stage[x] = "SETUP" /\ HasData[x] THEN "DATA" ELSE "STATUS"
    BY <1>3, <1>4 DEF NextStage, IInv, TypeOK
  <2>4. acked'[x] = Before(x, stage[x]) \cup {stage[x]}
    BY <1>1, <1>5, <2>1 DEF WireStage
  <2>5. acked'[x] = Before(x, stage'[x])
    <3>1. CASE stage[x] = "SETUP"
      BY <2>1, <2>3, <2>4, <3>1 DEF Before, Plan
    <3>2. CASE stage[x] = "DATA"
      BY <2>1, <2>2, <2>3, <2>4, <3>2 DEF Before, Plan
    <3> QED
      BY <2>1, <2>2, <3>1, <3>2 DEF Stages
  <2> QED
    BY <1>3, <1>4, <2>1, <2>5 DEF Reached, WireStage
<1>8. SuccessMeansAcked'
  BY <1>1 DEF AckInv, SuccessMeansAcked
<1> QED
  BY <1>1, <1>6, <1>7, <1>8 DEF AckInv

\* A transfer comes back: what it says was settled before.
LEMMA AckReturn == ASSUME IInv, AckInv, UhcXferReturn PROVE AckInv'
<1>1. /\ pc = "return" /\ pc' = "free" /\ result' = [result EXCEPT ![xfer] = err]
      /\ UNCHANGED <<pool, bits, stage, acked, inflight, phase, pending>>
  BY DEF UhcXferReturn
<1>2. Busy(pool)' = {} /\ xfer \in Xfers
  BY <1>1, InHand, Derived
<1>3. SuccessMeansAcked'
  BY <1>1, <1>2 DEF AckInv, SuccessMeansAcked, IInv, TypeOK, Plan
<1> QED
  BY <1>1, <1>2, <1>3 DEF AckInv

\* The slot that is freed is the last one in use.
LEMMA AckFree == ASSUME IInv, AckInv, SlotFree PROVE AckInv'
<1>1. /\ pc = "free" /\ pc' = AfterFree
      /\ inflight' = [inflight EXCEPT ![cur] = EmptySlot]
      /\ UNCHANGED <<pool, bits, stage, acked, result, phase, pending>>
  BY DEF SlotFree
<1>2. Busy(pool)' = {} /\ (phase # "flush" => Events = {})
  BY <1>1, InHand, Derived
<1>3. Occupied' = {}
  BY FreeEmpties
<1>4. /\ pc' \notin {"kick", "return"}
      /\ pc' = "bits" => pending' = {}
  <2>1. pc' = "bits" => phase # "flush"
    BY <1>1 DEF AfterFree
  <2>2. Events = {} => pending = {}
    BY DEF Events, IInv, TypeOK
  <2> QED
    BY <1>1, <1>2, <2>1, <2>2 DEF AfterFree
<1>5. SuccessMeansAcked'
  BY <1>1 DEF AckInv, SuccessMeansAcked, Plan
<1> QED
  BY <1>2, <1>3, <1>4, <1>5 DEF AckInv

\* Kicking a stage puts it on the wire, those before it acknowledged.
LEMMA AckKick == ASSUME IInv, AckInv, KickStage PROVE AckInv'
<1> DEFINE slot == inflight[cur]
           opened == Opened(slot)
<1>1. /\ pc = "kick"
      /\ UNCHANGED <<bits, root, line, xferVars, last_root_event, apiVars, phase,
                     pending>>
  BY DEF KickStage
<1>2. /\ xfer \in Xfers /\ cur \in Occupied /\ slot \in InflightSlots
      /\ Busy(pool) = {} /\ pool \in [Pool -> Endpoints] /\ phase # "flush"
      /\ Events = {} /\ Reached(xfer)
  BY <1>1, InHand, SlotUsed DEF IInv, PhaseInv, TypeOK, AckInv
<1>3. Completions' = {} /\ pending' = {}
  <2>1. Completions = {} /\ pending = {}
    BY <1>2, CompletionsAreEvents DEF Events, IInv, TypeOK
  <2> QED
    BY <1>1, <2>1 DEF Completions
<1>4. \A p \in opened : p \in [Pool -> Endpoints] /\ Busy(p) = {}
  BY <1>2, OpenedIdle
<1>5. SuccessMeansAcked'
  BY <1>1 DEF AckInv, SuccessMeansAcked, Plan
<1>6. CASE \A p \in opened : Takers(p, slot, xfer) = {}
  <2>1. /\ err' = "EIO" /\ pc' = "return"
        /\ UNCHANGED pool \/ pool' \in opened
    BY <1>6 DEF KickStage
  <2>2. Busy(pool') = {}
    BY <1>2, <1>4, <2>1
  <2>3. Busy(pool)' = {}
    BY <2>2 DEF Busy
  <2> QED
    BY <1>3, <1>5, <2>1, <2>3 DEF AckInv
<1>7. CASE ~ \A p \in opened : Takers(p, slot, xfer) = {}
  <2>1. PICK p \in opened : \E i \in Takers(p, slot, xfer) :
               pool' = StartAt(p, i, WireEp(xfer), xfer, WireStage(xfer))
    BY <1>7 DEF KickStage
  <2>2. PICK i \in Takers(p, slot, xfer) :
               pool' = StartAt(p, i, WireEp(xfer), xfer, WireStage(xfer))
    BY <2>1
  <2>3. pc' \notin {"kick", "return"}
    BY <1>7 DEF KickStage, AfterKick
  <2>4. i \in Pool /\ p[i].used
    BY DEF Takers, First, Lookup
  <2>5. WireStage(xfer) \in Stages /\ WireEp(xfer) \in EpAddrs
    BY <1>2, WireEpType DEF WireStage, IInv, TypeOK, Stages
  <2>6. Busy(pool') = {i} /\ pool'[i].xact.xfer = xfer
    BY <1>2, <1>4, <2>2, <2>4, <2>5, StartedBusy
  <2>7. pool'[i].xact.stage = WireStage(xfer)
    <3>1. p \in [Pool -> Endpoints] /\ p[i] \in Endpoints
      BY <1>4, <2>4
    <3> QED
      BY <2>2, <2>4, <3>1 DEF StartAt, Endpoints
  <2>8. Busy(pool)' = {i}
    BY <2>6 DEF Busy
  <2>9. PICK x \in Xfers : x = xfer
    BY <1>2
  <2>10. WireStage(x)' = WireStage(x) /\ Reached(x)'
    BY <1>1, <1>2, <2>9 DEF WireStage, Reached
  <2>11. ASSUME NEW j \in Busy(pool)'
         PROVE  (LET y == pool[j].xact.xfer IN pool[j].xact.stage = WireStage(y) /\ Reached(y))'
    <3>1. j = i /\ pool'[j].xact.xfer = x /\ pool'[j].xact.stage = WireStage(x)'
      BY <2>6, <2>7, <2>8, <2>9, <2>10, <2>11
    <3> QED
      BY <2>10, <3>1 DEF WireStage, Reached
  <2> QED
    BY <1>3, <1>5, <2>3, <2>11 DEF AckInv
<1> QED
  BY <1>6, <1>7

\* The head of the list, if its slot is to be kicked, has not begun.
LEMMA HeadFresh ==
    ASSUME IInv, FreshInv, PumpHead
    PROVE  /\ Head(queue) \in Xfers /\ stage[Head(queue)] = "SETUP"
           /\ acked[Head(queue)] = {}
<1> DEFINE x == Head(queue)
<1>1. /\ pc = "pump" /\ queue # <<>> /\ KickSlots(x) # {}
  BY DEF PumpHead
<1>2. x \in Xfers /\ owner[x] = "uhc"
  BY <1>1, HeadOwned
<1>3. \A s \in Occupied : ~inflight[s].started
  <2> SUFFICES ASSUME NEW s \in Occupied PROVE ~inflight[s].started
    OBVIOUS
  <2>1. inflight[s].xfer = x /\ s \in Slots /\ s <= s /\ \A t \in Occupied : t = s
    BY <1>1, SlotUsed
  <2>2. {t \in Slots : inflight[t].xfer = x} = {s}
    BY <1>2, <2>1, NoXferAssumption DEF Occupied
  <2>3. SlotFor(x) = {s}
    BY <2>1, <2>2 DEF SlotFor, First
  <2> QED
    BY <1>1, <2>3 DEF KickSlots
<1>4. ~UnderWay(x)
  BY <1>3 DEF UnderWay
<1> QED
  BY <1>2, <1>4 DEF FreshInv

LEMMA AckPump == ASSUME IInv, AckInv, FreshInv, PumpHead PROVE AckInv'
<1>1. /\ pc = "pump" /\ pc' = "kick" /\ xfer' = Head(queue)
      /\ UNCHANGED <<pool, bits, stage, acked, result, phase, pending>>
  BY DEF PumpHead
<1>2. Events = {}
  BY <1>1 DEF IInv, EventInv
<1>3. Completions' = {}
  <2>1. Completions = {}
    BY <1>2, CompletionsAreEvents
  <2> QED
    BY <1>1, <2>1 DEF Completions
<1>4. Busy(pool)' = Busy(pool)
  BY <1>1, Derived
<1>5. \A x : WireStage(x)' = WireStage(x) /\ (Reached(x)' <=> Reached(x))
  BY <1>1 DEF WireStage, Reached
<1>6. ASSUME NEW i \in Busy(pool)'
      PROVE  (LET x == pool[i].xact.xfer IN pool[i].xact.stage = WireStage(x) /\ Reached(x))'
  BY <1>1, <1>4, <1>5 DEF AckInv
<1>7. Reached(xfer)'
  <2>1. PICK x \in Xfers : x = Head(queue) /\ stage[x] = "SETUP" /\ acked[x] = {}
    BY HeadFresh
  <2>2. stage[x] \in Stages /\ Before(x, WireStage(x)) = {}
    BY <2>1, StagePlan DEF Stages
  <2> QED
    BY <1>1, <1>5, <2>1, <2>2 DEF Reached, WireStage
<1>8. SuccessMeansAcked'
  BY <1>1 DEF AckInv, SuccessMeansAcked, Plan
<1> QED
  BY <1>1, <1>3, <1>6, <1>7, <1>8 DEF AckInv

\* A new submission is none of the transfers in use.
LEMMA AckEnqueue == ASSUME IInv, AckInv, NEW x \in Xfers, EpEnqueue(x) PROVE AckInv'
<1>1. /\ owner[x] = "app"
      /\ stage' = [stage EXCEPT ![x] = "SETUP"]
      /\ result' = [result EXCEPT ![x] = "none"]
      /\ acked' = [acked EXCEPT ![x] = {}]
      /\ UNCHANGED <<pool, bits, inflight, pc, phase, pending, xfer, err>>
  BY DEF EpEnqueue
<1>2. \A y \in Xfers : y # x => /\ stage'[y] = stage[y] /\ acked'[y] = acked[y]
                               /\ result'[y] = result[y]
  BY <1>1 DEF IInv, TypeOK
<1>3. result'[x] = "none"
  BY <1>1 DEF IInv, TypeOK
<1>4. \A y \in Xfers : y # x => WireStage(y)' = WireStage(y) /\ (Reached(y)' <=> Reached(y))
  BY <1>2 DEF WireStage, Reached
<1>5. UNCHANGED <<Busy(pool), Occupied, Completions>>
  BY <1>1 DEF Busy, Occupied, Completions
<1>6. ASSUME NEW i \in Busy(pool)'
      PROVE  (LET y == pool[i].xact.xfer IN pool[i].xact.stage = WireStage(y) /\ Reached(y))'
  <2>1. PICK y \in Xfers : y = pool[i].xact.xfer /\ y # x
    BY <1>1, <1>5, BusyXfer
  <2>2. pool[i].xact.stage = WireStage(y) /\ Reached(y)
    BY <1>5, <2>1 DEF AckInv
  <2> QED
    BY <1>1, <1>4, <2>1, <2>2 DEF Reached, WireStage
<1>7. ASSUME (pc # "free" /\ Completions # {})', NEW s \in Occupied'
      PROVE  (LET y == inflight[s].xfer IN
                  acked[y] = Before(y, WireStage(y)) \cup {WireStage(y)})'
  <2>1. PICK y \in Xfers : y = inflight[s].xfer /\ y # x
    BY <1>1, <1>5, <1>7, SlotUsed
  <2>2. acked[y] = Before(y, WireStage(y)) \cup {WireStage(y)}
    BY <1>1, <1>5, <1>7, <2>1 DEF AckInv
  <2> QED
    BY <1>1, <1>2, <2>1, <2>2 DEF WireStage
<1>8. pc' = "kick" => Reached(xfer)'
  <2> SUFFICES ASSUME pc = "kick" PROVE Reached(xfer)'
    BY <1>1
  <2>1. PICK y \in Xfers : y = xfer /\ y # x
    BY <1>1, InHand
  <2>2. Reached(y)
    BY <2>1 DEF AckInv
  <2> QED
    BY <1>1, <1>2, <2>1, <2>2 DEF Reached, WireStage
<1>9. pc' = "return" /\ err' = "OK" => acked'[xfer'] = Plan(xfer')
  <2> SUFFICES ASSUME pc = "return", err = "OK" PROVE acked'[xfer] = Plan(xfer)
    BY <1>1
  <2>1. PICK y \in Xfers : y = xfer /\ y # x
    BY <1>1, InHand
  <2> QED
    BY <1>2, <2>1 DEF AckInv
<1>10. SuccessMeansAcked'
  BY <1>2, <1>3 DEF AckInv, SuccessMeansAcked, Plan
<1> QED
  BY <1>1, <1>6, <1>7, <1>8, <1>9, <1>10 DEF AckInv

\* The other calls of the API, and the world.
LEMMA AckQuiet ==
    ASSUME AckInv, UNCHANGED <<pool, bits, stage, acked, result, inflight, threadVars>>
    PROVE  AckInv'
<1>1. UNCHANGED <<Busy(pool), Occupied, Completions>>
  BY DEF Busy, Occupied, Completions
<1>2. \A x : WireStage(x)' = WireStage(x) /\ (Reached(x)' <=> Reached(x))
  BY DEF WireStage, Reached
<1>3. ASSUME NEW i \in Busy(pool)'
      PROVE  (LET x == pool[i].xact.xfer IN pool[i].xact.stage = WireStage(x) /\ Reached(x))'
  BY <1>1, <1>2 DEF AckInv
<1>4. ASSUME (pc # "free" /\ Completions # {})', NEW s \in Occupied'
      PROVE  (LET y == inflight[s].xfer IN
                  acked[y] = Before(y, WireStage(y)) \cup {WireStage(y)})'
  BY <1>1, <1>4 DEF AckInv, WireStage
<1>5. SuccessMeansAcked'
  BY DEF AckInv, SuccessMeansAcked, Plan
<1> QED
  BY <1>2, <1>3, <1>4, <1>5 DEF AckInv, Reached, WireStage

\* What a frame adds to the acknowledgements: the stages of what it completed.
LEMMA AckWire ==
    ASSUME IInv, AckInv, FreshInv, pc = "frame", pc' = "surface",
           UNCHANGED <<stage, result, inflight, phase, pending>>,
           NEW D \in SUBSET Busy(pool), NEW K \in SUBSET D,
           pool' = Complete(pool, D), bits'["complete"] = K,
           acked' = [x \in Xfers |-> acked[x] \cup
                        {pool[i].xact.stage : i \in {j \in K : pool[j].xact.xfer = x}}]
    PROVE  AckInv'
<1>1. /\ phase = "pump" /\ pool \in [Pool -> Endpoints]
      /\ acked \in [Xfers -> SUBSET Stages]
  BY DEF IInv, PhaseInv, TypeOK
<1>2. Busy(pool)' = Busy(pool) \ D /\ \A i \in Pool : pool'[i].xact = pool[i].xact
  <2>1. Busy(pool') = Busy(pool) \ D /\ \A i \in Pool : pool'[i].xact = pool[i].xact
    BY <1>1, CompleteRetires
  <2> QED
    BY <2>1 DEF Busy
<1>3. ASSUME NEW x \in Xfers, \A i \in K : pool[i].xact.xfer # x
      PROVE  acked'[x] = acked[x]
  BY <1>1, <1>3
<1>4. Completions' = K /\ Occupied' = Occupied
  BY <1>1 DEF Completions, Occupied
<1>5. \A x : WireStage(x)' = WireStage(x)
  BY DEF WireStage
<1>6. ASSUME NEW i \in Busy(pool)'
      PROVE  (LET x == pool[i].xact.xfer IN pool[i].xact.stage = WireStage(x) /\ Reached(x))'
  <2>1. i \in Busy(pool) /\ i \notin D /\ i \in Pool
    BY <1>2, <1>6 DEF Busy
  <2>2. K = {}
    BY <2>1, BusyXfer
  <2>3. PICK x \in Xfers : x = pool[i].xact.xfer
    BY <2>1, BusyXfer
  <2>4. pool[i].xact.stage = WireStage(x) /\ Reached(x)
    BY <2>1, <2>3 DEF AckInv
  <2>5. acked'[x] = acked[x]
    BY <1>3, <2>2
  <2> QED
    BY <1>2, <2>1, <2>3, <2>4, <2>5 DEF Reached, WireStage
<1>7. ASSUME (pc # "free" /\ Completions # {})', NEW s \in Occupied'
      PROVE  (LET y == inflight[s].xfer IN
                  acked[y] = Before(y, WireStage(y)) \cup {WireStage(y)})'
  <2>1. PICK i \in Busy(pool) : i \in K
    BY <1>4, <1>7
  <2>2. K = {i}
    BY <2>1, BusyXfer
  <2>3. PICK y \in Xfers : y = inflight[s].xfer /\ y = pool[i].xact.xfer
    BY <1>4, <2>1, BusyXfer
  <2>4. pool[i].xact.stage = WireStage(y) /\ acked[y] = Before(y, WireStage(y))
    BY <2>1, <2>3 DEF AckInv, Reached
  <2>5. {j \in K : pool[j].xact.xfer = y} = {i}
    BY <2>2, <2>3
  <2>6. acked'[y] = acked[y] \cup {pool[i].xact.stage}
    BY <2>3, <2>5
  <2>7. acked'[y] = Before(y, WireStage(y)) \cup {WireStage(y)}
    BY <2>4, <2>6
  <2> QED
    BY <1>5, <2>3, <2>7 DEF WireStage
<1>8. SuccessMeansAcked'
  <2> SUFFICES ASSUME NEW x \in Xfers, result[x] = "OK" PROVE acked'[x] = Plan(x)
    BY DEF SuccessMeansAcked, Plan
  <2>1. \A i \in K : pool[i].xact.xfer # x
    BY BusyXfer DEF FreshInv
  <2> QED
    BY <1>3, <2>1 DEF AckInv, SuccessMeansAcked
<1> QED
  BY <1>6, <1>7, <1>8 DEF AckInv

LEMMA AckBus == ASSUME IInv, AckInv, FreshInv, Frame PROVE AckInv'
<1>0. /\ pc = "frame" /\ pc' = "surface" /\ bits["complete"] = {}
      /\ UNCHANGED <<stage, result, inflight, phase, pending>>
      /\ bits \in [Regs -> SUBSET Pool] /\ "complete" \in Regs /\ "complete" # "error"
      /\ pool \in [Pool -> Endpoints] /\ acked \in [Xfers -> SUBSET Stages]
  <2>1. /\ pc = "frame" /\ pc' = "surface"
        /\ UNCHANGED <<stage, result, inflight, phase, pending>>
    BY DEF Frame, FrameTransacts, FrameDisconnects, FrameConnects, FrameIdles, FrameStarts,
       FrameEnds
  <2> QED
    BY <2>1 DEF IInv, EventInv, Events, TypeOK, Regs
<1>1. ASSUME NEW answer \in Answers, FrameTransacts(answer) PROVE AckInv'
  <2> DEFINE done == {i \in Busy(pool) : answer[i] # "none"}
             ok == {i \in Busy(pool) : answer[i] = "complete"}
  <2>1. /\ pool' = Complete(pool, done)
        /\ acked' = [x \in Xfers |-> acked[x] \cup
                        {pool[i].xact.stage : i \in {j \in ok : pool[j].xact.xfer = x}}]
        /\ bits' = [r \in Regs |-> bits[r] \cup {i \in done : answer[i] = r}]
    BY <1>1 DEF FrameTransacts, FrameEnds, IrqHandler
  <2>2. bits'["complete"] = ok /\ done \in SUBSET Busy(pool) /\ ok \in SUBSET done
    BY <1>0, <2>1
  <2> HIDE DEF done, ok
  <2> QED
    BY <1>0, <2>1, <2>2, AckWire
<1>2. ASSUME FrameDisconnects \/ FrameConnects \/ FrameIdles PROVE AckInv'
  <2>1. PICK D \in SUBSET Busy(pool) : pool' = Complete(pool, D)
    <3>1. CASE FrameDisconnects
      BY <3>1 DEF FrameDisconnects
    <3>2. CASE FrameConnects \/ FrameIdles
      <4>1. pool' = Complete(pool, {})
        BY <1>0, <3>2 DEF FrameConnects, FrameIdles, Complete
      <4> QED
        BY <4>1
    <3> QED
      BY <1>2, <3>1, <3>2
  <2>2. bits'["complete"] = {} /\ acked' = acked
    BY <1>0, <1>2 DEF FrameDisconnects, FrameConnects, FrameIdles, FrameEnds, IrqHandler
  <2>3. acked' = [x \in Xfers |-> acked[x] \cup
                     {pool[i].xact.stage : i \in {j \in {} : pool[j].xact.xfer = x}}]
    BY <1>0, <2>2
  <2> QED
    BY <1>0, <2>1, <2>2, <2>3, AckWire
<1> QED
  BY <1>1, <1>2 DEF Frame

LEMMA AckStep == IInv /\ AckInv /\ FreshInv /\ [Next]_vars => AckInv'
<1> SUFFICES ASSUME IInv, AckInv, FreshInv, [Next]_vars PROVE AckInv'
  OBVIOUS
<1>1. CASE Frame
  BY <1>1, AckBus
<1>2. CASE ThreadStep
  BY <1>2, AckPasses, AckFinish, AckAdvance, AckKick, AckReturn, AckFree, AckPump
  DEF ThreadStep
<1>3. CASE Api \/ Replug
  <2>1. ASSUME NEW x \in Xfers, EpEnqueue(x) PROVE AckInv'
    BY <2>1, AckEnqueue
  <2>2. CASE ~ \E x \in Xfers : EpEnqueue(x)
    <3>1. UNCHANGED <<pool, bits, stage, acked, result, inflight, threadVars>>
      BY <1>3, <2>2 DEF Api, Enable, Disable, SetEnabled, BusSuspend, BusResume,
         BusResetStart, BusResetEnd, SetSuspended, Replug
    <3> QED
      BY <3>1, AckQuiet
  <2> QED
    BY <2>1, <2>2
<1>4. CASE UNCHANGED vars
  BY <1>4, AckQuiet DEF vars
<1> QED
  BY <1>1, <1>2, <1>3, <1>4 DEF Next
-----------------------------------------------------------------------------
(* Transfers that have not begun                                           *)

\* Steps that move neither stages nor results, nor stop a slot that has started.
LEMMA FreshFrame ==
    ASSUME FreshInv, UNCHANGED <<owner, stage, acked, result>>,
           \A x \in Xfers : owner[x] = "uhc" /\ UnderWay(x) => UnderWay(x)'
    PROVE  FreshInv'
BY DEF FreshInv

LEMMA FreshPasses ==
    ASSUME FreshInv, UNCHANGED <<owner, stage, acked, result, inflight>>,
           pc' = "free" => pc = "free"
    PROVE  FreshInv'
<1>1. Occupied' = Occupied
  BY Derived
<1>2. \A x \in Xfers : UnderWay(x) => UnderWay(x)'
  BY <1>1 DEF UnderWay
<1> QED
  BY <1>2, FreshFrame

\* The stage that advances is that of a slot that has started.
LEMMA FreshAdvance == ASSUME IInv, FreshInv, LinkInv, AdvanceStage PROVE FreshInv'
<1>1. /\ pc = "bits" /\ pc' = "kick"
      /\ UNCHANGED <<owner, acked, result, inflight>>
  BY DEF AdvanceStage
<1>2. PICK i \in First(pending) : \E s \in Match(i) :
          stage' = [stage EXCEPT ![inflight[s].xfer] = NextStage(inflight[s].xfer)]
  BY DEF AdvanceStage
<1>3. PICK s \in Match(i) :
          stage' = [stage EXCEPT ![inflight[s].xfer] = NextStage(inflight[s].xfer)]
  BY <1>2
<1>4. s \in Occupied
  BY DEF Match, First
<1>5. PICK x \in Xfers : x = inflight[s].xfer
  BY <1>4, SlotUsed
<1>6. inflight[s].started
  <2>1. i \in Events
    BY DEF Events, First, IInv, TypeOK
  <2> QED
    BY <1>4, <2>1 DEF LinkInv
<1>7. \A y \in Xfers : UnderWay(y) => UnderWay(y)'
  BY <1>1, Derived DEF UnderWay
<1>8. UnderWay(x)'
  BY <1>1, <1>4, <1>5, <1>6, Derived DEF UnderWay
<1>9. \A y \in Xfers : y # x => stage'[y] = stage[y]
  BY <1>3, <1>5 DEF IInv, TypeOK
<1>10. stage'[x] = "DATA" => HasData[x]
  BY <1>3, <1>5 DEF NextStage, IInv, TypeOK
<1> QED
  BY <1>1, <1>7, <1>8, <1>9, <1>10 DEF FreshInv

\* The transfer that comes back was the only one under way.
LEMMA FreshReturn == ASSUME IInv, FreshInv, UhcXferReturn PROVE FreshInv'
<1>1. /\ pc = "return" /\ owner' = [owner EXCEPT ![xfer] = "app"]
      /\ result' = [result EXCEPT ![xfer] = err]
      /\ UNCHANGED <<stage, acked, inflight>>
  BY DEF UhcXferReturn
<1>2. PICK x \in Xfers : x = xfer
  BY <1>1, InHand
<1>3. \A y \in Xfers : y # x => ~UnderWay(y)
  BY <1>1, <1>2, SlotUsed DEF UnderWay
<1>4. owner'[x] = "app" /\ \A y \in Xfers : y # x => owner'[y] = owner[y]
                                                    /\ result'[y] = result[y]
  BY <1>1, <1>2 DEF IInv, TypeOK
<1> QED
  BY <1>1, <1>3, <1>4 DEF FreshInv

LEMMA FreshFree == ASSUME FreshInv, SlotFree PROVE FreshInv'
<1>1. pc = "free" /\ UNCHANGED <<owner, stage, acked, result>>
  BY DEF SlotFree
<1>2. \A x \in Xfers : ~UnderWay(x)
  BY <1>1 DEF UnderWay
<1> QED
  BY <1>1, <1>2, FreshFrame

\* Kicking and allocating keep every slot that has started.
LEMMA FreshKick == ASSUME IInv, FreshInv, KickStage \/ PumpHead PROVE FreshInv'
<1>1. /\ pc' # "free" /\ UNCHANGED <<owner, stage, acked, result>>
  BY DEF KickStage, AfterKick, PumpHead
<1>2. inflight \in [Slots -> InflightSlots] /\ cur \in Slots
  BY DEF IInv, TypeOK
<1>3. ASSUME NEW s \in Occupied, inflight[s].started
      PROVE  s \in Occupied' /\ inflight'[s].started /\ inflight'[s].xfer = inflight[s].xfer
  <2>1. s \in Slots /\ inflight[s] \in InflightSlots /\ inflight[s].xfer # NoXfer
    BY <1>2 DEF Occupied
  <2>2. inflight'[s].started /\ inflight'[s].xfer = inflight[s].xfer
    <3>1. CASE UNCHANGED inflight
      BY <1>3, <3>1
    <3>2. CASE inflight' = [inflight EXCEPT ![cur].open = TRUE]
      BY <1>2, <1>3, <2>1, <3>2 DEF InflightSlots
    <3>3. CASE inflight' = [inflight EXCEPT ![cur].open = TRUE, ![cur].started = TRUE]
      BY <1>2, <1>3, <2>1, <3>3 DEF InflightSlots
    <3>4. CASE PumpHead /\ ~UNCHANGED inflight
      <4>1. PICK v \in Vacant : inflight' = SlotAlloc(v, Head(queue))
        BY <3>4 DEF PumpHead, KickSlots, First
      <4>2. v # s
        BY <2>1, <4>1 DEF Vacant
      <4>3. inflight'[s] = inflight[s]
        BY <1>2, <2>1, <4>1, <4>2 DEF SlotAlloc
      <4> QED
        BY <1>3, <4>3
    <3> QED
      BY <3>1, <3>2, <3>3, <3>4 DEF KickStage
  <2> QED
    BY <2>1, <2>2 DEF Occupied
<1>4. \A x \in Xfers : UnderWay(x) => UnderWay(x)'
  BY <1>1, <1>3 DEF UnderWay
<1> QED
  BY <1>1, <1>4, FreshFrame

LEMMA FreshEnqueue == ASSUME IInv, FreshInv, NEW x \in Xfers, EpEnqueue(x) PROVE FreshInv'
<1>1. /\ owner' = [owner EXCEPT ![x] = "uhc"]
      /\ stage' = [stage EXCEPT ![x] = "SETUP"]
      /\ result' = [result EXCEPT ![x] = "none"]
      /\ acked' = [acked EXCEPT ![x] = {}]
      /\ UNCHANGED <<inflight, pc>>
  BY DEF EpEnqueue
<1>2. /\ stage'[x] = "SETUP" /\ result'[x] = "none" /\ acked'[x] = {}
      /\ \A y \in Xfers : y # x =>
            /\ owner'[y] = owner[y] /\ stage'[y] = stage[y]
            /\ result'[y] = result[y] /\ acked'[y] = acked[y]
  BY <1>1 DEF IInv, TypeOK
<1>3. \A y \in Xfers : UnderWay(y)' <=> UnderWay(y)
  BY <1>1, Derived DEF UnderWay
<1> QED
  BY <1>2, <1>3 DEF FreshInv

\* A frame acknowledges stages of transfers under way only.
LEMMA FreshBus == ASSUME IInv, FreshInv, Frame PROVE FreshInv'
<1>1. /\ pc = "frame" /\ pc' = "surface"
      /\ UNCHANGED <<owner, stage, result, inflight>>
  BY DEF Frame, FrameTransacts, FrameDisconnects, FrameConnects, FrameIdles, FrameStarts,
     FrameEnds
<1>2. \A x \in Xfers : UnderWay(x)' <=> UnderWay(x)
  BY <1>1, Derived DEF UnderWay
<1>3. ASSUME NEW x \in Xfers, ~UnderWay(x) PROVE acked'[x] = acked[x]
  <2>1. \A i \in Busy(pool) : pool[i].xact.xfer # x
    BY <1>1, <1>3, BusyXfer DEF UnderWay
  <2>2. acked \in [Xfers -> SUBSET Stages]
    BY DEF IInv, TypeOK
  <2>3. ASSUME NEW answer \in Answers, FrameTransacts(answer) PROVE acked'[x] = acked[x]
    <3>1. PICK ok \in SUBSET Busy(pool) :
              acked' = [y \in Xfers |-> acked[y] \cup
                           {pool[i].xact.stage : i \in {j \in ok : pool[j].xact.xfer = y}}]
      BY <2>3 DEF FrameTransacts
    <3>2. {j \in ok : pool[j].xact.xfer = x} = {}
      BY <2>1
    <3>3. acked'[x] = acked[x] \cup {pool[i].xact.stage : i \in {}}
      BY <3>1, <3>2
    <3> QED
      BY <3>3
  <2> QED
    BY <2>3 DEF Frame, FrameDisconnects, FrameConnects, FrameIdles
<1> QED
  BY <1>1, <1>2, <1>3 DEF FreshInv

LEMMA FreshStep == IInv /\ FreshInv /\ LinkInv /\ [Next]_vars => FreshInv'
<1> SUFFICES ASSUME IInv, FreshInv, LinkInv, [Next]_vars PROVE FreshInv'
  OBVIOUS
<1>1. CASE SurfaceRootEvents \/ FlushSlot \/ FlushDone \/ LoadBits \/ SkipBit
           \/ FinishXfer \/ DrainDone \/ PumpNothing
  <2>1. UNCHANGED <<owner, stage, acked, result, inflight>> /\ pc' # "free"
    BY <1>1 DEF SurfaceRootEvents, FlushSlot, FlushDone, LoadBits, SkipBit, FinishXfer,
       DrainDone, PumpNothing
  <2> QED
    BY <2>1, FreshPasses
<1>2. CASE ThreadStep
  BY <1>1, <1>2, FreshAdvance, FreshReturn, FreshFree, FreshKick DEF ThreadStep
<1>3. CASE Api \/ Replug
  <2>1. ASSUME NEW x \in Xfers, EpEnqueue(x) PROVE FreshInv'
    BY <2>1, FreshEnqueue
  <2>2. CASE ~ \E x \in Xfers : EpEnqueue(x)
    <3>1. UNCHANGED <<owner, stage, acked, result, inflight, pc>>
      BY <1>3, <2>2 DEF Api, Enable, Disable, SetEnabled, BusSuspend, BusResume,
         BusResetStart, BusResetEnd, SetSuspended, Replug
    <3> QED
      BY <3>1, FreshPasses
  <2> QED
    BY <2>1, <2>2
<1>4. CASE UNCHANGED vars
  BY <1>4, FreshPasses DEF vars
<1> QED
  BY <1>2, <1>3, <1>4, FreshBus DEF Next
-----------------------------------------------------------------------------
(* The slot, its endpoint and what it waits for                            *)

\* Steps that leave the slot table and the endpoints' identities, and note no new
\* event.
LEMMA LinkFrame ==
    ASSUME LinkInv, UNCHANGED inflight,
           \A i \in Pool : /\ pool'[i].used = pool[i].used
                           /\ pool'[i].dev_addr = pool[i].dev_addr
                           /\ pool'[i].ep_num = pool[i].ep_num
                           /\ pool'[i].xact = pool[i].xact,
           Busy(pool)' \cup Events' \subseteq Busy(pool) \cup Events
    PROVE  LinkInv'
<1>1. Occupied' = Occupied
  BY Derived
<1>2. ASSUME NEW i \in Pool, NEW s, Serves(i, s) PROVE Serves(i, s)'
  BY <1>2 DEF Serves
<1>3. Busy(pool)' \cup Events' \subseteq Pool
  BY DEF Busy, Events
<1> QED
  BY <1>1, <1>2, <1>3 DEF LinkInv

\* The frame: what was on the wire is on the wire or an event.
LEMMA BusNotes ==
    ASSUME IInv, Frame
    PROVE  /\ pc = "frame" /\ UNCHANGED inflight
           /\ Busy(pool)' \cup Events' = Busy(pool) \cup Events
           /\ \A i \in Pool : /\ pool'[i].used = pool[i].used
                             /\ pool'[i].dev_addr = pool[i].dev_addr
                             /\ pool'[i].ep_num = pool[i].ep_num
                             /\ pool'[i].xact = pool[i].xact
<1>1. /\ pc = "frame" /\ Events = {} /\ UNCHANGED <<inflight, pending>>
      /\ pool \in [Pool -> Endpoints] /\ bits \in [Regs -> SUBSET Pool]
  <2>1. pc = "frame" /\ UNCHANGED <<inflight, pending>>
    BY DEF Frame, FrameTransacts, FrameDisconnects, FrameConnects, FrameIdles, FrameStarts,
       FrameEnds
  <2> QED
    BY <2>1 DEF IInv, EventInv, TypeOK
<1>2. \A r \in Regs : bits[r] = {}
  BY <1>1 DEF Events
<1>3. pending = {}
  BY <1>1 DEF Events, IInv, TypeOK
<1>4. PICK D \in SUBSET Busy(pool) :
          /\ pool' = Complete(pool, D)
          /\ \A i : i \in D <=> \E r \in Regs : i \in bits'[r]
  <2>1. ASSUME NEW answer \in Answers, FrameTransacts(answer)
        PROVE  \E D \in SUBSET Busy(pool) :
                   /\ pool' = Complete(pool, D)
                   /\ \A i : i \in D <=> \E r \in Regs : i \in bits'[r]
    <3> DEFINE done == {i \in Busy(pool) : answer[i] # "none"}
    <3>1. /\ pool' = Complete(pool, done)
          /\ bits' = [r \in Regs |-> bits[r] \cup {i \in done : answer[i] = r}]
      BY <2>1 DEF FrameTransacts, FrameEnds, IrqHandler
    <3>2. \A i : i \in done <=> \E r \in Regs : i \in bits'[r]
      BY <1>2, <3>1 DEF Answers
    <3> QED
      BY <3>1, <3>2
  <2>2. CASE FrameDisconnects
    <3>1. /\ pool' = Complete(pool, Busy(pool))
          /\ bits' = [bits EXCEPT !["error"] = @ \cup Busy(pool)]
      BY <2>2 DEF FrameDisconnects, FrameEnds, IrqHandler
    <3>2. \A r \in Regs : bits'[r] = IF r = "error" THEN Busy(pool) ELSE {}
      BY <1>1, <1>2, <3>1
    <3>3. \A i : i \in Busy(pool) <=> \E r \in Regs : i \in bits'[r]
      BY <3>2 DEF Regs
    <3> QED
      BY <3>1, <3>3
  <2>3. CASE FrameConnects \/ FrameIdles
    <3>1. UNCHANGED <<pool, bits>>
      BY <2>3 DEF FrameConnects, FrameIdles, FrameEnds, IrqHandler
    <3>2. pool' = Complete(pool, {})
      BY <1>1, <3>1 DEF Complete
    <3> QED
      BY <1>2, <3>1, <3>2
  <2> QED
    BY <2>1, <2>2, <2>3 DEF Frame
<1>5. Busy(pool)' = Busy(pool) \ D /\ Events' = D
  <2>1. Busy(pool') = Busy(pool) \ D
    BY <1>1, <1>4, CompleteRetires
  <2>2. Busy(pool)' = Busy(pool')
    BY DEF Busy
  <2>3. D \subseteq Pool
    BY DEF Busy
  <2> QED
    BY <1>1, <1>3, <1>4, <2>1, <2>2, <2>3 DEF Events
<1>6. \A i \in Pool : /\ pool'[i].used = pool[i].used
                      /\ pool'[i].dev_addr = pool[i].dev_addr
                      /\ pool'[i].ep_num = pool[i].ep_num
                      /\ pool'[i].xact = pool[i].xact
  BY <1>1, <1>4, CompleteKeeps
<1> QED
  BY <1>1, <1>4, <1>5, <1>6

LEMMA LinkBus == ASSUME IInv, LinkInv, Frame PROVE LinkInv'
BY BusNotes, LinkFrame

\* An event answers to the slot in use: no bit is skipped while one is.
LEMMA BitMatches ==
    ASSUME IInv, LinkInv, NEW i \in pending, NEW s \in Occupied
    PROVE  Match(i) = {s}
<1>1. i \in Events
  BY DEF Events, IInv, TypeOK
<1>2. Serves(i, s)
  BY <1>1 DEF LinkInv
<1>3. s \in Nat /\ \A t \in Occupied : t = s
  BY SlotUsed
<1>4. /\ pool[i].used /\ inflight[s].dev_addr = pool[i].dev_addr
      /\ EpBase(inflight[s].ep_addr) = EpBase(pool[i].ep_num)
  <2>1. inflight[s].ep_addr \in EpAddrs /\ pool[i].ep_num \in EpAddrs
    BY <1>1, <1>3 DEF IInv, TypeOK, InflightSlots, Endpoints, Events, Occupied
  <2>2. \A ep \in EpAddrs : IsControl(ep) => EpBase(ep) = 0
    BY DEF EpAddrs, IsControl, EpBase
  <2> QED
    BY <1>2, <2>1, <2>2 DEF Serves
<1>5. {t \in Occupied : /\ pool[i].used
                        /\ inflight[t].dev_addr = pool[i].dev_addr
                        /\ EpBase(inflight[t].ep_addr) = EpBase(pool[i].ep_num)} = {s}
  BY <1>3, <1>4
<1> QED
  BY <1>3, <1>5 DEF Match, First

\* Loading a bitmap loses no event.
LEMMA LoadKeeps == ASSUME IInv, LoadBits PROVE Events' = Events
<1>1. /\ pc = "load" /\ pending = {} /\ phase \in Regs
      /\ pending' = bits[phase] /\ bits' = [bits EXCEPT ![phase] = {}]
      /\ bits \in [Regs -> SUBSET Pool]
  BY DEF LoadBits, IInv, EventInv, PhaseInv, TypeOK
<1>2. ASSUME NEW i, i \in Events PROVE i \in Events'
  BY <1>1, <1>2 DEF Events
<1>3. ASSUME NEW i, i \in Events' PROVE i \in Events
  BY <1>1, <1>3 DEF Events
<1> QED
  BY <1>2, <1>3

\* The steps of the thread that take nothing from the slot table.
LEMMA LinkPasses ==
    ASSUME IInv, LinkInv,
           SurfaceRootEvents \/ FlushSlot \/ FlushDone \/ LoadBits \/ SkipBit
           \/ FinishXfer \/ AdvanceStage \/ DrainDone \/ UhcXferReturn \/ PumpNothing
    PROVE  LinkInv'
<1>1. UNCHANGED <<pool, inflight>> /\ Busy(pool)' = Busy(pool)
  BY Derived DEF SurfaceRootEvents, FlushSlot, FlushDone, LoadBits, SkipBit, FinishXfer,
     AdvanceStage, DrainDone, UhcXferReturn, PumpNothing
<1>2. CASE SurfaceRootEvents \/ FlushSlot \/ FlushDone \/ DrainDone \/ UhcXferReturn
           \/ PumpNothing
  <2>1. UNCHANGED <<bits, pending>>
    BY <1>2 DEF SurfaceRootEvents, FlushSlot, FlushDone, DrainDone, UhcXferReturn,
       PumpNothing
  <2> QED
    BY <1>1, <2>1, Derived, LinkFrame
<1>3. CASE LoadBits
  BY <1>1, <1>3, LoadKeeps, LinkFrame
<1>4. CASE SkipBit
  <2>1. PICK i \in First(pending) : Match(i) = {} /\ pending' = pending \ {i}
    BY <1>4 DEF SkipBit
  <2>2. Occupied = {}
    BY <2>1, BitMatches DEF First
  <2> QED
    BY <1>1, <2>2, Derived DEF LinkInv
<1>5. CASE FinishXfer \/ AdvanceStage
  <2>1. pending' \subseteq pending /\ UNCHANGED bits
    BY <1>5 DEF FinishXfer, AdvanceStage
  <2>2. Events' \subseteq Events
    BY <2>1 DEF Events
  <2> QED
    BY <1>1, <2>2, LinkFrame
<1> QED
  BY <1>2, <1>3, <1>4, <1>5

LEMMA LinkFree == ASSUME IInv, SlotFree PROVE LinkInv'
BY FreeEmpties DEF LinkInv

\* The pump kicks the slot in use, or fills one when none is.
LEMMA LinkPump == ASSUME IInv, LinkInv, PumpHead PROVE LinkInv'
<1> DEFINE x == Head(queue)
<1>1. /\ pc = "pump" /\ pc' = "kick" /\ queue # <<>>
      /\ UNCHANGED <<pool, bits, pending>> /\ Events = {}
  BY DEF PumpHead, IInv, EventInv
<1>2. PICK s \in KickSlots(x) :
          cur' = s /\ inflight' = IF SlotFor(x) # {} THEN inflight ELSE SlotAlloc(s, x)
  BY DEF PumpHead
<1>3. x \in Xfers /\ Addr[x] \in DevAddrs /\ Ep[x] \in EpAddrs
  BY <1>1, HeadOwned, XferAssumption
<1>4. \A t \in Occupied : inflight[t].xfer = x
  BY <1>1, SlotUsed
<1>5. CASE SlotFor(x) # {}
  <2>1. UNCHANGED inflight
    BY <1>2, <1>5
  <2> QED
    BY <1>1, <2>1, Derived, LinkFrame
<1>6. CASE SlotFor(x) = {}
  <2>1. Occupied = {}
    <3> SUFFICES ASSUME NEW t \in Occupied PROVE FALSE
      OBVIOUS
    <3>1. t \in Nat /\ t \in Slots /\ inflight[t].xfer = x /\ \A u \in Occupied : u = t
      BY <1>4, SlotUsed
    <3>2. {u \in Slots : inflight[u].xfer = x} = {t}
      BY <1>3, <3>1, NoXferAssumption DEF Occupied
    <3> QED
      BY <1>6, <3>1, <3>2 DEF SlotFor, First
  <2> DEFINE e == [EmptySlot EXCEPT !.xfer = x, !.dev_addr = Addr[x], !.ep_addr = Ep[x]]
  <2>2. e.xfer = x /\ e.ep_addr = Ep[x] /\ ~e.open
    BY DEF EmptySlot
  <2>3. s \in Slots
    BY <1>2, <1>6 DEF KickSlots, First, Vacant
  <2>4. inflight' = [inflight EXCEPT ![s] = e]
    BY <1>2, <1>6 DEF SlotAlloc
  <2> HIDE DEF e
  <2>5. \A t \in Slots : inflight'[t] = IF t = s THEN e ELSE inflight[t]
    BY <2>3, <2>4 DEF IInv, TypeOK
  <2>6. \A t \in Occupied' : t = s
    BY <2>1, <2>5 DEF Occupied
  <2>7. Busy(pool)' = {} /\ Events' = {}
    BY <1>1, <2>1, Derived DEF IInv, WireInv
  <2> QED
    BY <1>1, <1>2, <2>2, <2>3, <2>5, <2>6, <2>7 DEF LinkInv
<1> QED
  BY <1>5, <1>6

\* An endpoint opened for a slot answers to it; opening renames no other.
LEMMA OpenedServes ==
    ASSUME IInv, LinkInv, NEW s \in Occupied, NEW p \in Opened(inflight[s])
    PROVE  /\ p \in [Pool -> Endpoints]
           /\ \E i \in Pool : /\ p[i].used /\ p[i].dev_addr = inflight[s].dev_addr
                              /\ \/ p[i].ep_num = inflight[s].ep_addr
                                 \/ /\ IsControl(p[i].ep_num)
                                    /\ IsControl(inflight[s].ep_addr)
<1>1. pool \in [Pool -> Endpoints] /\ inflight[s] \in InflightSlots
  BY SlotUsed DEF IInv, TypeOK
<1>2. CASE inflight[s].open
  BY <1>1, <1>2 DEF Opened, LinkInv, Serves
<1>3. CASE ~inflight[s].open
  <2>1. PICK i \in Pool : p = OpenAt(pool, i, inflight[s].dev_addr, inflight[s].ep_addr)
    BY <1>3 DEF Opened, First, FreeSlots
  <2> DEFINE e == NewEndpoint(inflight[s].dev_addr, inflight[s].ep_addr)
  <2>2. /\ e \in Endpoints /\ e.used /\ e.dev_addr = inflight[s].dev_addr
        /\ e.ep_num = inflight[s].ep_addr
    <3>1. inflight[s].dev_addr \in DevAddrs /\ inflight[s].ep_addr \in EpAddrs
      BY <1>1 DEF InflightSlots
    <3> QED
      BY <3>1, NewEndpointType
  <2>3. p = [pool EXCEPT ![i] = e]
    BY <2>1, OpenAtIs
  <2> HIDE DEF e
  <2>4. p \in [Pool -> Endpoints] /\ p[i] = e
    BY <1>1, <2>2, <2>3
  <2> QED
    BY <2>2, <2>4
<1> QED
  BY <1>2, <1>3

\* What starting a transaction makes of its endpoint.
LEMMA StartedAt ==
    ASSUME NEW p \in [Pool -> Endpoints], NEW i \in Pool,
           NEW ep \in EpAddrs, NEW x \in Xfers, NEW st \in Stages
    PROVE  LET q == StartAt(p, i, ep, x, st) IN
           /\ q[i].used = p[i].used /\ q[i].dev_addr = p[i].dev_addr
           /\ q[i].ep_num = ep /\ q[i].xact.xfer = x
<1>1. p[i] \in Endpoints
  OBVIOUS
<1>2. StartAt(p, i, ep, x, st)[i] = [p[i] EXCEPT !.ep_num = ep, !.has_transfer = TRUE,
                                          !.xact = [xfer |-> x, stage |-> st]]
  BY DEF StartAt
<1> QED
  BY <1>1, <1>2 DEF Endpoints

\* The endpoint a stage goes to is the transfer's, or the control endpoint.
LEMMA WireEpServes ==
    ASSUME NEW x \in Xfers
    PROVE  /\ Control(x) => IsControl(WireEp(x)) /\ IsControl(Ep[x])
           /\ ~Control(x) => WireEp(x) = Ep[x]
BY DEF WireEp, Control, IsControl, EpBase

\* A kick that goes through leaves one endpoint busy.
LEMMA KickStarts ==
    ASSUME IInv, KickStage, pc' = AfterKick PROVE Busy(pool)' # {}
<1> DEFINE slot == inflight[cur]
<1>1. /\ pc = "kick" /\ pc' # "return"
  BY DEF KickStage, AfterKick
<1>2. /\ xfer \in Xfers /\ slot \in InflightSlots /\ pool \in [Pool -> Endpoints]
      /\ Busy(pool) = {}
  BY <1>1, InHand, SlotUsed DEF IInv, TypeOK
<1>3. PICK p \in Opened(slot) : \E i \in Takers(p, slot, xfer) :
          pool' = StartAt(p, i, WireEp(xfer), xfer, WireStage(xfer))
  BY <1>1 DEF KickStage
<1>4. PICK i \in Takers(p, slot, xfer) :
          pool' = StartAt(p, i, WireEp(xfer), xfer, WireStage(xfer))
  BY <1>3
<1>5. p \in [Pool -> Endpoints] /\ Busy(p) = {}
  BY <1>2, OpenedIdle
<1>6. i \in Pool /\ p[i].used
  BY DEF Takers, First, Lookup
<1>7. WireStage(xfer) \in Stages /\ WireEp(xfer) \in EpAddrs
  BY <1>2, WireEpType DEF WireStage, IInv, TypeOK, Stages
<1>8. Busy(pool') = {i}
  BY <1>2, <1>4, <1>5, <1>6, <1>7, StartedBusy
<1> QED
  BY <1>8 DEF Busy

LEMMA LinkKick == ASSUME IInv, LinkInv, KickStage PROVE LinkInv'
<1> DEFINE slot == inflight[cur]
           opened == Opened(slot)
<1>1. /\ pc = "kick" /\ UNCHANGED <<bits, pending>>
  BY DEF KickStage
<1>2. /\ xfer \in Xfers /\ cur \in Occupied /\ slot \in InflightSlots /\ slot.xfer = xfer
      /\ Busy(pool) = {} /\ pool \in [Pool -> Endpoints] /\ cur \in Slots
      /\ Events = {} /\ inflight \in [Slots -> InflightSlots] /\ slot.ep_addr = Ep[xfer]
      /\ \A s \in Occupied : s = cur
  <2>1. cur \in Occupied /\ xfer \in Xfers /\ slot.xfer = xfer /\ Busy(pool) = {}
    BY <1>1, InHand
  <2>2. slot.ep_addr = Ep[xfer] /\ \A s \in Occupied : s = cur
    BY <2>1, SlotUsed DEF LinkInv
  <2> QED
    BY <1>1, <2>1, <2>2 DEF IInv, TypeOK, PhaseInv, EventInv
<1>3. Events' = {}
  BY <1>1, <1>2, Derived
<1>4. \A p \in opened : p \in [Pool -> Endpoints] /\ Busy(p) = {}
  BY <1>2, OpenedIdle
<1>5. ASSUME NEW O \in BOOLEAN, NEW T \in BOOLEAN,
             inflight' = [inflight EXCEPT ![cur].open = O, ![cur].started = T]
      PROVE  /\ Occupied' \subseteq {cur}
             /\ inflight'[cur].xfer = xfer /\ inflight'[cur].ep_addr = Ep[xfer]
             /\ inflight'[cur].dev_addr = slot.dev_addr
             /\ inflight'[cur].open = O /\ inflight'[cur].started = T
  <2>1. inflight'[cur] = [slot EXCEPT !.open = O, !.started = T]
    BY <1>2, <1>5
  <2>2. /\ inflight'[cur].xfer = xfer /\ inflight'[cur].ep_addr = Ep[xfer]
        /\ inflight'[cur].dev_addr = slot.dev_addr
        /\ inflight'[cur].open = O /\ inflight'[cur].started = T
    BY <1>2, <2>1 DEF InflightSlots
  <2>3. \A s \in Slots : s # cur => inflight'[s] = inflight[s]
    BY <1>2, <1>5
  <2>4. Occupied' \subseteq {cur}
    BY <1>2, <2>3 DEF Occupied
  <2> QED
    BY <2>2, <2>4
<1>6. CASE \A p \in opened : Takers(p, slot, xfer) = {}
  <2>1. /\ pc' = "return" /\ UNCHANGED <<cur, xfer>>
        /\ \/ UNCHANGED <<pool, inflight>>
           \/ pool' \in opened /\ inflight' = [inflight EXCEPT ![cur].open = TRUE]
    BY <1>6 DEF KickStage
  <2>2. CASE UNCHANGED <<pool, inflight>>
    BY <1>2, <1>3, <2>1, <2>2, Derived, LinkFrame
  <2>3. CASE pool' \in opened /\ inflight' = [inflight EXCEPT ![cur].open = TRUE]
    <3>1. inflight' = [inflight EXCEPT ![cur].open = TRUE, ![cur].started = slot.started]
      BY <1>2, <2>3 DEF InflightSlots
    <3>2. slot.started \in BOOLEAN
      BY <1>2 DEF InflightSlots
    <3>3. /\ Occupied' \subseteq {cur}
          /\ inflight'[cur].ep_addr = Ep[xfer] /\ inflight'[cur].xfer = xfer
          /\ inflight'[cur].dev_addr = slot.dev_addr
      BY <1>5, <3>1, <3>2
    <3>4. Busy(pool') = {}
      BY <1>4, <2>3
    <3>5. Busy(pool)' = {}
      BY <3>4 DEF Busy
    <3>6. \E i \in Pool : Serves(i, cur)'
      BY <1>2, <2>1, <2>3, <3>3, OpenedServes DEF Serves
    <3>7. cur' = cur
      BY <2>1
    <3> QED
      BY <1>3, <2>1, <3>3, <3>5, <3>6, <3>7 DEF LinkInv, Serves
  <2> QED
    BY <2>1, <2>2, <2>3
<1>7. CASE ~ \A p \in opened : Takers(p, slot, xfer) = {}
  <2>1. /\ \E p \in opened : \E i \in Takers(p, slot, xfer) :
               pool' = StartAt(p, i, WireEp(xfer), xfer, WireStage(xfer))
        /\ inflight' = [inflight EXCEPT ![cur].open = TRUE, ![cur].started = TRUE]
    BY <1>7 DEF KickStage
  <2>2. PICK p \in opened : \E i \in Takers(p, slot, xfer) :
               pool' = StartAt(p, i, WireEp(xfer), xfer, WireStage(xfer))
    BY <2>1
  <2>3. PICK i \in Takers(p, slot, xfer) :
               pool' = StartAt(p, i, WireEp(xfer), xfer, WireStage(xfer))
    BY <2>2
  <2>4. i \in Pool /\ p[i].used /\ p[i].dev_addr = slot.dev_addr
    BY DEF Takers, First, Lookup
  <2>5. WireStage(xfer) \in Stages /\ WireEp(xfer) \in EpAddrs
    BY <1>2, WireEpType DEF WireStage, IInv, TypeOK, Stages
  <2>6. Busy(pool') = {i}
    BY <1>2, <1>4, <2>3, <2>4, <2>5, StartedBusy
  <2>7. Busy(pool)' = {i}
    BY <2>6 DEF Busy
  <2>8. /\ pool'[i].used /\ pool'[i].dev_addr = slot.dev_addr
        /\ pool'[i].ep_num = WireEp(xfer) /\ pool'[i].xact.xfer = xfer
    BY <1>2, <1>4, <2>3, <2>4, <2>5, StartedAt
  <2>9. /\ Occupied' \subseteq {cur} /\ inflight'[cur].xfer = xfer
        /\ inflight'[cur].ep_addr = Ep[xfer] /\ inflight'[cur].dev_addr = slot.dev_addr
        /\ inflight'[cur].started
    BY <1>5, <2>1
  <2>10. \/ WireEp(xfer) = Ep[xfer]
         \/ IsControl(WireEp(xfer)) /\ IsControl(Ep[xfer])
    BY <1>2, WireEpServes
  <2>11. PICK c \in Slots : c = cur
    BY <1>2
  <2>12. Serves(i, c)'
    BY <2>8, <2>9, <2>10, <2>11 DEF Serves
  <2> QED
    BY <1>3, <2>4, <2>7, <2>8, <2>9, <2>11, <2>12 DEF LinkInv, Serves
<1> QED
  BY <1>6, <1>7

\* The callers and the line leave the slots, the endpoints and the thread alone.
LEMMA ApiKeeps ==
    ASSUME Api \/ Replug \/ UNCHANGED vars
    PROVE  UNCHANGED <<pool, bits, inflight, pc, pending, cur>>
<1>1. ASSUME NEW x \in Xfers, EpEnqueue(x)
      PROVE  UNCHANGED <<pool, bits, inflight, pc, pending, cur>>
  BY <1>1 DEF EpEnqueue
<1> QED
  BY <1>1 DEF Api, Enable, Disable, SetEnabled, BusSuspend, BusResume, BusResetStart,
     BusResetEnd, SetSuspended, Replug, vars

LEMMA LinkStep == IInv /\ LinkInv /\ [Next]_vars => LinkInv'
<1> SUFFICES ASSUME IInv, LinkInv, [Next]_vars PROVE LinkInv'
  OBVIOUS
<1>1. CASE Frame
  BY <1>1, LinkBus
<1>2. CASE ThreadStep
  BY <1>2, LinkPasses, LinkKick, LinkFree, LinkPump DEF ThreadStep
<1>3. CASE Api \/ Replug \/ UNCHANGED vars
  <2>1. UNCHANGED <<pool, bits, inflight, pc, pending, cur>>
    BY <1>3, ApiKeeps
  <2> QED
    BY <2>1, Derived, LinkFrame
<1> QED
  BY <1>1, <1>2, <1>3 DEF Next

\* A slot in use waits for its endpoint or its event, or the thread has it in hand.
LEMMA WaitStep == IInv /\ LinkInv /\ WaitInv /\ [Next]_vars => WaitInv'
<1> SUFFICES ASSUME IInv, LinkInv, WaitInv, [Next]_vars PROVE WaitInv'
  OBVIOUS
<1>1. CASE pc' \in {"kick", "return", "free"}
  <2>1. IInv'
    BY StepInv
  <2>2. CASE pc' = "free"
    BY <2>1, <2>2 DEF IInv, SlotInv, WaitInv
  <2>3. CASE pc' \in {"kick", "return"}
    <3>1. cur' \in Slots' /\ inflight'[cur'].xfer = xfer' /\ xfer' \in Xfers
      BY <2>1, <2>3 DEF IInv, SlotInv, TypeOK
    <3>2. cur' \in Occupied'
      BY <3>1, NoXferAssumption DEF Occupied
    <3>3. \A s \in Occupied' : s = cur'
      BY <2>1, <3>2 DEF IInv, SlotInv, OneInFlight
    <3> QED
      BY <1>1, <3>3 DEF WaitInv
  <2> QED
    BY <1>1, <2>2, <2>3
<1>2. CASE Frame
  BY <1>2, BusNotes, Derived DEF WaitInv
<1>3. CASE SurfaceRootEvents \/ FlushDone \/ DrainDone \/ PumpNothing
  <2>1. /\ pc \notin {"kick", "return", "free"}
        /\ UNCHANGED <<pool, bits, pending, inflight>>
    BY <1>3 DEF SurfaceRootEvents, FlushDone, DrainDone, PumpNothing
  <2> QED
    BY <2>1, Derived DEF WaitInv
<1>4. CASE LoadBits
  <2>1. pc = "load" /\ UNCHANGED <<pool, inflight>>
    BY <1>4 DEF LoadBits
  <2> QED
    BY <1>4, <2>1, LoadKeeps, Derived DEF WaitInv
<1>5. CASE SkipBit
  <2>1. UNCHANGED inflight /\ \E i \in First(pending) : Match(i) = {}
    BY <1>5 DEF SkipBit
  <2>2. Occupied = {}
    BY <2>1, BitMatches DEF First
  <2> QED
    BY <2>1, <2>2, Derived DEF WaitInv
<1>6. CASE KickStage /\ pc' = AfterKick
  <2>1. Busy(pool)' # {}
    BY <1>6, KickStarts
  <2> QED
    BY <2>1 DEF WaitInv
<1>7. CASE SlotFree
  BY <1>7, FreeEmpties DEF WaitInv
<1>8. CASE Api \/ Replug \/ UNCHANGED vars
  <2>1. UNCHANGED <<pool, bits, inflight, pc, pending, cur>>
    BY <1>8, ApiKeeps
  <2> QED
    BY <2>1, Derived DEF WaitInv
<1>9. CASE FlushSlot \/ FinishXfer \/ AdvanceStage \/ UhcXferReturn \/ PumpHead
           \/ (KickStage /\ pc' # AfterKick)
  <2>1. pc' \in {"kick", "return", "free"}
    BY <1>9 DEF FlushSlot, FinishXfer, AdvanceStage, UhcXferReturn, PumpHead, KickStage
  <2> QED
    BY <1>1, <2>1
<1> QED
  BY <1>2, <1>3, <1>4, <1>5, <1>6, <1>7, <1>8, <1>9 DEF Next, ThreadStep
-----------------------------------------------------------------------------
(* The invariant and the properties it gives                               *)

LEMMA SInvInit == Init => SInv /\ WaitInv
<1> SUFFICES ASSUME Init PROVE SInv /\ WaitInv
  OBVIOUS
<1>1. IInv
  BY InitInv
<1>2. Occupied = {} /\ Busy(pool) = {} /\ Completions = {}
  BY DEF Init, Occupied, Busy, EmptySlot, FreeEndpoint, Slots, Pool, Completions, Regs
<1>3. AckInv
  BY <1>2 DEF Init, AckInv, SuccessMeansAcked
<1>4. FreshInv /\ LinkInv /\ WaitInv /\ PortInv
  BY <1>2 DEF Init, FreshInv, LinkInv, WaitInv, PortInv
<1> QED
  BY <1>1, <1>3, <1>4 DEF SInv

LEMMA SInvStep == SInv /\ [Next]_vars => SInv'
BY StepInv, AckStep, FreshStep, LinkStep, PortStep DEF SInv

\* The invariant behind the transfer service: what is acknowledged follows the stages,
\* and what a slot waits for is on the wire or noted.
THEOREM ServiceInvariance == Spec => [](SInv /\ WaitInv)
<1>1. SInv /\ WaitInv /\ [Next]_vars => SInv' /\ WaitInv'
  BY SInvStep, WaitStep DEF SInv
<1> QED
  BY <1>1, SInvInit, PTL DEF Spec

\* uhc_xfer_return(priv, xfer, 0) is called only for a transfer whose every stage the
\* device acknowledged.
THEOREM SuccessIsComplete == Spec => []SuccessMeansAcked
<1>1. SInv => SuccessMeansAcked
  BY DEF SInv, AckInv
<1> QED
  BY <1>1, ServiceInvariance, PTL

\* drain_endpoint_bitmap and kick_stage put the stages of a control transfer on the
\* wire in order, each acknowledged before the next.
THEOREM StagesFollow == Spec => []StagesInOrder
<1>1. SInv => StagesInOrder
  <2> SUFFICES ASSUME SInv, NEW i \in Busy(pool)
               PROVE  acked[pool[i].xact.xfer] = Before(pool[i].xact.xfer, pool[i].xact.stage)
    BY DEF StagesInOrder
  <2>1. pool[i].xact.stage = WireStage(pool[i].xact.xfer) /\ Reached(pool[i].xact.xfer)
    BY DEF SInv, AckInv
  <2> QED
    BY <2>1 DEF Reached
<1> QED
  BY <1>1, ServiceInvariance, PTL

\* No completion is lost between the frame and the drain pass.
THEOREM CompletionsKept == Spec => []NoLostCompletion
<1>1. SInv /\ WaitInv => NoLostCompletion
  <2> SUFFICES ASSUME SInv, WaitInv, NEW s \in Occupied, inflight[s].started,
                      ~(cur = s /\ pc \in {"kick", "return", "free"})
               PROVE  Noted(inflight[s].xfer)
    BY DEF NoLostCompletion
  <2>1. PICK i \in Busy(pool) \cup Events : pool[i].xact.xfer = inflight[s].xfer
    BY DEF SInv, LinkInv, WaitInv
  <2> DEFINE noted == UNION {bits[r] : r \in Regs}
  <2>2. ASSUME NEW r \in Regs, i \in bits[r] PROVE i \in noted
    <3>1. bits[r] \in {bits[q] : q \in Regs}
      OBVIOUS
    <3> QED
      BY <2>2, <3>1
  <2> HIDE DEF noted
  <2>3. i \in noted \cup pending \cup Busy(pool)
    BY <2>1, <2>2 DEF Events
  <2> QED
    BY <2>1, <2>3 DEF Noted, noted
<1> QED
  BY <1>1, ServiceInvariance, PTL

\* surface_root_events has told the stack the state the port is in, if the line does
\* not drop and return within a frame.
THEOREM PortReported == ASSUME ~Bounces PROVE Spec => []PortAgrees
<1>1. SInv => PortAgrees
  BY DEF SInv, PortInv, IInv, RootInv, PortAgrees
<1> QED
  BY <1>1, ServiceInvariance, PTL

\* A non-empty set of naturals has a least member.
LEMMA Lowest == ASSUME NEW S \in SUBSET Nat, S # {} PROVE \E i \in S : \A j \in S : i <= j
<1> DEFINE R == OpToRel(<, Nat)
<1>1. IsWellFoundedOn(R, Nat)
  BY NatLessThanWellFounded
<1>2. R = {ss \in Nat \X Nat : ss[1] < ss[2]}
  BY DEF OpToRel
<1>3. \A i, j \in Nat : j < i => <<j, i>> \in R
  BY <1>2
<1> HIDE DEF R
<1>4. PICK i \in S : \A j \in S : ~ (<<j, i>> \in R)
  BY <1>1, WFMin
<1>5. \A j \in S : i <= j
  <2> SUFFICES ASSUME NEW j \in S PROVE ~ (j < i)
    OBVIOUS
  <2> QED
    BY <1>3, <1>4
<1> QED
  BY <1>5

\* kick_stage never finds its endpoint busy or missing: what fails is opening one.
THEOREM KickIsIdle == Spec => []KickFindsIdleEndpoint
<1>1. SInv => KickFindsIdleEndpoint
  <2> SUFFICES ASSUME SInv, pc = "kick", NEW p \in Opened(inflight[cur])
               PROVE  Takers(p, inflight[cur], xfer) # {}
    BY DEF KickFindsIdleEndpoint
  <2>1. IInv /\ LinkInv /\ pool \in [Pool -> Endpoints]
    BY DEF SInv, IInv, TypeOK
  <2>2. /\ xfer \in Xfers /\ cur \in Occupied /\ inflight[cur].xfer = xfer
        /\ Busy(pool) = {}
    BY <2>1, InHand
  <2>3. inflight[cur].ep_addr = Ep[xfer] /\ inflight[cur] \in InflightSlots
    BY <2>1, <2>2, SlotUsed DEF LinkInv
  <2>4. Busy(p) = {}
    BY <2>1, <2>2, <2>3, OpenedIdle
  <2>5. PICK i \in Pool : /\ p[i].used /\ p[i].dev_addr = inflight[cur].dev_addr
                          /\ \/ p[i].ep_num = Ep[xfer]
                             \/ IsControl(p[i].ep_num) /\ IsControl(Ep[xfer])
    BY <2>1, <2>2, <2>3, OpenedServes
  <2>6. p[i].ep_num = WireEp(xfer) \/ (IsControl(p[i].ep_num) /\ IsControl(WireEp(xfer)))
    BY <2>2, <2>5, WireEpServes DEF Control
  <2> DEFINE L == Lookup(p, inflight[cur].dev_addr, WireEp(xfer))
  <2>7. i \in L /\ L \in SUBSET Nat /\ \A j \in L : j \in Pool /\ p[j].used
    BY <2>5, <2>6 DEF Lookup, Pool
  <2> HIDE DEF L
  <2>8. PICK j \in L : \A k \in L : j <= k
    BY <2>7, Lowest
  <2>9. j \in First(L) /\ ~p[j].has_transfer
    BY <2>4, <2>7, <2>8 DEF First, Busy
  <2> QED
    BY <2>9 DEF Takers, L
<1> QED
  BY <1>1, ServiceInvariance, PTL
-----------------------------------------------------------------------------
(* The driver implements the transfer service                              *)

USE DEF Service!vars

\* ep_enqueue submits.
LEMMA SubmitsForService ==
    ASSUME SInv, NEW x \in Xfers, EpEnqueue(x) PROVE Service!Submit(x)
<1>1. /\ owner[x] = "app" /\ queue' = Append(queue, x)
      /\ acked' = [acked EXCEPT ![x] = {}]
      /\ result' = [result EXCEPT ![x] = "none"]
  BY DEF EpEnqueue
<1>2. ~Service!Queued(x)
  BY <1>1 DEF SInv, IInv, QueueInv, Service!Queued
<1> QED
  BY <1>1, <1>2 DEF Service!Submit

\* uhc_xfer_return returns the oldest transfer.
LEMMA ReturnsForService ==
    ASSUME SInv, UhcXferReturn PROVE \E outcome \in Errors : Service!Return(outcome)
<1>1. /\ pc = "return" /\ queue' = RemoveFirst(queue, xfer)
      /\ result' = [result EXCEPT ![xfer] = err] /\ UNCHANGED acked
  BY DEF UhcXferReturn
<1>2. IInv /\ err \in Errors /\ queue \in Seq(Xfers) /\ (err = "OK" => acked[xfer] = Plan(xfer))
  BY <1>1 DEF SInv, IInv, TypeOK, AckInv
<1>3. xfer \in Xfers /\ queue # <<>> /\ xfer = Head(queue)
  BY <1>1, <1>2, InHand
<1>4. queue' = Tail(queue)
  BY <1>1, <1>2, <1>3, RemoveHead
<1>5. Service!Return(err)
  BY <1>1, <1>2, <1>3, <1>4 DEF Service!Return
<1> QED
  BY <1>2, <1>5

\* A frame acknowledges the next stage of the oldest transfer, or nothing.
LEMMA FrameForService ==
    ASSUME SInv, NEW answer \in Answers, FrameTransacts(answer)
    PROVE  \/ \E s \in Stages : Service!Acknowledge(s)
           \/ UNCHANGED <<queue, acked, result>>
<1> DEFINE ok == {i \in Busy(pool) : answer[i] = "complete"}
<1>1. /\ pc = "frame" /\ UNCHANGED <<queue, result>>
      /\ acked' = [x \in Xfers |-> acked[x] \cup
                      {pool[i].xact.stage : i \in {j \in ok : pool[j].xact.xfer = x}}]
  BY DEF FrameTransacts, FrameStarts, FrameEnds
<1>2. IInv /\ acked \in [Xfers -> SUBSET Stages] /\ stage \in [Xfers -> Stages]
  BY DEF SInv, IInv, TypeOK
<1>3. ok \subseteq Busy(pool)
  OBVIOUS
<1> HIDE DEF ok
<1>4. CASE ok = {}
  <2>1. \A x \in Xfers : {j \in ok : pool[j].xact.xfer = x} = {}
    BY <1>4
  <2>2. acked' = acked
    BY <1>1, <1>2, <2>1
  <2> QED
    BY <1>1, <2>2
<1>5. CASE ok # {}
  <2>1. PICK i \in Busy(pool) : i \in ok
    BY <1>3, <1>5
  <2>2. ok = {i}
    BY <1>2, <1>3, <2>1, BusyXfer
  <2>3. PICK x \in Xfers : /\ x = pool[i].xact.xfer /\ queue # <<>> /\ x = Head(queue)
    BY <1>1, <1>2, <2>1, BusyXfer, SlotUsed
  <2>4. pool[i].xact.stage = WireStage(x) /\ acked[x] = Before(x, WireStage(x))
    BY <2>1, <2>3 DEF SInv, AckInv, Reached
  <2>5. PICK st \in Stages : st = WireStage(x)
    BY <1>2 DEF WireStage, Stages
  <2>6. acked' = [acked EXCEPT ![x] = @ \cup {st}]
    <3>1. {j \in ok : pool[j].xact.xfer = x} = {i}
      BY <2>2, <2>3
    <3>2. \A y \in Xfers : y # x => {j \in ok : pool[j].xact.xfer = y} = {}
      BY <2>2, <2>3
    <3>3. acked'[x] = acked[x] \cup {st}
      BY <1>1, <2>4, <2>5, <3>1
    <3>4. \A y \in Xfers : y # x => acked'[y] = acked[y]
      BY <1>1, <3>2
    <3> QED
      BY <1>1, <1>2, <3>3, <3>4
  <2>7. st \in Plan(x) \ acked[x] /\ Service!Earlier[st] \cap Plan(x) \subseteq acked[x]
    <3>1. stage[x] \in Stages /\ (stage[x] = "DATA" => HasData[x])
      BY <1>2 DEF SInv, FreshInv
    <3>2. st \in Plan(x) /\ st \notin Before(x, st)
      BY <2>5, <3>1, StagePlan
    <3>3. Service!Earlier[st] \cap Plan(x) \subseteq Before(x, st)
      BY <2>5 DEF Stages, Service!Earlier, Before, Plan
    <3> QED
      BY <2>4, <2>5, <3>2, <3>3
  <2>8. Service!Acknowledge(st)
    BY <1>1, <2>3, <2>6, <2>7 DEF Service!Acknowledge
  <2> QED
    BY <2>8
<1> QED
  BY <1>4, <1>5

\* Every other step of the driver, its callers and the bus is none of the service's.
LEMMA StepForService == ASSUME SInv, [Next]_vars PROVE [Service!Next]_(Service!vars)
<1>1. ASSUME NEW answer \in Answers, FrameTransacts(answer)
      PROVE  [Service!Next]_(Service!vars)
  BY <1>1, FrameForService DEF Service!Next, Stages
<1>2. ASSUME NEW x \in Xfers, EpEnqueue(x) PROVE [Service!Next]_(Service!vars)
  BY <1>2, SubmitsForService DEF Service!Next
<1>3. CASE UhcXferReturn
  BY <1>3, ReturnsForService DEF Service!Next, Errors
<1>4. CASE FrameDisconnects \/ FrameConnects \/ FrameIdles
  BY <1>4 DEF FrameDisconnects, FrameConnects, FrameIdles, FrameEnds
<1>5. CASE ThreadStep /\ ~UhcXferReturn
  BY <1>5 DEF ThreadStep, SurfaceRootEvents, FlushSlot, FlushDone, LoadBits, SkipBit,
     FinishXfer, AdvanceStage, DrainDone, KickStage, SlotFree, PumpHead, PumpNothing
<1>6. CASE Enable \/ Disable \/ BusSuspend \/ BusResume \/ BusResetStart \/ BusResetEnd
           \/ Replug
  BY <1>6 DEF Enable, Disable, SetEnabled, BusSuspend, BusResume, BusResetStart,
     BusResetEnd, SetSuspended, Replug
<1>7. CASE UNCHANGED vars
  BY <1>7 DEF vars
<1> QED
  BY <1>1, <1>2, <1>3, <1>4, <1>5, <1>6, <1>7 DEF Next, Frame, Api

\* The host controller driver implements the transfer service: its list, what the
\* device has acknowledged and the results it reports change as the service's do.
THEOREM DriverImplementsService == Spec => ImplementsTransferService
<1>1. Init => Service!Init
  BY DEF Init, Service!Init
<1>2. SInv /\ [Next]_vars => [Service!Next]_(Service!vars)
  BY StepForService
<1> QED
  BY <1>1, <1>2, ServiceInvariance, PTL DEF Spec, ImplementsTransferService, Service!Spec
=============================================================================
