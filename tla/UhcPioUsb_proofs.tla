-------------------------- MODULE UhcPioUsb_proofs --------------------------
(***************************************************************************)
(* Proofs about UhcPioUsb, for any set of transfers, any pool size and any *)
(* slot table: IInv is an invariant, and with it the typing, the ownership *)
(* of buffers on the wire and the agreement of the list and the slot table.*)
(***************************************************************************)
EXTENDS UhcPioUsb, SequenceTheorems, TLAPS

USE DEF picoVars, xferVars, apiVars, threadVars

\* The initial state satisfies the invariant.
LEMMA InitInv == Init => IInv
<1> SUFFICES ASSUME Init PROVE IInv
  OBVIOUS
<1>1. TypeOK
  <2>1. pool \in [Pool -> Endpoints]
    BY DEF Init, Endpoints, FreeEndpoint, Transactions, Stages, DevAddrs, EpAddrs
  <2>2. inflight \in [Slots -> InflightSlots]
    BY DEF Init, InflightSlots, EmptySlot, DevAddrs, EpAddrs
  <2>3. bits \in [Regs -> SUBSET Pool] /\ queue \in Seq(Xfers) /\ cur \in Slots
    BY SlotAssumption DEF Init, Slots
  <2>4. root \in [connected : BOOLEAN, suspended : BOOLEAN, event : RootEvents]
    BY DEF Init, RootEvents
  <2> QED
    BY <2>1, <2>2, <2>3, <2>4
    DEF Init, TypeOK, Stages, RootEvents, Errors, PCs, Phases
<1>2. PhaseInv /\ QueueInv
  BY DEF Init, PhaseInv, QueueInv
<1>3. Occupied = {} /\ Busy(pool) = {} /\ Events = {}
  BY DEF Init, Occupied, Busy, Events, EmptySlot, Pool, FreeEndpoint, Slots, Regs
<1>4. SlotInv
  BY <1>3 DEF Init, SlotInv, OneInFlight, HeadOnlyInFlight, Slots
<1>5. WireInv /\ EventInv /\ RootInv
  BY <1>3 DEF Init, WireInv, EventInv, RootInv, Events, Regs
<1> QED
  BY <1>1, <1>2, <1>4, <1>5 DEF IInv
-----------------------------------------------------------------------------
(* The frame                                                               *)

\* Retiring a set of transactions leaves the others, and every slot's identity.
LEMMA CompleteRetires ==
    ASSUME NEW p \in [Pool -> Endpoints], NEW D
    PROVE  /\ Complete(p, D) \in [Pool -> Endpoints]
           /\ Busy(Complete(p, D)) = Busy(p) \ D
           /\ \A i \in Pool : Complete(p, D)[i].xact = p[i].xact
<1> DEFINE q == Complete(p, D)
<1>1. \A i \in Pool : q[i] = IF i \in D THEN [p[i] EXCEPT !.has_transfer = FALSE]
                                        ELSE p[i]
  BY DEF Complete
<1>2. \A i \in Pool : p[i] \in Endpoints
  OBVIOUS
<1>3. \A i \in Pool : q[i] \in Endpoints
  BY <1>1, <1>2 DEF Endpoints
<1>4. \A i \in Pool : /\ q[i].used = p[i].used
                      /\ q[i].xact = p[i].xact
                      /\ q[i].has_transfer <=> (p[i].has_transfer /\ i \notin D)
  BY <1>1, <1>2 DEF Endpoints
<1>5. q \in [Pool -> Endpoints]
  BY <1>3 DEF Complete
<1>6. Busy(q) = Busy(p) \ D
  BY <1>4 DEF Busy
<1> QED
  BY <1>4, <1>5, <1>6

\* What every kind of frame has in common, and why it is enough: it retires some
\* of the (at most one) transactions, notes an event for those alone, and reports
\* a disconnect only if it retired them all.
LEMMA FrameCore ==
    ASSUME IInv, TypeOK', pc = "frame", pc' = "surface",
           UNCHANGED <<queue, owner, inflight, last_root_event, phase, pending,
                       cur, xfer>>,
           NEW D \in SUBSET Busy(pool),
           pool' = Complete(pool, D),
           \A r \in Regs : bits'[r] \subseteq D,
           \A q, r \in Regs : \A i \in Pool :
               i \in bits'[q] /\ i \in bits'[r] => q = r,
           \/ root'.event = root.event
           \/ root'.event = "CONNECT"
           \/ root'.event = "DISCONNECT" /\ D = Busy(pool)
    PROVE  IInv'
<1>1. pool \in [Pool -> Endpoints]
  BY DEF IInv, TypeOK
<1>2. /\ Busy(pool') = Busy(pool) \ D
      /\ \A i \in Pool : pool'[i].xact = pool[i].xact
  BY <1>1, CompleteRetires
<1>3. Busy(pool) \in SUBSET Pool /\ Busy(pool') \in SUBSET Pool
  BY DEF Busy
<1>4. Busy(pool)' = Busy(pool')
  BY DEF Busy
<1>5. phase = "pump" /\ Events = {} /\ pending = {}
  BY DEF IInv, PhaseInv, EventInv, Events
<1>6. \A i, j \in Busy(pool) : i = j
  BY DEF IInv, WireInv
<1>7. Events' \subseteq D
  BY <1>5 DEF Events
<1>8. Events' # {} => Busy(pool') = {}
  BY <1>2, <1>3, <1>6, <1>7
<1>9. PhaseInv'
  BY <1>5 DEF PhaseInv
<1>10. QueueInv'
  BY DEF IInv, QueueInv
<1>11. SlotInv' /\ Occupied' = Occupied
  BY DEF IInv, SlotInv, OneInFlight, HeadOnlyInFlight, Occupied
<1>12. WireInv'
  BY <1>2, <1>3, <1>4, <1>6, <1>8, <1>11 DEF IInv, WireInv
<1>13. EventInv'
  <2>1. \A q, r \in Regs : \A i \in bits'[q], j \in bits'[r] : i = j /\ i \in Pool
    BY <1>3, <1>6
  <2>2. \A q, r \in Regs : \A i \in bits'[q], j \in bits'[r] : q = r /\ i = j
    BY <2>1
  <2> QED
    BY <1>5, <2>2 DEF EventInv, Regs
<1>14. RootInv'
  BY <1>2, <1>3, <1>4, <1>5 DEF IInv, RootInv
<1> QED
  BY <1>9, <1>10, <1>11, <1>12, <1>13, <1>14 DEF IInv

\* Every frame keeps the invariant.
LEMMA FrameInv == ASSUME IInv, Frame PROVE IInv'
<1>1. TypeOK
  BY DEF IInv
<1>2. \A i \in Pool, r \in Regs : i \notin bits[r]
  <2>1. pc = "frame"
    BY DEF Frame, FrameTransacts, FrameDisconnects, FrameConnects, FrameIdles, FrameStarts
  <2> QED
    BY <2>1 DEF IInv, EventInv, Events
<1>3. ASSUME NEW answer \in Answers, FrameTransacts(answer)
      PROVE  IInv'
  <2> DEFINE done == {i \in Busy(pool) : answer[i] # "none"}
  <2>1. pool' = Complete(pool, done) /\ done \in SUBSET Busy(pool)
    BY <1>3 DEF FrameTransacts
  <2>2. \A r \in Regs : bits'[r] = bits[r] \cup {i \in done : answer[i] = r}
    BY <1>3 DEF FrameTransacts, FrameEnds, IrqHandler
  <2>3. /\ \A r \in Regs : bits'[r] \subseteq done
        /\ \A q, r \in Regs : \A i \in Pool : i \in bits'[q] /\ i \in bits'[r] => q = r
    BY <1>1, <1>2, <2>2 DEF TypeOK
  <2>4. TypeOK'
    <3>1. pool' \in [Pool -> Endpoints]
      BY <1>1, <2>1, CompleteRetires DEF TypeOK
    <3>2. bits' \in [Regs -> SUBSET Pool]
      BY <1>1, <1>3 DEF TypeOK, FrameTransacts, FrameEnds, IrqHandler, Busy
    <3>3. acked' \in [Xfers -> SUBSET Stages]
      BY <1>1, <1>3 DEF TypeOK, FrameTransacts, Busy, Endpoints, Transactions
    <3>4. root' \in [connected : BOOLEAN, suspended : BOOLEAN, event : RootEvents]
      BY <1>1, <1>3 DEF TypeOK, FrameTransacts, FrameEnds, IrqHandler, RootEvents
    <3> QED
      BY <1>1, <1>3, <3>1, <3>2, <3>3, <3>4 DEF TypeOK, FrameTransacts, FrameEnds, PCs
  <2>5. root'.event = root.event
    BY <1>3 DEF FrameTransacts, FrameEnds, IrqHandler
  <2> QED
    BY <1>3, <2>1, <2>3, <2>4, <2>5, FrameCore
    DEF FrameTransacts, FrameStarts, FrameEnds
<1>4. ASSUME FrameDisconnects PROVE IInv'
  <2> DEFINE done == Busy(pool)
  <2>1. pool' = Complete(pool, done) /\ done \in SUBSET Busy(pool)
    BY <1>4 DEF FrameDisconnects
  <2>2. bits' = [bits EXCEPT !["error"] = @ \cup done]
    BY <1>4 DEF FrameDisconnects, FrameEnds, IrqHandler
  <2>3. /\ \A r \in Regs : bits'[r] \subseteq done
        /\ \A q, r \in Regs : \A i \in Pool : i \in bits'[q] /\ i \in bits'[r] => q = r
    BY <1>1, <1>2, <2>2 DEF TypeOK
  <2>4. root'.event = "DISCONNECT"
    BY <1>4 DEF FrameDisconnects, FrameEnds, IrqHandler
  <2>5. TypeOK'
    <3>1. pool' \in [Pool -> Endpoints]
      BY <1>1, <2>1, CompleteRetires DEF TypeOK
    <3>2. bits' \in [Regs -> SUBSET Pool]
      BY <1>1, <2>2 DEF TypeOK, Busy
    <3>3. root' \in [connected : BOOLEAN, suspended : BOOLEAN, event : RootEvents]
      BY <1>1, <1>4 DEF TypeOK, FrameDisconnects, FrameEnds, IrqHandler, RootEvents
    <3> QED
      BY <1>1, <1>4, <3>1, <3>2, <3>3 DEF TypeOK, FrameDisconnects, FrameEnds, PCs
  <2> QED
    BY <1>4, <2>1, <2>3, <2>4, <2>5, FrameCore
    DEF FrameDisconnects, FrameStarts, FrameEnds
<1>5. ASSUME FrameConnects \/ FrameIdles PROVE IInv'
  <2>1. /\ pc = "frame" /\ pc' = "surface"
        /\ UNCHANGED <<pool, bits, line, xferVars, inflight, last_root_event,
                       apiVars, phase, pending, cur, xfer, err>>
    BY <1>5 DEF FrameConnects, FrameIdles, FrameStarts, FrameEnds, IrqHandler
  <2>2. /\ root'.event \in {root.event, "CONNECT"}
        /\ root' \in [connected : BOOLEAN, suspended : BOOLEAN, event : RootEvents]
    <3>1. CASE FrameConnects
      BY <3>1 DEF FrameConnects, FrameEnds, IrqHandler, RootEvents
    <3>2. CASE FrameIdles
      <4>1. root' = [connected |-> root.connected, suspended |-> root.suspended,
                     event |-> root.event]
        BY <3>2 DEF FrameIdles, FrameEnds, IrqHandler
      <4>2. root \in [connected : BOOLEAN, suspended : BOOLEAN, event : RootEvents]
        BY <1>1 DEF TypeOK
      <4>3. root' = root
        BY <4>1, <4>2, Zenon
      <4> QED
        BY <4>2, <4>3
    <3> QED
      BY <1>5, <3>1, <3>2
  <2>3. TypeOK'
    BY <1>1, <2>1, <2>2 DEF TypeOK, PCs
  <2>4. pool' = Complete(pool, {})
    BY <1>1, <2>1 DEF TypeOK, Complete
  <2>5. \A r \in Regs : bits'[r] \subseteq {}
    BY <1>1, <1>2, <2>1 DEF TypeOK
  <2> QED
    BY <2>1, <2>2, <2>3, <2>4, <2>5, FrameCore
<1> QED
  BY <1>3, <1>4, <1>5 DEF Frame
-----------------------------------------------------------------------------
(* The thread                                                              *)

\* Busy, Occupied and Events depend on the pool, the slot table and the bitmaps.
LEMMA Derived ==
    /\ UNCHANGED pool => Busy(pool)' = Busy(pool)
    /\ UNCHANGED inflight => Occupied' = Occupied
    /\ UNCHANGED <<bits, pending>> => Events' = Events
BY DEF Busy, Occupied, Events

\* surface_root_events keeps it: a disconnect that is news finds an idle wire.
LEMMA SurfaceInv == ASSUME IInv, SurfaceRootEvents PROVE IInv'
<1>1. /\ UNCHANGED <<picoVars, line, xferVars, inflight, apiVars, pending, cur, xfer, err>>
      /\ pc = "surface" /\ phase = "pump" /\ last_root_event' = root.event
      /\ \/ /\ pc' = "flush" /\ phase' = "flush"
            /\ root.event # last_root_event /\ root.event = "DISCONNECT"
         \/ pc' = "load" /\ phase' = "complete"
  BY DEF IInv, PhaseInv, SurfaceRootEvents
<1>2. TypeOK'
  <2>1. root.event \in RootEvents
    BY DEF IInv, TypeOK
  <2> QED
    BY <1>1, <2>1 DEF IInv, TypeOK, PCs, Phases, Regs
<1>3. PhaseInv' /\ QueueInv' /\ SlotInv'
  BY <1>1, Derived
  DEF IInv, PhaseInv, QueueInv, SlotInv, OneInFlight, HeadOnlyInFlight, Regs
<1>4. WireInv' /\ RootInv'
  BY <1>1, Derived DEF IInv, WireInv, RootInv
<1>5. EventInv'
  BY <1>1, Derived DEF IInv, EventInv, Regs
<1> QED
  BY <1>2, <1>3, <1>4, <1>5 DEF IInv

\* The flush loop keeps it.
LEMMA FlushInv == ASSUME IInv, FlushSlot \/ FlushDone PROVE IInv'
<1>1. CASE FlushSlot
  <2>1. PICK s \in Occupied : cur' = s /\ xfer' = inflight[s].xfer
    BY <1>1 DEF FlushSlot, First
  <2>2. /\ UNCHANGED <<picoVars, line, xferVars, inflight, last_root_event, apiVars,
                       phase, pending>>
        /\ pc = "flush" /\ phase = "flush" /\ pc' = "return" /\ err' = "ENODEV"
    BY <1>1 DEF IInv, PhaseInv, FlushSlot
  <2>3. s \in Slots /\ xfer' \in Xfers
    BY <2>1 DEF IInv, TypeOK, Occupied, InflightSlots
  <2>4. TypeOK'
    BY <2>1, <2>2, <2>3 DEF IInv, TypeOK, PCs, Errors
  <2>5. queue # <<>> /\ inflight[s].xfer = Head(queue)
    BY <2>1, <2>2 DEF IInv, SlotInv, HeadOnlyInFlight
  <2>6. PhaseInv' /\ QueueInv' /\ SlotInv'
    BY <2>1, <2>2, <2>3, <2>5, Derived
    DEF IInv, PhaseInv, QueueInv, SlotInv, OneInFlight, HeadOnlyInFlight
  <2>7. WireInv' /\ RootInv'
    BY <2>2, Derived DEF IInv, WireInv, RootInv
  <2>8. EventInv'
    BY <2>2, Derived DEF IInv, EventInv, Regs
  <2> QED
    BY <2>4, <2>6, <2>7, <2>8 DEF IInv
<1>2. CASE FlushDone
  <2>1. /\ UNCHANGED <<picoVars, line, xferVars, inflight, last_root_event, apiVars,
                       pending, cur, xfer, err>>
        /\ pc = "flush" /\ phase = "flush" /\ pc' = "load" /\ phase' = "complete"
    BY <1>2 DEF IInv, PhaseInv, FlushDone
  <2>2. TypeOK'
    BY <2>1 DEF IInv, TypeOK, PCs, Phases, Regs
  <2>3. PhaseInv' /\ QueueInv' /\ SlotInv'
    BY <2>1, Derived
    DEF IInv, PhaseInv, QueueInv, SlotInv, OneInFlight, HeadOnlyInFlight, Regs
  <2>4. WireInv' /\ RootInv'
    BY <2>1, Derived DEF IInv, WireInv, RootInv
  <2>5. EventInv'
    BY <2>1, Derived DEF IInv, EventInv, Regs
  <2> QED
    BY <2>2, <2>3, <2>4, <2>5 DEF IInv
<1> QED
  BY <1>1, <1>2

\* Taking a bitmap moves its events to the local copy.
LEMMA LoadInv == ASSUME IInv, LoadBits PROVE IInv'
<1>1. /\ pc = "load" /\ pc' = "bits" /\ phase \in Regs /\ pending = {}
      /\ pending' = bits[phase]
      /\ bits' = [bits EXCEPT ![phase] = {}]
      /\ UNCHANGED <<pool, root, line, xferVars, inflight, last_root_event,
                     apiVars, phase, cur, xfer>>
  BY DEF IInv, PhaseInv, EventInv, LoadBits
<1>2. /\ bits \in [Regs -> SUBSET Pool]
      /\ pending' \in SUBSET Pool
      /\ \A r \in Regs : bits'[r] = IF r = phase THEN {} ELSE bits[r]
  BY <1>1 DEF IInv, TypeOK
<1>3. TypeOK'
  <2>1. err' \in Errors
    BY <1>1 DEF LoadBits, RegError, Regs, Errors
  <2> QED
    BY <1>1, <1>2, <2>1 DEF IInv, TypeOK, PCs
<1>4. PhaseInv' /\ QueueInv' /\ SlotInv'
  BY <1>1, Derived DEF IInv, PhaseInv, QueueInv, SlotInv, OneInFlight, HeadOnlyInFlight
<1>5. Events' = Events
  <2>1. ASSUME NEW i, i \in Events PROVE i \in Events'
    BY <1>1, <1>2, <2>1 DEF Events
  <2>2. ASSUME NEW i, i \in Events' PROVE i \in Events
    BY <1>1, <1>2, <2>2 DEF Events
  <2> QED
    BY <2>1, <2>2
<1>6. WireInv' /\ RootInv'
  BY <1>1, <1>5, Derived DEF IInv, WireInv, RootInv, Regs
<1>7. EventInv'
  BY <1>1, <1>2 DEF IInv, EventInv, Regs
<1> QED
  BY <1>3, <1>4, <1>6, <1>7 DEF IInv

\* The bit in hand is the only event there is.
LEMMA LastEvent ==
    ASSUME IInv, NEW i \in First(pending)
    PROVE  /\ i \in pending /\ i \in Pool
           /\ pending \ {i} = {}
           /\ \A r \in Regs : bits[r] = {}
           /\ Busy(pool) = {}
<1>1. i \in pending /\ i \in Pool
  BY DEF First, IInv, TypeOK
<1>2. i \in Events
  BY <1>1 DEF Events
<1> QED
  BY <1>1, <1>2 DEF IInv, EventInv, WireInv

\* A bit that matches no slot is the last event there was.
LEMMA SkipInv == ASSUME IInv, SkipBit PROVE IInv'
<1>1. PICK i \in First(pending) : pending' = pending \ {i}
  BY DEF SkipBit
<1>2. /\ pending' = {} /\ \A r \in Regs : bits[r] = {}
      /\ Busy(pool) = {}
  BY <1>1, LastEvent
<1>3. /\ UNCHANGED <<picoVars, line, xferVars, inflight, last_root_event, apiVars,
                     pc, phase, cur, xfer, err>>
      /\ pc = "bits" /\ phase \in Regs
  BY DEF IInv, PhaseInv, SkipBit
<1>4. TypeOK' /\ Events' = {}
  BY <1>2, <1>3 DEF IInv, TypeOK, Events
<1>5. PhaseInv' /\ QueueInv' /\ SlotInv'
  BY <1>3, Derived DEF IInv, PhaseInv, QueueInv, SlotInv, OneInFlight, HeadOnlyInFlight
<1>6. WireInv' /\ RootInv'
  BY <1>2, <1>3, <1>4, Derived DEF IInv, WireInv, RootInv
<1>7. EventInv'
  BY <1>2, <1>3, <1>4 DEF IInv, EventInv, Regs
<1> QED
  BY <1>4, <1>5, <1>6, <1>7 DEF IInv

\* Finishing a transfer and starting its next stage both take the bit and go on
\* with the occupied slot it matches.
LEMMA TakeBit ==
    ASSUME IInv, pc = "bits", pc' \in {"return", "kick"},
           NEW i \in First(pending), NEW s \in Match(i),
           pending' = pending \ {i}, cur' = s, xfer' = inflight[s].xfer,
           stage' \in [Xfers -> Stages],
           UNCHANGED <<picoVars, line, queue, owner, result, acked, inflight,
                       last_root_event, apiVars, phase, err>>
    PROVE  IInv'
<1>1. /\ pending' = {} /\ \A r \in Regs : bits[r] = {}
      /\ Busy(pool) = {}
  BY LastEvent
<1>2. s \in Occupied /\ s \in Slots /\ inflight[s].xfer \in Xfers
  BY DEF Match, First, Occupied, IInv, TypeOK, InflightSlots
<1>3. queue # <<>> /\ inflight[s].xfer = Head(queue)
  BY <1>2 DEF IInv, SlotInv, HeadOnlyInFlight
<1>4. phase \in Regs
  BY DEF IInv, PhaseInv
<1>5. TypeOK' /\ Events' = {}
  BY <1>1, <1>2 DEF IInv, TypeOK, Events, PCs
<1>6. PhaseInv' /\ QueueInv'
  BY <1>4 DEF IInv, PhaseInv, QueueInv, Regs
<1>7. SlotInv'
  BY <1>2, <1>3, Derived DEF IInv, SlotInv, OneInFlight, HeadOnlyInFlight
<1>8. WireInv' /\ RootInv'
  BY <1>1, <1>4, <1>5, Derived DEF IInv, WireInv, RootInv, Regs
<1>9. EventInv'
  BY <1>1, <1>4, <1>5 DEF IInv, EventInv, Regs
<1> QED
  BY <1>5, <1>6, <1>7, <1>8, <1>9 DEF IInv

\* A finished transfer goes on to be returned, its endpoint idle.
LEMMA FinishInv == ASSUME IInv, FinishXfer PROVE IInv'
<1>1. PICK i \in First(pending) : \E s \in Match(i) :
          pending' = pending \ {i} /\ cur' = s /\ xfer' = inflight[s].xfer
  BY DEF FinishXfer
<1>2. PICK s \in Match(i) :
          pending' = pending \ {i} /\ cur' = s /\ xfer' = inflight[s].xfer
  BY <1>1
<1>3. stage' \in [Xfers -> Stages]
  BY DEF FinishXfer, IInv, TypeOK
<1> QED
  BY <1>2, <1>3, TakeBit DEF FinishXfer

\* The next stage of a control transfer is kicked on an idle wire.
LEMMA AdvanceInv == ASSUME IInv, AdvanceStage PROVE IInv'
<1>1. PICK i \in First(pending) : \E s \in Match(i) :
          /\ pending' = pending \ {i} /\ cur' = s /\ xfer' = inflight[s].xfer
          /\ stage' = [stage EXCEPT ![inflight[s].xfer] = NextStage(inflight[s].xfer)]
  BY DEF AdvanceStage
<1>2. PICK s \in Match(i) :
          /\ pending' = pending \ {i} /\ cur' = s /\ xfer' = inflight[s].xfer
          /\ stage' = [stage EXCEPT ![inflight[s].xfer] = NextStage(inflight[s].xfer)]
  BY <1>1
<1>3. stage' \in [Xfers -> Stages]
  BY <1>2 DEF IInv, TypeOK, NextStage, Stages
<1> QED
  BY <1>2, <1>3, TakeBit DEF AdvanceStage

\* A drain pass ends with its bitmap empty.
LEMMA DrainDoneInv == ASSUME IInv, DrainDone PROVE IInv'
<1>1. /\ UNCHANGED <<picoVars, line, xferVars, inflight, last_root_event, apiVars,
                     pending, cur, xfer>>
      /\ pc = "bits" /\ phase \in Regs /\ pending = {} /\ err' = "OK"
      /\ \/ phase = "error" /\ pc' = "pump" /\ phase' = "pump"
         \/ phase = "complete" /\ pc' = "load" /\ phase' = "stalled"
         \/ phase = "stalled" /\ pc' = "load" /\ phase' = "error"
  BY DEF IInv, PhaseInv, DrainDone, Regs, NextReg
<1>2. TypeOK'
  BY <1>1 DEF IInv, TypeOK, PCs, Phases, Regs, Errors
<1>3. phase = "error" => Events = {}
  BY <1>1 DEF IInv, EventInv, Events, Regs
<1>4. PhaseInv' /\ QueueInv' /\ SlotInv'
  BY <1>1, Derived
  DEF IInv, PhaseInv, QueueInv, SlotInv, OneInFlight, HeadOnlyInFlight, Regs
<1>5. WireInv' /\ RootInv'
  BY <1>1, Derived DEF IInv, WireInv, RootInv
<1>6. EventInv'
  BY <1>1, <1>3, Derived DEF IInv, EventInv, Regs
<1> QED
  BY <1>2, <1>4, <1>5, <1>6 DEF IInv

\* What a pool slot is when it is opened.
NewEndpoint(dev, ep) ==
    [FreeEndpoint EXCEPT !.used = TRUE, !.dev_addr = dev, !.ep_num = ep]

LEMMA OpenAtIs ==
    ASSUME NEW p, NEW i, NEW dev, NEW ep
    PROVE  OpenAt(p, i, dev, ep) = [p EXCEPT ![i] = NewEndpoint(dev, ep)]
BY DEF OpenAt, NewEndpoint

LEMMA NewEndpointType ==
    ASSUME NEW dev \in DevAddrs, NEW ep \in EpAddrs
    PROVE  /\ NewEndpoint(dev, ep) \in Endpoints
           /\ NewEndpoint(dev, ep).used /\ ~NewEndpoint(dev, ep).has_transfer
           /\ NewEndpoint(dev, ep).dev_addr = dev /\ NewEndpoint(dev, ep).ep_num = ep
<1>1. ASSUME NEW r \in Endpoints, ~r.has_transfer,
             NEW e, e = [r EXCEPT !.used = TRUE, !.dev_addr = dev, !.ep_num = ep]
      PROVE  e \in Endpoints /\ e.used /\ ~e.has_transfer /\ e.dev_addr = dev /\ e.ep_num = ep
  BY <1>1 DEF Endpoints
<1>2. FreeEndpoint \in Endpoints /\ ~FreeEndpoint.has_transfer
  <2>1. [xfer |-> NoXfer, stage |-> "SETUP"] \in Transactions
    BY DEF Transactions, Stages
  <2>2. 0 \in DevAddrs /\ 0 \in EpAddrs
    BY DEF DevAddrs, EpAddrs
  <2> QED
    BY <2>1, <2>2 DEF FreeEndpoint, Endpoints
<1>3. NewEndpoint(dev, ep) = [FreeEndpoint EXCEPT !.used = TRUE, !.dev_addr = dev, !.ep_num = ep]
  BY DEF NewEndpoint
<1> QED
  BY <1>1, <1>2, <1>3

\* Opening an endpoint starts nothing.
LEMMA OpenedIdle ==
    ASSUME pool \in [Pool -> Endpoints], NEW slot \in InflightSlots,
           NEW p \in Opened(slot), Busy(pool) = {}
    PROVE  p \in [Pool -> Endpoints] /\ Busy(p) = {}
<1>1. CASE slot.open
  BY <1>1 DEF Opened
<1>2. CASE ~slot.open
  <2>1. PICK i \in Pool : p = OpenAt(pool, i, slot.dev_addr, slot.ep_addr)
    BY <1>2 DEF Opened, First, FreeSlots
  <2> DEFINE e == NewEndpoint(slot.dev_addr, slot.ep_addr)
  <2>2. e \in Endpoints /\ ~e.has_transfer
    <3>1. slot.dev_addr \in DevAddrs /\ slot.ep_addr \in EpAddrs
      BY DEF InflightSlots
    <3> QED
      BY <3>1, NewEndpointType
  <2>3. p = [pool EXCEPT ![i] = e]
    BY <2>1, OpenAtIs
  <2> HIDE DEF e
  <2>4. p \in [Pool -> Endpoints]
    BY <2>2, <2>3
  <2>5. \A j \in Pool : p[j] = IF j = i THEN e ELSE pool[j]
    BY <2>3
  <2> QED
    BY <2>2, <2>4, <2>5 DEF Busy
<1> QED
  BY <1>1, <1>2

\* Starting a transaction makes its endpoint, and no other, busy with it.
LEMMA StartedBusy ==
    ASSUME NEW p \in [Pool -> Endpoints], Busy(p) = {}, NEW i \in Pool, p[i].used,
           NEW ep \in EpAddrs, NEW x \in Xfers, NEW st \in Stages
    PROVE  /\ StartAt(p, i, ep, x, st) \in [Pool -> Endpoints]
           /\ Busy(StartAt(p, i, ep, x, st)) = {i}
           /\ StartAt(p, i, ep, x, st)[i].xact.xfer = x
<1> DEFINE e == [p[i] EXCEPT !.ep_num = ep, !.has_transfer = TRUE,
                             !.xact = [xfer |-> x, stage |-> st]]
           q == StartAt(p, i, ep, x, st)
<1>1. p[i] \in Endpoints
  OBVIOUS
<1>2. e \in Endpoints /\ e.used /\ e.has_transfer /\ e.xact.xfer = x
  BY <1>1 DEF Endpoints, Transactions
<1>3. q = [p EXCEPT ![i] = e]
  BY DEF StartAt
<1> HIDE DEF e, q
<1>4. q \in [Pool -> Endpoints]
  BY <1>2, <1>3
<1>5. \A j \in Pool : q[j] = IF j = i THEN e ELSE p[j]
  BY <1>3
<1>6. Busy(q) = {i}
  BY <1>2, <1>5 DEF Busy
<1> QED
  BY <1>2, <1>4, <1>5, <1>6 DEF q

\* Every endpoint address on the wire is a byte.
LEMMA WireEpType == ASSUME NEW x \in Xfers PROVE WireEp(x) \in EpAddrs
BY XferAssumption DEF WireEp, EpAddrs

\* kick_stage puts the transfer's transaction on an idle wire, or fails and leaves it idle.
LEMMA KickInv == ASSUME IInv, KickStage PROVE IInv'
<1> DEFINE slot == inflight[cur]
           opened == Opened(slot)
<1>1. /\ pc = "kick"
      /\ UNCHANGED <<bits, root, line, xferVars, last_root_event, apiVars, phase,
                     pending>>
  BY DEF KickStage
<1>2. /\ xfer \in Xfers /\ inflight[cur].xfer = xfer
      /\ queue # <<>> /\ xfer = Head(queue)
      /\ cur \in Slots /\ slot \in InflightSlots /\ cur \in Occupied
      /\ Busy(pool) = {} /\ Events = {} /\ phase \in Regs \cup {"pump"}
      /\ pool \in [Pool -> Endpoints]
  BY <1>1, NoXferAssumption
  DEF IInv, SlotInv, WireInv, EventInv, PhaseInv, TypeOK, Occupied, Phases
<1>3. \A p \in opened : p \in [Pool -> Endpoints] /\ Busy(p) = {}
  BY <1>2, OpenedIdle
<1>4. QueueInv'
  BY <1>1 DEF IInv, QueueInv
<1>5. EventInv'
  <2>1. pc' \in {"return", "frame", "bits"}
    BY DEF KickStage, AfterKick
  <2>2. pc' = "frame" => phase = "pump"
    BY <1>2 DEF KickStage, AfterKick
  <2>3. pc' = "bits" => phase \in Regs
    BY <1>2 DEF KickStage, AfterKick, Regs
  <2> QED
    BY <1>1, <1>2, <2>1, <2>2, <2>3, Derived DEF IInv, EventInv, Regs
<1>6. CASE \A p \in opened : Takers(p, slot, xfer) = {}
  <2>1. /\ err' = "EIO" /\ pc' = "return" /\ UNCHANGED <<cur, xfer>>
        /\ \/ UNCHANGED <<pool, inflight>>
           \/ pool' \in opened /\ inflight' = [inflight EXCEPT ![cur].open = TRUE]
    BY <1>6 DEF KickStage
  <2>2. pool' \in [Pool -> Endpoints] /\ Busy(pool') = {}
    BY <1>2, <1>3, <2>1
  <2>3. /\ inflight' \in [Slots -> InflightSlots]
        /\ \A s \in Slots : inflight'[s].xfer = inflight[s].xfer
        /\ \A s \in Slots \ {cur} : inflight'[s] = inflight[s]
    <3>1. inflight \in [Slots -> InflightSlots]
      BY DEF IInv, TypeOK
    <3>2. CASE UNCHANGED inflight
      BY <3>1, <3>2
    <3>3. CASE inflight' = [inflight EXCEPT ![cur].open = TRUE]
      BY <1>2, <3>1, <3>3 DEF InflightSlots
    <3> QED
      BY <2>1, <3>2, <3>3
  <2>4. TypeOK'
    BY <1>1, <2>1, <2>2, <2>3 DEF IInv, TypeOK, PCs, Errors
  <2>5. PhaseInv'
    BY <1>1, <1>2, <2>1 DEF IInv, PhaseInv
  <2>6. SlotInv'
    BY <1>1, <1>2, <2>1, <2>3, NoXferAssumption
    DEF IInv, SlotInv, OneInFlight, HeadOnlyInFlight, Occupied
  <2>7. WireInv' /\ RootInv'
    BY <1>1, <2>1, <2>2 DEF IInv, WireInv, RootInv, Busy
  <2> QED
    BY <1>4, <1>5, <2>4, <2>5, <2>6, <2>7 DEF IInv
<1>7. CASE ~ \A p \in opened : Takers(p, slot, xfer) = {}
  <2>1. /\ \E p \in opened : \E i \in Takers(p, slot, xfer) :
               pool' = StartAt(p, i, WireEp(xfer), xfer, WireStage(xfer))
        /\ inflight' = [inflight EXCEPT ![cur].open = TRUE, ![cur].started = TRUE]
        /\ pc' = AfterKick /\ LetGo /\ UNCHANGED err
    BY <1>7 DEF KickStage
  <2>2. PICK p \in opened : \E i \in Takers(p, slot, xfer) :
               pool' = StartAt(p, i, WireEp(xfer), xfer, WireStage(xfer))
    BY <2>1
  <2>3. PICK i \in Takers(p, slot, xfer) :
               pool' = StartAt(p, i, WireEp(xfer), xfer, WireStage(xfer))
    BY <2>2
  <2>4. i \in Pool /\ p[i].used
    BY DEF Takers, First, Lookup
  <2>5. WireStage(xfer) \in Stages
    BY <1>2 DEF WireStage, IInv, TypeOK, Stages
  <2>6. /\ pool' \in [Pool -> Endpoints]
        /\ Busy(pool') = {i} /\ pool'[i].xact.xfer = xfer
    BY <1>2, <1>3, <2>3, <2>4, <2>5, WireEpType, StartedBusy
  <2>7. /\ inflight' \in [Slots -> InflightSlots]
        /\ \A s \in Slots : inflight'[s].xfer = inflight[s].xfer
        /\ \A s \in Slots \ {cur} : inflight'[s] = inflight[s]
        /\ inflight'[cur].started
    BY <1>2, <2>1 DEF IInv, TypeOK, InflightSlots
  <2>8. /\ pc' \in {"frame", "bits"} /\ cur' \in Slots /\ xfer' = NoXfer
        /\ pc' = "frame" <=> phase = "pump"
    BY <2>1, SlotAssumption DEF AfterKick, LetGo, Slots
  <2>9. TypeOK'
    BY <1>1, <2>1, <2>6, <2>7, <2>8 DEF IInv, TypeOK, PCs
  <2>10. PhaseInv'
    BY <1>1, <1>2, <2>8 DEF PhaseInv
  <2>11. SlotInv' /\ cur \in Occupied'
    BY <1>1, <1>2, <2>7, <2>8, NoXferAssumption
    DEF IInv, SlotInv, OneInFlight, HeadOnlyInFlight, Occupied
  <2>12. WireInv'
    <3>1. Busy(pool)' = {i} /\ Events' = {}
      BY <1>1, <1>2, <2>6, Derived DEF Busy
    <3> QED
      BY <1>2, <2>6, <2>7, <2>8, <2>11, <3>1 DEF WireInv
  <2>13. RootInv'
    BY <1>1, <1>2, <2>8 DEF IInv, RootInv, Regs
  <2> QED
    BY <1>4, <1>5, <2>9, <2>10, <2>11, <2>12, <2>13 DEF IInv
<1> QED
  BY <1>6, <1>7

\* The first occurrence of the head is the first position: taking it off the list
\* leaves the tail.
LEMMA RemoveHead ==
    ASSUME NEW S, NEW q \in Seq(S), q # <<>>
    PROVE  RemoveFirst(q, Head(q)) = Tail(q)
<1> DEFINE I == {k \in 1..Len(q) : q[k] = Head(q)}
<1>1. Len(q) \in Nat \ {0} /\ q[1] = Head(q)
  BY EmptySeq
<1>2. 1 \in I /\ \A k \in I : k \in Nat /\ 1 <= k
  BY <1>1
<1>3. Min(I) = 1
  <2>1. \A k \in I : (\A y \in I : k <= y) => k = 1
    BY <1>2
  <2>2. \E k \in I : \A y \in I : k <= y
    BY <1>2
  <2> HIDE DEF I
  <2> QED
    BY <2>1, <2>2 DEF Min
<1>4. SelectInSeq(q, LAMBDA v : v = Head(q)) = 1
  BY <1>2, <1>3 DEF SelectInSeq
<1>5. RemoveFirst(q, Head(q)) = RemoveAt(q, 1)
  BY <1>1, <1>4 DEF RemoveFirst
<1>6. RemoveAt(q, 1) = SubSeq(q, 1, 0) \o SubSeq(q, 2, Len(q))
  BY <1>1 DEF RemoveAt
<1>7. SubSeq(q, 1, 0) = <<>> /\ SubSeq(q, 2, Len(q)) = Tail(q) /\ Tail(q) \in Seq(S)
  BY SubSeqEmpty, TailIsSubSeq, HeadTailProperties
<1> QED
  BY <1>5, <1>6, <1>7, ConcatEmptySeq

\* uhc_xfer_return takes the head off the list.
LEMMA ReturnInv == ASSUME IInv, UhcXferReturn PROVE IInv'
<1>1. /\ pc = "return" /\ pc' = "free"
      /\ owner' = [owner EXCEPT ![xfer] = "app"]
      /\ result' = [result EXCEPT ![xfer] = err]
      /\ UNCHANGED <<picoVars, line, stage, acked, inflight, last_root_event,
                     apiVars, phase, pending, cur, xfer, err>>
  BY DEF UhcXferReturn
<1>2. /\ xfer \in Xfers /\ inflight[cur].xfer = xfer /\ cur \in Slots
      /\ queue \in Seq(Xfers) /\ queue # <<>> /\ xfer = Head(queue)
  BY <1>1 DEF IInv, SlotInv, TypeOK
<1>3. queue' = Tail(queue)
  BY <1>2, RemoveHead DEF UhcXferReturn
<1>4. /\ queue' \in Seq(Xfers) /\ Len(queue) \in Nat \ {0}
      /\ Len(queue') = Len(queue) - 1
      /\ \A k \in 1..Len(queue') : queue'[k] = queue[k + 1]
      /\ queue[1] = xfer
  BY <1>2, <1>3, HeadTailProperties, EmptySeq
<1>5. TypeOK'
  BY <1>1, <1>2, <1>4 DEF IInv, TypeOK, PCs, Errors
<1>6. PhaseInv'
  BY <1>1 DEF IInv, PhaseInv
<1>7. QueueInv'
  <2>1. \A j, k \in 1..Len(queue) : queue[j] = queue[k] => j = k
    BY DEF IInv, QueueInv
  <2>2. \A j, k \in 1..Len(queue') : queue'[j] = queue'[k] => j = k
    <3> SUFFICES ASSUME NEW j \in 1..Len(queue'), NEW k \in 1..Len(queue'),
                        queue'[j] = queue'[k]
                 PROVE  j = k
      OBVIOUS
    <3>1. j + 1 \in 1..Len(queue) /\ k + 1 \in 1..Len(queue)
      BY <1>4
    <3>2. queue[j + 1] = queue[k + 1]
      BY <1>4
    <3> QED
      BY <2>1, <3>1, <3>2
  <2>3. ASSUME NEW x \in Xfers
        PROVE  owner'[x] = "uhc" <=> \E k \in 1..Len(queue') : queue'[k] = x
    <3>1. owner[x] = "uhc" <=> \E k \in 1..Len(queue) : queue[k] = x
      BY DEF IInv, QueueInv
    <3>2. CASE x = xfer
      <4>1. owner'[x] # "uhc"
        BY <1>1, <3>2 DEF IInv, TypeOK
      <4>2. ASSUME NEW k \in 1..Len(queue') PROVE queue'[k] # x
        <5>1. k + 1 \in 1..Len(queue) /\ 1 \in 1..Len(queue) /\ k + 1 # 1
          BY <1>4
        <5> QED
          BY <1>4, <2>1, <3>2, <5>1
      <4> QED
        BY <4>1, <4>2
    <3>3. CASE x # xfer
      <4>1. owner'[x] = owner[x]
        BY <1>1, <3>3 DEF IInv, TypeOK
      <4>2. (\E k \in 1..Len(queue) : queue[k] = x)
              <=> \E k \in 1..Len(queue') : queue'[k] = x
        <5>1. ASSUME NEW k \in 1..Len(queue), queue[k] = x
              PROVE  k - 1 \in 1..Len(queue') /\ queue'[k - 1] = x
          BY <1>4, <3>3, <5>1
        <5>2. ASSUME NEW k \in 1..Len(queue'), queue'[k] = x
              PROVE  k + 1 \in 1..Len(queue) /\ queue[k + 1] = x
          BY <1>4, <5>2
        <5> QED
          BY <5>1, <5>2
      <4> QED
        BY <3>1, <4>1, <4>2
    <3> QED
      BY <3>2, <3>3
  <2> QED
    BY <2>2, <2>3 DEF QueueInv
<1>8. SlotInv'
  <2>1. \A s \in Occupied : s = cur
    <3>1. cur \in Occupied
      BY <1>2, NoXferAssumption DEF Occupied
    <3> QED
      BY <3>1 DEF IInv, SlotInv, OneInFlight
  <2> QED
    BY <1>1, <1>2, <2>1, Derived DEF IInv, SlotInv, OneInFlight, HeadOnlyInFlight
<1>9. WireInv' /\ RootInv'
  BY <1>1, Derived DEF IInv, WireInv, RootInv
<1>10. EventInv'
  BY <1>1, Derived DEF IInv, EventInv, Regs
<1> QED
  BY <1>5, <1>6, <1>7, <1>8, <1>9, <1>10 DEF IInv

\* slot_free empties the only occupied slot.
LEMMA FreeInv == ASSUME IInv, SlotFree PROVE IInv'
<1>1. /\ pc = "free" /\ pc' = AfterFree /\ LetGo
      /\ inflight' = [inflight EXCEPT ![cur] = EmptySlot]
      /\ err' \in {err, "OK"}
      /\ UNCHANGED <<picoVars, line, xferVars, last_root_event, apiVars, phase,
                     pending>>
  BY DEF SlotFree
<1>2. cur \in Slots /\ Busy(pool) = {} /\ \A s \in Occupied : s = cur
  BY <1>1 DEF IInv, SlotInv, WireInv, TypeOK
<1>3. \A s \in Slots : inflight'[s] = EmptySlot
  <2>1. ASSUME NEW s \in Slots, s # cur PROVE inflight[s] = EmptySlot
    BY <1>2, <2>1 DEF IInv, SlotInv, Occupied
  <2> QED
    BY <1>1, <1>2, <2>1 DEF IInv, TypeOK
<1>4. EmptySlot \in InflightSlots /\ EmptySlot.xfer = NoXfer
  BY DEF EmptySlot, InflightSlots, DevAddrs, EpAddrs
<1>5. TypeOK'
  <2>1. inflight' \in [Slots -> InflightSlots]
    BY <1>1, <1>4 DEF IInv, TypeOK
  <2>2. cur' \in Slots /\ xfer' = NoXfer /\ pc' \in PCs
    BY <1>1, SlotAssumption DEF LetGo, Slots, AfterFree, PCs
  <2> QED
    BY <1>1, <2>1, <2>2 DEF IInv, TypeOK, Errors
<1>6. /\ pc' \in {"flush", "frame", "bits"}
      /\ pc' = "flush" <=> phase = "flush"
      /\ pc' = "frame" <=> phase = "pump"
      /\ pc' = "bits" <=> phase \in Regs
  BY <1>1 DEF AfterFree, IInv, TypeOK, Phases, Regs
<1>7. PhaseInv' /\ QueueInv'
  BY <1>1, <1>6 DEF IInv, PhaseInv, QueueInv, Regs
<1>8. Occupied' = {}
  BY <1>3, <1>4 DEF Occupied
<1>9. SlotInv'
  BY <1>3, <1>6, <1>8 DEF SlotInv, OneInFlight, HeadOnlyInFlight
<1>10. WireInv' /\ RootInv'
  BY <1>1, <1>2, <1>6, Derived DEF IInv, WireInv, RootInv
<1>11. EventInv'
  BY <1>1, <1>6, Derived DEF IInv, EventInv, Regs
<1> QED
  BY <1>5, <1>7, <1>9, <1>10, <1>11 DEF IInv

\* The pump occupies a slot for the head only when no other is occupied.
LEMMA PumpInv == ASSUME IInv, PumpHead \/ PumpNothing PROVE IInv'
<1>1. CASE PumpNothing
  <2>1. /\ UNCHANGED <<picoVars, line, xferVars, inflight, last_root_event, apiVars,
                       phase, pending, cur, xfer, err>>
        /\ pc = "pump" /\ pc' = "frame" /\ phase = "pump"
    BY <1>1 DEF IInv, PhaseInv, PumpNothing
  <2>2. TypeOK' /\ PhaseInv' /\ QueueInv'
    BY <2>1 DEF IInv, TypeOK, PCs, PhaseInv, QueueInv
  <2>3. SlotInv' /\ WireInv' /\ RootInv'
    BY <2>1, Derived
    DEF IInv, SlotInv, OneInFlight, HeadOnlyInFlight, WireInv, RootInv
  <2>4. EventInv'
    BY <2>1, Derived DEF IInv, EventInv, Regs
  <2> QED
    BY <2>2, <2>3, <2>4 DEF IInv
<1>2. CASE PumpHead
  <2> DEFINE x == Head(queue)
  <2>1. /\ UNCHANGED <<picoVars, line, xferVars, last_root_event, apiVars, phase,
                       pending, err>>
        /\ pc = "pump" /\ pc' = "kick" /\ phase = "pump" /\ queue # <<>> /\ xfer' = x
    BY <1>2 DEF IInv, PhaseInv, PumpHead
  <2>2. PICK s \in KickSlots(x) :
            /\ cur' = s
            /\ inflight' = IF SlotFor(x) # {} THEN inflight ELSE SlotAlloc(s, x)
    BY <1>2 DEF PumpHead
  <2>3. x \in Xfers /\ Addr[x] \in DevAddrs /\ Ep[x] \in EpAddrs
    BY <2>1, HeadTailProperties, XferAssumption DEF IInv, TypeOK
  <2>4. s \in Slots
    BY <2>2 DEF KickSlots, SlotFor, First, Vacant
  <2>5. \A t \in Occupied : inflight[t].xfer = x
    BY <2>1 DEF IInv, SlotInv, HeadOnlyInFlight
  <2>6. Events = {}
    BY <2>1 DEF IInv, EventInv
  <2>7. CASE SlotFor(x) # {}
    <3>1. /\ inflight[s].xfer = x /\ ~inflight[s].started
          /\ UNCHANGED inflight /\ s \in Occupied
      BY <2>2, <2>3, <2>4, <2>7, NoXferAssumption DEF KickSlots, SlotFor, First, Occupied
    <3>2. Busy(pool) = {}
      BY <3>1 DEF IInv, WireInv, SlotInv, OneInFlight
    <3>3. TypeOK' /\ PhaseInv' /\ QueueInv'
      BY <2>1, <2>2, <2>3, <2>4, <3>1 DEF IInv, TypeOK, PCs, PhaseInv, QueueInv
    <3>4. SlotInv'
      BY <2>1, <2>2, <2>3, <3>1, Derived
      DEF IInv, SlotInv, OneInFlight, HeadOnlyInFlight
    <3>5. WireInv' /\ RootInv'
      BY <2>1, <3>2, <3>1, Derived DEF IInv, WireInv, RootInv
    <3>6. EventInv'
      BY <2>1, <2>6, Derived DEF IInv, EventInv, Regs
    <3> QED
      BY <3>3, <3>4, <3>5, <3>6 DEF IInv
  <2>8. CASE SlotFor(x) = {}
    <3> DEFINE e == [EmptySlot EXCEPT !.xfer = x, !.dev_addr = Addr[x], !.ep_addr = Ep[x]]
    <3>1. e \in InflightSlots /\ e.xfer = x
      BY <2>3 DEF EmptySlot, InflightSlots
    <3>2. inflight' = [inflight EXCEPT ![s] = e]
      BY <2>2, <2>8 DEF SlotAlloc
    <3> HIDE DEF e
    <3>3. /\ inflight' \in [Slots -> InflightSlots]
          /\ \A t \in Slots : inflight'[t] = IF t = s THEN e ELSE inflight[t]
      BY <2>4, <3>1, <3>2 DEF IInv, TypeOK
    <3>4. Occupied = {}
      <4> SUFFICES ASSUME NEW t \in Occupied PROVE FALSE
        OBVIOUS
      <4>1. t \in {u \in Slots : inflight[u].xfer = x}
        BY <2>5 DEF Occupied
      <4>2. First({u \in Slots : inflight[u].xfer = x}) # {}
        <5>1. {u \in Slots : inflight[u].xfer = x} = {t}
          BY <2>3, <4>1, NoXferAssumption DEF IInv, SlotInv, OneInFlight, Occupied
        <5>2. t <= t
          BY <4>1 DEF Slots
        <5> QED
          BY <5>1, <5>2 DEF First
      <4> QED
        BY <2>8, <4>2 DEF SlotFor
    <3>5. Busy(pool) = {}
      BY <3>4 DEF IInv, WireInv
    <3>6. TypeOK' /\ PhaseInv' /\ QueueInv'
      BY <2>1, <2>2, <2>3, <2>4, <3>3 DEF IInv, TypeOK, PCs, PhaseInv, QueueInv
    <3>7. \A t \in Occupied' : t = s
      BY <3>3, <3>4 DEF Occupied
    <3>8. SlotInv'
      BY <2>1, <2>2, <2>3, <2>4, <3>1, <3>3, <3>7, NoXferAssumption
      DEF IInv, SlotInv, OneInFlight, HeadOnlyInFlight
    <3>9. WireInv' /\ RootInv'
      BY <2>1, <3>5, Derived DEF IInv, WireInv, RootInv
    <3>10. EventInv'
      BY <2>1, <2>6, Derived DEF IInv, EventInv, Regs
    <3> QED
      BY <3>6, <3>8, <3>9, <3>10 DEF IInv
  <2> QED
    BY <2>7, <2>8
<1> QED
  BY <1>1, <1>2
-----------------------------------------------------------------------------
(* The callers and the world                                               *)

\* A new transfer goes to the end of the list: the head, if there is one, stays.
LEMMA EnqueueInv == ASSUME IInv, NEW x \in Xfers, EpEnqueue(x) PROVE IInv'
<1>1. /\ owner[x] = "app" /\ queue' = Append(queue, x)
      /\ owner' = [owner EXCEPT ![x] = "uhc"]
      /\ stage' = [stage EXCEPT ![x] = "SETUP"]
      /\ result' = [result EXCEPT ![x] = "none"]
      /\ acked' = [acked EXCEPT ![x] = {}]
      /\ UNCHANGED <<picoVars, line, inflight, last_root_event, apiVars, threadVars>>
  BY DEF EpEnqueue
<1>2. queue \in Seq(Xfers) /\ Len(queue) \in Nat
  BY DEF IInv, TypeOK
<1>3. /\ queue' \in Seq(Xfers) /\ queue' # <<>> /\ Len(queue') = Len(queue) + 1
      /\ \A k \in 1..Len(queue) : queue'[k] = queue[k]
      /\ queue'[Len(queue) + 1] = x
  BY <1>1, <1>2, AppendProperties
<1>4. queue # <<>> => Head(queue') = Head(queue)
  BY <1>1, <1>2, HeadTailAppend
<1>5. TypeOK'
  BY <1>1, <1>3 DEF IInv, TypeOK, Stages
<1>6. QueueInv'
  <2>1. \A k \in 1..Len(queue) : queue[k] # x
    BY <1>1 DEF IInv, QueueInv
  <2>2. \A k \in 1..Len(queue') : k \in 1..Len(queue) \/ k = Len(queue) + 1
    BY <1>2, <1>3
  <2>3. \A j, k \in 1..Len(queue') : queue'[j] = queue'[k] => j = k
    BY <1>3, <2>1, <2>2 DEF IInv, QueueInv
  <2>4. ASSUME NEW y \in Xfers
        PROVE  owner'[y] = "uhc" <=> \E k \in 1..Len(queue') : queue'[k] = y
    <3>1. owner'[y] = IF y = x THEN "uhc" ELSE owner[y]
      BY <1>1 DEF IInv, TypeOK
    <3>2. Len(queue) + 1 \in 1..Len(queue') /\ 1..Len(queue) \subseteq 1..Len(queue')
      BY <1>2, <1>3
    <3>3. owner[y] = "uhc" <=> \E k \in 1..Len(queue) : queue[k] = y
      BY DEF IInv, QueueInv
    <3>4. CASE y = x
      BY <1>3, <3>1, <3>2, <3>4
    <3>5. CASE y # x
      <4>1. (\E k \in 1..Len(queue) : queue[k] = y)
              <=> \E k \in 1..Len(queue') : queue'[k] = y
        BY <1>3, <2>2, <3>2, <3>5
      <4> QED
        BY <3>1, <3>3, <3>5, <4>1
    <3> QED
      BY <3>4, <3>5
  <2> QED
    BY <2>3, <2>4 DEF QueueInv
<1>7. SlotInv'
  BY <1>1, <1>3, <1>4, Derived DEF IInv, SlotInv, OneInFlight, HeadOnlyInFlight
<1>8. PhaseInv' /\ WireInv' /\ RootInv'
  BY <1>1, Derived DEF IInv, PhaseInv, WireInv, RootInv
<1>9. EventInv'
  BY <1>1, Derived DEF IInv, EventInv, Regs
<1> QED
  BY <1>5, <1>6, <1>7, <1>8, <1>9 DEF IInv

\* Steps that touch only the port's suspension, the line and the enabled and
\* resetting flags keep the invariant.
LEMMA QuietInv ==
    ASSUME IInv, TypeOK', root'.event = root.event,
           UNCHANGED <<pool, bits, queue, owner, inflight, last_root_event, threadVars>>
    PROVE  IInv'
<1>1. PhaseInv' /\ QueueInv'
  BY DEF IInv, PhaseInv, QueueInv
<1>2. SlotInv' /\ WireInv' /\ RootInv'
  BY Derived DEF IInv, SlotInv, OneInFlight, HeadOnlyInFlight, WireInv, RootInv
<1>3. EventInv'
  BY Derived DEF IInv, EventInv, Regs
<1> QED
  BY <1>1, <1>2, <1>3 DEF IInv

\* Suspending and resuming the port touch nothing the invariant speaks of.
LEMMA SuspendedInv ==
    ASSUME IInv, NEW on \in BOOLEAN, SetSuspended(on), resetting' \in BOOLEAN
    PROVE  IInv'
<1>1. /\ UNCHANGED <<pool, bits, line, xferVars, inflight, last_root_event, enabled,
                     threadVars>>
      /\ root' = [root EXCEPT !.suspended = on]
  BY DEF SetSuspended
<1>2. /\ root' \in [connected : BOOLEAN, suspended : BOOLEAN, event : RootEvents]
      /\ root'.event = root.event
  BY <1>1 DEF IInv, TypeOK
<1>3. TypeOK'
  BY <1>1, <1>2 DEF IInv, TypeOK
<1> QED
  BY <1>1, <1>2, <1>3, QuietInv

\* No API call of another thread breaks the invariant, wherever the driver thread is.
LEMMA ApiInv == ASSUME IInv, Api \/ Replug PROVE IInv'
<1>1. ASSUME NEW x \in Xfers, EpEnqueue(x) PROVE IInv'
  BY <1>1, EnqueueInv
<1>2. ASSUME NEW on \in BOOLEAN, SetEnabled(on) PROVE IInv'
  <2>1. TypeOK' /\ UNCHANGED <<picoVars, line, xferVars, inflight, last_root_event, threadVars>>
    BY <1>2 DEF SetEnabled, IInv, TypeOK
  <2> QED
    BY <2>1, QuietInv
<1>3. CASE BusSuspend \/ BusResume \/ BusResetStart \/ BusResetEnd
  <2>1. resetting' \in BOOLEAN /\ \E on \in BOOLEAN : SetSuspended(on)
    BY <1>3 DEF BusSuspend, BusResume, BusResetStart, BusResetEnd, IInv, TypeOK
  <2> QED
    BY <2>1, SuspendedInv
<1>4. CASE Replug
  <2>1. TypeOK' /\ UNCHANGED <<picoVars, xferVars, inflight, last_root_event, threadVars>>
    BY <1>4 DEF Replug, IInv, TypeOK
  <2> QED
    BY <2>1, QuietInv
<1> QED
  BY <1>1, <1>2, <1>3, <1>4 DEF Api, Enable, Disable
-----------------------------------------------------------------------------
(* The theorems                                                            *)

\* Every step of the driver, its callers and the bus keeps the invariant.
LEMMA StepInv == IInv /\ [Next]_vars => IInv'
<1> SUFFICES ASSUME IInv, [Next]_vars PROVE IInv'
  OBVIOUS
<1>1. CASE Frame
  BY <1>1, FrameInv
<1>2. CASE ThreadStep
  BY <1>2, SurfaceInv, FlushInv, LoadInv, SkipInv, FinishInv, AdvanceInv,
     DrainDoneInv, KickInv, ReturnInv, FreeInv, PumpInv DEF ThreadStep
<1>3. CASE Api \/ Replug
  BY <1>3, ApiInv
<1>4. CASE UNCHANGED vars
  <2>1. TypeOK'
    BY <1>4 DEF vars, IInv, TypeOK
  <2> QED
    BY <1>4, <2>1, QuietInv DEF vars
<1> QED
  BY <1>1, <1>2, <1>3, <1>4 DEF Next

\* The strengthened invariant: one transfer in flight, one transaction on the
\* wire, one event on its way from the frame to the drain pass.
THEOREM Invariance == Spec => []IInv
BY InitInv, StepInv, PTL DEF Spec

\* Every variable keeps the type its C declaration gives it.
THEOREM TypeCorrect == Spec => []TypeOK
<1>1. IInv => TypeOK
  BY DEF IInv
<1> QED
  BY <1>1, Invariance, PTL

\* What is on the wire belongs to the head of the list.
LEMMA WireIsOwned == IInv => BufferHeldWhileOnWire
<1> SUFFICES ASSUME IInv, NEW i \in Busy(pool)
             PROVE  pool[i].xact.xfer \in Xfers /\ owner[pool[i].xact.xfer] = "uhc"
  BY DEF BufferHeldWhileOnWire
<1>1. PICK s \in Occupied : inflight[s].xfer = pool[i].xact.xfer
  BY DEF IInv, WireInv
<1>2. pc # "free"
  BY DEF IInv, WireInv
<1>3. queue # <<>> /\ inflight[s].xfer = Head(queue)
  BY <1>1, <1>2 DEF IInv, SlotInv, HeadOnlyInFlight
<1>4. /\ Head(queue) \in Xfers /\ Len(queue) \in Nat \ {0}
      /\ queue[1] = Head(queue)
  BY <1>3, HeadTailProperties, EmptySeq DEF IInv, TypeOK
<1> QED
  BY <1>1, <1>3, <1>4 DEF IInv, QueueInv

\* The library never holds a transfer that uhc_xfer_return has given back.
THEOREM BufferSafety == Spec => []BufferHeldWhileOnWire
BY WireIsOwned, Invariance, PTL

\* The transfer list and the slot table agree in every state: at most one slot is
\* occupied, by the head of the list or by the transfer being freed.
THEOREM ListAndTableAgree == Spec => []ListMatchesTable
<1>1. IInv => ListMatchesTable
  BY DEF IInv, SlotInv, ListMatchesTable
<1> QED
  BY <1>1, Invariance, PTL

\* uhc_xfer_return only ever unlinks a transfer that is on the list.
THEOREM ReturnIsLinked == Spec => []ReturnOnlyQueued
<1>1. IInv => ReturnOnlyQueued
  <2> SUFFICES ASSUME IInv, pc = "return" PROVE xfer \in Range(queue)
    BY DEF ReturnOnlyQueued
  <2>1. queue \in Seq(Xfers) /\ queue # <<>> /\ xfer = Head(queue)
    BY DEF IInv, SlotInv, TypeOK
  <2>2. queue[1] = Head(queue) /\ 1 \in DOMAIN queue
    BY <2>1, EmptySeq
  <2> QED
    BY <2>1, <2>2 DEF Range
<1> QED
  BY <1>1, Invariance, PTL
=============================================================================
