-------------------------- MODULE UhcDequeue_proofs --------------------------
(***************************************************************************)
(* Proofs about UhcDequeue, for any instance and either order of           *)
(* priorities: although a dequeue wipes a slot under the driver thread,    *)
(* every variable keeps its type, what the thread returns is on the list,  *)
(* and an abort finds the endpoint of the transfer its slot holds.         *)
(***************************************************************************)
EXTENDS UhcDequeue, UhcTransferService_proofs

USE DEF picoVars, xferVars, apiVars, threadVars

\* What is left of the driver's invariant when slots may be wiped at any step: the
\* loops, and a transfer in hand where one is needed.
DqInv ==
    /\ DqTypeOK
    /\ PhaseInv
    /\ pc \in {"kick", "return", "free"} => xfer \in Xfers
    /\ dq.step # "idle" => dq.xfer \in Xfers

\* Taking an element off a list, wherever it is: what follows moves up by one.
LEMMA Removed ==
    ASSUME NEW S, NEW q \in Seq(S), NEW x, \E i \in 1..Len(q) : q[i] = x
    PROVE  \E m \in 1..Len(q) :
              /\ q[m] = x /\ RemoveFirst(q, x) \in Seq(S)
              /\ Len(RemoveFirst(q, x)) = Len(q) - 1
              /\ \A i \in 1..(Len(q) - 1) :
                    RemoveFirst(q, x)[i] = IF i < m THEN q[i] ELSE q[i + 1]
<1> DEFINE I == {k \in 1..Len(q) : q[k] = x}
<1>1. Len(q) \in Nat /\ I \subseteq 1..Len(q) /\ I \in SUBSET Nat /\ I # {}
  BY LenProperties
<1>2. \E k \in I : \A j \in I : k <= j
  BY <1>1, Lowest
<1> HIDE DEF I
<1>3. PICK m \in I : m = Min(I)
  BY <1>2 DEF Min
<1>4. SelectInSeq(q, LAMBDA v : v = x) = m
  BY <1>1, <1>3 DEF SelectInSeq, I
<1>5. RemoveFirst(q, x) = RemoveAt(q, m)
  BY <1>1, <1>4 DEF RemoveFirst, I
<1>6. m \in 1..Len(q) /\ q[m] = x
  BY <1>1, <1>3 DEF I
<1> DEFINE A == SubSeq(q, 1, m - 1)
           B == SubSeq(q, m + 1, Len(q))
<1>7. /\ A \in Seq(S) /\ Len(A) = m - 1 /\ \A i \in 1..(m - 1) : A[i] = q[i]
      /\ B \in Seq(S) /\ Len(B) = Len(q) - m
      /\ \A i \in 1..(Len(q) - m) : B[i] = q[m + i]
  BY <1>1, <1>6, SubSeqProperties
<1>8. RemoveFirst(q, x) = A \o B
  BY <1>5 DEF RemoveAt
<1> HIDE DEF A, B
<1>9. /\ A \o B \in Seq(S) /\ Len(A \o B) = Len(q) - 1
      /\ \A i \in 1..(Len(q) - 1) :
            (A \o B)[i] = IF i <= m - 1 THEN A[i] ELSE B[i - (m - 1)]
  <2>1. /\ A \o B \in Seq(S) /\ Len(A \o B) = Len(A) + Len(B)
        /\ \A i \in 1..(Len(A) + Len(B)) :
              (A \o B)[i] = IF i <= Len(A) THEN A[i] ELSE B[i - Len(A)]
    BY <1>7, ConcatProperties
  <2>2. Len(A) + Len(B) = Len(q) - 1
    BY <1>1, <1>6, <1>7
  <2> QED
    BY <1>7, <2>1, <2>2
<1>10. ASSUME NEW i \in 1..(Len(q) - 1)
       PROVE  (A \o B)[i] = IF i < m THEN q[i] ELSE q[i + 1]
  <2>1. CASE i < m
    BY <1>1, <1>6, <1>7, <1>9, <2>1
  <2>2. CASE ~(i < m)
    <3> DEFINE n == Len(q)
    <3>0. n \in Nat /\ m \in 1..n /\ i \in 1..(n - 1) /\ ~(i < m)
      BY <1>1, <1>6, <2>2
    <3> HIDE DEF n
    <3>1. i - (m - 1) \in 1..(n - m) /\ m + (i - (m - 1)) = i + 1
      BY <3>0
    <3> USE DEF n
    <3>2. (A \o B)[i] = B[i - (m - 1)]
      <4>1. i \in 1..(n - 1) /\ ~(i <= m - 1)
        BY <3>0
      <4> QED
        BY <1>9, <4>1
    <3> QED
      BY <1>7, <2>2, <3>1, <3>2
  <2> QED
    BY <2>1, <2>2
<1> QED
  BY <1>6, <1>8, <1>9, <1>10

\* It leaves a list.
LEMMA RemoveTyped ==
    ASSUME NEW S, NEW q \in Seq(S), NEW x PROVE RemoveFirst(q, x) \in Seq(S)
<1>1. CASE \E i \in 1..Len(q) : q[i] = x
  BY <1>1, Removed
<1>2. CASE ~ \E i \in 1..Len(q) : q[i] = x
  BY <1>2 DEF RemoveFirst
<1> QED
  BY <1>1, <1>2

\* It takes off nothing else and adds nothing.
LEMMA RemoveRange ==
    ASSUME NEW S, NEW q \in Seq(S), NEW x
    PROVE  /\ Range(RemoveFirst(q, x)) \subseteq Range(q)
           /\ \A y \in Range(q) : y # x => y \in Range(RemoveFirst(q, x))
<1>1. CASE \E i \in 1..Len(q) : q[i] = x
  <2> DEFINE r == RemoveFirst(q, x)
  <2>1. PICK m \in 1..Len(q) :
            /\ q[m] = x /\ r \in Seq(S) /\ Len(r) = Len(q) - 1
            /\ \A i \in 1..(Len(q) - 1) : r[i] = IF i < m THEN q[i] ELSE q[i + 1]
    BY <1>1, Removed
  <2> HIDE DEF r
  <2>2. Len(q) \in Nat /\ DOMAIN q = 1..Len(q) /\ DOMAIN r = 1..(Len(q) - 1)
    BY <2>1, LenProperties
  <2>3. ASSUME NEW i \in 1..(Len(q) - 1) PROVE \E k \in 1..Len(q) : r[i] = q[k]
    <3>1. i \in 1..Len(q) /\ i + 1 \in 1..Len(q)
      BY <2>2
    <3> QED
      BY <2>1, <3>1
  <2>4. ASSUME NEW k \in 1..Len(q), q[k] # x
        PROVE  \E i \in 1..(Len(q) - 1) : r[i] = q[k]
    <3>1. CASE k < m
      <4>1. k \in 1..(Len(q) - 1)
        BY <2>1, <2>2, <3>1
      <4> QED
        BY <2>1, <3>1, <4>1
    <3>2. CASE k > m
      <4>1. k - 1 \in 1..(Len(q) - 1) /\ ~(k - 1 < m) /\ (k - 1) + 1 = k
        BY <2>1, <2>2, <3>2
      <4> QED
        BY <2>1, <4>1
    <3> QED
      BY <2>1, <2>2, <2>4, <3>1, <3>2
  <2>5. Range(r) = {r[i] : i \in 1..(Len(q) - 1)} /\ Range(q) = {q[k] : k \in 1..Len(q)}
    BY <2>2 DEF Range
  <2>6. Range(r) \subseteq Range(q) /\ \A y \in Range(q) : y # x => y \in Range(r)
    BY <2>3, <2>4, <2>5
  <2> QED
    BY <2>6 DEF r
<1>2. CASE ~ \E i \in 1..Len(q) : q[i] = x
  BY <1>2 DEF RemoveFirst
<1> QED
  BY <1>1, <1>2

\* The part of it about the driver alone, which the driver's own steps keep.
LoopInv == TypeOK /\ PhaseInv /\ (pc \in {"kick", "return", "free"} => xfer \in Xfers)

LEMMA LoopFrame == ASSUME LoopInv, Frame PROVE LoopInv'
<1>1. /\ pc = "frame" /\ pc' = "surface" /\ phase = "pump"
      /\ UNCHANGED <<line, queue, owner, stage, result, inflight, last_root_event,
                     apiVars, phase, pending, cur, xfer, err>>
  BY DEF Frame, FrameTransacts, FrameDisconnects, FrameConnects, FrameIdles, FrameStarts,
     FrameEnds, LoopInv, PhaseInv
<1>2. /\ pool \in [Pool -> Endpoints] /\ bits \in [Regs -> SUBSET Pool]
      /\ acked \in [Xfers -> SUBSET Stages]
      /\ root \in [connected : BOOLEAN, suspended : BOOLEAN, event : RootEvents]
      /\ line \in BOOLEAN
  BY DEF LoopInv, TypeOK
<1>3. pool' \in [Pool -> Endpoints]
  <2>1. ASSUME NEW D, pool' = Complete(pool, D) PROVE pool' \in [Pool -> Endpoints]
    BY <1>2, <2>1, CompleteRetires
  <2>2. CASE \E answer \in Answers : FrameTransacts(answer)
    BY <2>1, <2>2 DEF FrameTransacts
  <2>3. CASE FrameDisconnects
    BY <2>1, <2>3 DEF FrameDisconnects
  <2>4. CASE FrameConnects \/ FrameIdles
    BY <1>2, <2>4 DEF FrameConnects, FrameIdles
  <2> QED
    BY <2>2, <2>3, <2>4 DEF Frame
<1>4. /\ bits' \in [Regs -> SUBSET Pool]
      /\ root' \in [connected : BOOLEAN, suspended : BOOLEAN, event : RootEvents]
  <2>1. ASSUME NEW b \in [Regs -> SUBSET Pool], NEW c \in BOOLEAN, NEW s \in BOOLEAN,
               NEW ints, FrameEnds(b, c, s, ints)
        PROVE  /\ bits' \in [Regs -> SUBSET Pool]
               /\ root' \in [connected : BOOLEAN, suspended : BOOLEAN, event : RootEvents]
    BY <1>2, <2>1 DEF FrameEnds, IrqHandler, RootEvents
  <2>2. ASSUME NEW answer \in Answers, FrameTransacts(answer)
        PROVE  /\ bits' \in [Regs -> SUBSET Pool]
               /\ root' \in [connected : BOOLEAN, suspended : BOOLEAN, event : RootEvents]
    <3> DEFINE done == {i \in Busy(pool) : answer[i] # "none"}
               b == [r \in Regs |-> bits[r] \cup {i \in done : answer[i] = r}]
    <3>1. b \in [Regs -> SUBSET Pool]
      BY <1>2 DEF Busy
    <3>2. FrameEnds(b, TRUE, FALSE, {})
      BY <2>2 DEF FrameTransacts
    <3> HIDE DEF b
    <3> QED
      BY <2>1, <3>1, <3>2
  <2>3. CASE FrameDisconnects
    <3> DEFINE b == [bits EXCEPT !["error"] = @ \cup Busy(pool)]
               ints == IF line THEN {"disconnect", "connect"} ELSE {"disconnect"}
    <3>1. b \in [Regs -> SUBSET Pool]
      BY <1>2 DEF Busy
    <3>2. FrameEnds(b, line, TRUE, ints)
      BY <2>3 DEF FrameDisconnects
    <3> HIDE DEF b, ints
    <3> QED
      BY <1>2, <2>1, <3>1, <3>2
  <2>4. CASE FrameConnects
    <3>1. FrameEnds(bits, TRUE, TRUE, {"connect"})
      BY <2>4 DEF FrameConnects
    <3> QED
      BY <1>2, <2>1, <3>1
  <2>5. CASE FrameIdles
    <3>1. FrameEnds(bits, root.connected, root.suspended, {})
      BY <2>5 DEF FrameIdles
    <3>2. root.connected \in BOOLEAN /\ root.suspended \in BOOLEAN
      BY <1>2
    <3> QED
      BY <1>2, <2>1, <3>1, <3>2
  <2> QED
    BY <2>2, <2>3, <2>4, <2>5 DEF Frame
<1>5. acked' \in [Xfers -> SUBSET Stages]
  <2>1. \A i \in Busy(pool) : pool[i].xact.stage \in Stages
    BY <1>2 DEF Busy, Endpoints, Transactions
  <2>2. ASSUME NEW ok \in SUBSET Busy(pool), NEW x \in Xfers
        PROVE  acked[x] \cup {pool[i].xact.stage : i \in {j \in ok : pool[j].xact.xfer = x}}
                   \in SUBSET Stages
    BY <1>2, <2>1
  <2>3. ASSUME NEW answer \in Answers, FrameTransacts(answer)
        PROVE  acked' \in [Xfers -> SUBSET Stages]
    <3> DEFINE ok == {i \in Busy(pool) : answer[i] = "complete"}
    <3>1. acked' = [x \in Xfers |-> acked[x] \cup
                       {pool[i].xact.stage : i \in {j \in ok : pool[j].xact.xfer = x}}]
      BY <2>3 DEF FrameTransacts
    <3>2. ok \in SUBSET Busy(pool)
      OBVIOUS
    <3> HIDE DEF ok
    <3> QED
      BY <2>2, <3>1, <3>2
  <2> QED
    BY <1>2, <2>3 DEF Frame, FrameDisconnects, FrameConnects, FrameIdles
<1> QED
  BY <1>1, <1>3, <1>4, <1>5 DEF LoopInv, TypeOK, PhaseInv, PCs

\* The thread's loops, wherever the slot they look at has gone.
LEMMA LoopPasses ==
    ASSUME LoopInv, SurfaceRootEvents \/ FlushDone \/ LoadBits \/ SkipBit \/ DrainDone
                    \/ PumpNothing
    PROVE  LoopInv'
<1>1. CASE SurfaceRootEvents
  <2>1. root.event \in RootEvents
    BY DEF LoopInv, TypeOK
  <2> QED
    BY <1>1, <2>1 DEF SurfaceRootEvents, LoopInv, TypeOK, PhaseInv, PCs, Phases, Regs
<1>2. CASE FlushDone \/ PumpNothing
  BY <1>2 DEF FlushDone, PumpNothing, LoopInv, TypeOK, PhaseInv, PCs, Phases, Regs
<1>3. CASE LoadBits
  <2>1. pc = "load" /\ phase \in Regs /\ bits \in [Regs -> SUBSET Pool]
    BY <1>3 DEF LoadBits, LoopInv, TypeOK, PhaseInv
  <2>2. /\ bits' \in [Regs -> SUBSET Pool] /\ pending' \in SUBSET Pool
        /\ err' \in Errors
    BY <1>3, <2>1 DEF LoadBits, RegError, Regs, Errors
  <2> QED
    BY <1>3, <2>1, <2>2 DEF LoadBits, LoopInv, TypeOK, PhaseInv, PCs
<1>4. CASE SkipBit
  BY <1>4 DEF SkipBit, LoopInv, TypeOK, PhaseInv
<1>5. CASE DrainDone
  BY <1>5 DEF DrainDone, LoopInv, TypeOK, PhaseInv, PCs, Phases, Regs, NextReg, Errors
<1> QED
  BY <1>1, <1>2, <1>3, <1>4, <1>5

\* Steps that take a slot, its transfer, or let both go.
LEMMA LoopSlots ==
    ASSUME LoopInv, FlushSlot \/ FinishXfer \/ AdvanceStage \/ UhcXferReturn \/ SlotFree
    PROVE  LoopInv'
<1>1. \A s \in Occupied : s \in Slots /\ inflight[s].xfer \in Xfers
  BY DEF Occupied, LoopInv, TypeOK, InflightSlots
<1>2. CASE FlushSlot
  <2>1. cur' \in Slots /\ xfer' \in Xfers
    BY <1>1, <1>2 DEF FlushSlot, First
  <2> QED
    BY <1>2, <2>1 DEF FlushSlot, LoopInv, TypeOK, PhaseInv, PCs, Errors, Phases
<1>3. CASE FinishXfer
  <2>1. cur' \in Slots /\ xfer' \in Xfers /\ pending' \in SUBSET Pool
    BY <1>1, <1>3 DEF FinishXfer, Match, First, LoopInv, TypeOK
  <2> QED
    BY <1>3, <2>1 DEF FinishXfer, LoopInv, TypeOK, PhaseInv, PCs
<1>4. CASE AdvanceStage
  <2>1. PICK s \in Occupied : /\ cur' = s /\ xfer' = inflight[s].xfer
                              /\ stage' = [stage EXCEPT ![xfer'] = NextStage(xfer')]
    BY <1>4 DEF AdvanceStage, Match, First
  <2>2. NextStage(xfer') \in Stages /\ pending' \in SUBSET Pool
    BY <1>4 DEF AdvanceStage, NextStage, Stages, LoopInv, TypeOK
  <2>3. cur' \in Slots /\ xfer' \in Xfers /\ stage' \in [Xfers -> Stages]
    BY <1>1, <2>1, <2>2 DEF LoopInv, TypeOK
  <2>4. phase \in Regs
    BY <1>4 DEF AdvanceStage, LoopInv, PhaseInv
  <2> QED
    BY <1>4, <2>2, <2>3, <2>4 DEF AdvanceStage, LoopInv, TypeOK, PhaseInv, PCs, Regs
<1>5. CASE UhcXferReturn
  <2>1. queue' \in Seq(Xfers)
    BY <1>5, RemoveTyped DEF UhcXferReturn, LoopInv, TypeOK
  <2> QED
    BY <1>5, <2>1 DEF UhcXferReturn, LoopInv, TypeOK, PhaseInv, PCs
<1>6. CASE SlotFree
  <2>1. EmptySlot \in InflightSlots
    BY DEF EmptySlot, InflightSlots, DevAddrs, EpAddrs
  <2>2. /\ inflight' \in [Slots -> InflightSlots] /\ cur' \in Slots /\ xfer' = NoXfer
        /\ pc' \in {"flush", "frame", "bits"}
        /\ pc' = "flush" => phase = "flush"
        /\ pc' = "frame" => phase = "pump"
        /\ pc' = "bits" => phase \in Regs
    BY <1>6, <2>1, SlotAssumption
    DEF SlotFree, LetGo, AfterFree, Slots, LoopInv, TypeOK, Phases, Regs
  <2> QED
    BY <1>6, <2>2 DEF SlotFree, LoopInv, TypeOK, PhaseInv, PCs, Errors
<1> QED
  BY <1>2, <1>3, <1>4, <1>5, <1>6

\* Opening an endpoint leaves a pool of endpoints.
LEMMA OpenedTyped ==
    ASSUME pool \in [Pool -> Endpoints], NEW slot \in InflightSlots, NEW p \in Opened(slot)
    PROVE  p \in [Pool -> Endpoints]
<1>1. CASE slot.open
  BY <1>1 DEF Opened
<1>2. CASE ~slot.open
  <2>1. PICK i \in Pool : p = OpenAt(pool, i, slot.dev_addr, slot.ep_addr)
    BY <1>2 DEF Opened, First, FreeSlots
  <2> DEFINE e == NewEndpoint(slot.dev_addr, slot.ep_addr)
  <2>2. e \in Endpoints
    <3>1. slot.dev_addr \in DevAddrs /\ slot.ep_addr \in EpAddrs
      BY DEF InflightSlots
    <3> QED
      BY <3>1, NewEndpointType
  <2>3. p = [pool EXCEPT ![i] = e]
    BY <2>1, OpenAtIs
  <2> HIDE DEF e
  <2> QED
    BY <2>2, <2>3
<1> QED
  BY <1>1, <1>2

\* So does starting a transaction.
LEMMA StartedTyped ==
    ASSUME NEW p \in [Pool -> Endpoints], NEW i \in Pool,
           NEW ep \in EpAddrs, NEW x \in Xfers, NEW st \in Stages
    PROVE  StartAt(p, i, ep, x, st) \in [Pool -> Endpoints]
<1> DEFINE e == [p[i] EXCEPT !.ep_num = ep, !.has_transfer = TRUE,
                             !.xact = [xfer |-> x, stage |-> st]]
<1>1. p[i] \in Endpoints
  OBVIOUS
<1>2. e \in Endpoints
  BY <1>1 DEF Endpoints, Transactions
<1>3. StartAt(p, i, ep, x, st) = [p EXCEPT ![i] = e]
  BY DEF StartAt
<1> HIDE DEF e
<1> QED
  BY <1>2, <1>3

\* The slot kicked may have been wiped since it was picked: kick_stage opens and starts
\* what it then names.
LEMMA LoopKick == ASSUME LoopInv, KickStage PROVE LoopInv'
<1> DEFINE slot == inflight[cur]
           opened == Opened(slot)
<1>1. /\ pc = "kick" /\ phase \in Regs \cup {"pump"}
      /\ UNCHANGED <<bits, root, line, xferVars, last_root_event, apiVars, phase, pending>>
      /\ xfer \in Xfers /\ cur \in Slots /\ slot \in InflightSlots
      /\ pool \in [Pool -> Endpoints] /\ inflight \in [Slots -> InflightSlots]
      /\ stage \in [Xfers -> Stages]
  BY DEF KickStage, LoopInv, TypeOK, PhaseInv, Phases
<1>2. \A p \in opened : p \in [Pool -> Endpoints]
  BY <1>1, OpenedTyped
<1>3. CASE \A p \in opened : Takers(p, slot, xfer) = {}
  <2>1. /\ err' = "EIO" /\ pc' = "return" /\ UNCHANGED <<cur, xfer>>
        /\ \/ UNCHANGED <<pool, inflight>>
           \/ pool' \in opened /\ inflight' = [inflight EXCEPT ![cur].open = TRUE]
    BY <1>3 DEF KickStage
  <2>2. pool' \in [Pool -> Endpoints] /\ inflight' \in [Slots -> InflightSlots]
    <3>1. [slot EXCEPT !.open = TRUE] \in InflightSlots
      BY <1>1 DEF InflightSlots
    <3> QED
      BY <1>1, <1>2, <2>1, <3>1
  <2> QED
    BY <1>1, <2>1, <2>2 DEF LoopInv, TypeOK, PhaseInv, PCs, Errors
<1>4. CASE ~ \A p \in opened : Takers(p, slot, xfer) = {}
  <2>1. /\ \E p \in opened : \E i \in Takers(p, slot, xfer) :
               pool' = StartAt(p, i, WireEp(xfer), xfer, WireStage(xfer))
        /\ inflight' = [inflight EXCEPT ![cur].open = TRUE, ![cur].started = TRUE]
        /\ pc' = AfterKick /\ LetGo /\ UNCHANGED err
    BY <1>4 DEF KickStage
  <2>2. PICK p \in opened : \E i \in Takers(p, slot, xfer) :
               pool' = StartAt(p, i, WireEp(xfer), xfer, WireStage(xfer))
    BY <2>1
  <2>3. PICK i \in Takers(p, slot, xfer) :
               pool' = StartAt(p, i, WireEp(xfer), xfer, WireStage(xfer))
    BY <2>2
  <2>4. i \in Pool /\ WireStage(xfer) \in Stages
    BY <1>1 DEF Takers, First, Lookup, WireStage, Stages
  <2>5. pool' \in [Pool -> Endpoints]
    BY <1>1, <1>2, <2>3, <2>4, WireEpType, StartedTyped
  <2>6. inflight' \in [Slots -> InflightSlots]
    <3>1. [slot EXCEPT !.open = TRUE, !.started = TRUE] \in InflightSlots
      BY <1>1 DEF InflightSlots
    <3>2. inflight' = [inflight EXCEPT ![cur] = [slot EXCEPT !.open = TRUE, !.started = TRUE]]
      BY <1>1, <2>1
    <3> QED
      BY <1>1, <3>1, <3>2
  <2>7. /\ pc' \in {"frame", "bits"} /\ cur' \in Slots /\ xfer' = NoXfer
        /\ pc' = "frame" => phase = "pump"
        /\ pc' = "bits" => phase \in Regs
    BY <1>1, <2>1, SlotAssumption DEF AfterKick, LetGo, Slots
  <2> QED
    BY <1>1, <2>1, <2>5, <2>6, <2>7 DEF LoopInv, TypeOK, PhaseInv, PCs
<1> QED
  BY <1>3, <1>4

LEMMA LoopPump == ASSUME LoopInv, PumpHead PROVE LoopInv'
<1> DEFINE x == Head(queue)
<1>1. PICK s \in KickSlots(x) :
          cur' = s /\ inflight' = IF SlotFor(x) # {} THEN inflight ELSE SlotAlloc(s, x)
  BY DEF PumpHead
<1>2. s \in Slots /\ inflight \in [Slots -> InflightSlots]
  BY <1>1 DEF KickSlots, SlotFor, First, Vacant, LoopInv, TypeOK
<1>3. x \in Xfers /\ Addr[x] \in DevAddrs /\ Ep[x] \in EpAddrs
  BY HeadTailProperties, XferAssumption DEF PumpHead, LoopInv, TypeOK
<1> DEFINE e == [EmptySlot EXCEPT !.xfer = x, !.dev_addr = Addr[x], !.ep_addr = Ep[x]]
<1>4. e \in InflightSlots
  BY <1>3 DEF EmptySlot, InflightSlots
<1>5. SlotAlloc(s, x) = [inflight EXCEPT ![s] = e]
  BY DEF SlotAlloc
<1> HIDE DEF e
<1>6. inflight' \in [Slots -> InflightSlots]
  BY <1>1, <1>2, <1>4, <1>5
<1> QED
  BY <1>1, <1>2, <1>3, <1>6 DEF PumpHead, LoopInv, TypeOK, PhaseInv, PCs

\* The API's other calls, and the world.
LEMMA LoopApi == ASSUME LoopInv, Api \/ Replug PROVE LoopInv'
<1>1. ASSUME NEW x \in Xfers, EpEnqueue(x) PROVE LoopInv'
  <2>1. queue' \in Seq(Xfers)
    BY <1>1, AppendProperties DEF EpEnqueue, LoopInv, TypeOK
  <2> QED
    BY <1>1, <2>1 DEF EpEnqueue, LoopInv, TypeOK, PhaseInv, Stages
<1>2. ASSUME NEW on \in BOOLEAN, SetEnabled(on) PROVE LoopInv'
  BY <1>2 DEF SetEnabled, LoopInv, TypeOK, PhaseInv
<1>3. ASSUME NEW on \in BOOLEAN, SetSuspended(on), resetting' \in BOOLEAN PROVE LoopInv'
  BY <1>3 DEF SetSuspended, LoopInv, TypeOK, PhaseInv
<1>4. CASE BusSuspend \/ BusResume \/ BusResetStart \/ BusResetEnd
  <2>1. resetting' \in BOOLEAN /\ \E on \in BOOLEAN : SetSuspended(on)
    BY <1>4 DEF BusSuspend, BusResume, BusResetStart, BusResetEnd, LoopInv, TypeOK
  <2> QED
    BY <1>3, <2>1
<1>5. CASE Replug
  BY <1>5 DEF Replug, LoopInv, TypeOK, PhaseInv
<1> QED
  BY <1>1, <1>2, <1>4, <1>5 DEF Api, Enable, Disable

LEMMA LoopStep == ASSUME LoopInv, Next PROVE LoopInv'
BY LoopFrame, LoopPasses, LoopSlots, LoopKick, LoopPump, LoopApi DEF Next, ThreadStep

\* The steps of a dequeue write a slot of the table and endpoints of the pool.
LEMMA DequeueStep == ASSUME DqInv, Dequeue PROVE DqInv'
<1>1. LoopInv /\ dq \in [step : {"idle", "abort", "free"}, xfer : Xfers \cup {NoXfer},
                         slot : Slots]
  BY DEF DqInv, DqTypeOK, LoopInv
<1>2. ASSUME NEW x \in Xfers, DequeueLookup(x) PROVE DqInv'
  <2>1. PICK s \in SlotFor(x) :
            dq' = [step |-> IF inflight[s].started THEN "abort" ELSE "free",
                   xfer |-> x, slot |-> s]
    BY <1>2 DEF DequeueLookup
  <2>2. s \in Slots
    BY DEF SlotFor, First
  <2> QED
    BY <1>2, <2>1, <2>2 DEF DequeueLookup, DqInv, DqTypeOK, TypeOK, PhaseInv, vars
<1>3. ASSUME NEW x \in Xfers, DequeueMiss(x) PROVE DqInv'
  BY <1>3 DEF DequeueMiss, DqInv, DqTypeOK, TypeOK, PhaseInv
<1>4. CASE DequeueAbort
  <2>1. PICK D : pool' = Complete(pool, D)
    BY <1>4 DEF DequeueAbort
  <2>2. pool' \in [Pool -> Endpoints]
    BY <1>1, <2>1, CompleteRetires DEF LoopInv, TypeOK
  <2> QED
    BY <1>4, <2>2 DEF DequeueAbort, DqInv, DqTypeOK, TypeOK, PhaseInv
<1>5. CASE DequeueFree
  <2>1. EmptySlot \in InflightSlots
    BY DEF EmptySlot, InflightSlots, DevAddrs, EpAddrs
  <2>2. dq.slot \in Slots /\ dq' = NoCall /\ 1 \in Slots
    BY <1>1, <1>5, SlotAssumption DEF DequeueFree, Slots
  <2> QED
    BY <1>5, <2>1, <2>2 DEF DequeueFree, NoCall, DqInv, DqTypeOK, TypeOK, PhaseInv
<1> QED
  BY <1>2, <1>3, <1>4, <1>5 DEF Dequeue

LEMMA DqStep == DqInv /\ [DqNext]_<<vars, dq>> => DqInv'
<1> SUFFICES ASSUME DqInv, [DqNext]_<<vars, dq>> PROVE DqInv'
  OBVIOUS
<1>1. LoopInv
  BY DEF DqInv, DqTypeOK, LoopInv
<1>2. CASE (Frame \/ ThreadStep \/ DqApi \/ Replug) /\ UNCHANGED dq
  <2>1. LoopInv'
    BY <1>1, <1>2, LoopStep DEF Next, DqApi, Api
  <2> QED
    BY <1>2, <2>1 DEF LoopInv, DqInv, DqTypeOK
<1>3. CASE UNCHANGED <<vars, dq>>
  BY <1>3 DEF vars, DqInv, DqTypeOK, TypeOK, PhaseInv
<1> QED
  BY <1>2, <1>3, DequeueStep DEF DqNext

\* The initial states of both invariants.
LEMMA DqInitInv == DqInit => DqInv /\ HeldQueued
<1>1. Init => IInv
  BY InitInv
<1>2. 1 \in Slots
  BY SlotAssumption DEF Slots
<1>3. Init => pc = "frame" /\ Occupied = {}
  BY DEF Init, Occupied, EmptySlot
<1> QED
  BY <1>1, <1>2, <1>3 DEF DqInit, NoCall, DqInv, DqTypeOK, IInv, HeldQueued

\* Whatever a dequeue does to the slot table under the driver thread's feet, and
\* whichever of the two outranks the other, no pointer or index goes astray.
THEOREM DequeueTypeCorrect == DqSpec => []DqTypeOK
<1>1. DqInv => DqTypeOK
  BY DEF DqInv
<1> QED
  BY <1>1, DqInitInv, DqStep, PTL DEF DqSpec

-----------------------------------------------------------------------------
(* The list and the slot table                                             *)

\* slot_for_xfer finds a slot when there is one.
LEMMA SlotFound ==
    ASSUME NEW x, SlotFor(x) = {} PROVE \A s \in Slots : inflight[s].xfer # x
<1> DEFINE S == {s \in Slots : inflight[s].xfer = x}
<1>1. S \in SUBSET Nat
  BY SlotAssumption DEF Slots
<1>2. S = {}
  BY <1>1, Lowest DEF SlotFor, First
<1> QED
  BY <1>2

\* What HeldQueued speaks of.
heldVars == <<queue, inflight, pc, cur, xfer>>

LEMMA HeldSame == ASSUME HeldQueued, UNCHANGED heldVars PROVE HeldQueued'
BY DEF HeldQueued, heldVars, Occupied

\* The thread's steps to and from the slots.
LEMMA HeldThread ==
    ASSUME DqInv, HeldQueued, Frame \/ ThreadStep
    PROVE  HeldQueued'
<1>0. /\ Occupied \subseteq Slots /\ cur \in Slots /\ queue \in Seq(Xfers)
      /\ inflight \in [Slots -> InflightSlots]
      /\ \A s \in Occupied : inflight[s].xfer \in Xfers
      /\ NoXfer \notin Xfers
  BY NoXferAssumption DEF DqInv, DqTypeOK, TypeOK, Occupied, InflightSlots
<1> USE DEF HeldQueued
<1>1. CASE Frame \/ SurfaceRootEvents \/ FlushDone \/ LoadBits \/ SkipBit \/ DrainDone
           \/ PumpNothing
  <2>1. /\ UNCHANGED <<queue, inflight>>
        /\ {pc, pc'} \cap {"kick", "return", "free"} = {}
    BY <1>1 DEF Frame, FrameTransacts, FrameDisconnects, FrameConnects, FrameIdles,
       FrameStarts, FrameEnds, SurfaceRootEvents, FlushDone, LoadBits, SkipBit, DrainDone,
       PumpNothing
  <2> QED
    BY <2>1 DEF Occupied
<1>2. CASE FlushSlot \/ FinishXfer \/ AdvanceStage
  <2>1. PICK s \in Occupied : cur' = s /\ xfer' = inflight[s].xfer
    BY <1>2 DEF FlushSlot, FinishXfer, AdvanceStage, Match, First
  <2>2. /\ UNCHANGED <<queue, inflight>>
        /\ pc \in {"flush", "bits"} /\ pc' \in {"kick", "return"}
    BY <1>2 DEF FlushSlot, FinishXfer, AdvanceStage
  <2> QED
    BY <2>1, <2>2 DEF Occupied
<1>3. CASE KickStage
  <2>1. /\ pc = "kick" /\ UNCHANGED queue
        /\ (pc' = "return" /\ UNCHANGED <<cur, xfer>>) \/ pc' \in {"frame", "bits"}
        /\ \/ UNCHANGED inflight
           \/ inflight' = [inflight EXCEPT ![cur].open = TRUE]
           \/ inflight' = [inflight EXCEPT ![cur].open = TRUE, ![cur].started = TRUE]
    BY <1>3 DEF KickStage, AfterKick
  <2>2. \A s \in Slots : inflight'[s].xfer = inflight[s].xfer
    BY <1>0, <2>1 DEF InflightSlots
  <2>3. Occupied' = Occupied
    BY <2>2 DEF Occupied
  <2> QED
    BY <1>0, <2>1, <2>2, <2>3
<1>4. CASE UhcXferReturn
  <2>1. /\ pc = "return" /\ pc' = "free" /\ UNCHANGED <<inflight, cur>>
        /\ queue' = RemoveFirst(queue, xfer)
    BY <1>4 DEF UhcXferReturn
  <2>2. \A y \in Range(queue) : y # xfer => y \in Range(queue')
    BY <1>0, <2>1, RemoveRange
  <2> QED
    BY <2>1, <2>2 DEF Occupied
<1>5. CASE SlotFree
  <2>1. /\ pc = "free" /\ pc' \in {"flush", "frame", "bits"} /\ UNCHANGED queue
        /\ inflight' = [inflight EXCEPT ![cur] = EmptySlot]
    BY <1>5 DEF SlotFree, AfterFree
  <2>2. /\ \A s \in Slots \ {cur} : inflight'[s] = inflight[s]
        /\ inflight'[cur].xfer = NoXfer
    BY <1>0, <2>1 DEF EmptySlot
  <2>3. Occupied' = Occupied \ {cur}
    BY <1>0, <2>2 DEF Occupied
  <2> QED
    BY <1>0, <2>1, <2>2, <2>3
<1>6. CASE PumpHead
  <2> DEFINE x == Head(queue)
  <2>1. /\ pc = "pump" /\ pc' = "kick" /\ UNCHANGED queue /\ xfer' = x /\ queue # <<>>
    BY <1>6 DEF PumpHead
  <2>2. PICK s \in KickSlots(x) :
            cur' = s /\ inflight' = IF SlotFor(x) # {} THEN inflight ELSE SlotAlloc(s, x)
    BY <1>6 DEF PumpHead
  <2>3. x \in Range(queue)
    BY <1>0, <2>1, LenProperties DEF Range
  <2>4. CASE SlotFor(x) # {}
    <3>1. s \in Occupied /\ inflight[s].xfer = x
      BY <1>0, <2>2, <2>3, <2>4, HeadTailProperties, <2>1
      DEF KickSlots, SlotFor, First, Occupied
    <3> QED
      BY <2>1, <2>2, <2>3, <2>4, <3>1 DEF Occupied
  <2>5. CASE SlotFor(x) = {}
    <3>1. s \in Slots /\ inflight[s].xfer = NoXfer
      BY <2>2, <2>5 DEF KickSlots, First, Vacant
    <3>2. \A t \in Slots : inflight[t].xfer # x
      BY <2>5, SlotFound
    <3>3. /\ \A t \in Slots \ {s} : inflight'[t] = inflight[t]
          /\ inflight'[s].xfer = x
      BY <1>0, <2>2, <2>5, <3>1 DEF SlotAlloc, EmptySlot
    <3>4. Occupied' \subseteq Occupied \cup {s}
      BY <3>3 DEF Occupied
    <3> QED
      BY <1>0, <2>1, <2>2, <2>3, <3>1, <3>2, <3>3, <3>4
  <2> QED
    BY <2>4, <2>5
<1> QED
  BY <1>1, <1>2, <1>3, <1>4, <1>5, <1>6 DEF ThreadStep

\* The callers': one may put a transfer on the list, or wipe a slot.
LEMMA HeldCalls ==
    ASSUME DqInv, HeldQueued, DqApi \/ Replug \/ Dequeue
    PROVE  HeldQueued'
<1>0. queue \in Seq(Xfers) /\ inflight \in [Slots -> InflightSlots]
  BY DEF DqInv, DqTypeOK, TypeOK
<1>1. ASSUME NEW x \in Xfers, EpEnqueue(x) PROVE HeldQueued'
  <2>1. queue' = Append(queue, x) /\ UNCHANGED <<inflight, threadVars>>
    BY <1>1 DEF EpEnqueue
  <2>2. Range(queue) \subseteq Range(queue')
    BY <1>0, <2>1, AppendProperties, LenProperties DEF Range
  <2> QED
    BY <2>1, <2>2 DEF HeldQueued, Occupied
<1>2. CASE DequeueFree
  <2>1. /\ inflight' = [inflight EXCEPT ![dq.slot] = EmptySlot]
        /\ UNCHANGED <<queue, threadVars>>
    BY <1>2 DEF DequeueFree
  <2>2. \A s \in Slots : inflight'[s] = inflight[s] \/ inflight'[s].xfer = NoXfer
    BY <1>0, <2>1 DEF EmptySlot
  <2>3. /\ Occupied' \subseteq Occupied
        /\ \A s \in Occupied' : inflight'[s] = inflight[s]
    BY <2>2 DEF Occupied
  <2> QED
    BY <2>1, <2>3 DEF HeldQueued
<1>3. CASE Replug \/ DequeueAbort \/ (\E x \in Xfers : DequeueLookup(x) \/ DequeueMiss(x))
  BY <1>3, HeldSame DEF heldVars, Replug, DequeueAbort, DequeueLookup, DequeueMiss, vars
<1>4. CASE Enable \/ Disable \/ BusSuspend \/ BusResume \/ BusResetStart \/ BusResetEnd
  BY <1>4, HeldSame DEF heldVars, Enable, Disable, SetEnabled, BusSuspend, BusResume,
     BusResetStart, BusResetEnd, SetSuspended
<1> QED
  BY <1>1, <1>2, <1>3, <1>4 DEF DqApi, Dequeue

\* Every step keeps the list and the table in agreement.
LEMMA HeldStep == DqInv /\ HeldQueued /\ [DqNext]_<<vars, dq>> => HeldQueued'
<1>1. HeldQueued /\ UNCHANGED <<vars, dq>> => HeldQueued'
  BY HeldSame DEF vars, heldVars
<1> QED
  BY <1>1, HeldThread, HeldCalls DEF DqNext

\* Whatever a dequeue does under the thread's feet, the thread returns no transfer that
\* is not on the UHC list: none is unlinked twice.
THEOREM DequeueReturnsQueued == DqSpec => []ReturnOnlyQueued
<1>1. HeldQueued => ReturnOnlyQueued
  BY DEF HeldQueued, ReturnOnlyQueued
<1> QED
  BY <1>1, DqInitInv, DqStep, HeldStep, PTL DEF DqSpec

-----------------------------------------------------------------------------
(* The pool and the transfers on it                                        *)

\* Completing transfers moves nothing in the pool.
LEMMA CompleteFinds ==
    ASSUME NEW p \in [Pool -> Endpoints], NEW D
    PROVE  /\ \A i \in Pool : /\ Complete(p, D)[i].used = p[i].used
                              /\ Complete(p, D)[i].dev_addr = p[i].dev_addr
                              /\ Complete(p, D)[i].xact = p[i].xact
           /\ Busy(Complete(p, D)) = Busy(p) \ D
           /\ \A d, e : Lookup(Complete(p, D), d, e) = Lookup(p, d, e)
<1> DEFINE q == Complete(p, D)
<1>1. Busy(q) = Busy(p) \ D
  BY CompleteRetires
<1>2. \A i \in Pool : q[i] = IF i \in D THEN [p[i] EXCEPT !.has_transfer = FALSE]
                                        ELSE p[i]
  BY DEF Complete
<1> HIDE DEF q
<1>3. \A i \in Pool : p[i] \in Endpoints
  OBVIOUS
<1>4. \A i \in Pool : /\ q[i].used = p[i].used /\ q[i].dev_addr = p[i].dev_addr
                      /\ q[i].ep_num = p[i].ep_num /\ q[i].xact = p[i].xact
  BY <1>2, <1>3 DEF Endpoints
<1>5. \A d, e : Lookup(q, d, e) = Lookup(p, d, e)
  BY <1>4 DEF Lookup
<1> QED
  BY <1>1, <1>4, <1>5 DEF q

\* Opening an endpoint takes the lowest free pool slot, which lies above every used one:
\* a lookup that found a slot finds it still.
LEMMA OpenedFinds ==
    ASSUME pool \in [Pool -> Endpoints], NEW slot, NEW p \in Opened(slot),
           \A i, j \in Pool : j <= i /\ pool[i].used => pool[j].used
    PROVE  /\ \A i, j \in Pool : j <= i /\ p[i].used => p[j].used
           /\ \A i \in Pool : pool[i].used => p[i] = pool[i]
           /\ Busy(p) = Busy(pool)
           /\ \A d, e : \A i \in First(Lookup(pool, d, e)) : i \in First(Lookup(p, d, e))
<1>1. CASE slot.open
  BY <1>1 DEF Opened
<1>2. CASE ~slot.open
  <2>1. PICK f \in First(FreeSlots(pool)) : p = OpenAt(pool, f, slot.dev_addr, slot.ep_addr)
    BY <1>2 DEF Opened
  <2>2. /\ f \in Pool /\ ~pool[f].used
        /\ \A j \in Pool : ~pool[j].used => f <= j
    BY <2>1 DEF First, FreeSlots
  <2>3. /\ p[f].used /\ ~p[f].has_transfer
        /\ \A i \in Pool \ {f} : p[i] = pool[i]
    BY <2>1, <2>2 DEF OpenAt, FreeEndpoint
  <2>4. Pool \subseteq Nat
    BY PoolAssumption DEF Pool
  <2>5. ASSUME NEW i \in Pool, NEW j \in Pool, j <= i, p[i].used PROVE p[j].used
    <3>1. CASE j = f
      BY <2>3, <3>1
    <3>2. CASE j # f /\ i # f
      BY <2>3, <2>5, <3>2
    <3>3. CASE j # f /\ i = f
      BY <2>2, <2>3, <2>4, <2>5, <3>3
    <3> QED
      BY <3>1, <3>2, <3>3
  <2>6. \A i \in Pool : pool[i].used => p[i] = pool[i]
    BY <2>2, <2>3
  <2>7. Busy(p) = Busy(pool)
    BY <2>2, <2>3 DEF Busy
  <2>8. ASSUME NEW d, NEW e, NEW i \in First(Lookup(pool, d, e))
        PROVE  i \in First(Lookup(p, d, e))
    <3>1. /\ i \in Lookup(pool, d, e) /\ i \in Pool /\ pool[i].used
          /\ \A j \in Lookup(pool, d, e) : i <= j
      BY DEF First, Lookup
    <3>2. i \in Lookup(p, d, e)
      BY <2>6, <3>1 DEF Lookup
    <3>3. Lookup(p, d, e) \subseteq Lookup(pool, d, e) \cup {f}
      BY <2>3 DEF Lookup
    <3>4. i <= f
      BY <2>2, <2>4, <3>1
    <3> QED
      BY <3>1, <3>2, <3>3, <3>4 DEF First
  <2> QED
    BY <2>5, <2>6, <2>7, <2>8
<1> QED
  BY <1>1, <1>2

\* kick_stage looks an endpoint up by the address of the stage and a dequeue by that of the
\* transfer: the two find the same pool slots.
LEMMA WireEpFinds ==
    ASSUME NEW x \in Xfers, NEW p, NEW d
    PROVE  Lookup(p, d, WireEp(x)) = Lookup(p, d, Ep[x])
<1>1. CASE Control(x)
  <2>1. IsControl(Ep[x]) /\ IsControl(WireEp(x))
    BY <1>1 DEF WireEp, Control, IsControl, EpBase
  <2> QED
    BY <2>1 DEF Lookup, IsControl
<1>2. CASE ~Control(x)
  BY <1>2 DEF WireEp
<1> QED
  BY <1>1, <1>2

\* Starting a transaction turns an endpoint to an address that names the same pool slots.
LEMMA StartedFinds ==
    ASSUME NEW p \in [Pool -> Endpoints], NEW dev, NEW ep, NEW x, NEW st,
           NEW i \in Lookup(p, dev, ep)
    PROVE  LET q == StartAt(p, i, ep, x, st) IN
           /\ \A j \in Pool : q[j].used = p[j].used /\ q[j].dev_addr = p[j].dev_addr
           /\ \A j \in Pool \ {i} : q[j] = p[j]
           /\ q[i].xact = [xfer |-> x, stage |-> st]
           /\ \A d, e : Lookup(q, d, e) = Lookup(p, d, e)
<1> DEFINE q == StartAt(p, i, ep, x, st)
<1>1. /\ i \in Pool
      /\ p[i].ep_num = ep \/ (IsControl(p[i].ep_num) /\ IsControl(ep))
      /\ p[i] \in Endpoints
  BY DEF Lookup
<1>2. i \in Pool
  BY DEF Lookup
<1>3. /\ q[i] = [p[i] EXCEPT !.ep_num = ep, !.has_transfer = TRUE,
                             !.xact = [xfer |-> x, stage |-> st]]
      /\ \A j \in Pool \ {i} : q[j] = p[j]
  BY <1>2 DEF StartAt
<1> HIDE DEF q
<1>4. /\ q[i].used = p[i].used /\ q[i].dev_addr = p[i].dev_addr /\ q[i].ep_num = ep
      /\ q[i].xact = [xfer |-> x, stage |-> st]
  BY <1>1, <1>3 DEF Endpoints
<1>5. ASSUME NEW d, NEW e PROVE Lookup(q, d, e) = Lookup(p, d, e)
  <2>1. \/ q[i].ep_num = e
        \/ IsControl(q[i].ep_num) /\ IsControl(e)
        <=> \/ p[i].ep_num = e
            \/ IsControl(p[i].ep_num) /\ IsControl(e)
    BY <1>1, <1>4
  <2>2. i \in Lookup(q, d, e) <=> i \in Lookup(p, d, e)
    BY <1>2, <1>4, <2>1 DEF Lookup
  <2>3. \A j \in Pool \ {i} : j \in Lookup(q, d, e) <=> j \in Lookup(p, d, e)
    BY <1>3 DEF Lookup
  <2> QED
    BY <2>2, <2>3 DEF Lookup
<1> QED
  BY <1>2, <1>3, <1>4, <1>5 DEF q

\* Its part about the pool.
PoolFound ==
    /\ \A i, j \in Pool : j <= i /\ pool[i].used => pool[j].used
    /\ \A i \in Busy(pool) : LET x == pool[i].xact.xfer IN
          /\ x \in Xfers
          /\ pool[i].dev_addr \in {0, Addr[x]}
          /\ pool[i].dev_addr = Addr[x] => i \in First(Lookup(pool, Addr[x], Ep[x]))

\* Its part about the slot table.
SlotsNamed ==
    /\ \A s \in Occupied : LET x == inflight[s].xfer IN
          inflight[s].dev_addr = Addr[x] /\ inflight[s].ep_addr = Ep[x]
    /\ \A s \in Vacant : inflight[s].dev_addr = 0

\* Its part about the slot in hand.
KickNamed == pc = "kick" => inflight[cur].xfer \in {xfer, NoXfer}

LEMMA PoolRetired ==
    ASSUME DqInv, PoolFound, NEW D, pool' = Complete(pool, D) PROVE PoolFound'
<1>1. pool \in [Pool -> Endpoints]
  BY DEF DqInv, DqTypeOK, TypeOK
<1>2. /\ \A i \in Pool : /\ pool'[i].used = pool[i].used
                         /\ pool'[i].dev_addr = pool[i].dev_addr
                         /\ pool'[i].xact = pool[i].xact
      /\ Busy(pool') = Busy(pool) \ D
      /\ \A d, e : Lookup(pool', d, e) = Lookup(pool, d, e)
  BY <1>1, CompleteFinds
<1>3. Busy(pool) \subseteq Pool
  BY DEF Busy
<1> QED
  BY <1>2, <1>3 DEF PoolFound

LEMMA PoolKick ==
    ASSUME DqInv, PoolFound, SlotsNamed, KickNamed, KickStage PROVE PoolFound'
<1> DEFINE slot == inflight[cur]
           opened == Opened(slot)
<1>1. /\ pc = "kick" /\ xfer \in Xfers /\ cur \in Slots /\ slot \in InflightSlots
      /\ pool \in [Pool -> Endpoints]
  BY DEF KickStage, DqInv, DqTypeOK, TypeOK
<1>2. ASSUME NEW p \in opened
      PROVE  /\ p \in [Pool -> Endpoints]
             /\ \A i, j \in Pool : j <= i /\ p[i].used => p[j].used
             /\ \A i \in Pool : pool[i].used => p[i] = pool[i]
             /\ Busy(p) = Busy(pool)
             /\ \A d, e : \A i \in First(Lookup(pool, d, e)) : i \in First(Lookup(p, d, e))
  BY <1>1, OpenedTyped, OpenedFinds DEF PoolFound
<1>3. CASE \A p \in opened : Takers(p, slot, xfer) = {}
  <2>1. UNCHANGED pool \/ pool' \in opened
    BY <1>3 DEF KickStage
  <2>2. CASE UNCHANGED pool
    BY <2>2 DEF PoolFound
  <2>3. CASE pool' \in opened
    <3>1. \A i \in Busy(pool) : i \in Pool /\ pool'[i] = pool[i]
      BY <1>2, <2>3 DEF Busy
    <3> QED
      BY <1>2, <2>3, <3>1 DEF PoolFound
  <2> QED
    BY <2>1, <2>2, <2>3
<1>4. CASE ~ \A p \in opened : Takers(p, slot, xfer) = {}
  <2>1. \E p \in opened : \E i \in Takers(p, slot, xfer) :
             pool' = StartAt(p, i, WireEp(xfer), xfer, WireStage(xfer))
    BY <1>4 DEF KickStage
  <2>2. PICK p \in opened : \E i \in Takers(p, slot, xfer) :
             pool' = StartAt(p, i, WireEp(xfer), xfer, WireStage(xfer))
    BY <2>1
  <2>3. PICK k \in Takers(p, slot, xfer) :
             pool' = StartAt(p, k, WireEp(xfer), xfer, WireStage(xfer))
    BY <2>2
  <2>4. /\ k \in First(Lookup(p, slot.dev_addr, WireEp(xfer)))
        /\ k \in Lookup(p, slot.dev_addr, WireEp(xfer))
        /\ k \in Pool /\ p[k].dev_addr = slot.dev_addr
    BY DEF Takers, First, Lookup
  <2>5. /\ \A j \in Pool : pool'[j].used = p[j].used /\ pool'[j].dev_addr = p[j].dev_addr
        /\ \A j \in Pool \ {k} : pool'[j] = p[j]
        /\ pool'[k].xact = [xfer |-> xfer, stage |-> WireStage(xfer)]
        /\ \A d, e : Lookup(pool', d, e) = Lookup(p, d, e)
    BY <1>2, <2>3, <2>4, StartedFinds
  <2>6. \A i, j \in Pool : j <= i /\ pool'[i].used => pool'[j].used
    BY <1>2, <2>5
  <2>7. ASSUME NEW i \in Busy(pool')
        PROVE  LET x == pool'[i].xact.xfer IN
               /\ x \in Xfers
               /\ pool'[i].dev_addr \in {0, Addr[x]}
               /\ pool'[i].dev_addr = Addr[x] => i \in First(Lookup(pool', Addr[x], Ep[x]))
    <3>1. i \in Pool
      BY DEF Busy
    <3>2. CASE i = k
      <4>1. pool'[i].xact.xfer = xfer
        BY <2>5, <3>2
      <4>2. pool'[i].dev_addr = Addr[xfer] => k \in First(Lookup(p, Addr[xfer], WireEp(xfer)))
        BY <2>4, <2>5, <3>2
      <4>3. slot.dev_addr \in {0, Addr[xfer]}
        BY <1>1 DEF SlotsNamed, KickNamed, Occupied, Vacant
      <4> QED
        BY <1>1, <2>4, <2>5, <3>2, <4>1, <4>2, <4>3, WireEpFinds
    <3>3. CASE i # k
      <4>1. pool'[i] = p[i] /\ i \in Busy(p)
        BY <2>5, <3>1, <3>3 DEF Busy
      <4>2. i \in Busy(pool) /\ pool'[i] = pool[i]
        BY <1>2, <4>1 DEF Busy
      <4> QED
        BY <1>2, <2>5, <4>2 DEF PoolFound
    <3> QED
      BY <3>2, <3>3
  <2> QED
    BY <2>6, <2>7 DEF PoolFound
<1> QED
  BY <1>3, <1>4

LEMMA PoolStep == DqInv /\ FoundInv /\ [DqNext]_<<vars, dq>> => PoolFound'
<1> SUFFICES ASSUME DqInv, PoolFound, SlotsNamed, KickNamed, [DqNext]_<<vars, dq>>
             PROVE  PoolFound'
  BY DEF FoundInv, PoolFound, SlotsNamed, KickNamed
<1>1. UNCHANGED pool => PoolFound'
  BY DEF PoolFound
<1>2. CASE Frame
  <2>1. UNCHANGED pool \/ \E D : pool' = Complete(pool, D)
    BY <1>2 DEF Frame, FrameTransacts, FrameDisconnects, FrameConnects, FrameIdles
  <2> QED
    BY <1>1, <2>1, PoolRetired
<1>3. CASE ThreadStep
  <2>1. KickStage \/ UNCHANGED pool
    BY <1>3 DEF ThreadStep, SurfaceRootEvents, FlushSlot, FlushDone, LoadBits, SkipBit,
       FinishXfer, AdvanceStage, DrainDone, UhcXferReturn, SlotFree, PumpHead, PumpNothing
  <2> QED
    BY <1>1, <2>1, PoolKick
<1>4. CASE DqApi \/ Replug
  BY <1>1, <1>4 DEF DqApi, Replug, EpEnqueue, Enable, Disable, SetEnabled, BusSuspend,
     BusResume, BusResetStart, BusResetEnd, SetSuspended
<1>5. CASE Dequeue
  <2>1. UNCHANGED pool \/ \E D : pool' = Complete(pool, D)
    BY <1>5 DEF Dequeue, DequeueLookup, DequeueMiss, DequeueAbort, DequeueFree, vars
  <2> QED
    BY <1>1, <2>1, PoolRetired
<1>6. CASE UNCHANGED <<vars, dq>>
  BY <1>1, <1>6 DEF vars
<1> QED
  BY <1>2, <1>3, <1>4, <1>5, <1>6 DEF DqNext

\* Of the slots' fields only slot_alloc writes the address and the endpoint.
LEMMA SlotsStep == DqInv /\ SlotsNamed /\ [DqNext]_<<vars, dq>> => SlotsNamed'
<1> SUFFICES ASSUME DqInv, SlotsNamed, [DqNext]_<<vars, dq>> PROVE SlotsNamed'
  OBVIOUS
<1>1. /\ inflight \in [Slots -> InflightSlots] /\ cur \in Slots /\ queue \in Seq(Xfers)
      /\ NoXfer \notin Xfers
  BY NoXferAssumption DEF DqInv, DqTypeOK, TypeOK
<1>2. ASSUME NEW s \in Slots,
             \A t \in Slots : \/ inflight'[t] = inflight[t]
                              \/ inflight'[t] = EmptySlot
                              \/ /\ inflight'[t].xfer = inflight[t].xfer
                                 /\ inflight'[t].dev_addr = inflight[t].dev_addr
                                 /\ inflight'[t].ep_addr = inflight[t].ep_addr
      PROVE  SlotsNamed'
  BY <1>2 DEF SlotsNamed, Occupied, Vacant, EmptySlot
<1>3. CASE UNCHANGED inflight
  BY <1>3 DEF SlotsNamed, Occupied, Vacant
<1>4. CASE KickStage
  <2>1. \/ UNCHANGED inflight
        \/ inflight' = [inflight EXCEPT ![cur].open = TRUE]
        \/ inflight' = [inflight EXCEPT ![cur].open = TRUE, ![cur].started = TRUE]
    BY <1>4 DEF KickStage
  <2>2. \A t \in Slots : /\ inflight'[t].xfer = inflight[t].xfer
                         /\ inflight'[t].dev_addr = inflight[t].dev_addr
                         /\ inflight'[t].ep_addr = inflight[t].ep_addr
    BY <1>1, <2>1 DEF InflightSlots
  <2> QED
    BY <1>1, <1>2, <2>2
<1>5. CASE SlotFree
  <2>1. inflight' = [inflight EXCEPT ![cur] = EmptySlot]
    BY <1>5 DEF SlotFree
  <2>2. \A t \in Slots : inflight'[t] = inflight[t] \/ inflight'[t] = EmptySlot
    BY <1>1, <2>1
  <2> QED
    BY <1>1, <1>2, <2>2
<1>6. CASE DequeueFree
  <2>1. inflight' = [inflight EXCEPT ![dq.slot] = EmptySlot]
    BY <1>6 DEF DequeueFree
  <2>2. \A t \in Slots : inflight'[t] = inflight[t] \/ inflight'[t] = EmptySlot
    BY <1>1, <2>1
  <2> QED
    BY <1>1, <1>2, <2>2
<1>7. CASE PumpHead
  <2> DEFINE x == Head(queue)
  <2>1. UNCHANGED inflight \/ \E s \in Slots : inflight' = SlotAlloc(s, x)
    <3>1. PICK s \in KickSlots(x) :
              inflight' = IF SlotFor(x) # {} THEN inflight ELSE SlotAlloc(s, x)
      BY <1>7 DEF PumpHead
    <3>2. s \in Slots
      BY DEF KickSlots, SlotFor, First, Vacant
    <3> QED
      BY <3>1, <3>2
  <2>2. ASSUME NEW s \in Slots, inflight' = SlotAlloc(s, x) PROVE SlotsNamed'
    <3>1. /\ inflight'[s].xfer = x /\ inflight'[s].dev_addr = Addr[x]
          /\ inflight'[s].ep_addr = Ep[x]
          /\ \A t \in Slots \ {s} : inflight'[t] = inflight[t]
      BY <1>1, <2>2 DEF SlotAlloc, EmptySlot
    <3>2. x \in Xfers
      BY <1>1, <1>7 DEF PumpHead
    <3> QED
      BY <1>1, <3>1, <3>2 DEF SlotsNamed, Occupied, Vacant
  <2> QED
    BY <1>3, <2>1, <2>2
<1>8. KickStage \/ SlotFree \/ DequeueFree \/ PumpHead \/ UNCHANGED inflight
  <2>1. Frame \/ Replug \/ DqApi => UNCHANGED inflight
    BY DEF Frame, FrameTransacts, FrameDisconnects, FrameConnects, FrameIdles, FrameEnds,
       Replug, DqApi, EpEnqueue, Enable, Disable, SetEnabled, BusSuspend, BusResume,
       BusResetStart, BusResetEnd, SetSuspended
  <2>2. ThreadStep => KickStage \/ SlotFree \/ PumpHead \/ UNCHANGED inflight
    BY DEF ThreadStep, SurfaceRootEvents, FlushSlot, FlushDone, LoadBits, SkipBit,
       FinishXfer, AdvanceStage, DrainDone, UhcXferReturn, PumpNothing
  <2>3. Dequeue => DequeueFree \/ UNCHANGED inflight
    BY DEF Dequeue, DequeueLookup, DequeueMiss, DequeueAbort, vars
  <2> QED
    BY <2>1, <2>2, <2>3 DEF DqNext, vars
<1> QED
  BY <1>3, <1>4, <1>5, <1>6, <1>7, <1>8

\* The slot the thread is about to kick holds its transfer, unless it has been wiped.
LEMMA KickStep == DqInv /\ KickNamed /\ [DqNext]_<<vars, dq>> => KickNamed'
<1> SUFFICES ASSUME DqInv, KickNamed, [DqNext]_<<vars, dq>>, pc' = "kick"
             PROVE  inflight'[cur'].xfer \in {xfer', NoXfer}
  BY DEF KickNamed
<1>1. /\ inflight \in [Slots -> InflightSlots] /\ cur \in Slots /\ queue \in Seq(Xfers)
  BY DEF DqInv, DqTypeOK, TypeOK
<1>2. CASE UNCHANGED <<pc, inflight, cur, xfer>>
  BY <1>2 DEF KickNamed
<1>3. CASE AdvanceStage
  <2>1. PICK i \in First(pending) : \E s \in Match(i) : cur' = s /\ xfer' = inflight[s].xfer
    BY <1>3 DEF AdvanceStage
  <2> QED
    BY <1>3, <2>1 DEF AdvanceStage
<1>4. CASE PumpHead
  <2>1. PICK s \in KickSlots(Head(queue)) :
            /\ cur' = s
            /\ inflight' = IF SlotFor(Head(queue)) # {} THEN inflight
                                                     ELSE SlotAlloc(s, Head(queue))
    BY <1>4 DEF PumpHead
  <2>2. xfer' = Head(queue)
    BY <1>4 DEF PumpHead
  <2>3. s \in Slots
    BY DEF KickSlots, SlotFor, First, Vacant
  <2>4. CASE SlotFor(Head(queue)) # {}
    BY <2>1, <2>2, <2>4 DEF KickSlots, SlotFor, First
  <2>5. CASE SlotFor(Head(queue)) = {}
    BY <1>1, <2>1, <2>2, <2>3, <2>5 DEF SlotAlloc, EmptySlot
  <2> QED
    BY <2>4, <2>5
<1>5. CASE DequeueFree
  <2>1. /\ inflight' = [inflight EXCEPT ![dq.slot] = EmptySlot]
        /\ pc' = pc /\ cur' = cur /\ xfer' = xfer
    BY <1>5 DEF DequeueFree, threadVars
  <2>2. inflight'[cur] = inflight[cur] \/ inflight'[cur] = EmptySlot
    BY <1>1, <2>1
  <2> QED
    BY <2>1, <2>2 DEF KickNamed, EmptySlot
<1>6. AdvanceStage \/ PumpHead \/ DequeueFree \/ UNCHANGED <<pc, inflight, cur, xfer>>
  <2>1. ~Frame
    BY DEF Frame, FrameTransacts, FrameDisconnects, FrameConnects, FrameIdles, FrameEnds
  <2>2. Replug \/ DqApi => UNCHANGED <<pc, inflight, cur, xfer>>
    BY DEF Replug, DqApi, EpEnqueue, Enable, Disable, SetEnabled, BusSuspend, BusResume,
       BusResetStart, BusResetEnd, SetSuspended, threadVars
  <2>3. ThreadStep => AdvanceStage \/ PumpHead \/ UNCHANGED <<pc, inflight, cur, xfer>>
    BY DEF ThreadStep, SurfaceRootEvents, FlushSlot, FlushDone, LoadBits, SkipBit, NextReg,
       FinishXfer, DrainDone, UhcXferReturn, PumpNothing, KickStage, AfterKick, SlotFree,
       AfterFree
  <2>4. Dequeue => DequeueFree \/ UNCHANGED <<pc, inflight, cur, xfer>>
    BY DEF Dequeue, DequeueLookup, DequeueMiss, DequeueAbort, vars, threadVars
  <2> QED
    BY <2>1, <2>2, <2>3, <2>4 DEF DqNext, vars
<1> QED
  BY <1>2, <1>3, <1>4, <1>5, <1>6

LEMMA FoundStep == DqInv /\ FoundInv /\ [DqNext]_<<vars, dq>> => FoundInv'
BY PoolStep, SlotsStep, KickStep DEF FoundInv, PoolFound, SlotsNamed, KickNamed

LEMMA FoundInitInv == DqInit => FoundInv
BY DEF DqInit, Init, FoundInv, Busy, FreeEndpoint, Occupied, Vacant, EmptySlot

\* An abort of what the slot held when it was looked up ends every transaction of the
\* transfer but one that a wiped slot had sent to address 0, for any devices and
\* endpoints, any number of transfers, a pool and a slot table of any size, and however
\* the thread and the callers interleave.
THEOREM AbortFindsTransfer == DqSpec => AbortQuiets
<1> DEFINE Quiets ==
        dq.step = "abort" /\ inflight[dq.slot].xfer = dq.xfer =>
            \A i \in Busy(pool') :
                pool'[i].xact.xfer = dq.xfer =>
                    pool'[i].dev_addr = 0 /\ Addr[dq.xfer] # 0
<1>1. ASSUME DqInv, FoundInv, [DqNext]_<<vars, dq>> PROVE [Quiets]_dq
  <2> SUFFICES ASSUME dq' # dq, dq.step = "abort", inflight[dq.slot].xfer = dq.xfer,
                      NEW i \in Busy(pool'),
                      pool'[i].xact.xfer = dq.xfer
               PROVE  pool'[i].dev_addr = 0 /\ Addr[dq.xfer] # 0
    OBVIOUS
  <2> DEFINE x == dq.xfer
             D == First(Lookup(pool, Addr[x], Ep[x]))
  <2>1. /\ x \in Xfers /\ x # NoXfer /\ dq.slot \in Slots
        /\ pool \in [Pool -> Endpoints]
    BY <1>1, NoXferAssumption DEF DqInv, DqTypeOK, TypeOK
  <2>2. inflight[dq.slot].dev_addr = Addr[x] /\ inflight[dq.slot].ep_addr = Ep[x]
    BY <1>1, <2>1 DEF FoundInv, Occupied
  <2>3. DequeueAbort
    BY <1>1 DEF DqNext, Dequeue, DequeueLookup, DequeueMiss, DequeueFree
  <2>4. pool' = Complete(pool, D)
    BY <2>2, <2>3 DEF DequeueAbort
  <2> HIDE DEF D
  <2>5. i \in Pool /\ i \in Busy(pool) \ D
    BY <2>1, <2>4, CompleteFinds DEF Busy
  <2>6. pool[i].xact.xfer = x /\ pool[i].dev_addr = pool'[i].dev_addr
    BY <2>1, <2>2, <2>4, <2>5, CompleteFinds
  <2>7. pool[i].dev_addr # Addr[x]
    BY <1>1, <2>5, <2>6 DEF FoundInv, D
  <2>8. pool[i].dev_addr \in {0, Addr[x]}
    BY <1>1, <2>5, <2>6 DEF FoundInv
  <2> QED
    BY <2>6, <2>7, <2>8
<1>2. DqInv /\ FoundInv /\ [DqNext]_<<vars, dq>> => [Quiets]_dq
  BY <1>1
<1> QED
  BY <1>2, DqInitInv, DqStep, FoundInitInv, FoundStep, PTL DEF DqSpec, AbortQuiets
=============================================================================
