-------------------------- MODULE UdcPioUsb_proofs --------------------------
(***************************************************************************)
(* Proofs about UdcPioUsb, for any endpoints, buffers and requests, any    *)
(* host, and classes and a stack that call the API in any order: that      *)
(* UdcInv is inductive, and the properties of the endpoints of the classes *)
(* that follow from it.                                                    *)
(***************************************************************************)
EXTENDS UdcPioUsb, SequenceTheorems, TLAPS

\* Facts on sequences and counts.
LEMMA AppendType == ASSUME NEW S, NEW q \in Seq(S), NEW e \in S PROVE Append(q, e) \in Seq(S)
  BY AppendProperties

LEMMA CountType ==
    ASSUME NEW c \in [Requests -> Nat], NEW r \in Requests
    PROVE  [c EXCEPT ![r] = @ + 1] \in [Requests -> Nat]
  OBVIOUS

LEMMA EmptyRange == Range(<<>>) = {}
  BY DEF Range

\* EP0's slots are no class's.
LEMMA SlotFacts == /\ Eps \subseteq Slots /\ OUT0 \in Slots /\ IN0 \in Slots
                   /\ OUT0 \notin Eps /\ IN0 \notin Eps /\ OUT0 # IN0
                   /\ \A b \in Bufs : EpOf[b] \in Eps
                   /\ \A s \in Slots : s \in Nat
  BY EpsAssumption DEF Slots, OUT0, IN0

BaseInv == UdcTypeOK /\ ControlInv /\ BitmapInv

\* What the library's steps make of a well-formed pool.
LEMMA PoolUpdates ==
    ASSUME NEW p \in [Slots -> Endpoints], NEW s \in Slots
    PROVE  /\ [p EXCEPT ![s].has_transfer = FALSE] \in [Slots -> Endpoints]
           /\ \A b \in Buffers : [p EXCEPT ![s].has_transfer = TRUE, ![s].buf = b]
                                    \in [Slots -> Endpoints]
           /\ \A v \in BOOLEAN : /\ [p EXCEPT ![s].stalled = v] \in [Slots -> Endpoints]
                                  /\ [p EXCEPT ![s].open = v] \in [Slots -> Endpoints]
  BY DEF Endpoints

\* A transaction that ends.
LEMMA WireStep ==
    ASSUME BaseInv, NEW s \in Slots, WireDone(s)
    PROVE  /\ pep' \in [Slots -> Endpoints]
           /\ pep[s].has_transfer
           /\ ~pep'[s].has_transfer
           /\ \A t \in Slots : pep'[t].buf = pep[t].buf /\ pep'[t].open = pep[t].open
           /\ \A t \in Slots \ {s} : pep'[t] = pep[t]
           /\ \A t \in Eps : pep'[t].has_transfer => pep'[t].buf \in ClassBufs(t)
           /\ ep_complete' = ep_complete \cup {s} /\ ep_complete' \subseteq Slots
           /\ flags' = flags \cup {"ep_done"} /\ flags' \subseteq Flags
<1>1. pep \in [Slots -> Endpoints] /\ ep_complete \subseteq Slots /\ flags \subseteq Flags
  BY DEF BaseInv, UdcTypeOK
<1>2. pep' = [pep EXCEPT ![s].has_transfer = FALSE]
  BY DEF WireDone
<1>3. pep' \in [Slots -> Endpoints]
  BY <1>1, <1>2, PoolUpdates
<1>4. \A t \in Slots : pep'[t].has_transfer => pep[t].has_transfer /\ pep'[t].buf = pep[t].buf
  BY <1>1, <1>2 DEF Endpoints
<1>5. \A t \in Eps : pep'[t].has_transfer => pep'[t].buf \in ClassBufs(t)
  BY <1>4, SlotFacts DEF BaseInv, ControlInv
<1> QED
  BY <1>1, <1>2, <1>3, <1>5 DEF WireDone, IrqHandler, Flags, Endpoints

\* It disturbs neither EP0's fifos nor the bits the thread has in hand.
LEMMA WireBase ==
    ASSUME BaseInv, NEW s \in Slots, WireDone(s),
           UNCHANGED <<fifo, setup_packet, f, pc, pending, reg>>
    PROVE  ControlInv' /\ BitmapInv'
<1>1. /\ \A t \in Eps : pep'[t].has_transfer => pep'[t].buf \in ClassBufs(t)
      /\ ep_complete \subseteq ep_complete' /\ flags' = flags \cup {"ep_done"}
  BY WireStep
<1>2. ControlInv /\ BitmapInv
  BY DEF BaseInv
<1>3. ControlInv'
  <2>1. "setup" \in flags' \cup f' => "setup" \in flags \cup f
    BY <1>1
  <2> QED
    BY <1>1, <1>2, <2>1 DEF ControlInv
<1>4. BitmapInv'
  BY <1>1, <1>2 DEF BitmapInv
<1> QED
  BY <1>3, <1>4

LEMMA BaseHost == BaseInv /\ Host => BaseInv'
<1> SUFFICES ASSUME BaseInv, Host PROVE BaseInv'
  OBVIOUS
<1> USE SlotFacts DEF BaseInv, UdcTypeOK, ControlInv, BitmapInv,
        picoVars, epVars, lapseVars, ctrlVars, threadVars, hostVars
<1>1. CASE \E s \in Eps : HostTransfers(s)
  <2>1. PICK s \in Eps : HostTransfers(s)
    BY <1>1
  <2>2. s \in Slots /\ WireDone(s) /\ pep[s].buf \in Bufs
    BY <2>1 DEF HostTransfers, WireDone, ClassBufs
  <2>3. UdcTypeOK'
    BY <2>1, <2>2, WireStep DEF HostTransfers
  <2>4. UNCHANGED <<fifo, setup_packet, f, pc, pending, reg>>
    BY <2>1 DEF HostTransfers
  <2> QED
    BY <2>2, <2>3, <2>4, WireBase
<1>2. CASE \E r \in Requests : HostSetup(r)
  <2>1. PICK r \in Requests : HostSetup(r)
    BY <1>2
  <2>2. UdcTypeOK'
    BY <2>1 DEF HostSetup, IrqHandler, Flags
  <2>3. ControlInv' /\ BitmapInv'
    BY <2>1 DEF HostSetup, IrqHandler, Flags
  <2> QED
    BY <2>2, <2>3
<1>3. CASE HostControlIn
  <2>1. WireDone(IN0) /\ IN0 \in Slots
    BY <1>3 DEF HostControlIn
  <2>3. UdcTypeOK'
    BY <1>3, <2>1, WireStep DEF HostControlIn
  <2>4. UNCHANGED <<fifo, setup_packet, f, pc, pending, reg>>
    BY <1>3 DEF HostControlIn
  <2> QED
    BY <2>1, <2>3, <2>4, WireBase
<1>4. CASE HostControlOut
  <2>1. WireDone(OUT0) /\ OUT0 \in Slots
    BY <1>4 DEF HostControlOut
  <2>3. UdcTypeOK'
    BY <1>4, <2>1, WireStep DEF HostControlOut
  <2>4. UNCHANGED <<fifo, setup_packet, f, pc, pending, reg>>
    BY <1>4 DEF HostControlOut
  <2> QED
    BY <2>1, <2>3, <2>4, WireBase
<1>5. CASE \E ints \in {{}, {"reset"}} : HostGivesUp(ints)
  <2>1. PICK ints \in {{}, {"reset"}} : HostGivesUp(ints)
    BY <1>5
  <2>2. flags' \subseteq Flags /\ ("setup" \in flags' => "setup" \in flags)
    BY <2>1 DEF HostGivesUp, IrqHandler, Flags
  <2>3. /\ host' = [host EXCEPT !.step = "idle"]
        /\ UNCHANGED <<picoVars, epVars, enabled, ctrlVars, threadVars, moved, issued,
                       surfaced>>
    BY <2>1 DEF HostGivesUp
  <2> QED
    BY <2>2, <2>3
<1> QED
  BY <1>1, <1>2, <1>3, <1>4, <1>5 DEF Host

\* A buffer put on a slot's transfer.
LEMMA KickStep ==
    ASSUME BaseInv, NEW s \in Slots, NEW b \in Buffers, s \in Eps => b \in ClassBufs(s)
    PROVE  /\ KickOff(s, b) \in [Slots -> Endpoints]
           /\ KickOff(s, b)[s] = [pep[s] EXCEPT !.has_transfer = TRUE, !.buf = b]
           /\ \A t \in Slots \ {s} : KickOff(s, b)[t] = pep[t]
           /\ \A t \in Eps :
                 KickOff(s, b)[t].has_transfer => KickOff(s, b)[t].buf \in ClassBufs(t)
<1> DEFINE p == KickOff(s, b)
<1>1. pep \in [Slots -> Endpoints]
  BY DEF BaseInv, UdcTypeOK
<1>2. p \in [Slots -> Endpoints]
  BY <1>1, PoolUpdates DEF KickOff
<1>3. p[s] = [pep[s] EXCEPT !.has_transfer = TRUE, !.buf = b]
  BY <1>1 DEF KickOff, Endpoints
<1>4. \A t \in Slots \ {s} : p[t] = pep[t]
  BY <1>1 DEF KickOff
<1>5. p[s].buf = b
  BY <1>1, <1>3 DEF Endpoints
<1> HIDE DEF p
<1>6. \A t \in Eps : p[t].has_transfer => p[t].buf \in ClassBufs(t)
  BY <1>4, <1>5, SlotFacts DEF BaseInv, ControlInv
<1> QED
  BY <1>2, <1>3, <1>4, <1>6 DEF p

LEMMA CtrlBuffer ==
    ASSUME NEW r \in Requests, NEW w \in {"data", "status"}
    PROVE  [req |-> r, what |-> w] \in CtrlBufs /\ [req |-> r, what |-> w] \in Buffers
  BY DEF CtrlBufs, Buffers

LEMMA BaseSetup ==
    BaseInv /\ (ThreadWakes \/ NoSetup \/ HandleSetup \/ HandleSetupNoMem) => BaseInv'
<1> SUFFICES ASSUME BaseInv, ThreadWakes \/ NoSetup \/ HandleSetup \/ HandleSetupNoMem
             PROVE BaseInv'
  OBVIOUS
<1> USE SlotFacts DEF BaseInv, UdcTypeOK, ControlInv, BitmapInv, PCs, Flags, CtrlStages,
        picoVars, epVars, lapseVars, ctrlVars, threadVars, hostVars
<1>1. CASE ThreadWakes
  BY <1>1 DEF ThreadWakes
<1>2. CASE NoSetup
  BY <1>2 DEF NoSetup, AfterSetup
<1>3. CASE HandleSetup
  <2> DEFINE r == setup_packet
             b == [req |-> r, what |-> "data"]
  <2>1. r \in Requests /\ Kind[r] \in Kinds
    BY <1>3, RequestsAssumption DEF HandleSetup
  <2>2. StageOf[Kind[r]] \in CtrlStages
    BY <2>1 DEF StageOf, Kinds
  <2>3. b \in Buffers
    BY <2>1, CtrlBuffer
  <2>4. pep' = KickOff(OUT0, b) \/ pep' = pep
    BY <1>3 DEF HandleSetup
  <2>5. /\ pep' \in [Slots -> Endpoints]
        /\ \A t \in Eps : pep'[t].has_transfer => pep'[t].buf \in ClassBufs(t)
    <3>1. CASE pep' = KickOff(OUT0, b)
      <4>1. /\ KickOff(OUT0, b) \in [Slots -> Endpoints]
            /\ \A t \in Eps :
                  KickOff(OUT0, b)[t].has_transfer => KickOff(OUT0, b)[t].buf \in ClassBufs(t)
        BY <2>3, KickStep
      <4> QED
        BY <3>1, <4>1
    <3>2. CASE pep' = pep
      BY <3>2
    <3> QED
      BY <2>4, <3>1, <3>2
  <2>6. told' \in Seq([req : Requests, what : Kinds])
    <3>1. [req |-> r, what |-> Kind[r]] \in [req : Requests, what : Kinds]
      BY <2>1
    <3>2. told' = told \/ told' = Append(told, [req |-> r, what |-> Kind[r]])
      BY <1>3 DEF HandleSetup
    <3>3. told \in Seq([req : Requests, what : Kinds])
      OBVIOUS
    <3> DEFINE M == [req : Requests, what : Kinds]
               m == [req |-> r, what |-> Kind[r]]
    <3>4. m \in M /\ told \in Seq(M) /\ (told' = told \/ told' = Append(told, m))
      BY <3>1, <3>2, <3>3
    <3> HIDE DEF r, m, M, UdcTypeOK, BaseInv, ControlInv, BitmapInv
    <3>5. told' \in Seq(M)
      BY <3>4, AppendType
    <3> QED
      BY <3>5 DEF M
  <2>7. surfaced' \in [Requests -> Nat]
    <3>1. surfaced' = surfaced \/ surfaced' = [surfaced EXCEPT ![r] = @ + 1]
      BY <1>3 DEF HandleSetup
    <3>2. surfaced \in [Requests -> Nat]
      OBVIOUS
    <3> HIDE DEF r, UdcTypeOK, BaseInv
    <3> QED
      BY <2>1, <3>1, <3>2, CountType
  <2>8. UdcTypeOK'
    <3>1. /\ stage' = StageOf[Kind[r]] /\ pc' \in {"load", "idle"}
          /\ UNCHANGED <<ep_complete, setup_packet, dev_addr, epVars, flags, enabled,
                         pending_address, f, pending, reg, host, moved, issued>>
      BY <1>3 DEF HandleSetup, AfterSetup
    <3>2. pc' \in PCs /\ stage' \in CtrlStages
      BY <2>2, <3>1 DEF PCs
    <3> HIDE DEF r, b, Kinds, Flags
    <3> QED
      BY <2>5, <2>6, <2>7, <3>1, <3>2
  <2> QED
    BY <1>3, <2>5, <2>8 DEF HandleSetup, AfterSetup
<1>4. CASE HandleSetupNoMem
  BY <1>4 DEF HandleSetupNoMem, AfterSetup
<1> QED
  BY <1>1, <1>2, <1>3, <1>4

LEMMA BaseDrain ==
    BaseInv /\ (DrainLoad \/ DrainReload \/ DrainStore \/ DrainNext \/ DrainDone) => BaseInv'
<1> SUFFICES ASSUME BaseInv,
                    DrainLoad \/ DrainReload \/ DrainStore \/ DrainNext \/ DrainDone
             PROVE BaseInv'
  OBVIOUS
<1> USE SlotFacts DEF BaseInv, UdcTypeOK, ControlInv, BitmapInv, PCs,
        picoVars, epVars, lapseVars, ctrlVars, threadVars, hostVars
<1>1. CASE DrainLoad
  BY <1>1 DEF DrainLoad
<1>2. CASE DrainReload
  BY <1>2 DEF DrainReload
<1>3. CASE DrainStore
  BY <1>3 DEF DrainStore
<1>4. CASE DrainDone
  BY <1>4 DEF DrainDone
<1>5. CASE DrainNext
  <2>1. PICK s \in pending : pending' = pending \ {s} /\ HandleEpComplete(s)
    BY <1>5 DEF DrainNext
  <2>2. UNCHANGED <<pep, ep_complete, setup_packet, halted, call, parked, lapseVars, flags,
                    enabled, pc, f, reg, host, moved, issued>> /\ pc = "handle"
    BY <1>5 DEF DrainNext
  <2>3. CASE fifo[s] = <<>>
    BY <2>1, <2>2, <2>3 DEF HandleEpComplete
  <2>4. CASE fifo[s] # <<>>
    <3> DEFINE b == Head(fifo[s])
    <3>1. /\ s \in Slots
          /\ b \in Buffers /\ (s \notin Eps => b \in CtrlBufs)
          /\ Tail(fifo[s]) \in Seq(Buffers)
          /\ s \notin Eps => Tail(fifo[s]) \in Seq(CtrlBufs)
      BY <2>4, HeadTailProperties DEF Slots
    <3>2. fifo' = [fifo EXCEPT ![s] = Tail(@)]
      BY <2>1, <2>4 DEF HandleEpComplete
    <3>3. fifo' \in [Slots -> Seq(Buffers)] /\ ControlInv'
      BY <2>2, <3>1, <3>2
    <3>4. CASE s \in Eps
      <4>1. BulkDone(s, b)
        BY <2>1, <2>4, <3>4 DEF HandleEpComplete
      <4> QED
        BY <2>1, <2>2, <3>3, <4>1 DEF BulkDone, Results
    <3>5. CASE s \notin Eps
      <4>1. ControlDone(s, b) /\ b \in CtrlBufs
        BY <2>1, <2>4, <3>1, <3>5 DEF HandleEpComplete
      <4>2. b.req \in Requests
        BY <4>1 DEF CtrlBufs
      <4>3. [req |-> b.req, what |-> "nodata"] \in [req : Requests, what : Kinds]
        BY <4>2 DEF Kinds
      <4>4. told' \in Seq([req : Requests, what : Kinds]) /\ surfaced' \in [Requests -> Nat]
        <5>1. told' = told \/ told' = Append(told, [req |-> b.req, what |-> "nodata"])
          BY <4>1 DEF ControlDone
        <5>2. surfaced' = surfaced \/ surfaced' = [surfaced EXCEPT ![b.req] = @ + 1]
          BY <4>1 DEF ControlDone
        <5>3. told \in Seq([req : Requests, what : Kinds]) /\ surfaced \in [Requests -> Nat]
          OBVIOUS
        <5> HIDE DEF b, UdcTypeOK
        <5> DEFINE m == [req |-> b.req, what |-> "nodata"]
        <5>4. told' \in Seq([req : Requests, what : Kinds])
          <6>1. m \in [req : Requests, what : Kinds] /\ (told' = told \/ told' = Append(told, m))
            BY <4>3, <5>1
          <6> HIDE DEF m
          <6>2. Append(told, m) \in Seq([req : Requests, what : Kinds])
            BY <6>1, <5>3, AppendType
          <6> QED
            BY <6>1, <6>2, <5>3
        <5>5. surfaced' \in [Requests -> Nat]
          BY <4>2, <5>2, <5>3, CountType
        <5> QED
          BY <5>4, <5>5
      <4>5. stage' \in CtrlStages
        BY <4>1 DEF ControlDone, NextStage, CtrlStages
      <4>6. owner' = owner /\ result' = result /\ dev_addr' \in Requests \cup {NoReq}
            /\ pending_address' \in Requests \cup {NoReq}
        BY <4>1 DEF ControlDone
      <4> QED
        BY <2>1, <2>2, <3>3, <4>4, <4>5, <4>6
    <3> QED
      BY <3>4, <3>5
  <2> QED
    BY <2>3, <2>4
<1> QED
  BY <1>1, <1>2, <1>3, <1>4, <1>5

LEMMA BaseStack == BaseInv /\ (SetAddress \/ StackAnswers) => BaseInv'
<1> SUFFICES ASSUME BaseInv, SetAddress \/ StackAnswers PROVE BaseInv'
  OBVIOUS
<1> DEFINE Messages == [req : Requests, what : Kinds]
<1>0. told \in Seq(Messages) /\ told # <<>>
  BY DEF BaseInv, UdcTypeOK, SetAddress, StackAnswers
<1>1. /\ Head(told) \in Messages /\ Tail(told) \in Seq(Messages)
      /\ 1 \in DOMAIN told /\ told[1] = Head(told)
  <2> HIDE DEF Messages
  <2> QED
    BY <1>0, HeadTailProperties, EmptySeq, LenProperties
<1>2. Head(told).req \in Requests
  BY <1>1
<1> USE SlotFacts DEF BaseInv, UdcTypeOK, ControlInv, BitmapInv,
        picoVars, epVars, lapseVars, ctrlVars, threadVars, hostVars
<1>3. CASE SetAddress
  <2> DEFINE m == [told[1] EXCEPT !.what = "nodata"]
  <2>1. m \in Messages
    BY <1>1 DEF Kinds
  <2>2. told' = [told EXCEPT ![1] = m]
    BY <1>3, <1>0, <1>1 DEF SetAddress
  <2>3. told' \in Seq(Messages)
    <3> HIDE DEF Messages, m
    <3> QED
      BY <1>0, <1>1, <2>1, <2>2, ExceptSeq
  <2> QED
    BY <1>3, <1>2, <2>3 DEF SetAddress
<1>4. CASE StackAnswers
  <2> DEFINE b == [req |-> Head(told).req,
                   what |-> IF Head(told).what = "read" THEN "data" ELSE "status"]
  <2>1. b \in CtrlBufs /\ b \in Buffers
    BY <1>2, CtrlBuffer
  <2>2. call' = b /\ fifo' = [fifo EXCEPT ![IN0] = Append(@, b)] /\ told' = Tail(told)
    BY <1>4 DEF StackAnswers
  <2>3. Append(fifo[IN0], b) \in Seq(CtrlBufs) /\ Append(fifo[IN0], b) \in Seq(Buffers)
    <3>1. fifo[IN0] \in Seq(CtrlBufs) /\ fifo[IN0] \in Seq(Buffers)
      OBVIOUS
    <3> HIDE DEF b
    <3> QED
      BY <2>1, <3>1, AppendType
  <2>4. fifo' \in [Slots -> Seq(Buffers)] /\ fifo'[IN0] \in Seq(CtrlBufs) /\ fifo'[OUT0] \in Seq(CtrlBufs)
    BY <2>2, <2>3
  <2>5. /\ told' = Tail(told) /\ call' = b
        /\ UNCHANGED <<picoVars, pending_address, halted, stage, owner, result, parked,
                       lapseVars, flags, enabled, threadVars, hostVars>>
    BY <1>4 DEF StackAnswers
  <2> HIDE DEF b
  <2>6. UdcTypeOK'
    BY <1>1, <2>1, <2>4, <2>5
  <2>7. ControlInv' /\ BitmapInv'
    BY <2>4, <2>5
  <2> QED
    BY <2>6, <2>7
<1> QED
  BY <1>3, <1>4

LEMMA BaseEnqueue == BaseInv /\ ((\E b \in Bufs : EnqueuePut(b)) \/ EnqueueKick) => BaseInv'
<1> SUFFICES ASSUME BaseInv, (\E b \in Bufs : EnqueuePut(b)) \/ EnqueueKick PROVE BaseInv'
  OBVIOUS
<1> USE SlotFacts DEF BaseInv, UdcTypeOK, ControlInv, BitmapInv, Results,
        picoVars, epVars, lapseVars, ctrlVars, threadVars, hostVars
<1>1. ASSUME NEW b \in Bufs, EnqueuePut(b)
      PROVE  BaseInv'
  <2>1. b \in Buffers /\ EpOf[b] \in Slots /\ EpOf[b] # IN0 /\ EpOf[b] # OUT0
    BY DEF Buffers
  <2>2. fifo' = [fifo EXCEPT ![EpOf[b]] = Append(@, b)]
    BY <1>1 DEF EnqueuePut
  <2>3. Append(fifo[EpOf[b]], b) \in Seq(Buffers)
    BY <2>1, AppendType
  <2>4. fifo' \in [Slots -> Seq(Buffers)] /\ fifo'[IN0] \in Seq(CtrlBufs) /\ fifo'[OUT0] \in Seq(CtrlBufs)
    BY <2>1, <2>2, <2>3
  <2>5. /\ owner' = [owner EXCEPT ![b] = "udc"] /\ call' = b
        /\ result' = [result EXCEPT ![b] = "none"]
    BY <1>1 DEF EnqueuePut
  <2>6. /\ moved' \subseteq Bufs /\ parked' \subseteq Bufs
        /\ UNCHANGED <<picoVars, halted, lapseVars, flags, enabled, ctrlVars, threadVars, host, issued,
                       surfaced>>
    BY <1>1 DEF EnqueuePut
  <2>7. owner' \in [Bufs -> {"app", "udc"}] /\ result' \in [Bufs -> Results]
    BY <2>5
  <2>8. UdcTypeOK'
    BY <2>1, <2>4, <2>5, <2>6, <2>7
  <2> QED
    BY <2>4, <2>6, <2>8
<1>2. CASE EnqueueKick
  <2> DEFINE s == IF call \in Bufs THEN EpOf[call] ELSE IN0
  <2>1. s \in Slots /\ call \in Buffers /\ (s \in Eps => call \in ClassBufs(s))
    BY <1>2 DEF EnqueueKick, ClassBufs
  <2>2. pep' = KickOff(s, call) \/ pep' = pep
    BY <1>2 DEF EnqueueKick, CallSlot
  <2>3. /\ pep' \in [Slots -> Endpoints]
        /\ \A t \in Eps : pep'[t].has_transfer => pep'[t].buf \in ClassBufs(t)
    <3> HIDE DEF s
    <3>1. CASE pep' = KickOff(s, call)
      <4>1. /\ KickOff(s, call) \in [Slots -> Endpoints]
            /\ \A t \in Eps :
                  KickOff(s, call)[t].has_transfer => KickOff(s, call)[t].buf \in ClassBufs(t)
        BY <2>1, KickStep
      <4> QED
        BY <3>1, <4>1
    <3>2. CASE pep' = pep
      BY <3>2
    <3> QED
      BY <2>2, <3>1, <3>2
  <2>4. owner' \in [Bufs -> {"app", "udc"}] /\ result' \in [Bufs -> Results]
    BY <1>2 DEF EnqueueKick
  <2>5. parked' \subseteq Bufs /\ call' = NoBuf
    BY <1>2 DEF EnqueueKick
  <2>6. UNCHANGED <<ep_complete, setup_packet, dev_addr, fifo, halted, raced, dropped,
                    flags, enabled, ctrlVars, threadVars, hostVars>>
    BY <1>2 DEF EnqueueKick
  <2>7. overtaken' \subseteq Eps
    BY <1>2 DEF EnqueueKick
  <2> QED
    BY <2>3, <2>4, <2>5, <2>6, <2>7
<1> QED
  BY <1>1, <1>2

LEMMA BaseEndpoint ==
    ASSUME BaseInv, NEW s \in Eps, NEW on \in BOOLEAN,
           EpDequeue(s) \/ EpEnable(s) \/ EpDisable(s) \/ SetHalt(s, on)
    PROVE  BaseInv'
<1> USE SlotFacts DEF BaseInv, UdcTypeOK, ControlInv, BitmapInv, Results,
        picoVars, epVars, lapseVars, ctrlVars, threadVars, hostVars
<1>1. /\ pep' \in [Slots -> Endpoints]
      /\ \A t \in Slots : pep'[t].has_transfer => pep[t].has_transfer /\ pep'[t].buf = pep[t].buf
  <2>1. pep \in [Slots -> Endpoints] /\ s \in Slots
    OBVIOUS
  <2>2. \/ pep' = [pep EXCEPT ![s].has_transfer = FALSE]
        \/ \E v \in BOOLEAN : pep' = [pep EXCEPT ![s].stalled = v]
        \/ \E v \in BOOLEAN : pep' = [pep EXCEPT ![s].open = v]
    BY DEF EpDequeue, EpEnable, EpDisable, SetHalt, Stopped
  <2> HIDE DEF BaseInv, UdcTypeOK, ControlInv, BitmapInv
  <2>3. pep' \in [Slots -> Endpoints]
    <3>1. CASE pep' = [pep EXCEPT ![s].has_transfer = FALSE]
      BY <2>1, <3>1, PoolUpdates
    <3>2. ASSUME NEW v \in BOOLEAN, pep' = [pep EXCEPT ![s].stalled = v]
          PROVE  pep' \in [Slots -> Endpoints]
      BY <2>1, <3>2, PoolUpdates
    <3>3. ASSUME NEW v \in BOOLEAN, pep' = [pep EXCEPT ![s].open = v]
          PROVE  pep' \in [Slots -> Endpoints]
      BY <2>1, <3>3, PoolUpdates
    <3> QED
      BY <2>2, <3>1, <3>2, <3>3
  <2>4. \A t \in Slots : pep'[t].has_transfer => pep[t].has_transfer /\ pep'[t].buf = pep[t].buf
    BY <2>1, <2>2 DEF Endpoints
  <2> QED
    BY <2>3, <2>4
<1>2. \A t \in Eps : pep'[t].has_transfer => pep'[t].buf \in ClassBufs(t)
  BY <1>1
<1>3. CASE EpDequeue(s)
  BY <1>1, <1>2, <1>3, EmptySeq DEF EpDequeue
<1>4. CASE EpEnable(s)
  BY <1>1, <1>2, <1>4 DEF EpEnable
<1>5. CASE EpDisable(s)
  BY <1>1, <1>2, <1>5 DEF EpDisable
<1>6. CASE SetHalt(s, on)
  BY <1>1, <1>2, <1>6 DEF SetHalt
<1> QED
  BY <1>3, <1>4, <1>5, <1>6

LEMMA BaseStep == BaseInv /\ [Next]_vars => BaseInv'
<1> SUFFICES ASSUME BaseInv, [Next]_vars PROVE BaseInv'
  OBVIOUS
<1>1. CASE Host
  BY <1>1, BaseHost
<1>2. CASE ThreadStep
  BY <1>2, BaseSetup, BaseDrain DEF ThreadStep
<1>3. CASE Api
  <2>1. CASE SetAddress \/ StackAnswers
    BY <2>1, BaseStack
  <2>2. CASE (\E b \in Bufs : EnqueuePut(b)) \/ EnqueueKick
    BY <2>2, BaseEnqueue
  <2>3. CASE \E s \in Eps : EpDequeue(s) \/ EpEnable(s) \/ EpDisable(s)
    BY <2>3, BaseEndpoint
  <2>4. CASE \E s \in Eps, on \in BOOLEAN : SetHalt(s, on)
    BY <2>4, BaseEndpoint
  <2>5. CASE \E on \in BOOLEAN : SetEnabled(on)
    BY <2>5 DEF BaseInv, UdcTypeOK, ControlInv, BitmapInv, SetEnabled,
       picoVars, epVars, lapseVars, ctrlVars, threadVars, hostVars
  <2> QED
    BY <1>3, <2>1, <2>2, <2>3, <2>4, <2>5 DEF Api
<1>4. CASE UNCHANGED vars
  BY <1>4 DEF BaseInv, UdcTypeOK, ControlInv, BitmapInv, vars
<1> QED
  BY <1>1, <1>2, <1>3, <1>4 DEF Next
-----------------------------------------------------------------------------
(* The thread knows of each bit, whatever host, classes and stack do       *)

LEMMA FlaggedStep ==
    ASSUME BaseInv, CompletionFlagged, [Next]_vars
    PROVE  CompletionFlagged'
<1> USE DEF picoVars, epVars, lapseVars, ctrlVars, threadVars, hostVars
<1>1. CASE Host
  <2>1. ASSUME NEW s \in Slots, WireDone(s), UNCHANGED <<pc, f, pending>>
        PROVE  CompletionFlagged'
    BY <2>1, WireStep DEF CompletionFlagged
  <2>2. CASE \E s \in Eps : HostTransfers(s)
    BY <2>1, <2>2, SlotFacts DEF HostTransfers
  <2>3. CASE HostControlIn
    BY <2>1, <2>3, SlotFacts DEF HostControlIn
  <2>4. CASE HostControlOut
    BY <2>1, <2>4, SlotFacts DEF HostControlOut
  <2>5. CASE \/ \E r \in Requests : HostSetup(r)
             \/ \E ints \in {{}, {"reset"}} : HostGivesUp(ints)
    <3>1. flags \subseteq flags' /\ UNCHANGED <<ep_complete, pc, f, pending>>
      BY <2>5 DEF HostSetup, HostGivesUp, IrqHandler
    <3> QED
      BY <3>1 DEF CompletionFlagged
  <2> QED
    BY <1>1, <2>2, <2>3, <2>4, <2>5 DEF Host
<1>2. CASE ThreadStep
  <2>1. CASE ThreadWakes
    BY <2>1 DEF ThreadWakes, CompletionFlagged
  <2>2. CASE NoSetup \/ HandleSetup \/ HandleSetupNoMem
    <3>1. UNCHANGED <<ep_complete, flags, f, pending>> /\ pc = "setup" /\ pc' = AfterSetup
      BY <2>2 DEF NoSetup, HandleSetup, HandleSetupNoMem
    <3> QED
      BY <3>1 DEF AfterSetup, CompletionFlagged
  <2>3. CASE DrainLoad \/ DrainReload
    BY <2>3 DEF DrainLoad, DrainReload, CompletionFlagged
  <2>4. CASE DrainStore
    <3>1. ep_complete' \subseteq ep_complete \ pending /\ flags' = flags /\ pc = "store"
      BY <2>4 DEF DrainStore, BaseInv, BitmapInv
    <3> QED
      BY <3>1 DEF CompletionFlagged
  <2>5. CASE DrainNext \/ DrainDone
    <3>1. UNCHANGED <<ep_complete, flags>> /\ pc = "handle"
      BY <2>5 DEF DrainNext, DrainDone
    <3> QED
      BY <3>1 DEF CompletionFlagged
  <2> QED
    BY <1>2, <2>1, <2>2, <2>3, <2>4, <2>5 DEF ThreadStep
<1>3. CASE Api \/ UNCHANGED vars
  <2>1. UNCHANGED <<ep_complete, flags, pc, f, pending>>
    BY <1>3 DEF Api, EnqueuePut, SetAddress, StackAnswers, EnqueueKick, EpDequeue, EpEnable,
       EpDisable, SetHalt, SetEnabled, vars
  <2> QED
    BY <2>1 DEF CompletionFlagged
<1> QED
  BY <1>1, <1>2, <1>3 DEF Next
-----------------------------------------------------------------------------
(* The buffers in the fifos, whatever the classes do                       *)

OwnersInv == FifoOwned /\ \A s \in Eps : HeldInv(s)

\* A fifo in which no buffer is twice, one put behind and the first taken off.
LEMMA Injections ==
    ASSUME NEW S, NEW q \in Seq(S), NEW b \in S, IsInjective(q)
    PROVE  /\ Range(Append(q, b)) = Range(q) \cup {b}
           /\ b \notin Range(q) => IsInjective(Append(q, b))
           /\ q # <<>> => /\ Head(q) \in Range(q)
                          /\ Range(Tail(q)) = Range(q) \ {Head(q)}
                          /\ IsInjective(Tail(q))
<1> DEFINE p == Append(q, b)
<1>1. /\ p \in Seq(S) /\ Len(p) = Len(q) + 1 /\ Len(q) \in Nat
      /\ DOMAIN p = 1..Len(q) + 1 /\ DOMAIN q = 1..Len(q)
      /\ \A i \in 1..Len(q) : p[i] = q[i]
      /\ p[Len(q) + 1] = b
  BY AppendProperties, LenProperties
<1>2. Range(p) = Range(q) \cup {b}
  BY <1>1 DEF Range
<1>3. ASSUME b \notin Range(q) PROVE IsInjective(p)
  <2> SUFFICES ASSUME NEW i \in DOMAIN p, NEW j \in DOMAIN p, p[i] = p[j] PROVE i = j
    BY DEF IsInjective
  <2> HIDE DEF p
  <2> QED
    BY <1>1, <1>3 DEF IsInjective, Range
<1>4. ASSUME q # <<>>
      PROVE  /\ Head(q) \in Range(q) /\ Range(Tail(q)) = Range(q) \ {Head(q)}
             /\ IsInjective(Tail(q))
  <2> DEFINE t == Tail(q)
  <2>1. /\ Len(q) \in Nat /\ Len(q) > 0 /\ Head(q) = q[1] /\ Len(t) = Len(q) - 1
        /\ DOMAIN t = 1..Len(q) - 1 /\ DOMAIN q = 1..Len(q)
        /\ \A i \in 1..Len(q) - 1 : t[i] = q[i + 1]
    BY <1>4, HeadTailProperties, LenProperties, EmptySeq
  <2>2. Head(q) \in Range(q)
    BY <2>1 DEF Range
  <2> HIDE DEF t
  <2>3. IsInjective(t)
    <3> SUFFICES ASSUME NEW i \in DOMAIN t, NEW j \in DOMAIN t, t[i] = t[j] PROVE i = j
      BY DEF IsInjective
    <3>1. q[i + 1] = q[j + 1] /\ i + 1 \in DOMAIN q /\ j + 1 \in DOMAIN q
      BY <2>1
    <3>2. i + 1 = j + 1
      BY <3>1 DEF IsInjective
    <3> QED
      BY <2>1, <3>2
  <2>4. Range(t) \subseteq Range(q) \ {Head(q)}
    <3> SUFFICES ASSUME NEW i \in DOMAIN t PROVE t[i] \in Range(q) \ {Head(q)}
      BY DEF Range
    <3>1. t[i] = q[i + 1] /\ i + 1 \in DOMAIN q /\ 1 \in DOMAIN q /\ i + 1 # 1
      BY <2>1
    <3>2. q[i + 1] # q[1]
      BY <3>1 DEF IsInjective
    <3> QED
      BY <2>1, <3>1, <3>2 DEF Range
  <2>5. Range(q) \ {Head(q)} \subseteq Range(t)
    <3> SUFFICES ASSUME NEW i \in DOMAIN q, q[i] # Head(q) PROVE q[i] \in Range(t)
      BY DEF Range
    <3>1. i - 1 \in DOMAIN t /\ t[i - 1] = q[i]
      BY <2>1
    <3> QED
      BY <3>1 DEF Range
  <2> QED
    BY <2>2, <2>3, <2>4, <2>5 DEF t
<1> QED
  BY <1>2, <1>3, <1>4

LEMMA FifoType == BaseInv => \A s \in Slots : fifo[s] \in Seq(Buffers)
  BY DEF BaseInv, UdcTypeOK

\* What leaves fifos and owners alone, and takes from the wire only what it has moved.
LEMMA OwnersFrame ==
    ASSUME OwnersInv, \A s \in Eps : fifo'[s] = fifo[s],
           UNCHANGED <<owner, result, parked>>, moved \subseteq moved',
           call \in Bufs => call' = call,
           \A s \in Eps : pep[s].has_transfer =>
               \/ pep'[s].has_transfer /\ pep'[s].buf = pep[s].buf
               \/ pep[s].buf \in moved'
    PROVE  OwnersInv'
<1>1. FifoOwned'
  BY SlotFacts DEF OwnersInv, FifoOwned
<1>2. ASSUME NEW s \in Eps PROVE HeldInv(s)'
  <2>1. IsInjective(fifo'[s]) /\ HeldInv(s)
    BY DEF OwnersInv, HeldInv
  <2>2. ASSUME NEW b \in Range(fifo'[s])
        PROVE  \/ b \in moved' \cup parked' \/ result'[b] = "refused" \/ call' = b
               \/ pep'[s].has_transfer /\ pep'[s].buf = b
    <3>1. b \in Range(fifo[s]) /\ b \in Bufs
      BY DEF OwnersInv, FifoOwned
    <3> QED
      BY <2>1, <3>1 DEF HeldInv
  <2> QED
    BY <2>1, <2>2 DEF HeldInv
<1> QED
  BY <1>1, <1>2 DEF OwnersInv

LEMMA OwnersHost == BaseInv /\ OwnersInv /\ Host => OwnersInv'
<1> SUFFICES ASSUME BaseInv, OwnersInv, Host PROVE OwnersInv'
  OBVIOUS
<1>1. UNCHANGED <<fifo, owner, result, parked, call>> /\ moved \subseteq moved'
  BY DEF Host, HostTransfers, HostSetup, HostControlIn, HostControlOut, HostGivesUp, epVars
<1>2. CASE \E e \in Eps : HostTransfers(e)
  <2>1. PICK e \in Eps : HostTransfers(e)
    BY <1>2
  <2>2. WireDone(e) /\ pep[e].buf \in moved'
    BY <2>1 DEF HostTransfers
  <2>3. \A s \in Eps \ {e} : pep'[s] = pep[s]
    BY <2>2, WireStep, SlotFacts
  <2> QED
    BY <1>1, <2>2, <2>3, OwnersFrame
<1>3. CASE HostControlIn \/ HostControlOut
  <2>1. \A s \in Eps : pep'[s] = pep[s]
    BY <1>3, WireStep, SlotFacts DEF HostControlIn, HostControlOut
  <2> QED
    BY <1>1, <2>1, OwnersFrame
<1>4. CASE \/ \E r \in Requests : HostSetup(r)
           \/ \E ints \in {{}, {"reset"}} : HostGivesUp(ints)
  <2>1. pep' = pep
    BY <1>4 DEF HostSetup, HostGivesUp, picoVars
  <2> QED
    BY <1>1, <2>1, OwnersFrame
<1> QED
  BY <1>2, <1>3, <1>4 DEF Host

\* The first buffer of a fifo is given back.
LEMMA OwnersDone ==
    ASSUME BaseInv, OwnersInv, NEW e \in Eps, fifo[e] # <<>>, BulkDone(e, Head(fifo[e])),
           fifo' = [fifo EXCEPT ![e] = Tail(@)], UNCHANGED <<pep, call, moved, parked>>
    PROVE  OwnersInv'
<1> DEFINE b == Head(fifo[e])
<1>1. /\ fifo[e] \in Seq(Buffers) /\ IsInjective(fifo[e]) /\ e \in Slots
      /\ b \in Buffers
  BY FifoType, SlotFacts, HeadTailProperties DEF OwnersInv, HeldInv
<1>2. /\ b \in Range(fifo[e]) /\ fifo'[e] = Tail(fifo[e])
      /\ Range(fifo'[e]) = Range(fifo[e]) \ {b} /\ IsInjective(fifo'[e])
      /\ \A s \in Eps \ {e} : fifo'[s] = fifo[s]
  <2>1. fifo'[e] = Tail(fifo[e]) /\ \A s \in Eps \ {e} : fifo'[s] = fifo[s]
    BY <1>1, SlotFacts DEF BaseInv, UdcTypeOK
  <2> QED
    BY <1>1, <2>1, Injections
<1>3. b \in Bufs /\ EpOf[b] = e
  BY <1>2 DEF OwnersInv, FifoOwned
<1>4. /\ owner'[b] = "app"
      /\ \A c \in Bufs \ {b} : owner'[c] = owner[c] /\ result'[c] = result[c]
  BY <1>3 DEF BulkDone, BaseInv, UdcTypeOK
<1> HIDE DEF b
<1>5. ASSUME NEW s \in Eps, NEW c \in Range(fifo'[s])
      PROVE  c \in Range(fifo[s]) /\ c # b /\ c \in Bufs /\ EpOf[c] = s
  <2>1. c \in Range(fifo[s]) /\ (s = e => c # b)
    BY <1>2
  <2> QED
    BY <1>3, <2>1 DEF OwnersInv, FifoOwned
<1>6. FifoOwned'
  <2>1. ASSUME NEW c \in Bufs, owner'[c] = "udc" PROVE c \in Range(fifo'[EpOf[c]])
    <3>1. c # b /\ c \in Range(fifo[EpOf[c]])
      BY <1>4, <2>1 DEF OwnersInv, FifoOwned
    <3> QED
      BY <1>2, <3>1, SlotFacts
  <2>2. ASSUME NEW s \in Eps, NEW c \in Range(fifo'[s])
        PROVE  c \in Bufs /\ EpOf[c] = s /\ (owner'[c] = "udc" \/ result'[c] = "refused")
    BY <1>4, <1>5, <2>2 DEF OwnersInv, FifoOwned
  <2> QED
    BY <2>1, <2>2 DEF FifoOwned
<1>7. ASSUME NEW s \in Eps PROVE HeldInv(s)'
  <2>1. IsInjective(fifo'[s])
    BY <1>2 DEF OwnersInv, HeldInv
  <2>2. ASSUME NEW c \in Range(fifo'[s])
        PROVE  \/ c \in moved' \cup parked' \/ result'[c] = "refused" \/ call' = c
               \/ pep'[s].has_transfer /\ pep'[s].buf = c
    BY <1>4, <1>5 DEF OwnersInv, HeldInv
  <2> QED
    BY <2>1, <2>2 DEF HeldInv
<1> QED
  BY <1>6, <1>7 DEF OwnersInv

LEMMA OwnersThread == BaseInv /\ OwnersInv /\ ThreadStep => OwnersInv'
<1> SUFFICES ASSUME BaseInv, OwnersInv, ThreadStep PROVE OwnersInv'
  OBVIOUS
<1> USE DEF picoVars, epVars, lapseVars, ctrlVars, threadVars, hostVars
<1>1. CASE ~DrainNext
  <2>1. UNCHANGED <<fifo, owner, result, parked, call, moved>>
    BY <1>1 DEF ThreadStep, ThreadWakes, NoSetup, HandleSetup, HandleSetupNoMem, DrainLoad,
       DrainReload, DrainStore, DrainDone
  <2>2. pep' = pep \/ pep' = KickOff(OUT0, [req |-> setup_packet, what |-> "data"])
    BY <1>1 DEF ThreadStep, ThreadWakes, NoSetup, HandleSetup, HandleSetupNoMem, DrainLoad,
       DrainReload, DrainStore, DrainDone
  <2>3. \A s \in Eps : pep'[s] = pep[s]
    BY <2>2, SlotFacts DEF KickOff, BaseInv, UdcTypeOK
  <2> QED
    BY <2>1, <2>3, OwnersFrame
<1>2. CASE DrainNext
  <2>1. PICK e \in pending : HandleEpComplete(e)
    BY <1>2 DEF DrainNext
  <2>2. UNCHANGED <<pep, call, moved, parked>>
    BY <1>2 DEF DrainNext
  <2>3. CASE e \in Eps /\ fifo[e] # <<>>
    BY <2>1, <2>2, <2>3, OwnersDone DEF HandleEpComplete
  <2>4. CASE e \notin Eps \/ fifo[e] = <<>>
    <3>1. UNCHANGED <<owner, result>> /\ \A s \in Eps : fifo'[s] = fifo[s]
      BY <2>1, <2>4, SlotFacts DEF HandleEpComplete, ControlDone, BaseInv, UdcTypeOK
    <3> QED
      BY <2>2, <3>1, OwnersFrame
  <2> QED
    BY <2>3, <2>4
<1> QED
  BY <1>1, <1>2

LEMMA OwnersPut ==
    ASSUME BaseInv, OwnersInv, NEW b \in Bufs, EnqueuePut(b)
    PROVE  OwnersInv'
<1> DEFINE e == EpOf[b]
<1>1. /\ e \in Eps /\ e \in Slots /\ call' = b /\ call \notin Bufs /\ pep' = pep
      /\ owner' = [owner EXCEPT ![b] = "udc"] /\ result' = [result EXCEPT ![b] = "none"]
      /\ moved' = moved \ {b} /\ parked' = parked \ {b} /\ b \notin Range(fifo[e])
      /\ fifo' = [fifo EXCEPT ![e] = Append(@, b)]
  BY SlotFacts, NullAssumption DEF EnqueuePut, ApiFree, picoVars
<1>2. /\ Range(fifo'[e]) = Range(fifo[e]) \cup {b} /\ IsInjective(fifo'[e])
      /\ \A s \in Eps \ {e} : fifo'[s] = fifo[s]
  <2>1. fifo'[e] = Append(fifo[e], b) /\ \A s \in Eps \ {e} : fifo'[s] = fifo[s]
    BY <1>1, SlotFacts DEF BaseInv, UdcTypeOK
  <2>2. fifo[e] \in Seq(Buffers) /\ b \in Buffers /\ IsInjective(fifo[e])
    BY <1>1, FifoType DEF Buffers, OwnersInv, HeldInv
  <2> QED
    BY <1>1, <2>1, <2>2, Injections
<1>3. /\ owner'[b] = "udc"
      /\ \A c \in Bufs \ {b} : owner'[c] = owner[c] /\ result'[c] = result[c]
  BY <1>1 DEF BaseInv, UdcTypeOK
<1>4. ASSUME NEW s \in Eps, NEW c \in Range(fifo'[s])
      PROVE  \/ c = b /\ s = e
             \/ c # b /\ c \in Range(fifo[s]) /\ c \in Bufs /\ EpOf[c] = s
  BY <1>1, <1>2 DEF OwnersInv, FifoOwned
<1> HIDE DEF e
<1>5. FifoOwned'
  <2>1. ASSUME NEW c \in Bufs, owner'[c] = "udc" PROVE c \in Range(fifo'[EpOf[c]])
    <3>1. CASE c = b
      BY <1>2, <3>1 DEF e
    <3>2. CASE c # b
      <4>1. c \in Range(fifo[EpOf[c]])
        BY <1>3, <2>1, <3>2 DEF OwnersInv, FifoOwned
      <4> QED
        BY <1>2, <4>1, SlotFacts
    <3> QED
      BY <3>1, <3>2
  <2>2. ASSUME NEW s \in Eps, NEW c \in Range(fifo'[s])
        PROVE  c \in Bufs /\ EpOf[c] = s /\ (owner'[c] = "udc" \/ result'[c] = "refused")
    BY <1>3, <1>4, <2>2 DEF OwnersInv, FifoOwned, e
  <2> QED
    BY <2>1, <2>2 DEF FifoOwned
<1>6. ASSUME NEW s \in Eps PROVE HeldInv(s)'
  <2>1. IsInjective(fifo'[s])
    BY <1>2 DEF OwnersInv, HeldInv
  <2>2. ASSUME NEW c \in Range(fifo'[s])
        PROVE  \/ c \in moved' \cup parked' \/ result'[c] = "refused" \/ call' = c
               \/ pep'[s].has_transfer /\ pep'[s].buf = c
    BY <1>1, <1>3, <1>4, <2>2 DEF OwnersInv, HeldInv
  <2> QED
    BY <2>1, <2>2 DEF HeldInv
<1> QED
  BY <1>5, <1>6 DEF OwnersInv

LEMMA OwnersKick == BaseInv /\ OwnersInv /\ EnqueueKick => OwnersInv'
<1> SUFFICES ASSUME BaseInv, OwnersInv, EnqueueKick PROVE OwnersInv'
  OBVIOUS
<1> USE DEF threadVars, hostVars
<1>1. UNCHANGED <<fifo, moved>> /\ parked \subseteq parked'
  BY DEF EnqueueKick
<1>2. \A b \in Bufs : \/ owner'[b] = owner[b] /\ result'[b] = result[b]
                      \/ owner'[b] = "app" /\ result'[b] = "refused"
  BY DEF EnqueueKick
<1>3. FifoOwned'
  BY <1>1, <1>2 DEF OwnersInv, FifoOwned
<1>4. ASSUME NEW s \in Eps PROVE HeldInv(s)'
  <2>1. IsInjective(fifo'[s]) /\ HeldInv(s)
    BY <1>1 DEF OwnersInv, HeldInv
  <2>2. ASSUME NEW b \in Range(fifo[s]), call # b
        PROVE  \/ b \in moved' \cup parked' \/ result'[b] = "refused"
               \/ pep'[s].has_transfer /\ pep'[s].buf = b
    <3>1. b \in Bufs
      BY DEF OwnersInv, FifoOwned
    <3>2. pep[s].has_transfer => pep'[s] = pep[s]
      BY SlotFacts DEF EnqueueKick, KickOff, Accepts, CallSlot, BaseInv, UdcTypeOK
    <3> QED
      BY <1>1, <1>2, <2>1, <2>2, <3>1, <3>2 DEF HeldInv
  <2>3. ASSUME call \in Range(fifo[s])
        PROVE  \/ call \in moved' \cup parked' \/ result'[call] = "refused"
               \/ pep'[s].has_transfer /\ pep'[s].buf = call
    <3>1. call \in Bufs /\ EpOf[call] = s /\ CallSlot = s
      BY <2>3 DEF OwnersInv, FifoOwned, CallSlot
    <3>2. pep' = KickOff(s, call) => pep'[s].has_transfer /\ pep'[s].buf = call
      BY SlotFacts DEF KickOff, BaseInv, UdcTypeOK, Endpoints
    <3> QED
      BY <3>1, <3>2 DEF EnqueueKick
  <2> QED
    BY <1>1, <2>1, <2>2, <2>3 DEF HeldInv
<1> QED
  BY <1>3, <1>4 DEF OwnersInv

LEMMA OwnersDequeue ==
    ASSUME BaseInv, OwnersInv, NEW e \in Eps, EpDequeue(e)
    PROVE  OwnersInv'
<1>1. /\ e \in Slots /\ call' = call /\ UNCHANGED <<moved, parked>>
      /\ fifo' = [fifo EXCEPT ![e] = <<>>]
      /\ pep' = [pep EXCEPT ![e].has_transfer = FALSE]
      /\ owner' = [b \in Bufs |-> IF b \in Range(fifo[e]) THEN "app" ELSE owner[b]]
      /\ result' = [b \in Bufs |-> IF b \in Range(fifo[e]) THEN "aborted" ELSE result[b]]
  BY SlotFacts DEF EpDequeue, Stopped, hostVars
<1>2. /\ fifo'[e] = <<>> /\ Range(fifo'[e]) = {} /\ IsInjective(fifo'[e])
      /\ \A s \in Eps \ {e} : fifo'[s] = fifo[s] /\ pep'[s] = pep[s]
  <2>1. fifo'[e] = <<>> /\ \A s \in Eps \ {e} : fifo'[s] = fifo[s] /\ pep'[s] = pep[s]
    BY <1>1, SlotFacts DEF BaseInv, UdcTypeOK
  <2>2. Range(<<>>) = {} /\ IsInjective(<<>>)
    BY EmptyRange DEF IsInjective
  <2> QED
    BY <2>1, <2>2
<1>3. ASSUME NEW s \in Eps, NEW c \in Range(fifo'[s])
      PROVE  /\ s # e /\ c \in Range(fifo[s]) /\ c \in Bufs /\ EpOf[c] = s
             /\ owner'[c] = owner[c] /\ result'[c] = result[c]
  <2>1. s # e /\ c \in Range(fifo[s]) /\ c \in Bufs /\ EpOf[c] = s
    BY <1>2, <1>3 DEF OwnersInv, FifoOwned
  <2>2. c \notin Range(fifo[e])
    BY <2>1 DEF OwnersInv, FifoOwned
  <2> QED
    BY <1>1, <2>1, <2>2
<1>4. FifoOwned'
  <2>1. ASSUME NEW c \in Bufs, owner'[c] = "udc" PROVE c \in Range(fifo'[EpOf[c]])
    <3>1. c \notin Range(fifo[e]) /\ owner[c] = "udc"
      BY <1>1, <2>1
    <3>2. c \in Range(fifo[EpOf[c]]) /\ EpOf[c] # e
      BY <3>1 DEF OwnersInv, FifoOwned
    <3> QED
      BY <1>2, <3>2, SlotFacts
  <2> QED
    BY <1>3, <2>1 DEF OwnersInv, FifoOwned
<1>5. ASSUME NEW s \in Eps PROVE HeldInv(s)'
  <2>1. IsInjective(fifo'[s])
    BY <1>2 DEF OwnersInv, HeldInv
  <2>2. ASSUME NEW c \in Range(fifo'[s])
        PROVE  \/ c \in moved' \cup parked' \/ result'[c] = "refused" \/ call' = c
               \/ pep'[s].has_transfer /\ pep'[s].buf = c
    BY <1>1, <1>2, <1>3 DEF OwnersInv, HeldInv
  <2> QED
    BY <2>1, <2>2 DEF HeldInv
<1> QED
  BY <1>4, <1>5 DEF OwnersInv

\* The buffer of a control transfer that the stack queues is no class's.
LEMMA AnswerStep ==
    ASSUME BaseInv, StackAnswers
    PROVE  /\ call = NoBuf /\ call' \in CtrlBufs /\ call' \in Buffers /\ call' \notin Bufs
           /\ fifo' = [fifo EXCEPT ![IN0] = Append(@, call')]
           /\ UNCHANGED <<pep, ep_complete, pending, pc, owner, result, parked, moved, raced,
                          overtaken, dropped>>
<1>1. told # <<>> /\ told \in Seq([req : Requests, what : Kinds]) /\ call = NoBuf
  BY DEF StackAnswers, ApiFree, BaseInv, UdcTypeOK
<1>2. Head(told) \in [req : Requests, what : Kinds]
  BY <1>1, HeadTailProperties
<1>3. Head(told).req \in Requests
  BY <1>2
<1>4. \E w \in {"data", "status"} : call' = [req |-> Head(told).req, what |-> w]
  BY DEF StackAnswers
<1>5. call' \in CtrlBufs /\ call' \in Buffers
  BY <1>3, <1>4, CtrlBuffer
<1>6. call' \notin Bufs
  BY <1>5, BuffersAssumption
<1>7. /\ fifo' = [fifo EXCEPT ![IN0] = Append(@, call')]
      /\ UNCHANGED <<pep, ep_complete, pending, pc, owner, result, parked, moved, raced,
                     overtaken, dropped>>
  BY DEF StackAnswers, picoVars, lapseVars, threadVars, hostVars
<1> QED
  BY <1>1, <1>5, <1>6, <1>7

\* What enabling, disabling, halting an endpoint and clearing a halt leave alone.
LEMMA EndpointStep ==
    ASSUME BaseInv, NEW e \in Eps, NEW on \in BOOLEAN,
           EpEnable(e) \/ EpDisable(e) \/ SetHalt(e, on)
    PROVE  /\ UNCHANGED <<fifo, owner, result, parked, moved, call, ep_complete, pending, pc,
                          raced, overtaken, dropped>>
           /\ call = NoBuf
           /\ \A s \in Slots : /\ pep'[s].has_transfer = pep[s].has_transfer
                                /\ pep'[s].buf = pep[s].buf
<1>1. /\ UNCHANGED <<fifo, owner, result, parked, moved, call, ep_complete, pending, pc, raced,
                     overtaken, dropped>>
      /\ call = NoBuf
  BY DEF EpEnable, EpDisable, SetHalt, ApiFree, picoVars, epVars, lapseVars, ctrlVars,
     threadVars, hostVars
<1>2. pep \in [Slots -> Endpoints] /\ e \in Slots
  BY SlotFacts DEF BaseInv, UdcTypeOK
<1>3. \/ pep' = [pep EXCEPT ![e].stalled = on]
      \/ \E v \in BOOLEAN : pep' = [pep EXCEPT ![e].open = v]
  BY DEF EpEnable, EpDisable, SetHalt
<1>4. \A s \in Slots : pep'[s].has_transfer = pep[s].has_transfer /\ pep'[s].buf = pep[s].buf
  BY <1>2, <1>3 DEF Endpoints
<1> QED
  BY <1>1, <1>4

LEMMA OwnersStep == BaseInv /\ OwnersInv /\ [Next]_vars => OwnersInv'
<1> SUFFICES ASSUME BaseInv, OwnersInv, [Next]_vars PROVE OwnersInv'
  OBVIOUS
<1>1. CASE Host
  BY <1>1, OwnersHost
<1>2. CASE ThreadStep
  BY <1>2, OwnersThread
<1>3. CASE Api
  <2>1. CASE SetAddress \/ \E on \in BOOLEAN : SetEnabled(on)
    <3>1. UNCHANGED <<fifo, owner, result, parked, moved, call, pep>>
      BY <2>1 DEF SetAddress, SetEnabled, picoVars, epVars, hostVars
    <3> QED
      BY <3>1, OwnersFrame
  <2>2. CASE StackAnswers
    <3>1. /\ UNCHANGED <<pep, owner, result, parked, moved>> /\ call \notin Bufs
          /\ \A s \in Eps : fifo'[s] = fifo[s]
      BY <2>2, AnswerStep, SlotFacts, NullAssumption DEF BaseInv, UdcTypeOK
    <3> QED
      BY <3>1, OwnersFrame
  <2>3. CASE \E b \in Bufs : EnqueuePut(b)
    BY <2>3, OwnersPut
  <2>4. CASE EnqueueKick
    BY <2>4, OwnersKick
  <2>5. CASE \E s \in Eps : EpDequeue(s)
    BY <2>5, OwnersDequeue
  <2>6. CASE \/ \E s \in Eps : EpEnable(s) \/ EpDisable(s)
             \/ \E s \in Eps, on \in BOOLEAN : SetHalt(s, on)
    <3>1. /\ UNCHANGED <<fifo, owner, result, parked, moved, call>>
          /\ \A s \in Eps : /\ pep'[s].has_transfer = pep[s].has_transfer
                            /\ pep'[s].buf = pep[s].buf
      BY <2>6, EndpointStep, SlotFacts
    <3> QED
      BY <3>1, OwnersFrame
  <2> QED
    BY <1>3, <2>1, <2>2, <2>3, <2>4, <2>5, <2>6 DEF Api
<1>4. CASE UNCHANGED vars
  BY <1>4, OwnersFrame DEF vars
<1> QED
  BY <1>1, <1>2, <1>3, <1>4 DEF Next
-----------------------------------------------------------------------------
(* What is on the wire is queued, unless a dequeue left a stale bit        *)

QueuesInv == \A s \in Fifos \ raced : QueueInv(s)

LEMMA FifoFacts == /\ Fifos \subseteq Slots /\ OUT0 \notin Fifos /\ Eps \subseteq Fifos
                   /\ IN0 \in Fifos
  BY SlotFacts DEF Fifos

LEMMA CompletionsType ==
    /\ \A s \in Fifos : Completions(s) \in Nat /\ Outstanding(s) \in Nat
    /\ \A s \in Fifos : Completions(s) <= Outstanding(s)
    /\ \A s \in Fifos : Completions(s)' \in Nat /\ Outstanding(s)' \in Nat
    /\ \A s \in Fifos : Completions(s)' <= Outstanding(s)'
  BY DEF Completions, Outstanding

\* A fifo that has shed its first element.
LEMMA TailBehind ==
    ASSUME NEW S, NEW q \in Seq(S), q # <<>>, NEW n \in Nat
    PROVE  /\ Tail(q) \in Seq(S) /\ Len(Tail(q)) = Len(q) - 1
           /\ \A j \in DOMAIN q : j > n + 1 =>
                 j - 1 \in DOMAIN Tail(q) /\ j - 1 > n /\ Tail(q)[j - 1] = q[j]
           /\ Len(q) > 1 => Last(Tail(q)) = Last(q)
  BY HeadTailProperties, LenProperties DEF Last

\* What leaves the fifo alone, adds no completion and starts no transfer.
LEMMA QueueFrame ==
    ASSUME BaseInv, NEW s \in Fifos, QueueInv(s), fifo'[s] = fifo[s],
           Completions(s)' <= Completions(s),
           pep'[s].has_transfer => pep[s].has_transfer /\ pep'[s].buf = pep[s].buf,
           call' # NoBuf => call' = call
    PROVE  QueueInv(s)'
<1>1. Outstanding(s)' <= Outstanding(s)
  BY CompletionsType DEF Outstanding
<1>2. Len(fifo[s]) \in Nat /\ DOMAIN fifo[s] \subseteq Nat
  BY FifoFacts, LenProperties DEF BaseInv, UdcTypeOK
<1>3. Outstanding(s)' <= Len(fifo'[s])
  BY <1>1, <1>2, CompletionsType DEF QueueInv
<1>4. pep'[s].has_transfer =>
          \E j \in DOMAIN fifo'[s] : j > Completions(s)' /\ fifo'[s][j] = pep'[s].buf
  BY <1>2, CompletionsType DEF QueueInv
<1>5. call' # NoBuf /\ s = CallSlot' => call # NoBuf /\ s = CallSlot
  BY DEF CallSlot
<1>6. call' # NoBuf /\ s = CallSlot' =>
          Outstanding(s)' < Len(fifo'[s]) /\ Last(fifo'[s]) = call'
  BY <1>1, <1>2, <1>5, CompletionsType DEF QueueInv
<1> QED
  BY <1>3, <1>4, <1>6 DEF QueueInv

\* A transaction ends: one more completion, no transfer.
LEMMA QueueWire ==
    ASSUME BaseInv, QueuesInv, NEW e \in Slots, WireDone(e),
           UNCHANGED <<fifo, call, pc, pending, raced>>
    PROVE  QueuesInv'
<1> SUFFICES ASSUME NEW s \in Fifos \ raced' PROVE QueueInv(s)'
  BY DEF QueuesInv
<1>0. QueueInv(s) /\ s \in Slots
  BY FifoFacts DEF QueuesInv
<1>1. /\ ep_complete' = ep_complete \cup {e} /\ pep[e].has_transfer /\ ~pep'[e].has_transfer
      /\ \A t \in Slots \ {e} : pep'[t] = pep[t]
  BY WireStep
<1>2. CASE s = e
  <2>1. Completions(s)' <= Completions(s) + 1
    BY <1>1 DEF Completions
  <2>2. Outstanding(s)' <= Outstanding(s)
    BY <1>1, <1>2, <2>1, CompletionsType DEF Outstanding
  <2>3. Len(fifo[s]) \in Nat /\ CallSlot' = CallSlot
    BY <1>0, LenProperties DEF BaseInv, UdcTypeOK, CallSlot
  <2> QED
    BY <1>0, <1>1, <1>2, <2>2, <2>3, CompletionsType DEF QueueInv
<1>3. CASE s # e
  <2>1. Completions(s)' <= Completions(s)
    BY <1>1, <1>3 DEF Completions
  <2> QED
    BY <1>0, <1>1, <1>3, <2>1, QueueFrame
<1> QED
  BY <1>2, <1>3

\* The steps of the thread that handle no buffer only move bits about.
LEMMA QueueThread ==
    ASSUME BaseInv, QueuesInv, ThreadStep, ~DrainNext
    PROVE  QueuesInv'
<1> USE DEF picoVars, epVars, lapseVars, ctrlVars, threadVars, hostVars
<1> SUFFICES ASSUME NEW s \in Fifos \ raced' PROVE QueueInv(s)'
  BY DEF QueuesInv
<1>1. fifo' = fifo /\ call' = call /\ raced' = raced
  BY DEF ThreadStep, ThreadWakes, NoSetup, HandleSetup, HandleSetupNoMem, DrainLoad,
     DrainReload, DrainStore, DrainDone
<1>0. QueueInv(s) /\ s \in Slots /\ s # OUT0
  BY <1>1, FifoFacts DEF QueuesInv
<1>2. pep'[s] = pep[s]
  <2>1. pep' = pep \/ pep' = KickOff(OUT0, [req |-> setup_packet, what |-> "data"])
    BY DEF ThreadStep, ThreadWakes, NoSetup, HandleSetup, HandleSetupNoMem, DrainLoad,
       DrainReload, DrainStore, DrainDone
  <2> QED
    BY <1>0, <2>1 DEF KickOff, BaseInv, UdcTypeOK
<1>3. Completions(s)' <= Completions(s)
  <2>1. CASE ThreadWakes \/ NoSetup \/ HandleSetup \/ HandleSetupNoMem
    BY <2>1 DEF ThreadWakes, NoSetup, HandleSetup, HandleSetupNoMem, AfterSetup, Completions
  <2>2. CASE DrainLoad \/ DrainReload
    BY <2>2 DEF DrainLoad, DrainReload, Completions
  <2>3. CASE DrainStore
    BY <2>3 DEF DrainStore, Completions, BaseInv, BitmapInv
  <2>4. CASE DrainDone
    BY <2>4 DEF DrainDone, Completions
  <2> QED
    BY <2>1, <2>2, <2>3, <2>4 DEF ThreadStep
<1> QED
  BY <1>0, <1>1, <1>2, <1>3, QueueFrame

\* Handling a completion takes the first buffer off, and never the one on the wire.
LEMMA QueueDrain ==
    ASSUME BaseInv, QueuesInv, DrainNext
    PROVE  QueuesInv'
<1> SUFFICES ASSUME NEW s \in Fifos \ raced' PROVE QueueInv(s)'
  BY DEF QueuesInv
<1>0. QueueInv(s) /\ s \in Slots
  BY FifoFacts DEF QueuesInv, DrainNext, lapseVars
<1>1. PICK e \in pending : pending' = pending \ {e} /\ HandleEpComplete(e)
  BY DEF DrainNext
<1>2. UNCHANGED <<pep, ep_complete, call, pc>> /\ pc = "handle" /\ e \in Slots
  BY <1>1 DEF DrainNext, BaseInv, UdcTypeOK
<1>3. fifo[s] \in Seq(Buffers) /\ Len(fifo[s]) \in Nat /\ (Len(fifo[s]) > 0 => fifo[s] # <<>>)
  BY <1>0, LenProperties DEF BaseInv, UdcTypeOK
<1>4. CASE s = e
  <2>1. Completions(s) = Completions(s)' + 1 /\ Outstanding(s) = Outstanding(s)' + 1
    BY <1>1, <1>2, <1>4 DEF Completions, Outstanding
  <2>2. Len(fifo[s]) > 0 /\ fifo[s] # <<>>
    BY <1>0, <1>3, <2>1, CompletionsType DEF QueueInv
  <2>3. fifo'[s] = Tail(fifo[s])
    BY <1>0, <1>1, <1>4, <2>2 DEF HandleEpComplete, BaseInv, UdcTypeOK
  <2>4. /\ Len(fifo'[s]) = Len(fifo[s]) - 1
        /\ \A j \in DOMAIN fifo[s] : j > Completions(s)' + 1 =>
              /\ j - 1 \in DOMAIN fifo'[s] /\ j - 1 > Completions(s)'
              /\ fifo'[s][j - 1] = fifo[s][j]
        /\ Len(fifo[s]) > 1 => Last(fifo'[s]) = Last(fifo[s])
    BY <1>3, <2>2, <2>3, TailBehind, CompletionsType
  <2>5. CallSlot' = CallSlot
    BY <1>2 DEF CallSlot
  <2>6. Outstanding(s)' <= Len(fifo'[s])
    BY <1>0, <1>3, <2>1, <2>4, CompletionsType DEF QueueInv
  <2>7. pep'[s].has_transfer =>
            \E j \in DOMAIN fifo'[s] : j > Completions(s)' /\ fifo'[s][j] = pep'[s].buf
    BY <1>0, <1>2, <2>1, <2>4 DEF QueueInv
  <2>8. call' # NoBuf /\ s = CallSlot' =>
            Outstanding(s)' < Len(fifo'[s]) /\ Last(fifo'[s]) = call'
    BY <1>0, <1>2, <1>3, <2>1, <2>4, <2>5, CompletionsType DEF QueueInv
  <2> QED
    BY <2>6, <2>7, <2>8 DEF QueueInv
<1>5. CASE s # e
  <2>1. fifo'[s] = fifo[s]
    BY <1>0, <1>1, <1>2, <1>5 DEF HandleEpComplete, BaseInv, UdcTypeOK
  <2>2. Completions(s)' <= Completions(s)
    BY <1>1, <1>2, <1>5 DEF Completions
  <2> QED
    BY <1>0, <1>2, <2>1, <2>2, QueueFrame
<1> QED
  BY <1>4, <1>5

\* A buffer put in a fifo, behind all others.
LEMMA QueuePut ==
    ASSUME BaseInv, QueuesInv, call = NoBuf, NEW e \in Fifos, NEW b \in Buffers,
           fifo' = [fifo EXCEPT ![e] = Append(@, b)], call' = b,
           e = IF b \in Bufs THEN EpOf[b] ELSE IN0,
           UNCHANGED <<pep, ep_complete, pending, pc, raced>>
    PROVE  QueuesInv'
<1> SUFFICES ASSUME NEW s \in Fifos \ raced' PROVE QueueInv(s)'
  BY DEF QueuesInv
<1>0. QueueInv(s) /\ s \in Slots /\ e \in Slots /\ CallSlot' = e
  BY FifoFacts DEF QueuesInv, CallSlot
<1>1. Completions(s)' = Completions(s) /\ Outstanding(s)' = Outstanding(s)
  BY DEF Completions, Outstanding
<1>2. CASE s = e
  <2>1. fifo[s] \in Seq(Buffers) /\ fifo'[s] = Append(fifo[s], b)
    BY <1>0, <1>2 DEF BaseInv, UdcTypeOK
  <2>2. /\ Len(fifo[s]) \in Nat /\ Len(fifo'[s]) = Len(fifo[s]) + 1
        /\ DOMAIN fifo[s] \subseteq DOMAIN fifo'[s]
        /\ \A j \in DOMAIN fifo[s] : fifo'[s][j] = fifo[s][j]
        /\ Last(fifo'[s]) = b
    BY <2>1, AppendProperties, LenProperties DEF Last
  <2> QED
    BY <1>0, <1>1, <2>2, CompletionsType DEF QueueInv
<1>3. CASE s # e
  <2>1. fifo'[s] = fifo[s]
    BY <1>0, <1>3 DEF BaseInv, UdcTypeOK
  <2> QED
    BY <1>0, <1>1, <1>3, <2>1 DEF QueueInv
<1> QED
  BY <1>2, <1>3

\* The second part of ep_enqueue: the last buffer of the fifo goes on the wire, or not.
LEMMA QueueKick ==
    ASSUME BaseInv, QueuesInv, EnqueueKick
    PROVE  QueuesInv'
<1> SUFFICES ASSUME NEW s \in Fifos \ raced' PROVE QueueInv(s)'
  BY DEF QueuesInv
<1>0. QueueInv(s) /\ s \in Slots
  BY FifoFacts DEF QueuesInv, EnqueueKick
<1>1. /\ call # NoBuf /\ call' = NoBuf /\ UNCHANGED <<fifo, ep_complete, pending, pc>>
      /\ pep' = pep \/ (pep' = KickOff(CallSlot, call) /\ Accepts(CallSlot))
  BY DEF EnqueueKick, threadVars
<1>2. Completions(s)' = Completions(s)
  BY <1>1 DEF Completions
<1>3. CASE s = CallSlot /\ pep' = KickOff(CallSlot, call) /\ Accepts(CallSlot)
  <2>1. pep'[s].has_transfer /\ pep'[s].buf = call /\ ~pep[s].has_transfer
    BY <1>0, <1>3 DEF KickOff, Accepts, BaseInv, UdcTypeOK, Endpoints
  <2>2. Outstanding(s) < Len(fifo[s]) /\ Last(fifo[s]) = call
    BY <1>0, <1>1, <1>3 DEF QueueInv
  <2>3. Outstanding(s)' = Outstanding(s) + 1 /\ Outstanding(s) = Completions(s)
    BY <1>2, <2>1, CompletionsType DEF Outstanding
  <2>4. fifo[s] \in Seq(Buffers) /\ Len(fifo[s]) \in Nat
    BY <1>0, LenProperties DEF BaseInv, UdcTypeOK
  <2>5. Len(fifo[s]) \in DOMAIN fifo[s] /\ fifo[s][Len(fifo[s])] = call
    BY <2>2, <2>4, CompletionsType, LenProperties DEF Last
  <2> QED
    BY <1>1, <1>2, <2>1, <2>2, <2>3, <2>4, <2>5, CompletionsType DEF QueueInv
<1>4. CASE ~(s = CallSlot /\ pep' = KickOff(CallSlot, call) /\ Accepts(CallSlot))
  <2>1. pep'[s] = pep[s]
    <3>1. pep \in [Slots -> Endpoints]
      BY DEF BaseInv, UdcTypeOK
    <3> QED
      BY <1>0, <1>1, <1>4, <3>1 DEF KickOff
  <2> QED
    BY <1>0, <1>1, <1>2, <2>1, CompletionsType, QueueFrame
<1> QED
  BY <1>3, <1>4

\* A dequeue that races no completion empties fifo and endpoint.
LEMMA QueueDequeue ==
    ASSUME BaseInv, QueuesInv, NEW e \in Eps, EpDequeue(e)
    PROVE  QueuesInv'
<1> SUFFICES ASSUME NEW s \in Fifos \ raced' PROVE QueueInv(s)'
  BY DEF QueuesInv
<1>1. UNCHANGED <<ep_complete, pending, pc, call>> /\ call = NoBuf /\ e \in Slots
  BY SlotFacts DEF EpDequeue, ApiFree, threadVars
<1>2. Completions(s)' = Completions(s)
  BY <1>1 DEF Completions
<1>3. CASE s = e
  <2>1. fifo'[s] = <<>> /\ ~pep'[s].has_transfer /\ s \notin ep_complete \cup pending
    BY <1>1, <1>3 DEF EpDequeue, Stopped, BaseInv, UdcTypeOK, Endpoints
  <2>2. Outstanding(s)' = 0 /\ Len(fifo'[s]) = 0
    BY <1>1, <2>1, EmptySeq DEF Completions, Outstanding
  <2> QED
    BY <1>1, <2>1, <2>2 DEF QueueInv
<1>4. CASE s # e
  <2>1. s \notin raced /\ fifo'[s] = fifo[s] /\ pep'[s] = pep[s]
    BY <1>1, <1>4, FifoFacts DEF EpDequeue, Stopped, BaseInv, UdcTypeOK
  <2> QED
    BY <1>1, <1>2, <2>1, CompletionsType, QueueFrame DEF QueuesInv
<1> QED
  BY <1>3, <1>4

LEMMA QueueStep ==
    ASSUME BaseInv, QueuesInv, [Next]_vars
    PROVE  QueuesInv'
<1> USE DEF picoVars, epVars, lapseVars, ctrlVars, threadVars, hostVars
<1>0. ASSUME UNCHANGED <<fifo, call, pc, pending, ep_complete, raced>>,
             \A s \in Fifos : /\ pep'[s].has_transfer = pep[s].has_transfer
                              /\ pep'[s].buf = pep[s].buf
      PROVE  QueuesInv'
  BY <1>0 DEF QueuesInv, QueueInv, Outstanding, Completions, CallSlot
<1>1. CASE Host
  <2>1. CASE \E e \in Eps : HostTransfers(e)
    BY <2>1, SlotFacts, QueueWire DEF HostTransfers
  <2>2. CASE HostControlIn
    BY <2>2, SlotFacts, QueueWire DEF HostControlIn
  <2>3. CASE HostControlOut
    BY <2>3, SlotFacts, QueueWire DEF HostControlOut
  <2>4. CASE \/ \E r \in Requests : HostSetup(r)
             \/ \E ints \in {{}, {"reset"}} : HostGivesUp(ints)
    BY <1>0, <2>4 DEF HostSetup, HostGivesUp
  <2> QED
    BY <1>1, <2>1, <2>2, <2>3, <2>4 DEF Host
<1>2. CASE ThreadStep
  BY <1>2, QueueThread, QueueDrain
<1>3. CASE Api
  <2>1. CASE (\E on \in BOOLEAN : SetEnabled(on)) \/ SetAddress
    BY <1>0, <2>1 DEF SetEnabled, SetAddress
  <2>2. CASE StackAnswers
    BY <2>2, AnswerStep, FifoFacts, QueuePut
  <2>3. CASE \E b \in Bufs : EnqueuePut(b)
    <3>1. PICK b \in Bufs : EnqueuePut(b)
      BY <2>3
    <3>2. /\ fifo' = [fifo EXCEPT ![EpOf[b]] = Append(@, b)] /\ call' = b /\ call = NoBuf
          /\ UNCHANGED <<pep, ep_complete, pending, pc, raced>>
      BY <3>1 DEF EnqueuePut, ApiFree
    <3> QED
      BY <3>2, SlotFacts, FifoFacts, QueuePut DEF Buffers
  <2>4. CASE EnqueueKick
    BY <2>4, QueueKick
  <2>5. CASE \E s \in Eps : EpDequeue(s)
    BY <2>5, QueueDequeue
  <2>6. CASE \/ \E s \in Eps : EpEnable(s) \/ EpDisable(s)
             \/ \E s \in Eps, on \in BOOLEAN : SetHalt(s, on)
    <3>1. /\ UNCHANGED <<fifo, call, pc, pending, ep_complete, raced>>
          /\ \A s \in Slots : /\ pep'[s].has_transfer = pep[s].has_transfer
                              /\ pep'[s].buf = pep[s].buf
      BY <2>6, EndpointStep
    <3> QED
      BY <1>0, <3>1, FifoFacts
  <2> QED
    BY <1>3, <2>1, <2>2, <2>3, <2>4, <2>5, <2>6 DEF Api
<1>4. CASE UNCHANGED vars
  BY <1>0, <1>4 DEF vars
<1> QED
  BY <1>1, <1>2, <1>3, <1>4 DEF Next
-----------------------------------------------------------------------------
(* The completions of an endpoint in step are those of its first buffers   *)

InStep == Eps \ (raced \cup overtaken)
StepsInv == \A s \in InStep : StepInv(s)

\* All that the proof of a step takes for granted.
DataInv == BaseInv /\ OwnersInv /\ QueuesInv /\ StepsInv

\* The buffers of an endpoint of a class, and their places in its fifo.
LEMMA DataFacts ==
    ASSUME DataInv, NEW s \in InStep
    PROVE  /\ s \in Eps /\ s \in Fifos /\ s \in Slots /\ s \notin raced
           /\ StepInv(s) /\ QueueInv(s)
           /\ fifo[s] \in Seq(Buffers) /\ IsInjective(fifo[s])
           /\ Len(fifo[s]) \in Nat /\ DOMAIN fifo[s] = 1..Len(fifo[s])
           /\ \A i \in DOMAIN fifo[s] : fifo[s][i] \in ClassBufs(s)
           /\ pep[s].has_transfer => pep[s].buf \in ClassBufs(s)
           /\ Completions(s) \in Nat /\ Completions(s) <= Len(fifo[s])
<1>1. s \in Eps /\ s \in Fifos /\ s \in Slots /\ s \notin raced
  BY SlotFacts, FifoFacts DEF InStep
<1>2. StepInv(s) /\ QueueInv(s) /\ IsInjective(fifo[s])
  BY <1>1 DEF DataInv, StepsInv, QueuesInv, OwnersInv, HeldInv
<1>3. fifo[s] \in Seq(Buffers) /\ Len(fifo[s]) \in Nat /\ DOMAIN fifo[s] = 1..Len(fifo[s])
  BY <1>1, FifoType, LenProperties DEF DataInv
<1>4. \A i \in DOMAIN fifo[s] : fifo[s][i] \in ClassBufs(s)
  BY <1>1 DEF DataInv, OwnersInv, FifoOwned, ClassBufs, Range
<1>5. pep[s].has_transfer => pep[s].buf \in ClassBufs(s)
  BY <1>1 DEF DataInv, BaseInv, ControlInv
<1>6. Completions(s) \in Nat /\ Completions(s) <= Len(fifo[s])
  BY <1>1, <1>2, <1>3, CompletionsType DEF QueueInv
<1> QED
  BY <1>1, <1>2, <1>3, <1>4, <1>5, <1>6

\* What leaves the fifo and its moved buffers alone, starts no transfer, and takes away a
\* completion only in dropping it.
LEMMA StepFrame ==
    ASSUME DataInv, NEW s \in InStep, fifo'[s] = fifo[s],
           \A b \in ClassBufs(s) : b \in moved' <=> b \in moved,
           pep'[s].has_transfer => pep[s].has_transfer /\ pep'[s].buf = pep[s].buf,
           call' \in ClassBufs(s) => call' = call,
           Completions(s)' <= Completions(s),
           s \notin dropped' => s \notin dropped /\ Completions(s)' = Completions(s)
    PROVE  StepInv(s)'
<1> DEFINE q == fifo[s]
           n == Completions(s)
           m == Completions(s)'
<1>1. /\ StepInv(s) /\ q \in Seq(Buffers) /\ \A i \in DOMAIN q : q[i] \in ClassBufs(s)
      /\ pep[s].has_transfer => pep[s].buf \in ClassBufs(s)
      /\ n \in Nat /\ m \in Nat /\ m <= n /\ DOMAIN q \subseteq Nat
  BY DataFacts, CompletionsType
<1>2. \A i \in DOMAIN q : q[i] \in moved' <=> q[i] \in moved
  BY <1>1
<1>3. \A i, j \in DOMAIN q : i <= j /\ q[j] \in moved' => q[i] \in moved'
  BY <1>1, <1>2 DEF StepInv
<1>4. \A i \in DOMAIN q : i <= m => q[i] \in moved'
  BY <1>1, <1>2 DEF StepInv
<1>5. s \notin dropped' => \A i \in DOMAIN q : i > m => q[i] \notin moved'
  BY <1>1, <1>2 DEF StepInv
<1>6. pep'[s].has_transfer =>
          /\ pep'[s].buf \notin moved' \cup {call'}
          /\ \A i, j \in DOMAIN q : i < j /\ q[j] = pep'[s].buf => q[i] \in moved'
  BY <1>1, <1>2 DEF StepInv
<1>7. call' \in Bufs /\ s = CallSlot' => call' \notin moved'
  BY <1>1 DEF StepInv, CallSlot, ClassBufs
<1> QED
  BY <1>3, <1>4, <1>5, <1>6, <1>7 DEF StepInv

\* The host moves the buffer on the wire: the first of those it has not moved.
LEMMA StepMoves ==
    ASSUME DataInv, NEW s \in InStep, HostTransfers(s)
    PROVE  StepInv(s)'
<1> DEFINE q == fifo[s]
           n == Completions(s)
           m == Completions(s)'
           b == pep[s].buf
<1>1. /\ StepInv(s) /\ QueueInv(s) /\ s \in Slots
      /\ n \in Nat /\ m \in Nat /\ DOMAIN q = 1..Len(q) /\ Len(q) \in Nat
      /\ \A i \in DOMAIN q : q[i] \in ClassBufs(s)
  BY DataFacts, CompletionsType
<1>2. /\ pep[s].has_transfer /\ ~pep'[s].has_transfer /\ ep_complete' = ep_complete \cup {s}
      /\ moved' = moved \cup {b} /\ dropped' = dropped \cup ({s} \cap ep_complete)
      /\ UNCHANGED <<fifo, call, pc, pending>>
  <2>1. WireDone(s)
    BY DEF HostTransfers
  <2> QED
    BY <1>1, <2>1, WireStep DEF HostTransfers, epVars, threadVars, DataInv
<1>3. PICK k \in DOMAIN q : k > n /\ q[k] = b
  BY <1>1, <1>2 DEF QueueInv
<1>4. \A i \in DOMAIN q : i < k => q[i] \in moved
  BY <1>1, <1>2, <1>3 DEF StepInv
<1>5. m = IF s \in ep_complete THEN n ELSE n + 1
  BY <1>2 DEF Completions
<1> HIDE DEF n, m
<1>6. \A i, j \in DOMAIN q : i <= j /\ q[j] \in moved' => q[i] \in moved'
  <2> SUFFICES ASSUME NEW i \in DOMAIN q, NEW j \in DOMAIN q, i <= j, q[j] \in moved'
               PROVE  q[i] \in moved'
    OBVIOUS
  <2>1. CASE q[j] \in moved
    BY <1>1, <1>2, <2>1 DEF StepInv
  <2>2. CASE q[j] = b
    <3>1. i < j => q[i] \in moved
      BY <1>1, <1>2, <2>2 DEF StepInv
    <3> QED
      BY <1>1, <1>2, <2>2, <3>1
  <2> QED
    BY <1>2, <2>1, <2>2
<1>7. \A i \in DOMAIN q : i <= n => q[i] \in moved
  BY <1>1 DEF StepInv, n
<1>8. \A i \in DOMAIN q : i <= m => q[i] \in moved'
  <2> SUFFICES ASSUME NEW i \in DOMAIN q, i <= m PROVE q[i] \in moved'
    OBVIOUS
  <2>1. i <= n \/ i = n + 1
    BY <1>1, <1>5
  <2>2. i = n + 1 => i < k \/ i = k
    BY <1>1, <1>3
  <2> QED
    BY <1>2, <1>3, <1>4, <1>7, <2>1, <2>2
<1>9. s \notin dropped' => \A i \in DOMAIN q : i > m => q[i] \notin moved'
  <2> SUFFICES ASSUME s \notin dropped', NEW i \in DOMAIN q, i > m PROVE q[i] \notin moved'
    OBVIOUS
  <2>1. s \notin dropped /\ m = n + 1 /\ i > n
    BY <1>1, <1>2, <1>5
  <2>2. \A j \in DOMAIN q : j > n => q[j] \notin moved
    BY <1>1, <2>1 DEF StepInv, n
  <2>3. n + 1 \in DOMAIN q /\ n + 1 > n /\ n + 1 < i
    BY <1>1, <2>1
  <2>4. q[i] # b
    BY <1>1, <1>2, <2>2, <2>3 DEF StepInv
  <2> QED
    BY <1>2, <2>1, <2>2, <2>4
<1>10. call' \in Bufs /\ s = CallSlot' => call' \notin moved'
  BY <1>1, <1>2 DEF StepInv, CallSlot
<1> QED
  BY <1>2, <1>6, <1>8, <1>9, <1>10 DEF StepInv, m

LEMMA StepHost == DataInv /\ Host => StepsInv'
<1> SUFFICES ASSUME DataInv, Host, NEW s \in InStep' PROVE StepInv(s)'
  BY DEF StepsInv
<1> USE DEF picoVars, epVars, lapseVars, threadVars
<1>1. /\ UNCHANGED <<fifo, call, pc, pending, raced, overtaken>> /\ s \in InStep
      /\ s \in Eps /\ s \in Slots /\ BaseInv
  BY SlotFacts DEF Host, HostTransfers, HostSetup, HostControlIn, HostControlOut, HostGivesUp,
     InStep, DataInv
<1>2. CASE \E e \in Eps : HostTransfers(e)
  <2>1. PICK e \in Eps : HostTransfers(e)
    BY <1>2
  <2>2. CASE s # e
    <3>1. /\ WireDone(e) /\ e \in Slots /\ moved' = moved \cup {pep[e].buf}
          /\ dropped' = dropped \cup ({e} \cap ep_complete)
      BY <2>1, SlotFacts DEF HostTransfers
    <3>2. pep'[s] = pep[s] /\ ep_complete' = ep_complete \cup {e} /\ pep[e].has_transfer
      BY <1>1, <2>2, <3>1, WireStep
    <3>3. pep[e].buf \notin ClassBufs(s)
      BY <1>1, <2>2, <3>2 DEF BaseInv, ControlInv, ClassBufs
    <3>4. Completions(s)' = Completions(s)
      BY <1>1, <2>2, <3>2 DEF Completions
    <3> QED
      BY <1>1, <2>2, <3>1, <3>2, <3>3, <3>4, StepFrame, DataFacts
  <2> QED
    BY <1>1, <2>1, <2>2, StepMoves
<1>3. CASE ~\E e \in Eps : HostTransfers(e)
  <2>1. moved' = moved /\ dropped' = dropped
    BY <1>3 DEF Host, HostSetup, HostControlIn, HostControlOut, HostGivesUp
  <2>2. pep'[s] = pep[s] /\ (s \in ep_complete' <=> s \in ep_complete)
    <3>1. CASE HostControlIn \/ HostControlOut
      BY <1>1, <3>1, WireStep, SlotFacts DEF HostControlIn, HostControlOut
    <3>2. CASE \/ \E r \in Requests : HostSetup(r)
               \/ \E ints \in {{}, {"reset"}} : HostGivesUp(ints)
      BY <3>2 DEF HostSetup, HostGivesUp
    <3> QED
      BY <1>3, <3>1, <3>2 DEF Host
  <2>3. Completions(s)' = Completions(s)
    BY <1>1, <2>2 DEF Completions
  <2> QED
    BY <1>1, <2>1, <2>2, <2>3, StepFrame, DataFacts
<1> QED
  BY <1>2, <1>3

\* The first buffer of the fifo is given back.
LEMMA StepDone ==
    ASSUME DataInv, NEW s \in InStep, DrainNext, s \in pending, pending' = pending \ {s},
           HandleEpComplete(s)
    PROVE  StepInv(s)'
<1> DEFINE q == fifo[s]
           t == fifo'[s]
           n == Completions(s)
           m == Completions(s)'
<1>1. /\ StepInv(s) /\ s \in Slots /\ n \in Nat /\ m \in Nat /\ n <= Len(q)
      /\ DOMAIN q = 1..Len(q) /\ Len(q) \in Nat /\ q \in Seq(Buffers)
  BY DataFacts, CompletionsType
<1>2. UNCHANGED <<pep, ep_complete, call, pc, moved, dropped>> /\ pc = "handle"
  BY DEF DrainNext, lapseVars
<1>3. n = m + 1
  BY <1>2 DEF Completions
<1>4. q # <<>> /\ t = Tail(q)
  <2>1. q # <<>>
    BY <1>1, <1>3, EmptySeq
  <2>2. fifo' = [fifo EXCEPT ![s] = Tail(@)]
    BY <2>1 DEF HandleEpComplete
  <2> QED
    BY <1>1, <2>1, <2>2 DEF DataInv, BaseInv, UdcTypeOK
<1> HIDE DEF n, m, t
<1>5. /\ DOMAIN t = 1..Len(q) - 1
      /\ \A i \in DOMAIN t : t[i] = q[i + 1] /\ i + 1 \in DOMAIN q /\ i \in Nat
  <2> HIDE DEF q
  <2>1. /\ Len(Tail(q)) = Len(q) - 1 /\ DOMAIN Tail(q) = 1..Len(Tail(q))
        /\ \A i \in 1..Len(q) - 1 : Tail(q)[i] = q[i + 1]
    BY <1>1, <1>4, HeadTailProperties, LenProperties
  <2> QED
    BY <1>1, <1>4, <2>1
<1>6. \A i, j \in DOMAIN t : i <= j /\ t[j] \in moved' => t[i] \in moved'
  BY <1>1, <1>2, <1>5 DEF StepInv
<1>7. \A i \in DOMAIN t : i <= m => t[i] \in moved'
  <2>1. \A i \in DOMAIN q : i <= n => q[i] \in moved
    BY <1>1 DEF StepInv, n
  <2> QED
    BY <1>1, <1>2, <1>3, <1>5, <2>1
<1>8. s \notin dropped' => \A i \in DOMAIN t : i > m => t[i] \notin moved'
  <2>1. s \notin dropped => \A i \in DOMAIN q : i > n => q[i] \notin moved
    BY <1>1 DEF StepInv, n
  <2> QED
    BY <1>1, <1>2, <1>3, <1>5, <2>1
<1>9. pep'[s].has_transfer =>
          /\ pep'[s].buf \notin moved' \cup {call'}
          /\ \A i, j \in DOMAIN t : i < j /\ t[j] = pep'[s].buf => t[i] \in moved'
  BY <1>1, <1>2, <1>5 DEF StepInv
<1>10. call' \in Bufs /\ s = CallSlot' => call' \notin moved'
  BY <1>1, <1>2 DEF StepInv, CallSlot
<1> QED
  BY <1>6, <1>7, <1>8, <1>9, <1>10 DEF StepInv, m, t

LEMMA StepThread == DataInv /\ ThreadStep => StepsInv'
<1> SUFFICES ASSUME DataInv, ThreadStep, NEW s \in InStep' PROVE StepInv(s)'
  BY DEF StepsInv
<1> USE DEF picoVars, epVars, lapseVars, ctrlVars, threadVars, hostVars
<1>1. /\ UNCHANGED <<call, moved, raced, overtaken>> /\ s \in InStep
      /\ s \in Eps /\ s \in Slots /\ s # OUT0 /\ BaseInv
  BY SlotFacts DEF ThreadStep, ThreadWakes, NoSetup, HandleSetup, HandleSetupNoMem, DrainLoad,
     DrainReload, DrainStore, DrainNext, DrainDone, InStep, DataInv
<1>2. CASE ThreadStep /\ ~DrainNext
  <2>1. fifo' = fifo
    BY <1>2 DEF ThreadStep, ThreadWakes, NoSetup, HandleSetup, HandleSetupNoMem, DrainLoad,
       DrainReload, DrainStore, DrainDone
  <2>2. pep' = pep \/ pep' = KickOff(OUT0, [req |-> setup_packet, what |-> "data"])
    BY <1>2 DEF ThreadStep, ThreadWakes, NoSetup, HandleSetup, HandleSetupNoMem, DrainLoad,
       DrainReload, DrainStore, DrainDone
  <2>3. pep'[s] = pep[s]
    BY <1>1, <2>2 DEF KickOff, BaseInv, UdcTypeOK
  <2>4. /\ Completions(s)' <= Completions(s)
        /\ s \notin dropped' => s \notin dropped /\ Completions(s)' = Completions(s)
    <3>1. CASE ThreadWakes \/ NoSetup \/ HandleSetup \/ HandleSetupNoMem
      BY <3>1 DEF ThreadWakes, NoSetup, HandleSetup, HandleSetupNoMem, AfterSetup, Completions
    <3>2. CASE DrainLoad \/ DrainReload
      BY <3>2 DEF DrainLoad, DrainReload, Completions
    <3>3. CASE DrainStore
      BY <1>1, <3>3 DEF DrainStore, Completions, BaseInv, BitmapInv
    <3>4. CASE DrainDone
      BY <3>4 DEF DrainDone, Completions
    <3> QED
      BY <1>2, <3>1, <3>2, <3>3, <3>4 DEF ThreadStep
  <2> QED
    BY <1>1, <2>1, <2>3, <2>4, StepFrame
<1>3. CASE DrainNext
  <2>1. PICK e \in pending : pending' = pending \ {e} /\ HandleEpComplete(e)
    BY <1>3 DEF DrainNext
  <2>2. UNCHANGED <<pep, ep_complete, pc, dropped>>
    BY <1>3 DEF DrainNext
  <2>3. CASE s = e
    BY <1>1, <1>3, <2>1, <2>3, StepDone
  <2>4. CASE s # e
    <3>1. fifo'[s] = fifo[s]
      BY <1>1, <2>1, <2>4 DEF HandleEpComplete, BaseInv, UdcTypeOK
    <3>2. Completions(s)' = Completions(s)
      BY <2>1, <2>2, <2>4 DEF Completions
    <3> QED
      BY <1>1, <2>2, <3>1, <3>2, StepFrame, DataFacts
  <2> QED
    BY <2>3, <2>4
<1> QED
  BY <1>2, <1>3

\* A buffer put behind those in the fifo is not moved yet.
LEMMA StepPuts ==
    ASSUME DataInv, NEW b \in Bufs, EnqueuePut(b), NEW s \in InStep, s = EpOf[b]
    PROVE  StepInv(s)'
<1> DEFINE q == fifo[s]
           p == fifo'[s]
           n == Completions(s)
<1>1. /\ StepInv(s) /\ QueueInv(s) /\ s \in Slots /\ n \in Nat /\ n <= Len(q)
      /\ DOMAIN q = 1..Len(q) /\ Len(q) \in Nat /\ q \in Seq(Buffers)
  BY DataFacts
<1>2. /\ UNCHANGED <<pep, ep_complete, pending, pc, dropped>> /\ call' = b
      /\ moved' = moved \ {b} /\ b \notin Range(q) /\ b \in Buffers
      /\ fifo' = [fifo EXCEPT ![s] = Append(@, b)]
  BY DEF EnqueuePut, picoVars, lapseVars, threadVars, Buffers
<1>3. /\ p = Append(q, b) /\ Completions(s)' = n
      /\ \A i \in DOMAIN q : q[i] # b
  BY <1>1, <1>2 DEF DataInv, BaseInv, UdcTypeOK, Completions, Range
<1> HIDE DEF n, p
<1>4. /\ DOMAIN p = 1..Len(q) + 1 /\ p[Len(q) + 1] = b
      /\ \A i \in DOMAIN q : p[i] = q[i] /\ (p[i] \in moved' <=> q[i] \in moved)
  <2>1. /\ DOMAIN p = 1..Len(q) + 1 /\ p[Len(q) + 1] = b
        /\ \A i \in DOMAIN q : p[i] = q[i]
    <3> HIDE DEF q
    <3> QED
      BY <1>1, <1>2, <1>3, AppendProperties, LenProperties
  <2> QED
    BY <1>2, <1>3, <2>1
<1>5. \A i \in DOMAIN p : i \in DOMAIN q \/ (i = Len(q) + 1 /\ p[i] = b /\ p[i] \notin moved')
  BY <1>1, <1>2, <1>4
<1>6. \A i, j \in DOMAIN p : i <= j /\ p[j] \in moved' => p[i] \in moved'
  <2> SUFFICES ASSUME NEW i \in DOMAIN p, NEW j \in DOMAIN p, i <= j, p[j] \in moved'
               PROVE  p[i] \in moved'
    OBVIOUS
  <2>1. j \in DOMAIN q /\ i \in DOMAIN q
    BY <1>1, <1>4, <1>5
  <2> QED
    BY <1>1, <1>4, <2>1 DEF StepInv
<1>7. \A i \in DOMAIN p : i <= n => p[i] \in moved'
  <2>1. \A i \in DOMAIN q : i <= n => q[i] \in moved
    BY <1>1 DEF StepInv, n
  <2>2. \A i \in DOMAIN p : i <= n => i \in DOMAIN q
    BY <1>1, <1>4
  <2> QED
    BY <1>4, <2>1, <2>2
<1>8. s \notin dropped' => \A i \in DOMAIN p : i > n => p[i] \notin moved'
  <2>1. s \notin dropped => \A i \in DOMAIN q : i > n => q[i] \notin moved
    BY <1>1 DEF StepInv, n
  <2> QED
    BY <1>2, <1>4, <1>5, <2>1
<1>9. ASSUME pep'[s].has_transfer
      PROVE  /\ pep'[s].buf \notin moved' \cup {call'}
             /\ \A i, j \in DOMAIN p : i < j /\ p[j] = pep'[s].buf => p[i] \in moved'
  <2>1. pep[s].has_transfer /\ pep'[s].buf = pep[s].buf
    BY <1>2, <1>9
  <2>2. PICK k \in DOMAIN q : q[k] = pep[s].buf
    BY <1>1, <2>1 DEF QueueInv
  <2>3. pep[s].buf \notin moved /\ pep[s].buf # b
    BY <1>1, <1>3, <2>1, <2>2 DEF StepInv
  <2>4. \A i, j \in DOMAIN p : i < j /\ p[j] = pep[s].buf => i \in DOMAIN q /\ j \in DOMAIN q
    BY <1>1, <1>4, <1>5, <2>3
  <2>5. \A i, j \in DOMAIN q : i < j /\ q[j] = pep[s].buf => q[i] \in moved
    BY <1>1, <2>1 DEF StepInv
  <2> QED
    BY <1>2, <1>4, <2>1, <2>3, <2>4, <2>5
<1>10. call' \notin moved'
  BY <1>2
<1> QED
  BY <1>3, <1>6, <1>7, <1>8, <1>9, <1>10 DEF StepInv, n, p

LEMMA StepPut ==
    ASSUME DataInv, NEW b \in Bufs, EnqueuePut(b)
    PROVE  StepsInv'
<1> SUFFICES ASSUME NEW s \in InStep' PROVE StepInv(s)'
  BY DEF StepsInv
<1>1. /\ UNCHANGED <<pep, ep_complete, pending, pc, raced, overtaken, dropped>> /\ call' = b
      /\ moved' = moved \ {b} /\ fifo' = [fifo EXCEPT ![EpOf[b]] = Append(@, b)]
      /\ s \in InStep
  BY DEF EnqueuePut, picoVars, lapseVars, threadVars, InStep
<1>2. CASE s = EpOf[b]
  BY <1>1, <1>2, StepPuts
<1>3. CASE s # EpOf[b]
  <2>1. b \notin ClassBufs(s) /\ fifo'[s] = fifo[s] /\ Completions(s)' = Completions(s)
    BY <1>1, <1>3, DataFacts DEF ClassBufs, DataInv, BaseInv, UdcTypeOK, Completions
  <2> QED
    BY <1>1, <2>1, StepFrame, DataFacts
<1> QED
  BY <1>2, <1>3

\* A kick-off that does not leave its endpoint out of step has moved buffers before it.
LEMMA StepKick == DataInv /\ EnqueueKick => StepsInv'
<1> SUFFICES ASSUME DataInv, EnqueueKick, NEW s \in InStep' PROVE StepInv(s)'
  BY DEF StepsInv
<1>1. /\ UNCHANGED <<fifo, ep_complete, pending, pc, moved, raced, dropped>>
      /\ call # NoBuf /\ call' = NoBuf /\ overtaken \subseteq overtaken' /\ s \in InStep
      /\ pep' = pep \/ (pep' = KickOff(CallSlot, call) /\ Accepts(CallSlot))
  BY DEF EnqueueKick, threadVars, hostVars, InStep
<1>2. /\ s \in Slots /\ s \in Eps /\ StepInv(s) /\ IsInjective(fifo[s])
      /\ DOMAIN fifo[s] = 1..Len(fifo[s]) /\ NoBuf \notin Bufs
  BY <1>1, DataFacts, NullAssumption
<1>3. Completions(s)' = Completions(s)
  BY <1>1 DEF Completions
<1>4. CASE s = CallSlot /\ pep' # pep
  <2>1. pep'[s].has_transfer /\ pep'[s].buf = call
    BY <1>1, <1>2, <1>4 DEF KickOff, DataInv, BaseInv, UdcTypeOK, Endpoints
  <2>2. call \in Bufs
    BY <1>2, <1>4, SlotFacts DEF CallSlot
  <2>3. Range(fifo[s]) \subseteq moved \cup {call}
    BY <1>2, <1>4 DEF EnqueueKick, InStep
  <2>4. call \notin moved
    BY <1>2, <1>4, <2>2 DEF StepInv
  <2>5. \A i, j \in DOMAIN fifo[s] : i < j /\ fifo[s][j] = call => fifo[s][i] \in moved
    <3> SUFFICES ASSUME NEW i \in DOMAIN fifo[s], NEW j \in DOMAIN fifo[s], i < j,
                        fifo[s][j] = call
                 PROVE  fifo[s][i] \in moved
      OBVIOUS
    <3>1. i # j
      BY <1>2
    <3>2. fifo[s][i] # call
      BY <1>2, <3>1 DEF IsInjective
    <3> QED
      BY <2>3, <3>2 DEF Range
  <2> QED
    BY <1>1, <1>2, <1>3, <2>1, <2>4, <2>5 DEF StepInv
<1>5. CASE s # CallSlot \/ pep' = pep
  <2>1. pep'[s] = pep[s]
    <3>1. pep \in [Slots -> Endpoints]
      BY DEF DataInv, BaseInv, UdcTypeOK
    <3> QED
      BY <1>1, <1>2, <1>5, <3>1 DEF KickOff
  <2> QED
    BY <1>1, <1>2, <1>3, <2>1, StepFrame, DataFacts DEF ClassBufs
<1> QED
  BY <1>4, <1>5

\* A dequeue that finds no completion on its way leaves nothing out of step.
LEMMA StepDequeue ==
    ASSUME DataInv, NEW e \in Eps, EpDequeue(e)
    PROVE  StepsInv'
<1> SUFFICES ASSUME NEW s \in InStep' PROVE StepInv(s)'
  BY DEF StepsInv
<1>1. /\ UNCHANGED <<ep_complete, pending, pc, call, moved>> /\ call = NoBuf /\ e \in Slots
      /\ NoBuf \notin Bufs /\ s \in Eps /\ s \in Slots
  BY SlotFacts, NullAssumption DEF EpDequeue, ApiFree, threadVars, hostVars, InStep
<1>2. Completions(s)' = Completions(s)
  BY <1>1 DEF Completions
<1>3. CASE s = e
  <2>1. fifo'[s] = <<>> /\ ~pep'[s].has_transfer
    BY <1>1, <1>3 DEF EpDequeue, Stopped, DataInv, BaseInv, UdcTypeOK, Endpoints
  <2>2. DOMAIN fifo'[s] = {}
    BY <2>1
  <2> QED
    BY <1>1, <2>1, <2>2 DEF StepInv
<1>4. CASE s # e
  <2>1. s \in InStep /\ (s \notin dropped' => s \notin dropped)
    BY <1>4 DEF EpDequeue, InStep
  <2>2. fifo'[s] = fifo[s] /\ pep'[s] = pep[s]
    BY <1>1, <1>4 DEF EpDequeue, Stopped, DataInv, BaseInv, UdcTypeOK
  <2> QED
    BY <1>1, <1>2, <2>1, <2>2, StepFrame, DataFacts
<1> QED
  BY <1>3, <1>4

LEMMA StepStep == DataInv /\ [Next]_vars => StepsInv'
<1> SUFFICES ASSUME DataInv, [Next]_vars PROVE StepsInv'
  OBVIOUS
<1> USE DEF picoVars, epVars, lapseVars, ctrlVars, threadVars, hostVars
<1>0. ASSUME UNCHANGED <<pc, pending, ep_complete, moved, raced, overtaken, dropped>>,
             call' = call \/ call' \notin Bufs,
             \A s \in Eps : /\ fifo'[s] = fifo[s]
                            /\ pep'[s].has_transfer = pep[s].has_transfer
                            /\ pep'[s].buf = pep[s].buf
      PROVE  StepsInv'
  <2> SUFFICES ASSUME NEW s \in InStep PROVE StepInv(s)'
    BY <1>0 DEF StepsInv, InStep
  <2>1. Completions(s)' = Completions(s) /\ s \in Eps
    BY <1>0 DEF Completions, InStep
  <2> QED
    BY <1>0, <2>1, StepFrame, DataFacts DEF ClassBufs
<1>1. CASE Host
  BY <1>1, StepHost
<1>2. CASE ThreadStep
  BY <1>2, StepThread
<1>3. CASE Api
  <2>1. CASE (\E on \in BOOLEAN : SetEnabled(on)) \/ SetAddress
    BY <1>0, <2>1 DEF SetEnabled, SetAddress
  <2>2. CASE StackAnswers
    <3>1. BaseInv
      BY DEF DataInv
    <3>2. \A s \in Eps : fifo'[s] = fifo[s]
      BY <2>2, <3>1, AnswerStep, SlotFacts DEF BaseInv, UdcTypeOK
    <3> QED
      BY <1>0, <2>2, <3>1, <3>2, AnswerStep
  <2>3. CASE \E b \in Bufs : EnqueuePut(b)
    BY <2>3, StepPut
  <2>4. CASE EnqueueKick
    BY <2>4, StepKick
  <2>5. CASE \E s \in Eps : EpDequeue(s)
    BY <2>5, StepDequeue
  <2>6. CASE \/ \E s \in Eps : EpEnable(s) \/ EpDisable(s)
             \/ \E s \in Eps, on \in BOOLEAN : SetHalt(s, on)
    <3>1. BaseInv
      BY DEF DataInv
    <3>2. /\ UNCHANGED <<fifo, call, pc, pending, ep_complete, moved, raced, overtaken,
                         dropped>>
          /\ \A s \in Eps : /\ pep'[s].has_transfer = pep[s].has_transfer
                            /\ pep'[s].buf = pep[s].buf
      BY <2>6, <3>1, EndpointStep, SlotFacts
    <3> QED
      BY <1>0, <3>2
  <2> QED
    BY <1>3, <2>1, <2>2, <2>3, <2>4, <2>5, <2>6 DEF Api
<1>4. CASE UNCHANGED vars
  BY <1>0, <1>4 DEF vars
<1> QED
  BY <1>1, <1>2, <1>3, <1>4 DEF Next
-----------------------------------------------------------------------------
(* The theorems                                                            *)

\* The inductive invariant holds of every run of the driver, whatever the host, the
\* classes and the stack do.
THEOREM UdcInvariance == Spec => []UdcInv
<1>1. Init => UdcInv
  <2> SUFFICES ASSUME Init PROVE UdcInv
    OBVIOUS
  <2>1. UdcTypeOK /\ ControlInv /\ BitmapInv
    BY SlotFacts, EmptySeq
    DEF Init, UdcTypeOK, ControlInv, BitmapInv, Endpoints, CtrlStages, Flags, PCs, Results
  <2>2. CompletionFlagged
    BY DEF Init, CompletionFlagged
  <2>3. \A s \in Fifos : QueueInv(s)
    BY FifoFacts, EmptySeq DEF Init, QueueInv, Outstanding, Completions
  <2>4. FifoOwned /\ \A s \in Eps : HeldInv(s)
    <3>1. \A s \in Eps : fifo[s] = <<>> /\ Range(fifo[s]) = {} /\ DOMAIN fifo[s] = {}
      BY SlotFacts, EmptyRange DEF Init
    <3> QED
      BY <3>1, SlotFacts DEF Init, FifoOwned, HeldInv, IsInjective
  <2>5. \A s \in Eps : StepInv(s)
    <3>1. \A s \in Eps : DOMAIN fifo[s] = {}
      BY SlotFacts DEF Init
    <3> QED
      BY <3>1, SlotFacts, NullAssumption DEF Init, StepInv
  <2> QED
    BY <2>1, <2>2, <2>3, <2>4, <2>5 DEF UdcInv
<1>2. UdcInv /\ [Next]_vars => UdcInv'
  BY BaseStep, FlaggedStep, OwnersStep, QueueStep, StepStep
  DEF UdcInv, BaseInv, OwnersInv, QueuesInv, StepsInv, InStep, DataInv
<1> QED
  BY <1>1, <1>2, PTL DEF Spec

\* Every variable of the device driver keeps its type.
THEOREM UdcTypeCorrect == Spec => []UdcTypeOK
BY UdcInvariance, PTL DEF UdcInv

\* A bit of the bitmap is never set behind the thread's back, whatever host, classes and
\* stack do.
THEOREM BitsAreFlagged == Spec => []CompletionFlagged
BY UdcInvariance, PTL DEF UdcInv

\* What the driver owns is in its endpoint's fifo, and what is in a fifo it owns, or has
\* refused: through kicks that fail, dequeues that race a completion and reordered calls.
THEOREM FifosAreOwned == Spec => []FifoOwned
BY UdcInvariance, PTL DEF UdcInv

\* The library transfers only what is in the endpoint's fifo, however many buffers a class
\* queues at once, and EP0 IN too, until an ep_dequeue of that endpoint finds a completion
\* on its way.
THEOREM WireBufferQueued == Spec => []WireHoldsQueued
<1>1. UdcInv => WireHoldsQueued
  BY DEF UdcInv, QueueInv, WireHoldsQueued, Range
<1> QED
  BY <1>1, UdcInvariance, PTL

\* A class is told "ok" only of what the host moved, until an ep_dequeue of the endpoint
\* finds a completion on its way, or a buffer is kicked off behind one that never was.
THEOREM OkIsMoved == Spec => OkMeansMoved
<1>1. UdcInv /\ [Next]_vars =>
        [\A b \in Bufs : result'[b] = "ok" /\ result[b] # "ok" =>
            b \in moved \/ EpOf[b] \in raced \cup overtaken]_result
  <2> SUFFICES ASSUME UdcInv, [Next]_vars, NEW b \in Bufs, result'[b] = "ok",
                      result[b] # "ok", EpOf[b] \notin raced \cup overtaken
               PROVE  b \in moved
    OBVIOUS
  <2>1. DataInv /\ BaseInv
    BY DEF UdcInv, DataInv, BaseInv, OwnersInv, QueuesInv, StepsInv, InStep
  <2>2. DrainNext
    <3>1. CASE Host
      BY <3>1 DEF Host, HostTransfers, HostSetup, HostControlIn, HostControlOut, HostGivesUp,
         epVars
    <3>2. CASE ThreadStep
      BY <3>2 DEF ThreadStep, ThreadWakes, NoSetup, HandleSetup, HandleSetupNoMem, DrainLoad,
         DrainReload, DrainStore, DrainDone, epVars
    <3>3. CASE Api
      BY <2>1, <3>3 DEF Api, EnqueuePut, SetAddress, StackAnswers, EnqueueKick, EpDequeue,
         EpEnable, EpDisable, SetHalt, SetEnabled, epVars, BaseInv, UdcTypeOK
    <3>4. CASE UNCHANGED vars
      BY <3>4 DEF vars
    <3> QED
      BY <3>1, <3>2, <3>3, <3>4 DEF Next
  <2>3. PICK e \in pending : HandleEpComplete(e) /\ pc = "handle"
    BY <2>2 DEF DrainNext
  <2>4. e \in Eps /\ fifo[e] # <<>> /\ b = Head(fifo[e])
    BY <2>1, <2>3 DEF HandleEpComplete, BulkDone, ControlDone, BaseInv, UdcTypeOK
  <2>5. /\ e \in Slots /\ fifo[e] \in Seq(Buffers) /\ 1 \in DOMAIN fifo[e]
        /\ fifo[e][1] = b
    BY <2>1, <2>4, SlotFacts, FifoType, HeadTailProperties, LenProperties, EmptySeq
  <2>6. EpOf[b] = e
    BY <2>4, <2>5 DEF UdcInv, FifoOwned, Range
  <2>7. e \in InStep
    BY <2>4, <2>6 DEF InStep
  <2>8. Completions(e) >= 1
    BY <2>3 DEF Completions
  <2> QED
    BY <2>1, <2>5, <2>7, <2>8, DataFacts DEF StepInv
<1> QED
  BY <1>1, UdcInvariance, PTL DEF Spec, OkMeansMoved

\* Of an endpoint in step that has lost no bit, what the host has moved has its bit until
\* it is back with its class.
LEMMA NotedAlways == UdcInv => MovedIsNoted
<1> SUFFICES ASSUME UdcInv, NEW b \in moved, owner[b] = "udc", EpOf[b] \notin Lapsed
             PROVE  EpOf[b] \in ep_complete \cup pending
  BY DEF MovedIsNoted
<1> DEFINE s == EpOf[b]
<1>1. DataInv /\ b \in Bufs
  BY DEF UdcInv, UdcTypeOK, DataInv, BaseInv, OwnersInv, QueuesInv, StepsInv, InStep
<1>2. s \in InStep /\ s \notin dropped
  BY <1>1, SlotFacts DEF InStep, Lapsed
<1>3. PICK i \in DOMAIN fifo[s] : fifo[s][i] = b
  BY <1>1 DEF UdcInv, FifoOwned, Range
<1>4. /\ i \in Nat /\ i > 0 /\ Completions(s) \in Nat
      /\ ~(i > Completions(s))
  BY <1>1, <1>2, <1>3, DataFacts DEF StepInv
<1>5. Completions(s) > 0
  BY <1>4
<1> QED
  BY <1>5 DEF Completions

\* With BitsAreFlagged, the safety half of "what was moved comes back": whatever the order
\* of calls, interrupts and thread, the bit of a moved buffer stays until the buffer is
\* back, on an endpoint that has not lapsed.
THEOREM BitsAreKept == Spec => []MovedIsNoted
BY NotedAlways, UdcInvariance, PTL

\* At rest, a buffer left in the fifo of an idle endpoint was parked by a halt, or refused,
\* or moved on an endpoint that had lapsed: there is no fifth story.
THEOREM StrandedIsExplained == Spec => []StrandedHasCause
<1>1. UdcInv => StrandedHasCause
  <2> SUFFICES ASSUME UdcInv, ep_complete = {}, pc = "idle", call = NoBuf, NEW s \in Eps,
                      ~pep[s].has_transfer, NEW b \in Range(fifo[s])
               PROVE  b \in parked \/ result[b] = "refused" \/ (b \in moved /\ s \in Lapsed)
    BY DEF StrandedHasCause
  <2>1. b \in Bufs /\ EpOf[b] = s /\ (owner[b] = "udc" \/ result[b] = "refused")
    BY DEF UdcInv, FifoOwned
  <2>2. b \in moved \cup parked \/ result[b] = "refused"
    BY <2>1, NullAssumption DEF UdcInv, HeldInv
  <2>3. pending = {}
    BY DEF UdcInv, BitmapInv
  <2>4. b \in moved /\ owner[b] = "udc" => s \in Lapsed
    BY <2>1, <2>3, NotedAlways DEF MovedIsNoted
  <2> QED
    BY <2>1, <2>2, <2>4
<1> QED
  BY <1>1, UdcInvariance, PTL

\* For any host, classes, stack and allocations, a control write is never handed to the
\* stack: what "udc_write" finds on one instance is so on all.
THEOREM NoWriteIsHeard == Spec => []WritesUnheard
<1>1. Init => WritesUnheard
  BY SlotFacts DEF Init, WritesUnheard
<1>2. UdcInv /\ WritesUnheard /\ [Next]_vars => WritesUnheard'
  <2> SUFFICES ASSUME UdcInv, WritesUnheard, [Next]_vars PROVE WritesUnheard'
    OBVIOUS
  <2> USE SlotFacts DEF picoVars, epVars, lapseVars, ctrlVars, threadVars, hostVars
  <2>0. fifo \in [Slots -> Seq(Buffers)] /\ surfaced \in [Requests -> Nat]
    BY DEF UdcInv, UdcTypeOK
  <2>1. CASE Host \/ UNCHANGED vars
    <3>1. fifo' = fifo /\ surfaced' = surfaced
      BY <2>1 DEF Host, HostTransfers, HostSetup, HostControlIn, HostControlOut, HostGivesUp, vars
    <3> QED
      BY <3>1 DEF WritesUnheard
  <2>2. CASE HandleSetup
    <3>1. fifo' = fifo /\ (surfaced' = surfaced \/ (Kind[setup_packet] # "write"
              /\ surfaced' = [surfaced EXCEPT ![setup_packet] = @ + 1]))
      BY <2>2 DEF HandleSetup
    <3> QED
      BY <2>0, <3>1 DEF WritesUnheard
  <2>3. CASE DrainNext
    <3>1. PICK e \in pending : HandleEpComplete(e)
      BY <2>3 DEF DrainNext
    <3>2. fifo'[OUT0] = fifo[OUT0]
      BY <2>0, <3>1 DEF HandleEpComplete, WritesUnheard
    <3>3. surfaced' = surfaced
      BY <3>1 DEF HandleEpComplete, BulkDone, ControlDone, WritesUnheard
    <3> QED
      BY <3>2, <3>3 DEF WritesUnheard
  <2>4. CASE ThreadStep /\ ~HandleSetup /\ ~DrainNext
    <3>1. fifo' = fifo /\ surfaced' = surfaced
      BY <2>4 DEF ThreadStep, ThreadWakes, NoSetup, HandleSetupNoMem, DrainLoad, DrainReload,
         DrainStore, DrainDone
    <3> QED
      BY <3>1 DEF WritesUnheard
  <2>5. CASE Api
    <3>1. surfaced' = surfaced
      BY <2>5 DEF Api, EnqueuePut, SetAddress, StackAnswers, EnqueueKick, EpDequeue, EpEnable,
         EpDisable, SetHalt, SetEnabled
    <3>2. fifo'[OUT0] = fifo[OUT0]
      <4>1. ASSUME NEW b \in Bufs, EnqueuePut(b) PROVE fifo'[OUT0] = fifo[OUT0]
        BY <2>0, <4>1 DEF EnqueuePut
      <4>2. CASE StackAnswers
        BY <2>0, <4>2 DEF StackAnswers
      <4>3. ASSUME NEW s \in Eps, EpDequeue(s) PROVE fifo'[OUT0] = fifo[OUT0]
        BY <2>0, <4>3 DEF EpDequeue
      <4>4. ASSUME \/ SetAddress \/ EnqueueKick
                   \/ \E s \in Eps : EpEnable(s) \/ EpDisable(s)
                   \/ \E s \in Eps, on \in BOOLEAN : SetHalt(s, on)
                   \/ \E on \in BOOLEAN : SetEnabled(on)
            PROVE  fifo'[OUT0] = fifo[OUT0]
        BY <4>4 DEF SetAddress, EnqueueKick, EpEnable, EpDisable, SetHalt, SetEnabled
      <4> QED
        BY <2>5, <4>1, <4>2, <4>3, <4>4 DEF Api
    <3> QED
      BY <3>1, <3>2 DEF WritesUnheard
  <2> QED
    BY <2>1, <2>2, <2>3, <2>4, <2>5 DEF Next, ThreadStep
<1> QED
  BY <1>1, <1>2, UdcInvariance, PTL DEF Spec
=============================================================================
