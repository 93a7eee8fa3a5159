------------------------- MODULE HostSamples_proofs -------------------------
(***************************************************************************)
(* Proofs about HostSamples, for any script, any number of buffers and     *)
(* either order of priorities: the buffers of an enumeration come back,    *)
(* both samples call the driver as UhcDequeue lets its callers, no device  *)
(* is slept through or taken for the one before it, a wait that begins with*)
(* nothing on the list ends with its own completion, and until a transfer  *)
(* is left on the list the driver keeps its invariant, ep_dequeue or not.  *)
(***************************************************************************)
EXTENDS HostSamples, UhcDequeue_proofs, UhcTransferService_proofs

\* Main's own steps, by what they do to the buffers.
LEMMA BuffersStep == BuffersInv /\ [SamplesNext]_<<vars, dq, sampleVars>> => BuffersInv'
<1> SUFFICES ASSUME BuffersInv, [SamplesNext]_<<vars, dq, sampleVars>>
             PROVE  BuffersInv'
  OBVIOUS
<1> USE DEF BuffersInv, Holding, MainPCs, mainVars, callbackVars, semVars, historyVars
<1>0. Len(Script) \in Nat /\ Needed \in 1..Len(Script) /\ Buffers \in Nat
  BY ScriptAssumption, LenProperties
<1>1. CASE DriverThread \/ Callback \/ UNCHANGED sampleVars
  BY <1>1 DEF DriverThread, Callback, sampleVars
<1>2. CASE Boot \/ TakeConnect \/ CheckConnected \/ BusReset \/ ResetReturns
  BY <1>2, <1>0 DEF Boot, TakeConnect, CheckConnected, BusReset, ResetReturns, Local
<1>3. CASE Alloc
  <2>1. CASE free > 0
    BY <1>3, <2>1, <1>0 DEF Alloc
  <2>2. CASE ~(free > 0) /\ OwnBuffer(at)
    BY <1>3, <2>2, <1>0 DEF Alloc, GoOn, Begin, OwnBuffer
  <2>3. CASE ~(free > 0) /\ ~OwnBuffer(at)
    BY <1>3, <2>3, <1>0 DEF Alloc
  <2> QED
    BY <2>1, <2>2, <2>3
<1>4. CASE Arm \/ Submit \/ SubmitFails \/ TakeDone \/ TimeOut \/ DequeueCall
  BY <1>4 DEF Arm, Submit, SubmitFails, TakeDone, TimeOut, DequeueCall
<1>8. CASE Pause
  BY <1>8, <1>0 DEF Pause, Begin, OwnBuffer
<1>5. CASE GiveUp
  BY <1>5, <1>0 DEF GiveUp, Bad
<1>6. CASE StepDone
  <2>1. mpc \in {"woken", "gaveup"}
    BY <1>6 DEF StepDone, Good, Bad, Delivered
  <2> QED
    BY <1>6, <2>1, <1>0 DEF StepDone, GoOn, Begin, OwnBuffer
<1>7. CASE Poll \/ PollAbsent
  BY <1>7 DEF Poll, PollAbsent
<1> QED
  BY <1>1, <1>2, <1>3, <1>4, <1>5, <1>6, <1>7, <1>8 DEF SamplesNext, Main, sampleVars

\* However an enumeration ends, whichever of its transfers failed or timed out, the
\* net_buf pool is whole again when main waits for the next device.
THEOREM BuffersComeBack == SamplesSpec => []BuffersBack
<1>1. SamplesInit => BuffersInv
  BY ScriptAssumption, LenProperties
  DEF SamplesInit, BuffersInv, Holding, MainPCs
<1>2. BuffersInv => BuffersBack
  BY DEF BuffersInv, Holding, BuffersBack
<1> QED
  BY <1>1, <1>2, BuffersStep, PTL DEF SamplesSpec
-----------------------------------------------------------------------------
(* The samples as callers of the driver                                    *)

\* Main is in a call of the driver where its program counter says so, and each of its
\* steps and the thread's is one UhcDequeue allows, or leaves the driver alone.
LEMMA CallerStep ==
    CallerInv /\ BuffersInv /\ [SamplesNext]_<<vars, dq, sampleVars>>
        => CallerInv' /\ [DqNext]_<<vars, dq>>
<1> SUFFICES ASSUME CallerInv, BuffersInv, [SamplesNext]_<<vars, dq, sampleVars>>
             PROVE  CallerInv' /\ [DqNext]_<<vars, dq>>
  OBVIOUS
<1> USE DEF CallerInv, mainVars, callbackVars, semVars, historyVars, picoVars, xferVars,
            apiVars, threadVars
<1>0. Script[at] \in Xfers
  BY ScriptAssumption, ElementOfSeq DEF BuffersInv
<1>1. CASE DriverThread
  <2>1. (Frame \/ ThreadStep) /\ UNCHANGED <<dq, mpc>>
    BY <1>1 DEF DriverThread
  <2>2. CallerOutranks => dq.step = "idle"
    BY <1>1 DEF DriverThread, DriverMayRun, Asleep
  <2>3. UNCHANGED resetting
    BY <2>1 DEF Frame, FrameTransacts, FrameDisconnects, FrameConnects, FrameIdles,
       FrameEnds, ThreadStep, SurfaceRootEvents, FlushSlot, FlushDone, LoadBits, SkipBit,
       FinishXfer, AdvanceStage, DrainDone, KickStage, UhcXferReturn, SlotFree, PumpHead,
       PumpNothing
  <2> QED
    BY <2>1, <2>2, <2>3 DEF DqNext
<1>2. CASE Boot
  BY <1>2 DEF Boot, Enable, SetEnabled, DqNext, DqApi
<1>3. CASE BusReset \/ ResetReturns
  BY <1>3 DEF BusReset, ResetReturns, BusResetStart, BusResetEnd, SetSuspended, ApiFree,
     DqNext, DqApi
<1>4. CASE Submit
  <2>1. EpEnqueue(Script[at]) /\ dq.step = "idle" /\ Script[at] \notin Range(queue)
    BY <1>4 DEF Submit, Relinks
  <2>3. DqNext
    BY <1>0, <1>4, <2>1 DEF Submit, DqNext, DqApi
  <2> QED
    BY <1>4, <2>1, <2>3 DEF Submit, EpEnqueue
<1>5. CASE DequeueCall
  <2>1. DqNext
    BY <1>0, <1>5 DEF DequeueCall, Dequeue, DqNext
  <2>2. mpc = "dequeue" /\ UNCHANGED resetting
    BY <1>5 DEF DequeueCall, DequeueLookup, DequeueAbort, DequeueMiss, DequeueFree, vars
  <2>3. CASE UNCHANGED mpc
    BY <2>1, <2>2, <2>3
  <2>4. CASE DequeueMiss(Script[at]) \/ DequeueFree
    <3>1. dq'.step = "idle"
      BY <2>4 DEF DequeueMiss, DequeueFree, NoCall
    <3>2. mpc' # "resetting"
      BY <1>5, <2>2 DEF DequeueCall
    <3> QED
      BY <2>1, <2>2, <3>1, <3>2
  <2> QED
    BY <1>5, <2>3, <2>4 DEF DequeueCall
<1>6. CASE Callback \/ TakeConnect \/ CheckConnected \/ Alloc \/ Pause \/ Arm \/ SubmitFails
           \/ TakeDone \/ TimeOut \/ GiveUp \/ StepDone \/ Poll \/ PollAbsent
  <2>1. UNCHANGED <<vars, dq>>
    BY <1>6 DEF Callback, TakeConnect, CheckConnected, Alloc, Pause, Arm, SubmitFails,
       TakeDone, TimeOut, GiveUp, StepDone, Poll, PollAbsent, Local
  <2>2. CASE UNCHANGED mpc
    BY <2>1, <2>2 DEF vars
  <2>3. CASE GiveUp \/ StepDone
    <3>1. mpc \in {"woken", "gaveup"} /\ mpc' # "resetting"
      BY <2>3 DEF GiveUp, StepDone, Good, Bad, Delivered, GoOn, Begin
    <3> QED
      BY <2>1, <3>1 DEF vars
  <2>4. CASE TakeConnect \/ CheckConnected \/ Alloc \/ Pause \/ Arm \/ SubmitFails \/ TakeDone
             \/ TimeOut \/ Poll \/ PollAbsent
    <3>1. mpc \notin {"dequeue", "resetting"} /\ mpc' # "resetting"
      BY <2>4 DEF TakeConnect, CheckConnected, Alloc, Pause, Arm, SubmitFails, TakeDone,
         TimeOut, Poll, PollAbsent, GoOn, Begin
    <3> QED
      BY <2>1, <3>1 DEF vars
  <2> QED
    BY <1>6, <2>2, <2>3, <2>4 DEF Callback
<1>7. CASE Replug /\ UNCHANGED <<dq, sampleVars>>
  BY <1>7 DEF Replug, sampleVars, DqNext
<1>8. CASE UNCHANGED <<vars, dq, sampleVars>>
  BY <1>8 DEF vars, sampleVars
<1> QED
  BY <1>1, <1>2, <1>3, <1>4, <1>5, <1>6, <1>7, <1>8 DEF SamplesNext, Main

\* Both samples are callers as UhcDequeue has them: one call at a time, no transfer
\* queued that is still on the list, and with their priority no thread between the
\* steps of a dequeue.  So what is true of UhcDequeue is true of them.
THEOREM SamplesAreCallers == SamplesSpec => DqSpec
<1>1. SamplesInit => CallerInv /\ BuffersInv /\ DqInit
  BY ScriptAssumption, LenProperties
  DEF SamplesInit, BuffersInv, Holding, MainPCs, CallerInv, DqInit, NoCall, Init
<1> QED
  BY <1>1, BuffersStep, CallerStep, PTL DEF SamplesSpec, DqSpec
-----------------------------------------------------------------------------
(* Types                                                                   *)

\* What the samples add to the state; that of the driver is typed by
\* DequeueTypeCorrect, since the samples are callers of UhcDequeue.
OwnTypes ==
    /\ firmware \in Firmware
    /\ todo \in Seq(Callbacks)
    /\ {connected, connect_sem, xfer_done, reset_done, quiet, left, attempted,
        seen_absent} \subseteq BOOLEAN

\* What a step of the thread submits is a list of callbacks.
LEMMA SubmitsTyped == Submits \in Seq(Callbacks)
<1>1. /\ <<>> \in Seq(Callbacks)
      /\ \A c, d \in Callbacks : <<c>> \in Seq(Callbacks) /\ <<c, d>> \in Seq(Callbacks)
  OBVIOUS
<1>2. {UponConnect, UponRemoval, UponRequest} \subseteq Seq(Callbacks)
  BY <1>1 DEF UponConnect, UponRemoval, UponRequest, Callbacks
<1> QED
  BY <1>1, <1>2 DEF Submits

\* Every step keeps these types.
LEMMA OwnTypesStep == OwnTypes /\ [SamplesNext]_<<vars, dq, sampleVars>> => OwnTypes'
<1> SUFFICES ASSUME OwnTypes, [SamplesNext]_<<vars, dq, sampleVars>>
             PROVE  OwnTypes'
  OBVIOUS
<1> USE DEF OwnTypes, mainVars, callbackVars, semVars, historyVars
<1>1. CASE DriverThread
  BY <1>1, SubmitsTyped DEF DriverThread
<1>2. CASE Callback
  <2>1. todo' \in Seq(Callbacks)
    BY <1>2, HeadTailProperties DEF Callback
  <2> QED
    BY <1>2, <2>1 DEF Callback
<1>3. CASE Boot \/ BusReset \/ ResetReturns \/ Submit \/ DequeueCall
  BY <1>3 DEF Boot, BusReset, ResetReturns, Submit, DequeueCall
<1>4. CASE TakeConnect \/ CheckConnected \/ Alloc \/ Pause \/ SubmitFails \/ TakeDone \/ TimeOut
  BY <1>4 DEF TakeConnect, CheckConnected, Alloc, Pause, SubmitFails, TakeDone, TimeOut, Local
<1>5. CASE Arm
  BY <1>5 DEF Arm, Local
<1>6. CASE GiveUp \/ StepDone
  BY <1>6 DEF GiveUp, StepDone, Local
<1>7. CASE Poll \/ PollAbsent
  BY <1>7 DEF Poll, PollAbsent, Local
<1>8. CASE UNCHANGED sampleVars
  BY <1>8 DEF sampleVars
<1> QED
  BY <1>1, <1>2, <1>3, <1>4, <1>5, <1>6, <1>7, <1>8 DEF SamplesNext, Main, sampleVars

\* The initial states of the invariants about main.
LEMMA SamplesInitTyped == SamplesInit => OwnTypes /\ BuffersInv /\ CallerInv
<1>1. SamplesInit => BuffersInv
  BY ScriptAssumption, LenProperties DEF SamplesInit, BuffersInv, Holding, MainPCs
<1>2. <<>> \in Seq(Callbacks)
  OBVIOUS
<1>3. SamplesInit => OwnTypes
  BY <1>2 DEF SamplesInit, OwnTypes
<1>4. SamplesInit => CallerInv
  BY DEF SamplesInit, CallerInv, DqInit, NoCall, Init
<1> QED
  BY <1>1, <1>3, <1>4

\* Types of the samples and of the driver beneath them: no buffer is given back twice.
THEOREM SamplesTyped == SamplesSpec => []SamplesTypeOK
<1>1. SamplesInit => OwnTypes /\ BuffersInv
  BY SamplesInitTyped
<1>2. OwnTypes /\ BuffersInv /\ DqTypeOK => SamplesTypeOK
  BY ScriptAssumption DEF OwnTypes, BuffersInv, SamplesTypeOK
<1> QED
  BY <1>1, <1>2, OwnTypesStep, BuffersStep, SamplesAreCallers, DequeueTypeCorrect, PTL
  DEF SamplesSpec
-----------------------------------------------------------------------------
(* Whose completion                                                        *)

OwnVars == <<queue, result, todo, xfer_done, mpc, at, quiet>>

LEMMA OwnSame == ASSUME OwnInv, UNCHANGED OwnVars PROVE OwnInv'
BY DEF OwnInv, Told, OwnVars

\* The thread may return main's transfer, and then tells main; it has no other.
LEMMA OwnThread ==
    ASSUME OwnInv, DqInv, HeldQueued, OwnTypes, DriverThread PROVE OwnInv'
<1> USE DEF OwnInv, Told
<1>1. /\ todo = <<>> /\ todo' = Submits /\ UNCHANGED <<xfer_done, mpc, at, quiet>>
      /\ Frame \/ ThreadStep
  BY DEF DriverThread, mainVars, semVars
<1>2. queue \in Seq(Xfers) /\ result \in [Xfers -> Errors \cup {"none"}] /\ err \in Errors
  BY DEF DqInv, DqTypeOK, TypeOK
<1>3. "done" \notin Range(todo)
  BY <1>1 DEF Range
<1>4. CASE pc # "return"
  <2>1. UNCHANGED <<queue, result>>
    BY <1>1, <1>4 DEF Frame, FrameTransacts, FrameDisconnects, FrameConnects, FrameIdles,
       FrameEnds, ThreadStep, SurfaceRootEvents, FlushSlot, FlushDone, LoadBits, SkipBit,
       FinishXfer, AdvanceStage, DrainDone, KickStage, UhcXferReturn, SlotFree, PumpHead,
       PumpNothing, xferVars, picoVars, threadVars, apiVars
  <2>2. "done" \notin Range(Submits)
    <3>1. Submits \in {<<>>, <<"set">>, <<"set", "give">>, <<"clear">>}
      BY <1>4 DEF Submits, UponConnect, UponRemoval
    <3>2. \A f \in {<<>>, <<"set">>, <<"set", "give">>, <<"clear">>} : "done" \notin Range(f)
      BY DEF Range
    <3> QED
      BY <3>1, <3>2
  <2> QED
    BY <1>1, <1>3, <2>1, <2>2
<1>5. CASE pc = "return"
  <2>1. UhcXferReturn
    <3>1. ~Frame
      BY <1>5 DEF Frame, FrameTransacts, FrameDisconnects, FrameConnects, FrameIdles,
         FrameStarts
    <3> QED
      BY <1>1, <1>5, <3>1 DEF ThreadStep, SurfaceRootEvents, FlushSlot, FlushDone,
         LoadBits, SkipBit, FinishXfer, AdvanceStage, DrainDone, KickStage, SlotFree,
         PumpHead, PumpNothing
  <2>2. /\ queue' = RemoveFirst(queue, xfer)
        /\ result' = [result EXCEPT ![xfer] = err]
    BY <2>1 DEF UhcXferReturn
  <2>3. xfer \in Range(queue)
    BY <1>5 DEF HeldQueued
  <2>4. quiet => mpc # "submit"
    BY <2>3 DEF Range
  <2>5. Range(queue') \subseteq Range(queue)
    BY <1>2, <2>2, RemoveRange
  <2>6. xfer \in Xfers /\ err # "none" /\ result'[xfer] = err
    BY <1>2, <1>5, <2>2 DEF DqInv, Errors
  <2>7. \A x : result[x] # "none" => result'[x] # "none"
    BY <1>2, <2>2, <2>6
  <2>8. CASE mpc \in {"await", "dequeue"}
    <3>1. quiet => xfer = Script[at]
      BY <2>3, <2>8
    <3> QED
      BY <1>1, <2>5, <2>6, <2>8, <3>1
  <2> QED
    BY <1>1, <2>4, <2>7, <2>8
<1> QED
  BY <1>4, <1>5

\* The rest: a callback tells main what the thread has submitted, and main begins a wait
\* with the semaphore reset and one transfer on the list.
LEMMA OwnStep ==
    ASSUME OwnInv, DqInv, HeldQueued, OwnTypes, BuffersInv,
           [SamplesNext]_<<vars, dq, sampleVars>>
    PROVE  OwnInv'
<1> USE DEF mainVars, callbackVars, semVars, historyVars, picoVars, xferVars,
            apiVars, threadVars, vars
<1>1. CASE Callback
  <2>1. /\ Range(todo') \subseteq Range(todo) /\ Head(todo) \in Range(todo)
    <3>1. todo \in Seq(Callbacks) /\ todo # <<>> /\ todo' = Tail(todo)
      BY <1>1 DEF Callback, OwnTypes
    <3>2. Len(todo) \in Nat \ {0} /\ todo' \in Seq(Callbacks) /\ Head(todo) = todo[1]
          /\ Len(todo') = Len(todo) - 1 /\ \A i \in 1..Len(todo') : todo'[i] = todo[i + 1]
      BY <3>1, LenProperties, HeadTailProperties, EmptySeq
    <3>3. DOMAIN todo = 1..Len(todo) /\ DOMAIN todo' = 1..Len(todo')
      BY <3>1, <3>2, LenProperties
    <3>4. \A i \in 1..Len(todo') : i + 1 \in 1..Len(todo)
      BY <3>2
    <3>5. /\ Range(todo) = {todo[k] : k \in 1..Len(todo)}
          /\ Range(todo') = {todo'[i] : i \in 1..Len(todo')}
      BY <3>3 DEF Range
    <3>6. ASSUME NEW i \in 1..Len(todo') PROVE todo'[i] \in Range(todo)
      BY <3>2, <3>4, <3>5
    <3>7. 1 \in 1..Len(todo)
      BY <3>2
    <3>8. Head(todo) \in Range(todo)
      BY <3>2, <3>5, <3>7
    <3> QED
      BY <3>5, <3>6, <3>8
  <2>2. /\ UNCHANGED <<queue, result, mpc, at, quiet>>
        /\ xfer_done' = (xfer_done \/ Head(todo) = "done")
    BY <1>1 DEF Callback
  <2>3. Told' => Told
    BY <2>1, <2>2 DEF Told
  <2> QED
    BY <2>2, <2>3 DEF OwnInv
<1>2. CASE Submit
  <2>1. /\ mpc = "submit" /\ mpc' = "await"
        /\ queue' = Append(queue, Script[at])
        /\ UNCHANGED <<todo, xfer_done, at, quiet>>
    BY <1>2 DEF Submit, EpEnqueue
  <2>2. quiet => queue' = <<Script[at]>>
    BY <2>1 DEF OwnInv
  <2>3. quiet => Range(queue') \subseteq {Script[at]}
    BY <2>2 DEF Range
  <2> QED
    BY <2>1, <2>3 DEF OwnInv, Told
<1>3. CASE Arm
  BY <1>3 DEF Arm, Local, OwnInv, Told
<1>9. CASE SubmitFails
  BY <1>9 DEF SubmitFails, OwnInv
<1>4. CASE TakeDone
  BY <1>4 DEF TakeDone, Local, OwnInv, Told
<1>5. CASE TimeOut
  BY <1>5 DEF TimeOut, Local, OwnInv, Told
<1>6. CASE DequeueCall
  <2>1. UNCHANGED <<queue, at, quiet>> /\ mpc = "dequeue" /\ mpc' \in {"dequeue", "gaveup"}
    BY <1>6 DEF DequeueCall, DequeueLookup, DequeueMiss, DequeueAbort, DequeueFree
  <2> QED
    BY <2>1 DEF OwnInv
<1>7. CASE Boot \/ TakeConnect \/ CheckConnected \/ BusReset \/ ResetReturns \/ Alloc
           \/ Pause \/ GiveUp \/ StepDone \/ Poll \/ PollAbsent
  <2>1. mpc' \notin {"await", "dequeue", "submit", "woken"}
    BY <1>7 DEF Boot, TakeConnect, CheckConnected, BusReset, ResetReturns, Alloc, Pause,
       GiveUp, StepDone, GoOn, Begin, Poll, PollAbsent
  <2> QED
    BY <2>1 DEF OwnInv
<1>8. CASE UNCHANGED <<vars, dq, sampleVars>> \/ (Replug /\ UNCHANGED <<dq, sampleVars>>)
  BY <1>8, OwnSame DEF OwnVars, sampleVars, Replug
<1> QED
  BY <1>1, <1>2, <1>3, <1>4, <1>5, <1>6, <1>7, <1>8, <1>9, OwnThread DEF SamplesNext, Main

\* What main's waits rest on holds in every reachable state.
LEMMA OwnInvariance == SamplesSpec => [](OwnInv /\ BuffersInv)
<1>1. SamplesInit => OwnInv /\ OwnTypes /\ BuffersInv /\ CallerInv /\ DqInv /\ HeldQueued
  <2>1. SamplesInit => OwnInv /\ DqInit
    BY DEF SamplesInit, OwnInv
  <2>2. SamplesInit => OwnTypes /\ BuffersInv /\ CallerInv
    BY SamplesInitTyped
  <2> QED
    BY <2>1, <2>2, DqInitInv
<1>2. OwnInv /\ OwnTypes /\ BuffersInv /\ CallerInv /\ DqInv /\ HeldQueued
      /\ [SamplesNext]_<<vars, dq, sampleVars>>
          => OwnInv' /\ OwnTypes' /\ BuffersInv' /\ CallerInv' /\ DqInv' /\ HeldQueued'
  BY OwnStep, OwnTypesStep, BuffersStep, CallerStep, DqStep, HeldStep
<1> QED
  BY <1>1, <1>2, PTL DEF SamplesSpec
-----------------------------------------------------------------------------
(* Which device main is at                                                 *)

\* The lists of callbacks there are, by what is in them.
LEMMA CallbackLists ==
    /\ Range(<<>>) = {}
    /\ \A c, d \in Callbacks : Range(<<c>>) = {c} /\ Range(<<c, d>>) = {c, d}
<1>1. Range(<<>>) = {}
  BY DEF Range
<1>2. ASSUME NEW c \in Callbacks, NEW d \in Callbacks
      PROVE  Range(<<c>>) = {c} /\ Range(<<c, d>>) = {c, d}
  BY DEF Range
<1> QED
  BY <1>1, <1>2

LEMMA ListParts ==
    \A c, d \in Callbacks : /\ Head(<<c>>) = c /\ Tail(<<c>>) = <<>>
                            /\ Head(<<c, d>>) = c /\ Tail(<<c, d>>) = <<d>>
OBVIOUS

\* What a step of the thread does to the last event and to what is left to tell: nothing,
\* or it surfaces an event that is news.
LEMMA ThreadSurfaces ==
    ASSUME Frame \/ ThreadStep
    PROVE  /\ \/ UNCHANGED last_root_event /\ (pc = "surface" => root.event = last_root_event)
              \/ /\ pc = "surface" /\ root.event # last_root_event
                 /\ last_root_event' = root.event
           /\ root'.event = "NONE" => root.event = "NONE"
           /\ UNCHANGED root \/ UNCHANGED last_root_event
<1>1. CASE Frame
  <2>1. pc = "frame" /\ UNCHANGED last_root_event
    BY <1>1 DEF Frame, FrameTransacts, FrameDisconnects, FrameConnects, FrameIdles, FrameEnds,
       FrameStarts
  <2>2. \E c, d, b, ints : FrameEnds(b, c, d, ints)
    BY <1>1 DEF Frame, FrameTransacts, FrameDisconnects, FrameConnects, FrameIdles
  <2>3. root'.event = "NONE" => root.event = "NONE"
    BY <2>2 DEF FrameEnds, IrqHandler
  <2> QED
    BY <2>1, <2>3
<1>2. CASE SurfaceRootEvents
  BY <1>2 DEF SurfaceRootEvents, picoVars
<1>3. CASE ThreadStep /\ ~SurfaceRootEvents
  <2>1. pc # "surface" /\ UNCHANGED <<root, last_root_event>>
    BY <1>3 DEF ThreadStep, FlushSlot, FlushDone, LoadBits, SkipBit, FinishXfer,
       AdvanceStage, DrainDone, KickStage, UhcXferReturn, SlotFree, PumpHead, PumpNothing,
       picoVars
  <2> QED
    BY <2>1
<1> QED
  BY <1>1, <1>2, <1>3

\* The thread surfaces an event when main has been told of the one before.
LEMMA FlagThread == FlagInv /\ TypeOK /\ DriverThread => FlagInv'
<1> SUFFICES ASSUME FlagInv, TypeOK, DriverThread PROVE FlagInv'
  OBVIOUS
<1> USE CallbackLists DEF FlagInv, Callbacks
<1>1. /\ todo = <<>> /\ todo' = Submits
      /\ Frame \/ ThreadStep
      /\ UNCHANGED <<firmware, connected>>
  BY DEF DriverThread
<1>2. connected => last_root_event = "CONNECT"
  BY <1>1
<1>3. root'.event = "NONE" => last_root_event' = "NONE"
  BY <1>1, ThreadSurfaces
<1>4. CASE pc = "surface" /\ root.event # last_root_event /\ last_root_event' = root.event
  <2>1. root.event # "NONE"
    BY <1>4
  <2>2. CASE root.event = "CONNECT"
    <3>1. todo' = UponConnect
      BY <1>1, <1>4, <2>2 DEF Submits
    <3>2. todo' = IF firmware = "link" THEN <<"set">> ELSE <<"set", "give">>
      BY <3>1 DEF UponConnect
    <3>3. "clear" \notin Range(todo')
      BY <3>2
    <3>4. ~connected
      BY <1>2, <1>4, <2>2
    <3> QED
      BY <1>1, <1>3, <1>4, <2>2, <3>2, <3>3, <3>4
  <2>3. CASE root.event = "DISCONNECT"
    <3>1. todo' = <<"clear">>
      BY <1>1, <1>4, <2>3 DEF Submits, UponRemoval
    <3> QED
      BY <1>1, <1>3, <1>4, <2>3, <3>1
  <2>4. root.event \in RootEvents
    BY DEF TypeOK
  <2> QED
    BY <2>1, <2>2, <2>3, <2>4 DEF RootEvents
<1>5. CASE UNCHANGED last_root_event /\ (pc = "surface" => root.event = last_root_event)
  <2>1. todo' \in {<<>>, UponRequest}
    BY <1>1, <1>5 DEF Submits
  <2>2. todo' \in IF firmware = "link" THEN {<<>>} ELSE {<<>>, <<"done">>}
    BY <2>1 DEF UponRequest
  <2> QED
    BY <1>1, <1>2, <1>3, <1>5, <2>2
<1> QED
  BY <1>1, <1>4, <1>5, ThreadSurfaces

\* A callback's next step leaves the rest of the list.
LEMMA CallbackTakes ==
    ASSUME FlagInv, Callback
    PROVE  \/ /\ firmware = "link"
              /\ Head(todo) = "set" /\ Range(todo) = {"set"} /\ todo' = <<>>
           \/ /\ firmware # "link"
              /\ Head(todo) = "set" /\ Range(todo) = {"set", "give"} /\ todo' = <<"give">>
           \/ /\ firmware # "link"
              /\ Head(todo) = "give" /\ Range(todo) = {"give"} /\ todo' = <<>>
           \/ Head(todo) = "clear" /\ Range(todo) = {"clear"} /\ todo' = <<>>
           \/ Head(todo) = "done" /\ Range(todo) = {"done"} /\ todo' = <<>>
<1> USE CallbackLists, ListParts DEF Callbacks
<1>1. todo # <<>> /\ todo' = Tail(todo)
  BY DEF Callback
<1>2. CASE firmware = "link"
  <2>1. todo = <<"set">> \/ todo = <<"clear">>
    BY <1>1, <1>2 DEF FlagInv
  <2>2. ASSUME todo = <<"set">>
        PROVE  Head(todo) = "set" /\ Range(todo) = {"set"} /\ todo' = <<>>
    BY <1>1, <2>2
  <2>3. ASSUME todo = <<"clear">>
        PROVE  Head(todo) = "clear" /\ Range(todo) = {"clear"} /\ todo' = <<>>
    BY <1>1, <2>3
  <2> QED
    BY <1>2, <2>1, <2>2, <2>3
<1>3. CASE firmware # "link"
  <2>1. todo = <<"set", "give">> \/ todo = <<"give">> \/ todo = <<"clear">>
        \/ todo = <<"done">>
    BY <1>1, <1>3 DEF FlagInv
  <2>2. ASSUME todo = <<"set", "give">>
        PROVE  Head(todo) = "set" /\ Range(todo) = {"set", "give"} /\ todo' = <<"give">>
    BY <1>1, <2>2
  <2>3. ASSUME todo = <<"give">>
        PROVE  Head(todo) = "give" /\ Range(todo) = {"give"} /\ todo' = <<>>
    BY <1>1, <2>3
  <2>4. ASSUME todo = <<"clear">>
        PROVE  Head(todo) = "clear" /\ Range(todo) = {"clear"} /\ todo' = <<>>
    BY <1>1, <2>4
  <2>5. ASSUME todo = <<"done">>
        PROVE  Head(todo) = "done" /\ Range(todo) = {"done"} /\ todo' = <<>>
    BY <1>1, <2>5
  <2> QED
    BY <1>3, <2>1, <2>2, <2>3, <2>4, <2>5
<1> QED
  BY <1>2, <1>3

\* The driver's part is the thread's; the calls of main submit nothing, and main changes
\* neither the flag nor what is left of a callback.
LEMMA MainFlags ==
    ASSUME TypeOK,
           Main \/ (Replug /\ UNCHANGED <<dq, sampleVars>>)
                \/ UNCHANGED <<vars, dq, sampleVars>>
    PROVE  UNCHANGED <<todo, connected, firmware, last_root_event, root.event>>
<1> USE DEF callbackVars, picoVars, xferVars, apiVars, threadVars, vars, sampleVars
<1>1. CASE Boot \/ Submit
  BY <1>1 DEF Boot, Submit, Enable, SetEnabled, EpEnqueue
<1>5. CASE BusReset \/ ResetReturns
  <2>1. root.event' = root.event
    <3>1. \E on \in BOOLEAN : root' = [root EXCEPT !.suspended = on]
      BY <1>5 DEF BusReset, ResetReturns, BusResetStart, BusResetEnd, SetSuspended
    <3> QED
      BY <3>1 DEF TypeOK
  <2> QED
    BY <1>5, <2>1 DEF BusReset, ResetReturns, BusResetStart, BusResetEnd, SetSuspended
<1>2. CASE DequeueCall
  BY <1>2 DEF DequeueCall, DequeueLookup, DequeueAbort, DequeueMiss, DequeueFree
<1>3. CASE TakeConnect \/ CheckConnected \/ Alloc \/ Pause \/ Arm \/ SubmitFails \/ TakeDone
           \/ TimeOut \/ GiveUp \/ StepDone \/ Poll \/ PollAbsent
  BY <1>3 DEF TakeConnect, CheckConnected, Alloc, Pause, Arm, SubmitFails, TakeDone, TimeOut,
     GiveUp, StepDone, Poll, PollAbsent, Local
<1>4. CASE (Replug /\ UNCHANGED <<dq, sampleVars>>) \/ UNCHANGED <<vars, dq, sampleVars>>
  BY <1>4 DEF Replug
<1> QED
  BY <1>1, <1>2, <1>3, <1>4, <1>5 DEF Main

\* Every step keeps flag, callback and last event in agreement.
LEMMA FlagStep ==
    FlagInv /\ TypeOK /\ [SamplesNext]_<<vars, dq, sampleVars>> => FlagInv'
<1> SUFFICES ASSUME FlagInv, TypeOK, [SamplesNext]_<<vars, dq, sampleVars>> PROVE FlagInv'
  OBVIOUS
<1>1. CASE Callback
  <2> USE <1>1, CallbackLists DEF FlagInv, Callbacks
  <2>1. /\ UNCHANGED <<firmware, root, last_root_event>>
        /\ connected' = (Head(todo) = "set" \/ (connected /\ Head(todo) # "clear"))
    BY DEF Callback, vars
  <2>2. CASE firmware = "link" /\ Head(todo) = "set" /\ Range(todo) = {"set"} /\ todo' = <<>>
    BY <2>1, <2>2
  <2>3. CASE /\ firmware # "link" /\ Head(todo) = "set"
             /\ Range(todo) = {"set", "give"} /\ todo' = <<"give">>
    BY <2>1, <2>3
  <2>4. CASE firmware # "link" /\ Head(todo) = "give" /\ Range(todo) = {"give"} /\ todo' = <<>>
    BY <2>1, <2>4
  <2>5. CASE Head(todo) = "clear" /\ Range(todo) = {"clear"} /\ todo' = <<>>
    BY <2>1, <2>5
  <2>6. CASE Head(todo) = "done" /\ Range(todo) = {"done"} /\ todo' = <<>>
    BY <2>1, <2>6
  <2> QED
    BY <2>2, <2>3, <2>4, <2>5, <2>6, CallbackTakes
<1>2. CASE Main \/ (Replug /\ UNCHANGED <<dq, sampleVars>>)
                \/ UNCHANGED <<vars, dq, sampleVars>>
  BY <1>2, MainFlags DEF FlagInv
<1>3. CASE DriverThread
  BY <1>3, FlagThread
<1> QED
  BY <1>1, <1>2, <1>3 DEF SamplesNext

\* Every step keeps main on its way to a device that is new, and the link sample's reset
\* with the device it was for.
LEMMA DeviceStep ==
    FlagInv /\ DeviceInv /\ OwnTypes /\ [SamplesNext]_<<vars, dq, sampleVars>> => DeviceInv'
<1> SUFFICES ASSUME FlagInv, DeviceInv, OwnTypes, [SamplesNext]_<<vars, dq, sampleVars>>
             PROVE  DeviceInv'
  OBVIOUS
<1> USE CallbackLists
    DEF DeviceInv, AwakeForDevice, Callbacks, mainVars, callbackVars, semVars, historyVars
<1>1. CASE DriverThread
  <2>1. /\ todo = <<>>
        /\ UNCHANGED <<firmware, connected, attempted, connect_sem, mpc, reset_done,
                       seen_absent>>
    BY <1>1 DEF DriverThread
  <2> QED
    BY <2>1
<1>2. CASE Callback
  <2> DEFINE do == Head(todo)
  <2>1. /\ UNCHANGED <<firmware, mpc, reset_done>>
        /\ connected' = (do = "set" \/ (connected /\ do # "clear"))
        /\ connect_sem' = (connect_sem \/ do = "give")
        /\ attempted' = (attempted /\ do # "set")
        /\ seen_absent' = (seen_absent /\ do # "clear")
    BY <1>2 DEF Callback
  <2>2. CASE firmware = "link" /\ Head(todo) = "set" /\ Range(todo) = {"set"} /\ todo' = <<>>
    <3>1. ~connected
      BY <2>2 DEF FlagInv
    <3> QED
      BY <2>1, <2>2, <3>1
  <2>3. CASE /\ firmware # "link" /\ Head(todo) = "set"
             /\ Range(todo) = {"set", "give"} /\ todo' = <<"give">>
    BY <2>1, <2>3
  <2>4. CASE firmware # "link" /\ Head(todo) = "give" /\ Range(todo) = {"give"} /\ todo' = <<>>
    BY <2>1, <2>4
  <2>5. CASE Head(todo) = "clear" /\ Range(todo) = {"clear"} /\ todo' = <<>>
    BY <2>1, <2>5
  <2>6. CASE Head(todo) = "done" /\ Range(todo) = {"done"} /\ todo' = <<>>
    BY <2>1, <2>6
  <2> QED
    BY <1>2, <2>2, <2>3, <2>4, <2>5, <2>6, CallbackTakes
<1>3. CASE Boot \/ Submit \/ DequeueCall
  <2>1. /\ UNCHANGED <<firmware, todo, connected, connect_sem, attempted, seen_absent,
                       reset_done>>
        /\ mpc \notin {"check", "reset", "resetting"}
        /\ mpc' # "reset" /\ mpc' # "resetting"
    BY <1>3 DEF Boot, Submit, DequeueCall, DequeueLookup, DequeueAbort
  <2> QED
    BY <2>1
<1>4. CASE TakeConnect \/ CheckConnected
  BY <1>4 DEF TakeConnect, CheckConnected, Local
<1>5. CASE BusReset
  <2>1. /\ mpc = "reset" /\ mpc' = "resetting" /\ attempted' = TRUE
        /\ UNCHANGED <<firmware, connected, seen_absent, reset_done>>
    BY <1>5 DEF BusReset
  <2> QED
    BY <2>1
<1>6. CASE ResetReturns
  <2>1. /\ mpc = "resetting" /\ mpc' \in {"poll", "alloc"}
        /\ UNCHANGED <<firmware, todo, connected, connect_sem, attempted, seen_absent>>
    BY <1>6 DEF ResetReturns
  <2> QED
    BY <2>1
<1>7. CASE Alloc \/ Pause \/ Arm \/ SubmitFails \/ TakeDone \/ TimeOut \/ GiveUp \/ StepDone
  <2>1. /\ UNCHANGED <<firmware, todo, connected, connect_sem, attempted, seen_absent,
                       reset_done>>
        /\ mpc \notin {"check", "reset", "resetting"}
        /\ mpc' # "reset" /\ mpc' # "resetting"
    BY <1>7 DEF Alloc, Pause, Arm, SubmitFails, TakeDone, TimeOut, GiveUp, StepDone, Good,
       Bad, Delivered, GoOn, Begin, Local
  <2> QED
    BY <2>1
<1>8. CASE Poll
  <2>1. /\ mpc = "poll" /\ mpc' = IF connected /\ ~reset_done THEN "reset" ELSE "absent"
        /\ UNCHANGED <<firmware, todo, connected, connect_sem, attempted, seen_absent,
                       reset_done>>
    BY <1>8 DEF Poll, Local
  <2> QED
    BY <2>1
<1>9. CASE PollAbsent
  <2>1. /\ mpc = "absent" /\ mpc' = "poll"
        /\ reset_done' = (reset_done /\ connected)
        /\ seen_absent' = (seen_absent \/ ~connected)
        /\ UNCHANGED <<firmware, todo, connected, connect_sem, attempted>>
    BY <1>9 DEF PollAbsent, Local
  <2>2. {reset_done, connected, seen_absent} \subseteq BOOLEAN
    BY DEF OwnTypes
  <2> QED
    BY <2>1, <2>2
<1>10. CASE UNCHANGED sampleVars
  BY <1>10 DEF sampleVars
<1> QED
  BY <1>1, <1>2, <1>3, <1>4, <1>5, <1>6, <1>7, <1>8, <1>9, <1>10
  DEF SamplesNext, Main, sampleVars

\* Flag, callbacks and main together, in every reachable state of either sample.
LEMMA DeviceInvariance == SamplesSpec => []DeviceInv
<1>1. SamplesInit => FlagInv /\ DeviceInv /\ OwnTypes
  <2>1. SamplesInit => FlagInv /\ DeviceInv
    BY CallbackLists DEF SamplesInit, DqInit, Init, FlagInv, DeviceInv, AwakeForDevice
  <2> QED
    BY <2>1, SamplesInitTyped
<1>2. DqTypeOK => TypeOK
  BY DEF DqTypeOK
<1> QED
  BY <1>1, <1>2, FlagStep, DeviceStep, OwnTypesStep, SamplesAreCallers, DequeueTypeCorrect,
     PTL DEF SamplesSpec

\* A device that connects never finds the descriptor sample asleep for good: the semaphore
\* is given, or about to be, or main has taken it and not yet read the flag.
THEOREM MainIsAwake == SamplesSpec => []AwakeForDevice
<1>1. DeviceInv => AwakeForDevice
  BY DEF DeviceInv
<1> QED
  BY <1>1, DeviceInvariance, PTL

\* The link sample never takes a device for the one it has reset, once it has polled
\* between the two.
THEOREM ResetIsForThis == SamplesSpec => []ResetDoneIsCurrent
<1>1. DeviceInv => ResetDoneIsCurrent
  BY DEF DeviceInv, ResetDoneIsCurrent
<1> QED
  BY <1>1, DeviceInvariance, PTL
-----------------------------------------------------------------------------
(* The driver under its own applications                                   *)

\* The abort retires a transaction and notes no event: the slot keeps its transfer.
LEMMA AbortKeeps == ASSUME SInv, DequeueAbort PROVE SInv'
<1> USE DEF picoVars, xferVars, apiVars, threadVars
<1>1. PICK D \in SUBSET Pool : pool' = Complete(pool, D)
  <2>1. First(Lookup(pool, inflight[dq.slot].dev_addr, inflight[dq.slot].ep_addr))
            \in SUBSET Pool
    BY DEF First, Lookup
  <2> QED
    BY <2>1 DEF DequeueAbort
<1>2. UNCHANGED <<bits, root, line, xferVars, inflight, last_root_event, apiVars, threadVars>>
  BY DEF DequeueAbort
<1>3. pool \in [Pool -> Endpoints] /\ IInv
  BY DEF SInv, IInv, TypeOK
<1>4. /\ pool' \in [Pool -> Endpoints]
      /\ Busy(pool') \subseteq Busy(pool)
  BY <1>1, <1>3, CompleteRetires
<1>5. Busy(pool)' \subseteq Busy(pool)
  BY <1>4 DEF Busy
<1>6. \A i \in Pool : /\ pool'[i].used = pool[i].used
                      /\ pool'[i].dev_addr = pool[i].dev_addr
                      /\ pool'[i].ep_num = pool[i].ep_num
                      /\ pool'[i].xact = pool[i].xact
  BY <1>1, <1>3, CompleteKeeps
<1>7. Occupied' = Occupied /\ Events' = Events /\ Busy(pool)' \subseteq Pool
  BY <1>2, Derived DEF Busy
<1>8. IInv'
  <2>1. TypeOK'
    BY <1>2, <1>3, <1>4 DEF IInv, TypeOK
  <2>2. PhaseInv' /\ QueueInv' /\ SlotInv' /\ EventInv'
    BY <1>2, <1>3, <1>7
    DEF IInv, PhaseInv, QueueInv, SlotInv, EventInv, OneInFlight, HeadOnlyInFlight
  <2>3. WireInv' /\ RootInv'
    BY <1>2, <1>3, <1>5, <1>6, <1>7 DEF IInv, WireInv, RootInv
  <2> QED
    BY <2>1, <2>2, <2>3 DEF IInv
<1>9. AckInv'
  BY <1>2, <1>5, <1>6, <1>7
  DEF SInv, AckInv, Reached, WireStage, Completions, SuccessMeansAcked
<1>10. FreshInv'
  BY <1>2, <1>7 DEF SInv, FreshInv, UnderWay
<1>11. LinkInv'
  BY <1>2, <1>5, <1>6, <1>7, LinkFrame DEF SInv
<1> QED
  BY <1>2, <1>8, <1>9, <1>10, <1>11 DEF SInv, PortInv

\* With nothing on the list a transfer is the application's, and a slot is wiped only
\* under the hand that is about to free it.
LEMMA WipeKeeps == ASSUME SInv, queue = <<>>, DequeueFree PROVE SInv'
<1> USE DEF picoVars, xferVars, apiVars, threadVars
<1>1. /\ inflight' = [inflight EXCEPT ![dq.slot] = EmptySlot]
      /\ owner' = [owner EXCEPT ![dq.xfer] = "app"]
      /\ UNCHANGED <<pool, bits, root, line, queue, stage, result, acked, last_root_event,
                     enabled, resetting, pc, phase, pending, cur, xfer, err>>
  BY DEF DequeueFree
<1>2. UNCHANGED owner
  <2>1. \A x \in Xfers : owner[x] = "app"
    BY DEF SInv, IInv, TypeOK, QueueInv
  <2> QED
    BY <1>1, <2>1 DEF SInv, IInv, TypeOK
<1>3. inflight \in [Slots -> InflightSlots] /\ IInv
  BY DEF SInv, IInv, TypeOK
<1>4. CASE pc # "free"
  <2>1. Occupied = {}
    BY <1>3, <1>4 DEF IInv, SlotInv, HeadOnlyInFlight
  <2>2. \A s \in Slots : inflight[s] = EmptySlot
    BY <1>3, <2>1 DEF IInv, SlotInv, Occupied
  <2>3. UNCHANGED inflight
    BY <1>1, <1>3, <2>2
  <2> QED
    BY <1>1, <1>2, <2>3, SInvStep DEF vars
<1>5. CASE pc = "free"
  <2>1. /\ inflight' \in [Slots -> InflightSlots]
        /\ \A s \in Slots : inflight'[s] \in {inflight[s], EmptySlot}
    <3>1. EmptySlot \in InflightSlots
      BY DEF EmptySlot, InflightSlots, DevAddrs, EpAddrs
    <3> QED
      BY <1>1, <1>3, <3>1
  <2>2. \A s \in Occupied' : s \in Occupied /\ inflight'[s] = inflight[s]
    BY <2>1 DEF Occupied, EmptySlot
  <2>3. Busy(pool) = {} /\ Busy(pool)' = {} /\ Events' = Events
    BY <1>1, <1>3, <1>5, Derived DEF IInv, WireInv
  <2>4. IInv'
    <3>1. TypeOK'
      BY <1>1, <1>2, <1>3, <2>1 DEF IInv, TypeOK
    <3>2. PhaseInv' /\ QueueInv' /\ EventInv'
      BY <1>1, <1>2, <1>3, <2>3 DEF IInv, PhaseInv, QueueInv, EventInv
    <3>3. SlotInv'
      <4>1. \A s \in Slots : inflight'[s].xfer = NoXfer => inflight'[s] = EmptySlot
        BY <1>3, <2>1 DEF IInv, SlotInv
      <4> QED
        BY <1>1, <1>3, <1>5, <2>2, <4>1
        DEF IInv, SlotInv, OneInFlight, HeadOnlyInFlight
    <3>4. WireInv' /\ RootInv'
      BY <1>1, <1>3, <2>3 DEF IInv, WireInv, RootInv
    <3> QED
      BY <3>1, <3>2, <3>3, <3>4 DEF IInv
  <2>5. AckInv'
    BY <1>1, <1>5, <2>3 DEF SInv, AckInv, SuccessMeansAcked
  <2>6. FreshInv'
    BY <1>1, <1>2, <1>5 DEF SInv, FreshInv, UnderWay
  <2>7. LinkInv'
    BY <1>1, <2>2, <2>3 DEF SInv, LinkInv, Serves
  <2> QED
    BY <1>1, <2>4, <2>5, <2>6, <2>7 DEF SInv, PortInv
<1> QED
  BY <1>4, <1>5

\* Until then each step is one of UhcPioUsb's, or a step of a dequeue that leaves the
\* driver's invariant alone, or the one that leaves the transfer behind.
LEMMA DriverStep ==
    ASSUME SInv, BuffersInv, left \in BOOLEAN, [SamplesNext]_<<vars, dq, sampleVars>>
    PROVE  SInv' \/ left'
<1> USE DEF mainVars, callbackVars, semVars, historyVars
<1>1. [Next]_vars => SInv'
  BY SInvStep
<1>2. Script[at] \in Xfers
  BY ScriptAssumption, ElementOfSeq DEF BuffersInv
<1>3. CASE DriverThread
  BY <1>1, <1>3 DEF DriverThread, Next
<1>4. CASE Boot \/ BusReset \/ ResetReturns
  BY <1>1, <1>4 DEF Boot, BusReset, ResetReturns, Next, Api
<1>5. CASE Submit
  BY <1>1, <1>2, <1>5 DEF Submit, Next, Api
<1>6. CASE Callback \/ TakeConnect \/ CheckConnected \/ Alloc \/ Pause \/ Arm \/ SubmitFails
           \/ TakeDone \/ TimeOut \/ GiveUp \/ StepDone \/ Poll \/ PollAbsent
  <2>1. UNCHANGED vars
    BY <1>6 DEF Callback, TakeConnect, CheckConnected, Alloc, Pause, Arm, SubmitFails,
       TakeDone, TimeOut, GiveUp, StepDone, Poll, PollAbsent, Local
  <2> QED
    BY <1>1, <2>1
<1>7. CASE (Replug /\ UNCHANGED <<dq, sampleVars>>) \/ UNCHANGED <<vars, dq, sampleVars>>
  BY <1>1, <1>7 DEF Next
<1>8. CASE DequeueCall
  <2>1. CASE DequeueLookup(Script[at])
    BY <1>1, <2>1 DEF DequeueLookup
  <2>2. CASE DequeueAbort
    BY <2>2, AbortKeeps
  <2>3. CASE (DequeueMiss(Script[at]) \/ DequeueFree) /\ mpc' = "gaveup" /\ queue # <<>>
    BY <1>8, <2>1, <2>2, <2>3 DEF DequeueCall
  <2>4. CASE DequeueMiss(Script[at]) /\ queue = <<>>
    <3>1. owner' = [owner EXCEPT ![Script[at]] = "app"] /\ owner[Script[at]] = "app"
      BY <1>2, <2>4 DEF DequeueMiss, SInv, IInv, TypeOK, QueueInv
    <3>2. UNCHANGED owner
      BY <3>1 DEF SInv, IInv, TypeOK
    <3> QED
      BY <1>1, <2>4, <3>2 DEF DequeueMiss, vars, picoVars, apiVars, threadVars
  <2>5. CASE DequeueFree /\ queue = <<>>
    BY <2>5, WipeKeeps
  <2> QED
    BY <1>8, <2>1, <2>2, <2>3, <2>4, <2>5 DEF DequeueCall
<1> QED
  BY <1>3, <1>4, <1>5, <1>6, <1>7, <1>8 DEF SamplesNext, Main

\* A transfer once left on the list is not forgotten.
LEMMA LeftStays ==
    ASSUME left \in BOOLEAN, left, [SamplesNext]_<<vars, dq, sampleVars>> PROVE left'
<1> USE DEF mainVars, callbackVars, semVars, historyVars, sampleVars
<1>1. CASE DriverThread \/ Callback \/ Boot \/ TakeConnect \/ CheckConnected \/ BusReset
           \/ ResetReturns \/ Alloc \/ Pause \/ Arm
  BY <1>1 DEF DriverThread, Callback, Boot, TakeConnect, CheckConnected, BusReset,
     ResetReturns, Alloc, Pause, Arm
<1>2. CASE Submit \/ SubmitFails \/ TakeDone \/ TimeOut \/ DequeueCall \/ GiveUp \/ StepDone
           \/ Poll \/ PollAbsent \/ UNCHANGED sampleVars
  BY <1>2 DEF Submit, SubmitFails, TakeDone, TimeOut, DequeueCall, GiveUp, StepDone, Poll,
     PollAbsent
<1> QED
  BY <1>1, <1>2 DEF SamplesNext, Main

\* What the driver does for any caller it does for the samples, as long as no transfer was
\* left on its list.
LEMMA DriverInvariance == SamplesSpec => []DriverInv
<1>1. SamplesInit => DriverInv /\ OwnTypes /\ BuffersInv
  <2>1. SamplesInit => SInv
    BY SInvInit DEF SamplesInit, DqInit
  <2> QED
    BY <2>1, SamplesInitTyped DEF DriverInv
<1>2. DriverInv /\ OwnTypes /\ BuffersInv /\ [SamplesNext]_<<vars, dq, sampleVars>>
          => DriverInv'
  <2> SUFFICES ASSUME DriverInv, OwnTypes, BuffersInv,
                      [SamplesNext]_<<vars, dq, sampleVars>>
               PROVE  DriverInv'
    OBVIOUS
  <2>1. left \in BOOLEAN
    BY DEF OwnTypes
  <2>2. CASE left
    BY <2>1, <2>2, LeftStays DEF DriverInv
  <2>3. CASE ~left
    BY <2>1, <2>3, DriverStep DEF DriverInv
  <2> QED
    BY <2>2, <2>3
<1> QED
  BY <1>1, <1>2, OwnTypesStep, BuffersStep, PTL DEF SamplesSpec

\* Until an ep_dequeue leaves a transfer on the list, every buffer on the wire is one the
\* driver still has: aborts, wiped slots and late completions do not change that.
THEOREM HeldUntilLeft == SamplesSpec => []BufferHeldUnlessLeft
<1>1. SInv => BufferHeldWhileOnWire
  BY WireIsOwned DEF SInv
<1>2. DriverInv => BufferHeldUnlessLeft
  BY <1>1 DEF DriverInv, BufferHeldUnlessLeft
<1> QED
  BY <1>2, DriverInvariance, PTL

\* For any script and wherever the thread is at each time-out: a wait of issue_setup that
\* began with nothing on the list and no completion on its way to the semaphore ends with
\* the completion of its own transfer, whatever timed out, was left behind and completed
\* late before; and as long as nothing was ever left behind, with success only if the
\* device acknowledged every stage.  (A wait that begins with a left transfer still there
\* may end with that one's completion: EveryWaitIsOwn is false.)
THEOREM WaitsEndWithOwn == SamplesSpec => []OwnCompletion
<1>1. OwnInv /\ BuffersInv /\ DriverInv => OwnCompletion
  <2> SUFFICES ASSUME OwnInv, BuffersInv, DriverInv, mpc = "woken", quiet
               PROVE  /\ result[Script[at]] # "none"
                      /\ ~left /\ result[Script[at]] = "OK"
                             => acked[Script[at]] = Plan(Script[at])
    BY DEF OwnCompletion
  <2>1. Script[at] \in Xfers
    BY ScriptAssumption, ElementOfSeq DEF BuffersInv
  <2> QED
    BY <2>1 DEF OwnInv, DriverInv, SInv, AckInv, SuccessMeansAcked
<1> QED
  BY <1>1, OwnInvariance, DriverInvariance, PTL
=============================================================================
