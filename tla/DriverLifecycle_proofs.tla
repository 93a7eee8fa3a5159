----------------------- MODULE DriverLifecycle_proofs -----------------------
(***************************************************************************)
(* Proofs about DriverLifecycle, for any number of threads and whether or  *)
(* not joins time out.                                                     *)
(***************************************************************************)
EXTENDS DriverLifecycle, TLAPS

USE DEF fieldVars, Threads, Dead, ThreadPCs, CallPCs, Drivers

\* The initial state satisfies the invariant.
LEMMA InitLifecycle == Init => LifecycleInv
<1> SUFFICES ASSUME Init PROVE LifecycleInv
  OBVIOUS
<1>1. thread \in [Threads -> ThreadPCs] /\ Dead = Threads
  BY DEF Init
<1>2. LifecycleTypeOK
  <2>1. current \in Threads
    BY ThreadsAssumption DEF Init
  <2>2. flags = {} /\ {up, initialized, enabled, stop, singleton, irq, timed_out} = {FALSE}
    BY DEF Init
  <2> QED
    BY <1>1, <2>1, <2>2 DEF Init, LifecycleTypeOK
<1> QED
  BY <1>1, <1>2 DEF Init, LifecycleInv, OneThread, SessionWhole, CallInv

\* A step of a thread changes that thread only, ends it only if it was told to stop,
\* wakes none of the dead, and empties the flags or leaves them.
LEMMA ThreadKeeps ==
    ASSUME LifecycleInv, NEW t \in Threads, ThreadStep(t)
    PROVE  LifecycleInv'
<1> USE DEF LifecycleInv
<1>1. /\ thread[t] # "exited"
      /\ \E to \in ThreadPCs : /\ thread' = [thread EXCEPT ![t] = to]
                               /\ to = "exited" => stop
  BY DEF ThreadStep, TestStop, Wake, WorkDone, Goes
<1>2. /\ flags' \in {flags, {}}
      /\ UNCHANGED <<driver, up, initialized, enabled, stop, singleton, irq, current,
                     call, timed_out>>
  BY DEF ThreadStep, TestStop, Wake, WorkDone
<1>3. LifecycleTypeOK'
  BY <1>1, <1>2 DEF LifecycleTypeOK
<1>4. \A u \in Threads : u \notin Dead' => u \notin Dead
  BY <1>1 DEF LifecycleTypeOK
<1>5. OneThread'
  BY <1>2, <1>4 DEF OneThread
<1>6. CallInv'
  BY <1>1, <1>2, <1>4 DEF CallInv, LifecycleTypeOK
<1>7. SessionWhole'
  <2>1. ~stop => \A u \in Threads : u \in Dead' => u \in Dead
    BY <1>1 DEF LifecycleTypeOK
  <2> QED
    BY <1>2, <2>1 DEF SessionWhole, LifecycleTypeOK
<1> QED
  BY <1>3, <1>5, <1>6, <1>7

\* A call of the API keeps the invariant.
LEMMA CallKeeps == LifecycleInv /\ (Starting \/ GoingOn) => LifecycleInv'
<1> SUFFICES ASSUME LifecycleInv, Starting \/ GoingOn PROVE LifecycleInv'
  OBVIOUS
<1> USE DEF LifecycleInv, LifecycleTypeOK, OneThread, SessionWhole, CallInv
<1>1. CASE CallInit
  BY <1>1 DEF CallInit, IrqSetEnabled
<1>2. CASE Enable \/ Disable
  <2>1. /\ UNCHANGED <<driver, up, initialized, stop, singleton, flags, irq, current,
                       thread, timed_out>>
        /\ call = "none" /\ call' = "none" /\ up /\ enabled' \in BOOLEAN
    BY <1>2 DEF Enable, Disable
  <2> QED
    BY <2>1
<1>3. CASE CallShutdown
  BY <1>3 DEF CallShutdown
<1>4. CASE InitReset
  BY <1>4 DEF InitReset, InitFields
<1>5. CASE InitCreate
  BY <1>5 DEF InitCreate
<1>6. CASE InitFails
  BY <1>6 DEF InitFails
<1>7. CASE ShutdownJoin
  <2>1. LifecycleTypeOK' /\ OneThread' /\ SessionWhole'
    BY <1>7 DEF ShutdownJoin
  <2>2. ~timed_out' => Dead' = Threads
    BY <1>7 DEF ShutdownJoin
  <2> QED
    BY <1>7, <2>1, <2>2 DEF ShutdownJoin
<1>8. CASE ShutdownEnd
  BY <1>8 DEF ShutdownEnd
<1> QED
  BY <1>1, <1>2, <1>3, <1>4, <1>5, <1>6, <1>7, <1>8 DEF Starting, GoingOn

\* Every step keeps the invariant.
LEMMA LifecycleStep == LifecycleInv /\ [Next]_vars => LifecycleInv'
<1> SUFFICES ASSUME LifecycleInv, [Next]_vars PROVE LifecycleInv'
  OBVIOUS
<1>1. CASE Interrupt
  BY <1>1 DEF Interrupt, IrqHandler, LifecycleInv, LifecycleTypeOK, OneThread,
     SessionWhole, CallInv
<1>2. CASE UNCHANGED vars
  BY <1>2 DEF vars, LifecycleInv, LifecycleTypeOK, OneThread, SessionWhole, CallInv
<1> QED
  BY <1>1, <1>2, ThreadKeeps, CallKeeps DEF Next
-----------------------------------------------------------------------------
(* The theorems                                                            *)

\* The strengthened invariant: where a call stands, and what it has done so far.
THEOREM LifecycleInvariance == Spec => []LifecycleInv
BY InitLifecycle, LifecycleStep, PTL DEF Spec

\* Every variable of the life cycle keeps its type.
THEOREM LifecycleTyped == Spec => []LifecycleTypeOK
<1>1. LifecycleInv => LifecycleTypeOK
  BY DEF LifecycleInv
<1> QED
  BY <1>1, LifecycleInvariance, PTL

\* Unless a join has timed out, at most one thread is on the driver's stack, and none
\* once shutdown has returned.
THEOREM OneThreadAtATime == Spec => []OneThread
<1>1. LifecycleInv => OneThread
  BY DEF LifecycleInv
<1> QED
  BY <1>1, LifecycleInvariance, PTL

\* While a driver is up its thread lives, whatever timed out or failed before this init.
THEOREM SessionIsWhole == Spec => []SessionWhole
<1>1. LifecycleInv => SessionWhole
  BY DEF LifecycleInv
<1> QED
  BY <1>1, LifecycleInvariance, PTL

\* No thread takes up work that was flagged before the init it runs under.
THEOREM StaleWorkDropped == Spec => NoStaleWork
<1>1. ASSUME LifecycleInv, [Next]_vars
      PROVE  [\A t \in Threads :
                thread[t] = "sleep" /\ thread'[t] = "work" => "stale" \notin flags]_thread
  <2> SUFFICES ASSUME NEW t \in Threads, thread[t] = "sleep", thread'[t] = "work"
               PROVE  "stale" \notin flags
    OBVIOUS
  <2>1. enabled
    <3> thread \in [Threads -> ThreadPCs]
      BY <1>1 DEF LifecycleInv, LifecycleTypeOK
    <3>1. CASE \E u \in Threads : ThreadStep(u)
      <4>1. PICK u \in Threads : ThreadStep(u)
        BY <3>1
      <4>2. \E to : thread' = [thread EXCEPT ![u] = to]
        BY <4>1 DEF ThreadStep, TestStop, Wake, WorkDone, Goes
      <4>3. u = t
        BY <4>2
      <4> QED
        BY <4>1, <4>3 DEF ThreadStep, TestStop, Wake, WorkDone, Goes
    <3>2. CASE Starting \/ GoingOn
      <4>1. UNCHANGED thread \/ \E u \in Threads : thread' = [thread EXCEPT ![u] = "test"]
        BY <3>2 DEF Starting, GoingOn, CallInit, Enable, Disable, CallShutdown, InitReset,
           InitCreate, InitFails, ShutdownJoin, ShutdownEnd
      <4> QED
        BY <4>1
    <3>3. CASE Interrupt \/ UNCHANGED vars
      BY <3>3 DEF Interrupt, vars
    <3> QED
      BY <1>1, <3>1, <3>2, <3>3 DEF Next
  <2> QED
    BY <1>1, <2>1 DEF LifecycleInv, CallInv
<1> QED
  BY <1>1, LifecycleInvariance, PTL DEF Spec, NoStaleWork
=============================================================================
