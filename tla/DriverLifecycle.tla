--------------------------- MODULE DriverLifecycle ---------------------------
(***************************************************************************)
(* Start and stop of the two drivers: init, enable, disable and shutdown of*)
(* uhc_pio_usb.c and udc_pio_usb.c, their thread, and the interrupt of the *)
(* device driver.  Both drivers go through the same steps; "driver" tells  *)
(* which of them this is.  What a thread does in one pass is the subject of*)
(* UhcPioUsb and UdcPioUsb; here it is one state, "work".                  *)
(***************************************************************************)
EXTENDS Naturals

CONSTANTS
    MaxThreads,    \* threads alive at once: a bound for the model checker
    JoinTimesOut   \* may the thread outlast k_thread_join's 100 ms?

ASSUME ThreadsAssumption == MaxThreads \in Nat \ {0}
ASSUME JoinAssumption == JoinTimesOut \in BOOLEAN

Drivers == {"uhc", "udc"}
Threads == 1..MaxThreads
\* The call of the API in progress, by the step it stands at.
CallPCs == {"none", "reset", "create", "join", "end"}
ThreadPCs == {"test", "sleep", "work", "exited"}

VARIABLES
    driver,       \* which of the two; never changes
    up,           \* the common layer's status bit: init has succeeded
    initialized, enabled, stop,   \* fields of the driver's private data
    singleton,    \* is the driver's singleton pointer set?
    flags,        \* priv->flags, by the session they were set in
    irq,          \* the device's receive interrupt is connected and enabled
    current,      \* the thread the last successful init created
    call,
    thread,       \* [Threads -> ThreadPCs]
    timed_out     \* a join has timed out (history)

fieldVars == <<initialized, enabled, stop, singleton, flags>>
vars == <<driver, up, initialized, enabled, stop, singleton, flags, irq,
          current, call, thread, timed_out>>

Init ==
    /\ driver \in Drivers
    /\ up = FALSE /\ initialized = FALSE /\ enabled = FALSE /\ stop = FALSE
    /\ singleton = FALSE /\ irq = FALSE /\ timed_out = FALSE
    /\ flags = {}
    /\ current = 1
    /\ call = "none"
    /\ thread = [t \in Threads |-> "exited"]
-----------------------------------------------------------------------------
(* The interrupt and its glue                                              *)

\* irq_set_exclusive_handler, irq_set_enabled: pio_usb_device_init connects the
\* receive interrupt and enables it; nothing disables it later.
IrqSetEnabled == irq' = (irq \/ driver = "udc")

\* Faulty: the library's bits are stored as they come.
IrqHandlerRaw == flags' = flags \cup {"ints"}

\* pio_usb_device_irq_handler: once a driver is there, flag the work.
IrqHandler == flags' = IF singleton THEN flags \cup {"fresh"} ELSE flags

Interrupt ==
    /\ irq
    /\ IrqHandler
    /\ UNCHANGED <<driver, up, initialized, enabled, stop, singleton, irq, current,
                   call, thread, timed_out>>
-----------------------------------------------------------------------------
(* The API: one call at a time, under the mutex; the common layer lets init*)
(* through only before, and the others only after, an init that succeeded. *)

Dead == {t \in Threads : thread[t] = "exited"}

\* The library is initialized.  Flags left from now on are an earlier session's.
CallInit ==
    /\ call = "none" /\ ~up
    /\ Dead # {}
    /\ IrqSetEnabled
    /\ singleton' = (singleton \/ driver = "uhc")
    /\ flags' = IF flags = {} THEN {} ELSE {"stale"}
    /\ call' = "reset"
    /\ UNCHANGED <<driver, up, initialized, enabled, stop, current, thread, timed_out>>

\* Faulty: a second init finds stop as shutdown left it.
InitFieldsKeepsStop ==
    /\ singleton' = TRUE /\ initialized' = TRUE
    /\ enabled' = FALSE /\ UNCHANGED stop
    /\ flags' = {}

\* Faulty: the flags of the session before are kept.
InitFieldsKeepsFlags ==
    /\ singleton' = TRUE /\ initialized' = TRUE
    /\ enabled' = FALSE /\ stop' = FALSE
    /\ UNCHANGED flags

InitFields ==
    /\ singleton' = TRUE /\ initialized' = TRUE
    /\ enabled' = FALSE /\ stop' = FALSE
    /\ flags' = {}

InitReset ==
    /\ call = "reset"
    /\ InitFields
    /\ call' = "create"
    /\ UNCHANGED <<driver, up, irq, current, thread, timed_out>>

\* k_thread_create: the one thread struct and the one stack, whoever uses them.
InitCreate ==
    /\ call = "create"
    /\ \E t \in Dead : current' = t /\ thread' = [thread EXCEPT ![t] = "test"]
    /\ up' = TRUE
    /\ call' = "none"
    /\ UNCHANGED <<driver, fieldVars, irq, timed_out>>

\* The host driver fails before it resets its fields, the device driver after: the
\* port cannot be added, a control endpoint cannot be enabled.
InitFails ==
    /\ call = IF driver = "uhc" THEN "reset" ELSE "create"
    /\ call' = "none"
    /\ UNCHANGED <<driver, up, fieldVars, irq, current, thread, timed_out>>

\* Neither goes through the library's start and stop: they are complete in one step.
Enable ==
    /\ call = "none" /\ up /\ ~enabled
    /\ driver = "uhc" => initialized
    /\ enabled' = TRUE
    /\ UNCHANGED <<driver, up, initialized, stop, singleton, flags, irq,
                   current, call, thread, timed_out>>

Disable ==
    /\ call = "none" /\ up /\ enabled
    /\ enabled' = FALSE
    /\ UNCHANGED <<driver, up, initialized, stop, singleton, flags, irq,
                   current, call, thread, timed_out>>

CallShutdown ==
    /\ call = "none" /\ up
    /\ enabled' = FALSE /\ stop' = TRUE
    /\ call' = "join"
    /\ UNCHANGED <<driver, up, initialized, singleton, flags, irq, current,
                   thread, timed_out>>

\* Faulty: shutdown does not wait for the thread.
ShutdownNoJoin ==
    /\ call = "join"
    /\ call' = "end"
    /\ UNCHANGED <<driver, up, fieldVars, irq, current, thread, timed_out>>

\* k_thread_join, whose result nobody looks at.
ShutdownJoin ==
    /\ call = "join"
    /\ \/ thread[current] = "exited" /\ UNCHANGED timed_out
       \/ JoinTimesOut /\ current \notin Dead /\ timed_out' = TRUE
    /\ call' = "end"
    /\ UNCHANGED <<driver, up, fieldVars, irq, current, thread>>

ShutdownEnd ==
    /\ call = "end"
    /\ initialized' = FALSE /\ singleton' = FALSE
    /\ up' = FALSE
    /\ call' = "none"
    /\ UNCHANGED <<driver, enabled, stop, flags, irq, current, thread,
                   timed_out>>

Starting == CallInit \/ Enable \/ Disable \/ CallShutdown
GoingOn == InitReset \/ InitCreate \/ InitFails \/ ShutdownJoin \/ ShutdownEnd
-----------------------------------------------------------------------------
(* The thread: while (!stop) { take the semaphore or time out; if enabled, *)
(* take the flags and do the pass }                                        *)

Goes(t, from, to) == thread[t] = from /\ thread' = [thread EXCEPT ![t] = to]

TestStop(t) ==
    /\ Goes(t, "test", IF stop THEN "exited" ELSE "sleep")
    /\ UNCHANGED <<driver, up, fieldVars, irq, current, call, timed_out>>

Wake(t) ==
    /\ Goes(t, "sleep", IF enabled THEN "work" ELSE "test")
    /\ flags' = IF enabled THEN {} ELSE flags
    /\ UNCHANGED <<driver, up, initialized, enabled, stop, singleton, irq,
                   current, call, timed_out>>

WorkDone(t) ==
    /\ Goes(t, "work", "test")
    /\ UNCHANGED <<driver, up, fieldVars, irq, current, call, timed_out>>

ThreadStep(t) == TestStop(t) \/ Wake(t) \/ WorkDone(t)

Next ==
    \/ Starting \/ GoingOn
    \/ Interrupt
    \/ \E t \in Threads : ThreadStep(t)

Spec == Init /\ [][Next]_vars

\* A call that has begun and a thread that is ready go on.
FairSpec ==
    /\ Spec
    /\ WF_vars(GoingOn)
    /\ \A t \in Threads : WF_vars(ThreadStep(t))
-----------------------------------------------------------------------------
(* Properties                                                              *)

LifecycleTypeOK ==
    /\ driver \in Drivers
    /\ {up, initialized, enabled, stop, singleton, irq,
        timed_out} \subseteq BOOLEAN
    /\ flags \subseteq {"stale", "fresh"}
    /\ current \in Threads
    /\ call \in CallPCs
    /\ thread \in [Threads -> ThreadPCs]

\* One thread at a time runs on the driver's one stack, and none from the end of
\* shutdown to the next init, unless a join has timed out: its result is dropped, and
\* an init that follows clears the stop flag the old thread has not seen yet.
OneThread ==
    ~timed_out => \A t \in Threads \ Dead : t = current /\ up

\* Work flagged before an init is not done after it, though the interrupt goes on
\* after a shutdown (the singleton pointer is NULL then) and after an init that failed
\* (it is not).
NoStaleWork ==
    [][\A t \in Threads :
          thread[t] = "sleep" /\ thread'[t] = "work" => "stale" \notin flags]_thread

\* While a driver is up and no shutdown is under way its latest thread lives and is not
\* told to stop, the fields are those of this init, and an interrupt finds the device
\* driver: nothing is left of what a shutdown, a join that timed out or an init that
\* failed did before.
SessionWhole ==
    up /\ call \notin {"join", "end"} =>
        /\ current \notin Dead /\ ~stop
        /\ initialized /\ singleton
        /\ driver = "udc" => irq

\* The inductive invariant behind them: which steps a call stands at, and what it has
\* already done to the thread, the flags and the other fields.
CallInv ==
    /\ call \in {"reset", "create"} => ~up
    /\ call \in {"join", "end"} => up /\ ~enabled
    /\ call = "create" \/ up => "stale" \notin flags
    /\ enabled => up
    /\ call = "end" /\ ~timed_out => Dead = Threads
    /\ call \in {"reset", "create"} /\ driver = "udc" => irq
    /\ call = "create" => initialized /\ singleton /\ ~stop
LifecycleInv == LifecycleTypeOK /\ OneThread /\ SessionWhole /\ CallInv

\* A driver that is enabled and stays so has a thread that works, however often it
\* was shut down, or failed to start, before.
WorksWhenEnabled ==
    <>[]enabled => []<>(\E t \in Threads : thread[t] = "work")
=============================================================================
