-------------------------- MODULE RbuvLoopProofs --------------------------
(***************************************************************************)
(* Proofs about RbuvLoop, for any set of handles of any kinds, any blocks  *)
(* and modes, and programs with or without exceptions.                     *)
(*                                                                         *)
(* IInv is inductive.  Each action touches few of its parts, but most      *)
(* parts speak of the same sets, so every step below is checked against    *)
(* the whole of it, with the definitions of that action alone expanded.    *)
(***************************************************************************)
EXTENDS RbuvLoop, TLAPS

\* The loop starts with nothing created, so every part of IInv holds trivially.
LEMMA InitIInv == Init => IInv
  BY KindAssumption, NoneAssumption, BlockAssumption
  DEF Init, UvInit, HandleInit, IInv, TypeOK, NoDanglingHandle, CloseStateAgrees,
      RunModeAgrees, WorkOfPhase, CallbackOfPhase, QueuedNotTrapped, RevivedIsClosed, CrashedInRuby, Walks,
      Undispatched, OfKind, Timers, Signals, Phases, Callers

\* Stopping handles never gives a phase more to visit; a stopped watcher is left to
\* it only where the walk stands at a stopped one.
LEMMA UnwatchKeeps ==
  ASSUME WorkOfPhase, CallbackOfPhase, cb # None \/ phase = "none",
         NEW S, Unwatch(S), active' = active \ S, UNCHANGED <<phase, at, finishing>>
  PROVE  work' \subseteq work /\ WorkOfPhase'
<1> DEFINE unlinked == {w \in work \cap active \cap S : Kind[w] \notin {"signal", "poll"}}
<1>1. PICK met \in SUBSET unlinked :
        (at \in active \ S => met = {}) /\ work' = (work \ unlinked) \cup met
  BY DEF Unwatch
<1>2. work' \subseteq work
  BY <1>1
<1>3. ASSUME phase \in Walks, work' \ active' # {} PROVE at # None /\ at \notin active'
  <2>1. CASE work \ active # {}
    BY <1>3, <2>1 DEF WorkOfPhase
  <2>2. CASE work \subseteq active
    <3>1. met # {}
      BY <1>1, <1>3, <2>2 DEF WorkOfPhase, OfKind, Walks
    <3>2. at \notin active \ S
      BY <1>1, <3>1
    <3>3. at # None
      BY <1>3 DEF CallbackOfPhase, Walks
    <3> QED
      BY <3>2, <3>3
  <2> QED
    BY <2>1, <2>2
<1> QED
  BY <1>2, <1>3 DEF WorkOfPhase

\* The start of an Idle, Prepare or Check, open or closing.
LEMMA WatcherStartIInv ==
  ASSUME IInv, Ruby, NEW h \in Handle, Kind[h] \in Walks, watcher_start(h),
         UNCHANGED loopVars
  PROVE  IInv'
BY KindAssumption, NoneAssumption, BlockAssumption
   DEF watcher_start, uv_start, InsertHead, Revive,
       IInv, TypeOK, NoDanglingHandle, CloseStateAgrees, RunModeAgrees, WorkOfPhase,
       CallbackOfPhase, QueuedNotTrapped, RevivedIsClosed, CrashedInRuby, Walks,
       Undispatched, Ruby, OfKind, Timers, Signals, HandleKinds, Phases, Callers,
       handleVars, signalVars, runVars, objVars, loopVars

\* Calls about a handle, from the main program or from a block, keep IInv.
LEMMA HandleCallIInv ==
  ASSUME IInv, NEW h \in Handle, HandleCall(h)
  PROVE  IInv'
<1> USE KindAssumption, NoneAssumption, BlockAssumption
    DEF IInv, TypeOK, NoDanglingHandle, CloseStateAgrees, RunModeAgrees, WorkOfPhase,
        CallbackOfPhase, QueuedNotTrapped, RevivedIsClosed, CrashedInRuby, Walks, Undispatched, Ruby,
        OfKind, Timers, Signals, HandleKinds, Phases, Callers,
        handleVars, signalVars, runVars, objVars, loopVars
<1>1. CASE New(h)
  <2>1. handle_initialize(h) /\ UNCHANGED loopVars
    BY ONLY <1>1 DEF New, timer_initialize, idle_initialize, prepare_initialize,
                     check_initialize, poll_initialize, signal_initialize
  <2> QED
    BY <2>1 DEF handle_initialize, uv_init
<1>2. CASE Start(h)
  <2>1. CASE \E zero, repeats \in BOOLEAN : timer_start(h, zero, repeats)
    BY <1>2, <2>1 DEF Start, timer_start, uv_timer_start, Revive
  <2>2. CASE watcher_start(h) /\ Kind[h] \in Walks
    BY <1>2, <2>2, WatcherStartIInv DEF Start
  <2>3. CASE event_start(h) /\ Kind[h] \in {"poll", "signal"}
    BY <1>2, <2>3 DEF Start, event_start, uv_start, InsertHead
  <2>4. CASE event_start_closing(h)
    BY <1>2, <2>4 DEF Start, event_start_closing, uv_crash
  <2> QED
    BY <1>2, <2>1, <2>2, <2>3, <2>4
    DEF Start, idle_start, prepare_start, check_start, poll_start, signal_start
<1>3. CASE Stop(h)
  <2>1. work' \subseteq work /\ WorkOfPhase'
    BY <1>3, UnwatchKeeps
    DEF Stop, timer_stop, idle_stop, prepare_stop, check_stop, poll_stop, signal_stop,
        handle_stop, uv_handle_stop
  <2> QED
    BY <1>3, <2>1
    DEF Stop, timer_stop, idle_stop, prepare_stop, check_stop, poll_stop, signal_stop,
        handle_stop, uv_handle_stop
<1>4. CASE SetRef(h)
  BY <1>4 DEF SetRef, handle_set_ref, uv_set_ref
<1>5. CASE SetRepeat(h)
  BY <1>5 DEF SetRepeat, timer_repeat_set, uv_timer_set_repeat
<1>6. CASE Close(h)
  <2>1. work' \subseteq work /\ WorkOfPhase'
    BY <1>6, UnwatchKeeps DEF Close, handle_close, uv_close
  <2> QED
    BY <1>6, <2>1 DEF Close, handle_close, uv_close
<1> QED
  BY <1>1, <1>2, <1>3, <1>4, <1>5, <1>6 DEF HandleCall

\* Calls about the loop, and what dispose and run do on their own account.
LEMMA LoopCallIInv ==
  ASSUME IInv, LoopCall \/ Dispose \/ DisposeRuns \/ DisposeNothing
  PROVE  IInv'
<1> USE KindAssumption, NoneAssumption, BlockAssumption, ModeAssumption
    DEF IInv, TypeOK, NoDanglingHandle, CloseStateAgrees, RunModeAgrees, WorkOfPhase,
        CallbackOfPhase, QueuedNotTrapped, RevivedIsClosed, CrashedInRuby, Walks, Undispatched, Ruby,
        OfKind, Timers, Signals, HandleKinds, Phases, Callers,
        handleVars, signalVars, runVars, uvVars, objVars, loopVars
<1>1. CASE StopLoop
  BY <1>1 DEF StopLoop, uv_stop
<1>2. CASE UpdateTime
  BY <1>2 DEF UpdateTime, uv_update_time, Elapse
<1>3. CASE Dispose
  <2>1. work' \subseteq work /\ WorkOfPhase'
    BY <1>3, UnwatchKeeps DEF Dispose, close_every_handle, uv_close
  <2> QED
    BY <1>3, <2>1 DEF Dispose, close_every_handle, uv_close
<1>4. CASE \E mode \in Mode : Run(mode)
  BY <1>4 DEF Run, EnterRun
<1>5. CASE DisposeRuns
  BY <1>5 DEF DisposeRuns, EnterRun
<1>6. CASE DisposeNothing
  BY <1>6 DEF DisposeNothing
<1> QED
  BY <1>1, <1>2, <1>3, <1>4, <1>5, <1>6 DEF LoopCall

\* The steps uv_run() takes by itself keep IInv.
LEMMA LoopStepIInv ==
  ASSUME IInv, LoopStep \/ Poll \/ RunReturns
  PROVE  IInv'
<1> USE KindAssumption, NoneAssumption, BlockAssumption
    DEF IInv, TypeOK, NoDanglingHandle, CloseStateAgrees, RunModeAgrees, WorkOfPhase,
        CallbackOfPhase, QueuedNotTrapped, RevivedIsClosed, CrashedInRuby, Walks, Undispatched,
        OfKind, Timers, Signals, HandleKinds, Phases, Callers,
        handleVars, signalVars, runVars, objVars, loopVars
<1>1. CASE UvIterate /\ UNCHANGED <<objVars, loopVars>>
  BY <1>1 DEF UvIterate, Elapse
<1>2. CASE UvTimersDone /\ UNCHANGED <<objVars, loopVars>>
  BY <1>2 DEF UvTimersDone
<1>3. CASE UvIdleDone /\ UNCHANGED <<objVars, loopVars>>
  BY <1>3 DEF UvIdleDone
<1>4. CASE UvPrepareDone /\ UNCHANGED <<objVars, loopVars>>
  BY <1>4 DEF UvPrepareDone
<1>5. CASE UvEventsDone /\ UNCHANGED <<objVars, loopVars>>
  BY <1>5 DEF UvEventsDone
<1>6. CASE UvCheckDone /\ UNCHANGED <<objVars, loopVars>>
  BY <1>6 DEF UvCheckDone
<1>7. CASE UvClosingDone(UvMode) /\ UNCHANGED <<objVars, loopVars>>
  BY <1>7 DEF UvClosingDone, Elapse
<1>8. CASE (\E h \in Handle : UvSkipEvent(h)) /\ UNCHANGED <<objVars, loopVars>>
  BY <1>8 DEF UvSkipEvent, QueueDeferredClose
<1>9. CASE Poll
  BY <1>9 DEF Poll, UvPoll
<1>10. CASE RunReturns
  BY <1>10 DEF RunReturns, UvReturnFromRun, UvOver, AfterRun
<1> QED
  BY <1>1, <1>2, <1>3, <1>4, <1>5, <1>6, <1>7, <1>8, <1>9, <1>10 DEF LoopStep

\* Entering and leaving blocks, normally or by an exception, the arrival of a
\* signal and the end of the process keep IInv.
LEMMA BlockStepIInv ==
  ASSUME IInv,
         \/ Return \/ Raise \/ Crash
         \/ \E h \in Handle : CallBlock(h) \/ OnClose(h) \/ SignalArrives(h)
  PROVE  IInv'
<1> USE KindAssumption, NoneAssumption, BlockAssumption
    DEF IInv, TypeOK, NoDanglingHandle, CloseStateAgrees, RunModeAgrees, WorkOfPhase,
        CallbackOfPhase, QueuedNotTrapped, RevivedIsClosed, CrashedInRuby, Walks, Undispatched,
        OfKind, Timers, Signals, HandleKinds, Phases, Callers,
        handleVars, signalVars, runVars, objVars, loopVars
<1>1. CASE Return
  BY <1>1 DEF Return, UvCallbackReturns, QueueDeferredClose
<1>2. CASE Raise
  BY <1>2 DEF Raise, UvUnwound, AfterRun
<1>3. ASSUME NEW h \in Handle, CallBlock(h) PROVE IInv'
  <2>1. CASE UvRunTimer(h)
    BY <1>3, <2>1 DEF CallBlock, UvRunTimer, timer_on_timeout, idle_on_idle,
       prepare_on_prepare, check_on_check, poll_on_available, signal_on_signal
  <2>2. CASE UvRunWatcher(h)
    BY <1>3, <2>2 DEF CallBlock, UvRunWatcher, timer_on_timeout, idle_on_idle,
       prepare_on_prepare, check_on_check, poll_on_available, signal_on_signal
  <2>3. CASE UvRunEvent(h)
    BY <1>3, <2>3 DEF CallBlock, UvRunEvent, timer_on_timeout, idle_on_idle,
       prepare_on_prepare, check_on_check, poll_on_available, signal_on_signal
  <2> QED
    BY <1>3, <2>1, <2>2, <2>3 DEF CallBlock, timer_on_timeout, idle_on_idle,
       prepare_on_prepare, check_on_check, poll_on_available, signal_on_signal
<1>4. ASSUME NEW h \in Handle, OnClose(h) PROVE IInv'
  BY <1>4 DEF OnClose, handle_on_close, uv_finish_close
<1>5. ASSUME NEW h \in Handle, SignalArrives(h) PROVE IInv'
  BY <1>5 DEF SignalArrives, UvSignalArrives
<1>6. CASE Crash
  BY <1>6 DEF Crash, use_after_free, uv_crash, Ruby
<1> QED
  BY <1>1, <1>2, <1>3, <1>4, <1>5, <1>6

\* A step that changes nothing keeps IInv.
LEMMA StutterIInv ==
  ASSUME IInv, UNCHANGED vars
  PROVE  IInv'
BY DEF IInv, TypeOK, NoDanglingHandle, CloseStateAgrees, RunModeAgrees, WorkOfPhase,
       CallbackOfPhase, QueuedNotTrapped, RevivedIsClosed, CrashedInRuby, Walks, Undispatched,
       vars, uvVars, handleVars, signalVars, runVars, objVars, loopVars

\* IInv is inductive: the lemmas above cover every disjunct of Next.
LEMMA StepIInv == IInv /\ [Next]_vars => IInv'
BY HandleCallIInv, LoopCallIInv, LoopStepIInv, BlockStepIInv, StutterIInv
   DEF Next, Program, Loop

\* The invariant of the loop, whatever the program does.
THEOREM Invariance == Spec => []IInv
BY InitIInv, StepIInv, PTL DEF Spec

\* Every variable stays within its type.
THEOREM TypeCorrect == Spec => []TypeOK
<1>1. IInv => TypeOK
  BY DEF IInv
<1> QED
  BY <1>1, Invariance, PTL

\* No exception, close, dispose or signal leaves libuv with a handle that
\* rbuv_handle_on_close has freed, except those the program started while they
\* were closing.
THEOREM NothingDangles == Spec => []NoDanglingHandle
<1>1. IInv => NoDanglingHandle
  BY DEF IInv
<1> QED
  BY <1>1, Invariance, PTL

\* What libuv knows of the closes agrees with what was asked of the objects: a
\* closing handle is active only if it was started again, and its close is queued
\* at most once.
THEOREM ClosesAgree == Spec => []CloseStateAgrees
<1>1. IInv => CloseStateAgrees
  BY DEF IInv
<1> QED
  BY <1>1, Invariance, PTL

\* However a run ended, by return or exception, run_mode tells whether uv_run()
\* is on the stack, so no block can enter it and no main program is locked out.
THEOREM RunModeIsTrue == Spec => []RunModeAgrees
<1>1. IInv => RunModeAgrees
  BY DEF IInv
<1> QED
  BY <1>1, Invariance, PTL

\* A block is entered only for an active handle, and for a closing one only if it
\* was started again; WorkOfPhase says so of whatever a phase is about to visit,
\* unless the walk stands at a handle that has been stopped.
THEOREM StopHolds == Spec => NoBlockAfterStop
<1> DEFINE MayCall(h) == \/ h \in active /\ (h \in closing => h \in revived)
                         \/ phase \in Walks /\ at # None /\ at \notin active
<1>1. IInv /\ [Next]_vars =>
        \A h \in Handle : cb = None /\ cb' = h /\ phase # "closing" => MayCall(h)
  <2> SUFFICES ASSUME IInv, [Next]_vars,
                      NEW h \in Handle, cb = None, cb' = h, phase # "closing"
               PROVE  MayCall(h)
    OBVIOUS
  <2> USE NoneAssumption
      DEF handleVars, signalVars, runVars, uvVars, objVars, loopVars
  <2>1. ASSUME NEW g \in Handle, CallBlock(g) PROVE MayCall(h)
    BY <2>1, KindAssumption
    DEF CallBlock, timer_on_timeout, idle_on_idle, prepare_on_prepare, check_on_check,
        poll_on_available, signal_on_signal, UvRunTimer, UvRunWatcher, UvRunEvent,
        IInv, CloseStateAgrees, WorkOfPhase, OfKind, Signals
  <2>2. ASSUME \/ LoopStep \/ Poll \/ RunReturns \/ Return \/ Raise
               \/ DisposeRuns \/ DisposeNothing \/ Crash
        PROVE  FALSE
    BY <2>2
    DEF LoopStep, UvIterate, UvTimersDone, UvIdleDone, UvPrepareDone, UvEventsDone,
        UvCheckDone, UvClosingDone, UvSkipEvent, Poll, UvPoll, RunReturns, UvReturnFromRun,
        Return, UvCallbackReturns, Raise, UvUnwound, DisposeRuns, DisposeNothing,
        Crash, use_after_free, uv_crash
  <2>3. ASSUME NEW g \in Handle, OnClose(g) \/ SignalArrives(g) PROVE FALSE
    BY <2>3 DEF OnClose, handle_on_close, uv_finish_close, SignalArrives, UvSignalArrives
  <2>4. ASSUME LoopCall \/ Dispose PROVE FALSE
    BY <2>4
    DEF LoopCall, StopLoop, uv_stop, UpdateTime, uv_update_time, Dispose,
        close_every_handle, uv_close, Run, EnterRun
  <2>5. ASSUME NEW g \in Handle, HandleCall(g) PROVE FALSE
    BY <2>5
    DEF HandleCall, New, timer_initialize, idle_initialize, prepare_initialize,
        check_initialize, poll_initialize, signal_initialize, handle_initialize, uv_init,
        Start, timer_start, uv_timer_start, idle_start, prepare_start, check_start,
        poll_start, signal_start, watcher_start, event_start, event_start_closing,
        uv_start, uv_crash,
        Stop, timer_stop, idle_stop, prepare_stop, check_stop, poll_stop, signal_stop,
        handle_stop, uv_handle_stop, SetRef, handle_set_ref, uv_set_ref,
        SetRepeat, timer_repeat_set, uv_timer_set_repeat, Close, handle_close, uv_close
  <2> QED
    BY <2>1, <2>2, <2>3, <2>4, <2>5 DEF Next, Program, Loop, vars
<1> QED
  BY <1>1, Invariance, PTL DEF Spec, NoBlockAfterStop
=============================================================================
