-------------------------- MODULE RbuvDisposeProofs --------------------------
(***************************************************************************)
(* What closing and disposing achieve when no exception escapes from a     *)
(* block: no close is forgotten, a default run drains the loop, and        *)
(* dispose closes everything.  The hypotheses on the constants are the     *)
(* exact conditions under which the runs of MCRbuvLoop find no             *)
(* counterexample; each of them is needed.                                 *)
(***************************************************************************)
EXTENDS RbuvLoopProofs

\* No message read from the signal pipe was dropped, so none is in lost.
CloseInv == CloseNotForgotten /\ lost = {}

\* CloseInv is kept by every step when no exception escapes from a block.
LEMMA StepCloseInv ==
  ASSUME MayRaise = FALSE, IInv, CloseInv, [Next]_vars
  PROVE  CloseInv'
<1> USE KindAssumption, NoneAssumption
    DEF CloseInv, CloseNotForgotten, Undispatched,
        handleVars, signalVars, runVars, uvVars, objVars, loopVars
<1>1. ASSUME NEW h \in Handle, HandleCall(h) PROVE CloseInv'
  <2>1. CASE Close(h)
    BY <2>1 DEF Close, handle_close, uv_close, Unwatch
  <2>2. CASE Stop(h)
    BY <2>2 DEF Stop, timer_stop, idle_stop, prepare_stop, check_stop, poll_stop, signal_stop,
                handle_stop, uv_handle_stop, Unwatch
  <2>3. CASE Start(h)
    <3>1. CASE event_start_closing(h)
      BY <3>1 DEF event_start_closing, uv_crash
    <3>2. CASE \E zero, repeats \in BOOLEAN : timer_start(h, zero, repeats)
      BY <3>2 DEF timer_start, uv_timer_start
    <3>3. CASE uv_start(h)
      <4>1. phase \in Walks \/ work' = work
        <5>1. phase = Kind[h] => phase \in Walks \cup {"poll"}
          BY DEF HandleKinds, Walks, IInv, TypeOK, Phases
        <5>2. phase = "poll" => at = None /\ work = {}
          BY DEF Walks, IInv, WorkOfPhase
        <5> QED
          BY <3>3, <5>1, <5>2 DEF uv_start, InsertHead
      <4>2. phase \in Walks => (work \cup work') \cap Signals = {}
        BY <3>3 DEF uv_start, InsertHead, OfKind, Signals, IInv, WorkOfPhase, Walks
      <4>3. \A g \in Signals : g \in work' <=> g \in work
        BY <4>1, <4>2
      <4> QED
        BY <3>3, <4>3 DEF uv_start, Signals, OfKind, IInv, TypeOK
    <3> QED
      BY <2>3, <3>1, <3>2, <3>3
      DEF Start, idle_start, prepare_start, check_start, poll_start, signal_start,
          watcher_start, event_start
  <2>4. CASE New(h)
    BY <2>4 DEF New, timer_initialize, idle_initialize, prepare_initialize, check_initialize,
                poll_initialize, signal_initialize, handle_initialize, uv_init
  <2>5. CASE SetRef(h) \/ SetRepeat(h)
    BY <2>5 DEF SetRef, handle_set_ref, uv_set_ref,
                SetRepeat, timer_repeat_set, uv_timer_set_repeat
  <2> QED
    BY <1>1, <2>1, <2>2, <2>3, <2>4, <2>5 DEF HandleCall
<1>2. CASE Dispose
  BY <1>2 DEF Dispose, close_every_handle, uv_close, Unwatch
<1>3. CASE LoopCall \/ DisposeRuns \/ DisposeNothing
  <2>1. CASE StopLoop \/ UpdateTime \/ DisposeNothing
    BY <2>1 DEF StopLoop, uv_stop, UpdateTime, uv_update_time, DisposeNothing
  <2>2. CASE DisposeRuns \/ \E mode \in Mode : Run(mode)
    BY <2>2 DEF Run, EnterRun, DisposeRuns, Ruby, IInv, RunModeAgrees, CrashedInRuby
  <2> QED
    BY <1>2, <1>3, <2>1, <2>2 DEF LoopCall
<1>4. CASE LoopStep
  <2>1. CASE UvCheckDone
    BY <1>4, <2>1 DEF UvCheckDone, LoopStep, IInv, WorkOfPhase
  <2>2. CASE \E h \in Handle : UvSkipEvent(h)
    BY <2>2 DEF UvSkipEvent, QueueDeferredClose
  <2>3. CASE UvIterate
    BY <2>3 DEF UvIterate
  <2>4. CASE UvTimersDone
    BY <2>4 DEF UvTimersDone, IInv, WorkOfPhase
  <2>5. CASE UvIdleDone
    BY <2>5 DEF UvIdleDone
  <2>8. CASE UvPrepareDone
    BY <2>8 DEF UvPrepareDone
  <2>6. CASE UvEventsDone
    BY <2>6 DEF UvEventsDone, IInv, TypeOK
  <2>7. CASE UvClosingDone(UvMode)
    BY <2>7 DEF UvClosingDone
  <2> QED
    BY <1>4, <2>1, <2>2, <2>3, <2>4, <2>5, <2>6, <2>7, <2>8 DEF LoopStep
<1>5. CASE Poll
  BY <1>5 DEF Poll, UvPoll, IInv, WorkOfPhase
<1>6. CASE RunReturns
  BY <1>6 DEF RunReturns, UvReturnFromRun, UvOver, IInv, WorkOfPhase
<1>7. CASE Return
  BY <1>7 DEF Return, UvCallbackReturns, QueueDeferredClose, IInv, TypeOK, CallbackOfPhase
<1>8. CASE Raise \/ Crash
  BY <1>8 DEF Raise, Crash, use_after_free, uv_crash
<1>9. ASSUME NEW h \in Handle, CallBlock(h) PROVE CloseInv'
  <2>1. UvRunTimer(h) \/ UvRunWatcher(h) \/ UvRunEvent(h)
    BY ONLY <1>9
    DEF CallBlock, timer_on_timeout, idle_on_idle, prepare_on_prepare, check_on_check,
        poll_on_available, signal_on_signal
  <2>2. CASE UvRunTimer(h)
    BY <2>2 DEF UvRunTimer
  <2>3. CASE UvRunWatcher(h)
    <3>1. Kind[h] # "signal"
      BY ONLY <2>3, IInv DEF UvRunWatcher, IInv, WorkOfPhase, OfKind, Walks
    <3> QED
      BY <2>3, <3>1 DEF UvRunWatcher, Walks
  <2>4. CASE UvRunEvent(h)
    BY <2>4 DEF UvRunEvent, IInv, TypeOK
  <2> QED
    BY <2>1, <2>2, <2>3, <2>4
<1>10. ASSUME NEW h \in Handle, OnClose(h) PROVE CloseInv'
  BY <1>10 DEF OnClose, handle_on_close, uv_finish_close
<1>11. ASSUME NEW h \in Handle, SignalArrives(h) PROVE CloseInv'
  BY <1>11 DEF SignalArrives, UvSignalArrives
<1>12. CASE UNCHANGED vars
  BY <1>12 DEF vars
<1> QED
  BY <1>1, <1>2, <1>3, <1>4, <1>5, <1>6, <1>7, <1>8, <1>9, <1>10, <1>11, <1>12
  DEF Next, Program, Loop

\* Without exceptions every requested close is still going to be finished, for
\* handles of any kinds and however stop, dispose and signals interleave.
THEOREM ClosesNotForgotten ==
  ASSUME MayRaise = FALSE
  PROVE  Spec => []CloseNotForgotten
<1>1. Init => CloseInv
  BY DEF Init, UvInit, CloseInv, CloseNotForgotten
<1>2. IInv /\ CloseInv /\ [Next]_vars => CloseInv'
  BY StepCloseInv
<1>3. CloseInv => CloseNotForgotten
  BY DEF CloseInv
<1> QED
  BY <1>1, <1>2, <1>3, Invariance, PTL DEF Spec

-----------------------------------------------------------------------------
\* No run, and no dispose, begins with a request to stop left over.
NoStaleStop == phase = "none" => ~stop_flag

\* stop inside a block finds a run active, and that run clears the flag when it
\* returns: with no exception to skip that, NoStaleStop is kept by every step.
LEMMA StepNoStaleStop ==
  ASSUME MayRaise = FALSE, StopsIdleLoop = FALSE, IInv, NoStaleStop, [Next]_vars
  PROVE  NoStaleStop'
<1> USE DEF NoStaleStop, handleVars, signalVars, runVars, uvVars, objVars, loopVars
<1>1. ASSUME NEW h \in Handle, HandleCall(h) PROVE NoStaleStop'
  BY <1>1
  DEF HandleCall, New, timer_initialize, idle_initialize, prepare_initialize,
      check_initialize, poll_initialize, signal_initialize, handle_initialize, uv_init,
      Start, timer_start, uv_timer_start, idle_start, prepare_start, check_start,
      poll_start, signal_start, watcher_start, event_start,
      event_start_closing, uv_start, uv_crash,
      Stop, timer_stop, idle_stop, prepare_stop, check_stop, poll_stop, signal_stop,
      handle_stop, uv_handle_stop, SetRef, handle_set_ref, uv_set_ref,
      SetRepeat, timer_repeat_set, uv_timer_set_repeat, Close, handle_close, uv_close
<1>2. CASE StopLoop
  BY <1>2 DEF StopLoop, uv_stop, Ruby, IInv, RunModeAgrees
<1>3. CASE LoopCall \/ Dispose \/ DisposeRuns \/ DisposeNothing
  BY <1>2, <1>3
  DEF LoopCall, UpdateTime, uv_update_time, Dispose, close_every_handle, uv_close,
      Run, EnterRun, DisposeRuns, DisposeNothing
<1>4. CASE LoopStep \/ Poll
  BY <1>4
  DEF LoopStep, UvIterate, UvTimersDone, UvIdleDone, UvPrepareDone, UvEventsDone,
      UvCheckDone, UvClosingDone, UvSkipEvent, Poll, UvPoll
<1>5. CASE RunReturns \/ Return \/ Raise \/ Crash
  BY <1>5 DEF RunReturns, UvReturnFromRun, Return, UvCallbackReturns, Raise,
              Crash, use_after_free, uv_crash
<1>6. ASSUME NEW h \in Handle, CallBlock(h) \/ OnClose(h) \/ SignalArrives(h)
      PROVE  NoStaleStop'
  BY <1>6
  DEF CallBlock, timer_on_timeout, idle_on_idle, prepare_on_prepare, check_on_check,
      poll_on_available, signal_on_signal, UvRunTimer, UvRunWatcher, UvRunEvent,
      OnClose, handle_on_close, uv_finish_close, SignalArrives, UvSignalArrives
<1>7. CASE UNCHANGED vars
  BY <1>7 DEF vars
<1> QED
  BY <1>1, <1>2, <1>3, <1>4, <1>5, <1>6, <1>7 DEF Next, Program, Loop

-----------------------------------------------------------------------------
(* dispose and default runs, on a loop without signal handles.             *)

BeforeClosing == {"test", "timers", "idle", "prepare", "poll", "events", "check"}

\* The one iteration of dispose's run_nowait takes place, because there is a
\* close to finish and no stop to obey, and it finishes every close it was to.
DisposeInv ==
  /\ target \subseteq created
  /\ caller = "disposing" => closing_handles # {} /\ target \subseteq closing_handles
  /\ caller = "dispose" =>
       /\ run_mode = "nowait"
       /\ phase # "timers2"
       /\ phase = "test" => closing_handles # {} /\ ~stop_flag
       /\ phase \in BeforeClosing => target \cap handle_queue \subseteq closing_handles
       /\ phase = "closing" => target \cap handle_queue \subseteq finishing
       /\ phase = "leave" => target \cap handle_queue = {}

\* DisposeInv is kept by every step under the hypotheses of DisposeCloses.
LEMMA StepDisposeInv ==
  ASSUME MayRaise = FALSE, Signals = {},
         IInv, CloseInv, NoStaleStop, DisposeInv, [Next]_vars
  PROVE  DisposeInv'
<1> USE DEF DisposeInv, BeforeClosing, handleVars, signalVars, runVars, uvVars, objVars, loopVars
<1>1. ASSUME NEW h \in Handle, HandleCall(h) PROVE DisposeInv'
  <2> USE DEF Ruby, IInv, RunModeAgrees, CallbackOfPhase
  <2>1. CASE New(h)
    BY <2>1 DEF New, timer_initialize, idle_initialize, prepare_initialize, check_initialize,
                poll_initialize, signal_initialize, handle_initialize, uv_init
  <2>2. CASE Start(h)
    <3>1. CASE event_start_closing(h)
      BY <2>2, <3>1 DEF Start, event_start_closing, uv_crash
    <3>2. CASE \E zero, repeats \in BOOLEAN : timer_start(h, zero, repeats)
      BY <2>2, <3>2 DEF Start, timer_start, uv_timer_start, Revive
    <3>3. CASE watcher_start(h) \/ event_start(h)
      BY <2>2, <3>3 DEF Start, watcher_start, event_start, uv_start, Revive
    <3> QED
      BY <2>2, <3>1, <3>2, <3>3
      DEF Start, idle_start, prepare_start, check_start, poll_start, signal_start
  <2>3. CASE Stop(h)
    BY <2>3 DEF Stop, timer_stop, idle_stop, prepare_stop, check_stop, poll_stop, signal_stop,
                handle_stop, uv_handle_stop
  <2>4. CASE SetRef(h) \/ SetRepeat(h)
    BY <2>4 DEF SetRef, handle_set_ref, uv_set_ref,
                SetRepeat, timer_repeat_set, uv_timer_set_repeat
  <2>5. CASE Close(h)
    BY <2>5 DEF Close, handle_close, uv_close
  <2> QED
    BY <1>1, <2>1, <2>2, <2>3, <2>4, <2>5 DEF HandleCall
<1>2. CASE Dispose
  <2>1. CASE cb = None
    <3>1. phase = "none"
      BY <1>2, <2>1 DEF Dispose, Ruby, IInv, RunModeAgrees, CrashedInRuby
    <3>2. closing \subseteq closing_handles
      BY <3>1 DEF CloseInv, CloseNotForgotten, IInv, TypeOK, WorkOfPhase, Undispatched,
                  Signals, OfKind
    <3>3. closing_handles' = closing_handles \cup (handle_queue \ closing)
      BY <1>2 DEF Dispose, close_every_handle, uv_close, Undispatched, IInv, TypeOK,
                  Signals, OfKind
    <3>4. handle_queue \subseteq closing_handles' /\ handle_queue # {}
      BY <1>2, <3>2, <3>3 DEF Dispose
    <3> QED
      BY <1>2, <2>1, <3>4
      DEF Dispose, close_every_handle, uv_close, IInv, TypeOK, NoDanglingHandle
  <2>2. CASE cb # None
    BY <1>2, <2>2 DEF Dispose, Ruby, close_every_handle, uv_close, IInv, CallbackOfPhase,
                      RunModeAgrees
  <2> QED
    BY <2>1, <2>2
<1>3. CASE \E mode \in Mode : Run(mode)
  BY <1>3 DEF Run, EnterRun
<1>4. CASE DisposeRuns
  BY <1>4 DEF DisposeRuns, EnterRun, NoStaleStop, IInv, RunModeAgrees, CrashedInRuby
<1>5. CASE StopLoop
  BY <1>5 DEF StopLoop, uv_stop, Ruby, IInv, CallbackOfPhase
<1>6. CASE UpdateTime \/ DisposeNothing
  BY <1>6 DEF UpdateTime, uv_update_time, DisposeNothing
<1>7. CASE LoopStep
  <2>1. CASE UvIterate \/ UvTimersDone
    BY <1>7, <2>1 DEF LoopStep, UvIterate, UvTimersDone
  <2>2. CASE UvIdleDone \/ UvPrepareDone \/ UvEventsDone
    BY <1>7, <2>2 DEF LoopStep, UvIdleDone, UvPrepareDone, UvEventsDone
  <2>3. CASE UvCheckDone
    BY <1>7, <2>3 DEF LoopStep, UvCheckDone, IInv, RunModeAgrees
  <2>4. CASE UvClosingDone(UvMode)
    BY <1>7, <2>4 DEF LoopStep, UvClosingDone, UvMode
  <2>5. CASE \E h \in Handle : UvSkipEvent(h)
    BY <1>7, <2>5 DEF LoopStep, UvSkipEvent, QueueDeferredClose
  <2> QED
    BY <1>7, <2>1, <2>2, <2>3, <2>4, <2>5 DEF LoopStep
<1>8. CASE Poll
  BY <1>8 DEF Poll, UvPoll
<1>9. CASE RunReturns
  BY <1>9 DEF RunReturns, UvReturnFromRun, AfterRun
<1>10. CASE Return
  BY <1>10 DEF Return, UvCallbackReturns, QueueDeferredClose
<1>11. CASE Raise \/ Crash
  BY <1>11 DEF Raise, Crash, use_after_free, uv_crash
<1>12. ASSUME NEW h \in Handle, CallBlock(h) PROVE DisposeInv'
  BY <1>12
  DEF CallBlock, timer_on_timeout, idle_on_idle, prepare_on_prepare, check_on_check,
      poll_on_available, signal_on_signal, UvRunTimer, UvRunWatcher, UvRunEvent
<1>13. ASSUME NEW h \in Handle, OnClose(h) PROVE DisposeInv'
  BY <1>13 DEF OnClose, handle_on_close, uv_finish_close
<1>14. ASSUME NEW h \in Handle, SignalArrives(h) PROVE DisposeInv'
  BY <1>14 DEF SignalArrives, UvSignalArrives
<1>15. CASE UNCHANGED vars
  BY <1>15 DEF vars
<1> QED
  BY <1>1, <1>2, <1>3, <1>4, <1>5, <1>6, <1>7, <1>8, <1>9, <1>10, <1>11, <1>12, <1>13,
     <1>14, <1>15 DEF Next, Program, Loop, LoopCall

\* Without exceptions, signal handles and a stop made while no run is active,
\* dispose closes every handle associated with the loop when it was called.
THEOREM DisposeCloses ==
  ASSUME MayRaise = FALSE, StopsIdleLoop = FALSE, Signals = {}
  PROVE  Spec => DisposeClosesAll
<1>1. Init => CloseInv /\ NoStaleStop /\ DisposeInv
  BY DEF Init, UvInit, HandleInit, CloseInv, CloseNotForgotten, NoStaleStop, DisposeInv
<1>2. IInv /\ CloseInv /\ NoStaleStop /\ DisposeInv /\ [Next]_vars
        => (CloseInv /\ NoStaleStop /\ DisposeInv)'
  BY StepCloseInv, StepNoStaleStop, StepDisposeInv
<1>3. IInv /\ DisposeInv /\ [Next]_vars
        => (caller = "dispose" /\ caller' = "none" /\ cb = None
              => target \cap handle_queue' = {})
  <2> SUFFICES ASSUME IInv, DisposeInv, [Next]_vars,
                      caller = "dispose", caller' = "none", cb = None
               PROVE  target \cap handle_queue' = {}
    OBVIOUS
  <2>1. RunReturns
    <3>1. ~Raise /\ ~Ruby /\ ~DisposeRuns /\ ~DisposeNothing /\ ~Crash
      BY DEF Raise, UvUnwound, Ruby, DisposeRuns, DisposeNothing, Crash, loopVars
    <3>2. ~Program
      BY <3>1 DEF Program, LoopCall, StopLoop, UpdateTime, Dispose, Run, HandleCall,
                  New, Start, Stop, SetRef, SetRepeat, Close
    <3>3. UNCHANGED loopVars => FALSE
      BY DEF loopVars
    <3> QED
      BY <3>1, <3>2, <3>3
      DEF Next, Loop, LoopStep, Poll, Return, CallBlock, OnClose, SignalArrives, vars
  <2>2. phase = "leave"
    BY <2>1 DEF RunReturns, UvReturnFromRun, UvOver, Alive, DisposeInv
  <2> QED
    BY <2>1, <2>2 DEF RunReturns, UvReturnFromRun, handleVars, DisposeInv
<1> QED
  BY <1>1, <1>2, <1>3, Invariance, PTL DEF Spec, DisposeClosesAll

-----------------------------------------------------------------------------
\* Only the bounded modes leave the loop at the end of an iteration.
BoundedLeaves == phase \in {"timers2", "leave"} => UvMode # "default"

\* BoundedLeaves is kept by every step.
LEMMA StepBoundedLeaves ==
  ASSUME IInv, BoundedLeaves, [Next]_vars
  PROVE  BoundedLeaves'
<1> USE DEF BoundedLeaves, UvMode, handleVars, signalVars, runVars, uvVars, objVars, loopVars
<1>1. ASSUME NEW h \in Handle, HandleCall(h) PROVE BoundedLeaves'
  BY <1>1
  DEF HandleCall, New, timer_initialize, idle_initialize, prepare_initialize,
      check_initialize, poll_initialize, signal_initialize, handle_initialize, uv_init,
      Start, timer_start, uv_timer_start, idle_start, prepare_start, check_start,
      poll_start, signal_start, watcher_start, event_start,
      event_start_closing, uv_start, uv_crash,
      Stop, timer_stop, idle_stop, prepare_stop, check_stop, poll_stop, signal_stop,
      handle_stop, uv_handle_stop, SetRef, handle_set_ref, uv_set_ref,
      SetRepeat, timer_repeat_set, uv_timer_set_repeat, Close, handle_close, uv_close
<1>2. CASE LoopCall \/ Dispose \/ DisposeRuns \/ DisposeNothing
  BY <1>2
  DEF LoopCall, StopLoop, uv_stop, UpdateTime, uv_update_time, Dispose,
      close_every_handle, uv_close, Run, EnterRun, DisposeRuns, DisposeNothing
<1>3. CASE LoopStep \/ Poll
  BY <1>3
  DEF LoopStep, UvIterate, UvTimersDone, UvIdleDone, UvPrepareDone, UvEventsDone,
      UvCheckDone, UvClosingDone, UvSkipEvent, Poll, UvPoll
<1>4. CASE RunReturns \/ Return \/ Raise \/ Crash
  BY <1>4 DEF RunReturns, UvReturnFromRun, Return, UvCallbackReturns, Raise, UvUnwound,
              Crash, use_after_free, uv_crash
<1>5. ASSUME NEW h \in Handle, CallBlock(h) \/ OnClose(h) \/ SignalArrives(h)
      PROVE  BoundedLeaves'
  BY <1>5
  DEF CallBlock, timer_on_timeout, idle_on_idle, prepare_on_prepare, check_on_check,
      poll_on_available, signal_on_signal, UvRunTimer, UvRunWatcher, UvRunEvent,
      OnClose, handle_on_close, uv_finish_close, SignalArrives, UvSignalArrives
<1>6. CASE UNCHANGED vars
  BY <1>6 DEF vars
<1> QED
  BY <1>1, <1>2, <1>3, <1>4, <1>5, <1>6 DEF Next, Program, Loop

\* Without exceptions and signal handles, a default run that nobody stops comes
\* back only to a loop where no referenced handle is active and none is closing.
THEOREM DefaultRunDrains ==
  ASSUME MayRaise = FALSE, Signals = {}
  PROVE  Spec => RunDrains
<1>1. Init => CloseInv /\ BoundedLeaves
  BY DEF Init, UvInit, CloseInv, CloseNotForgotten, BoundedLeaves
<1>2. IInv /\ CloseInv /\ BoundedLeaves /\ [Next]_vars => (CloseInv /\ BoundedLeaves)'
  BY StepCloseInv, StepBoundedLeaves
<1>3. IInv /\ CloseInv /\ BoundedLeaves /\ [Next]_vars
        => (phase \notin {"none", "crashed"} /\ phase' = "none" /\ cb = None
              /\ UvMode = "default" /\ ~stop_flag
            => active \cap refd = {} /\ closing = {})
  <2> SUFFICES ASSUME IInv, CloseInv, BoundedLeaves, [Next]_vars,
                      phase \notin {"none", "crashed"}, phase' = "none", cb = None,
                      UvMode = "default", ~stop_flag
               PROVE  active \cap refd = {} /\ closing = {}
    OBVIOUS
  <2> USE DEF handleVars, signalVars, runVars, uvVars, objVars, loopVars
  <2>1. ~Program
    BY DEF Program, LoopCall, StopLoop, UpdateTime, Dispose, Run, HandleCall, Ruby,
           New, Start, Stop, SetRef, SetRepeat, Close, IInv, RunModeAgrees
  <2>2. ~LoopStep /\ ~Poll
    BY DEF LoopStep, UvIterate, UvTimersDone, UvIdleDone, UvPrepareDone, UvEventsDone,
           UvCheckDone, UvClosingDone, UvSkipEvent, Poll, UvPoll
  <2>3. ~Return /\ ~Raise /\ ~DisposeRuns /\ ~DisposeNothing /\ ~Crash
    BY DEF Return, UvCallbackReturns, Raise, DisposeRuns, EnterRun, DisposeNothing,
           Crash, use_after_free, uv_crash
  <2>4. \A h \in Handle : ~CallBlock(h) /\ ~OnClose(h) /\ ~SignalArrives(h)
    BY DEF CallBlock, timer_on_timeout, idle_on_idle, prepare_on_prepare, check_on_check,
           poll_on_available, signal_on_signal, UvRunTimer, UvRunWatcher, UvRunEvent,
           OnClose, handle_on_close, uv_finish_close, SignalArrives, UvSignalArrives
  <2>5. RunReturns
    BY <2>1, <2>2, <2>3, <2>4 DEF Next, Loop, vars
  <2>6. ~Alive /\ phase = "test"
    BY <2>5 DEF RunReturns, UvReturnFromRun, UvOver, BoundedLeaves
  <2>7. closing \subseteq closing_handles
    BY <2>6 DEF CloseInv, CloseNotForgotten, Undispatched, IInv, TypeOK, WorkOfPhase,
                Signals, OfKind
  <2> QED
    BY <2>6, <2>7 DEF Alive
<1> QED
  BY <1>1, <1>2, <1>3, Invariance, PTL DEF Spec, RunDrains
=============================================================================
