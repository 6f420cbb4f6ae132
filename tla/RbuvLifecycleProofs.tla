------------------------- MODULE RbuvLifecycleProofs -------------------------
(***************************************************************************)
(* The loop implements HandleLifecycle: for every set of handles and       *)
(* blocks, every step of RbuvLoop is a step of the promised life of its    *)
(* handles or leaves their lives alone.                                    *)
(***************************************************************************)
EXTENDS RbuvLoopProofs, RbuvLoopLifecycle

\* No handle exists at first.
LEMMA InitLife == Init => Life!LifeInit
  BY DEF Init, UvInit, HandleInit, Life!LifeInit, LifeState, LifeCalling

\* The calls a program makes about one handle.
LEMMA HandleCallLife ==
  ASSUME IInv, NEW h \in Handle, HandleCall(h)
  PROVE  [Life!LifeNext]_Life!lifeVars
<1> USE DEF LifeState, LifeCalling, Life!lifeVars, objVars, loopVars, runVars
<1>1. CASE New(h)
  <2>1. handle_initialize(h)
    BY <1>1 DEF New, timer_initialize, idle_initialize, prepare_initialize,
                check_initialize, poll_initialize, signal_initialize
  <2>2. Life!Open(h)
    BY <2>1 DEF handle_initialize, uv_init, Life!Open, IInv, TypeOK, NoDanglingHandle
  <2> QED
    BY <2>2 DEF Life!LifeNext
<1>2. CASE Start(h)
  <2>1. CASE event_start_closing(h)
    BY <1>2, <2>1 DEF event_start_closing, uv_crash, handleVars, Life!LifeNext, Life!BlockOver
  <2>2. CASE ~event_start_closing(h)
    BY <1>2, <2>2
    DEF Start, timer_start, uv_timer_start, idle_start, prepare_start, check_start,
        poll_start, signal_start, watcher_start, event_start, uv_start, Revive
  <2> QED
    BY <2>1, <2>2
<1>3. CASE Stop(h)
  BY <1>3 DEF Stop, timer_stop, idle_stop, prepare_stop, check_stop, poll_stop, signal_stop,
              handle_stop, uv_handle_stop
<1>4. CASE SetRef(h) \/ SetRepeat(h)
  BY <1>4 DEF SetRef, handle_set_ref, uv_set_ref,
              SetRepeat, timer_repeat_set, uv_timer_set_repeat
<1>5. CASE Close(h)
  <2>1. PICK block \in Block \cup {None} : handle_close(h, block)
    BY <1>5 DEF Close
  <2>2. Life!RequestClose(h, block)
    BY <2>1 DEF handle_close, uv_close, Life!RequestClose, IInv, TypeOK
  <2> QED
    BY <2>2 DEF Life!LifeNext
<1> QED
  BY <1>1, <1>2, <1>3, <1>4, <1>5 DEF HandleCall

\* dispose closes the handles of the loop that are open, which are all the open
\* handles, and a closing handle keeps its block.
LEMMA DisposeLife ==
  ASSUME IInv, Dispose
  PROVE  Life!RequestCloseAll
<1>1. cb_on_close' = cb_on_close
  BY DEF Dispose, close_every_handle, IInv, TypeOK, CloseStateAgrees
<1> QED
  BY <1>1 DEF Dispose, close_every_handle, uv_close, Life!RequestCloseAll, LifeState,
              LifeCalling, IInv, TypeOK, NoDanglingHandle

\* The step that finishes a close, calling the block owed if there is one.
LEMMA OnCloseLife ==
  ASSUME IInv, NEW h \in Handle, OnClose(h)
  PROVE  Life!Finish(h)
BY NoneAssumption
DEF OnClose, handle_on_close, uv_finish_close, Life!Finish, LifeState, LifeCalling,
    IInv, TypeOK, NoDanglingHandle, CloseStateAgrees

\* The steps of uv_run() and of blocks that begin or end.
LEMMA LoopLife ==
  ASSUME IInv, [Next]_vars, ~Dispose,
         \A h \in Handle : ~HandleCall(h) /\ ~OnClose(h)
  PROVE  [Life!LifeNext]_Life!lifeVars
<1> USE DEF LifeState, LifeCalling, Life!lifeVars, handleVars, signalVars, runVars, uvVars,
            objVars, loopVars
<1>1. CASE LoopStep
  <2>1. CASE UvCheckDone \/ UvClosingDone(UvMode)
    BY <1>1, <2>1 DEF LoopStep, UvCheckDone, UvClosingDone
  <2>2. CASE UvIterate \/ UvTimersDone \/ UvIdleDone \/ UvPrepareDone \/ UvEventsDone
             \/ \E h \in Handle : UvSkipEvent(h)
    BY <1>1, <2>2 DEF LoopStep, UvIterate, UvTimersDone, UvIdleDone, UvPrepareDone,
                      UvEventsDone, UvSkipEvent
  <2> QED
    BY <1>1, <2>1, <2>2 DEF LoopStep
<1>2. CASE Poll \/ RunReturns \/ DisposeRuns \/ DisposeNothing
  BY <1>2 DEF Poll, UvPoll, RunReturns, UvReturnFromRun, UvOver, DisposeRuns, EnterRun,
              DisposeNothing, IInv, RunModeAgrees, CrashedInRuby
<1>3. CASE Return \/ Raise \/ Crash
  BY <1>3 DEF Return, UvCallbackReturns, Raise, UvUnwound, Crash, use_after_free, uv_crash,
              Ruby, Life!LifeNext, Life!BlockOver
<1>4. ASSUME NEW h \in Handle, CallBlock(h) PROVE [Life!LifeNext]_Life!lifeVars
  BY <1>4
  DEF CallBlock, timer_on_timeout, idle_on_idle, prepare_on_prepare, check_on_check,
      poll_on_available, signal_on_signal, UvRunTimer, UvRunWatcher, UvRunEvent
<1>5. ASSUME NEW h \in Handle, SignalArrives(h) PROVE [Life!LifeNext]_Life!lifeVars
  BY <1>5 DEF SignalArrives, UvSignalArrives
<1>6. CASE LoopCall
  BY <1>6 DEF LoopCall, StopLoop, uv_stop, UpdateTime, uv_update_time, Run, EnterRun, Ruby,
              IInv, RunModeAgrees, CallbackOfPhase
<1>7. CASE UNCHANGED vars
  BY <1>7 DEF vars
<1> QED
  BY <1>1, <1>2, <1>3, <1>4, <1>5, <1>6, <1>7 DEF Next, Program, Loop

\* Every close block is called at most once, after its handle is closed, and is
\* the one given to the call that closed it, whatever the program does.
THEOREM ImplementsLifecycle == Spec => LifecycleHeld
<1>1. IInv /\ [Next]_vars => [Life!LifeNext]_Life!lifeVars
  <2> SUFFICES ASSUME IInv, [Next]_vars PROVE [Life!LifeNext]_Life!lifeVars
    OBVIOUS
  <2>1. ASSUME NEW h \in Handle, HandleCall(h) PROVE [Life!LifeNext]_Life!lifeVars
    BY <2>1, HandleCallLife
  <2>2. CASE Dispose
    BY <2>2, DisposeLife DEF Life!LifeNext
  <2>3. ASSUME NEW h \in Handle, OnClose(h) PROVE [Life!LifeNext]_Life!lifeVars
    BY <2>3, OnCloseLife DEF Life!LifeNext
  <2> QED
    BY <2>1, <2>2, <2>3, LoopLife
<1> QED
  BY <1>1, InitLife, Invariance, PTL DEF Spec, LifecycleHeld, Life!LifeSpec
=============================================================================
