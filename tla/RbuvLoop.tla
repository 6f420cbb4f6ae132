----------------------------- MODULE RbuvLoop -----------------------------
(***************************************************************************)
(* Rbuv::Loop: running an event loop from Ruby, stopping it, and closing   *)
(* everything on it (dispose, run_and_dispose), with any Ruby program on   *)
(* top: the main program calls the methods of Loop and Handle in any order *)
(* while no loop runs, and every block the loop calls does the same until  *)
(* it returns or lets an exception escape.                                 *)
(*                                                                         *)
(* uv_run() is executed without the GVL; each callback takes it back with  *)
(* rb_thread_call_with_gvl, and an exception raised by the block unwinds   *)
(* the C frames of uv_run() up to the rb_ensure in rbuv_loop_run.          *)
(***************************************************************************)
EXTENDS RbuvWatchers

CONSTANTS Mode,            \* run modes the program uses
          MayRaise,        \* may an exception escape from a block?
          StopsIdleLoop,   \* may the program call stop while no run is active?
          RearmsDue,       \* may a timer block make timers due at once?
          StartsClosing    \* may it start a handle it has already closed?

\* "other" stands for any symbol that is not one of the documented modes.
ASSUME ModeAssumption == Mode \subseteq {"default", "once", "nowait", "other"}
ASSUME FlagAssumption == {MayRaise, StopsIdleLoop, RearmsDue, StartsClosing} \subseteq BOOLEAN

VARIABLES
  run_mode,     \* rbuv_loop_t.run_mode
  caller,       \* the Loop method on the stack of the main program
  target        \* the handles a dispose has undertaken to close

loopVars == <<run_mode, caller, target>>
vars     == <<uvVars, objVars, loopVars>>

Callers == {"none", "run", "run_and_dispose", "ensure", "disposing", "dispose"}

Init ==
  /\ UvInit
  /\ HandleInit
  /\ run_mode = "not_running"
  /\ caller = "none"
  /\ target = {}

\* Ruby code executes: the main program outside any run, or a block.
Ruby == phase # "crashed" /\ (cb # None \/ caller = "none")

\* _rbuv_loop_run: a mode it does not know is run as the default one.
UvMode == IF run_mode = "other" THEN "default" ELSE run_mode

-----------------------------------------------------------------------------
(* What Ruby code may do with handles.                                     *)

\* uv__run_timers does not return while a timer is due.  Blocks it calls can
\* keep one due, with a timeout of zero or by updating the clock.
MayMakeDue == RearmsDue \/ phase \notin {"timers", "timers2"}

New(h) ==
  /\ Ruby
  /\ \/ timer_initialize(h) \/ idle_initialize(h) \/ prepare_initialize(h)
     \/ check_initialize(h) \/ poll_initialize(h) \/ signal_initialize(h)
  /\ UNCHANGED loopVars

Start(h) ==
  /\ Ruby
  /\ h \in closing => StartsClosing
  /\ \/ \E zero, repeats \in BOOLEAN :
          (zero => MayMakeDue) /\ timer_start(h, zero, repeats)
     \/ idle_start(h) \/ prepare_start(h) \/ check_start(h)
     \/ poll_start(h) \/ signal_start(h)
  /\ UNCHANGED loopVars

Stop(h) ==
  /\ Ruby
  /\ \/ timer_stop(h) \/ idle_stop(h) \/ prepare_stop(h)
     \/ check_stop(h) \/ poll_stop(h) \/ signal_stop(h)
  /\ UNCHANGED loopVars

SetRef(h) == Ruby /\ (\E on \in BOOLEAN : handle_set_ref(h, on)) /\ UNCHANGED loopVars

SetRepeat(h) == Ruby /\ (\E on \in BOOLEAN : timer_repeat_set(h, on)) /\ UNCHANGED loopVars

Close(h) ==
  /\ Ruby
  /\ \E block \in Block \cup {None} : handle_close(h, block)
  /\ UNCHANGED loopVars

-----------------------------------------------------------------------------
(* What Ruby code may do with the loop.                                    *)

\* rbuv_loop_stop only sets libuv's flag, whether or not the loop runs.
StopLoop ==
  /\ Ruby
  /\ StopsIdleLoop \/ cb # None
  /\ uv_stop
  /\ UNCHANGED <<objVars, loopVars>>

UpdateTime == Ruby /\ MayMakeDue /\ uv_update_time /\ UNCHANGED <<objVars, loopVars>>

\* Slip: a block can run the loop it is called from (IInv).
EnterRun_slip(mode, as) ==
  /\ run_mode' = mode
  /\ caller' = as
  /\ phase' = "test"

\* rbuv_loop_run enters uv_run(); it raises if the loop is running already.
EnterRun(mode, as) ==
  /\ run_mode = "not_running"
  /\ run_mode' = mode
  /\ caller' = as
  /\ phase' = "test"

Run(mode) ==
  /\ Ruby
  /\ \/ EnterRun(mode, "run")
     \/ mode = "default" /\ EnterRun(mode, "run_and_dispose")
  /\ UNCHANGED <<handleVars, signalVars, stop_flag, work, at, finishing, cb, objVars, target>>

\* Loop#dispose: without handles it returns at once, otherwise it closes every
\* handle and then calls run_nowait.  Inside a block of the running loop that
\* call raises; the block rescues the exception or lets it escape (Raise).
Dispose ==
  /\ Ruby \/ caller = "ensure"
  /\ handle_queue # {}
  /\ close_every_handle
  /\ IF cb = None
     THEN caller' = "disposing" /\ target' = handle_queue
     ELSE UNCHANGED <<caller, target>>
  /\ UNCHANGED run_mode

\* Slip: dispose calls run where it should call run_nowait (DisposeEnds).
DisposeRuns_slip ==
  /\ caller = "disposing"
  /\ EnterRun("default", "dispose")
  /\ UNCHANGED <<handleVars, signalVars, stop_flag, work, at, finishing, cb, objVars, target>>

\* The run_nowait of dispose.
DisposeRuns ==
  /\ caller = "disposing"
  /\ EnterRun("nowait", "dispose")
  /\ UNCHANGED <<handleVars, signalVars, stop_flag, work, at, finishing, cb, objVars, target>>

\* The dispose of run_and_dispose when no handle is left.
DisposeNothing ==
  /\ caller = "ensure"
  /\ handle_queue = {}
  /\ caller' = "none"
  /\ UNCHANGED <<uvVars, objVars, run_mode, target>>

\* Slip: run_mode is set to a value that is no mode at all (TypeOK).
AfterRun_slip ==
  /\ run_mode' = None
  /\ caller' = IF caller = "run_and_dispose" THEN "ensure" ELSE "none"
  /\ target' = {}

\* rb_ensure(_rbuv_loop_run, ..., _rbuv_loop_after_run): run_mode is reset
\* however uv_run() ended, and the method below it on the stack goes on.
AfterRun ==
  /\ run_mode' = "not_running"
  /\ caller' = IF caller = "run_and_dispose" THEN "ensure" ELSE "none"
  /\ target' = {}

\* Slip: the loop is left at once, between any two callbacks, instead of by uv_run()
\* returning (CloseNotForgotten, RunDrains).
RunReturns_slip ==
  /\ phase \notin {"none", "crashed"} /\ cb = None
  /\ phase' = "none"
  /\ work' = {} /\ at' = None /\ finishing' = {}
  /\ AfterRun
  /\ UNCHANGED <<handleVars, signalVars, stop_flag, cb, objVars>>

\* Slip: uv_run() is called again for as long as it reports activity (StopEndsRun).
RunReturns_again_slip ==
  /\ UvOver
  /\ stop_flag' = FALSE
  /\ IF Alive THEN phase' = "test" /\ UNCHANGED loopVars ELSE phase' = "none" /\ AfterRun
  /\ UNCHANGED <<handleVars, signalVars, work, at, finishing, cb, objVars>>

\* uv_run() returns.  Under dispose, handles that are still there make it raise
\* RuntimeError; either way dispose is over (DisposeClosesAll below).
RunReturns ==
  /\ UvReturnFromRun
  /\ AfterRun
  /\ UNCHANGED objVars

\* Slip: no rb_ensure, so an exception leaves run_mode as it is (RunModeAgrees).
Raise_slip ==
  /\ MayRaise
  /\ UvUnwound
  /\ caller' = IF caller = "run_and_dispose" THEN "ensure" ELSE "none"
  /\ target' = {}
  /\ UNCHANGED <<run_mode, objVars>>

\* An exception escapes from the block.
Raise ==
  /\ MayRaise
  /\ UvUnwound
  /\ AfterRun
  /\ UNCHANGED objVars

\* The block returns.
Return == UvCallbackReturns /\ UNCHANGED <<objVars, loopVars>>

OnClose(h) == handle_on_close(h) /\ UNCHANGED loopVars

\* Freed memory is used: by the loop, or by a method that starts, stops or closes
\* the neighbour of a freed handle.
Crash ==
  /\ Ruby \/ phase \notin {"none", "crashed"}
  /\ use_after_free
  /\ UNCHANGED loopVars

-----------------------------------------------------------------------------
(* uv_run() by itself.                                                     *)

Poll == UvPoll(UvMode) /\ UNCHANGED <<objVars, loopVars>>

\* libuv calls back, and the block of the handle begins.
CallBlock(h) ==
  /\ \/ timer_on_timeout(h) \/ idle_on_idle(h) \/ prepare_on_prepare(h)
     \/ check_on_check(h) \/ poll_on_available(h) \/ signal_on_signal(h)
  /\ UNCHANGED loopVars

LoopStep ==
  /\ \/ UvIterate \/ UvTimersDone \/ UvIdleDone \/ UvPrepareDone
     \/ UvEventsDone \/ UvCheckDone \/ UvClosingDone(UvMode)
     \/ \E h \in Handle : UvSkipEvent(h)
  /\ UNCHANGED <<objVars, loopVars>>

SignalArrives(h) == UvSignalArrives(h) /\ UNCHANGED <<objVars, loopVars>>

\* The Ruby calls about one handle, and those about the loop.
HandleCall(h) == New(h) \/ Start(h) \/ Stop(h) \/ SetRef(h) \/ SetRepeat(h) \/ Close(h)

LoopCall == StopLoop \/ UpdateTime \/ Dispose \/ \E mode \in Mode : Run(mode)

Program == LoopCall \/ \E h \in Handle : HandleCall(h)

Loop ==
  \/ LoopStep \/ Poll \/ RunReturns \/ Return \/ DisposeRuns \/ DisposeNothing
  \/ \E h \in Handle : CallBlock(h) \/ OnClose(h)

Next == Program \/ Loop \/ Raise \/ Crash \/ \E h \in Handle : SignalArrives(h)

Spec == Init /\ [][Next]_vars

-----------------------------------------------------------------------------
(* Safety.                                                                 *)

\* The values each variable of the three modules below may take.
TypeOK ==
  /\ handle_queue \subseteq Handle /\ active \subseteq Handle /\ refd \subseteq Handle
  /\ repeat \subseteq Timers /\ due \subseteq Timers
  /\ closing \subseteq Handle /\ closing_handles \subseteq Handle
  /\ pipe \subseteq Signals /\ lost \subseteq Signals
  /\ stop_flag \in BOOLEAN
  /\ phase \in Phases
  /\ work \subseteq Handle /\ finishing \subseteq Handle
  /\ cb \in Handle \cup {None}
  /\ at \in Handle \cup {None}
  /\ created \subseteq Handle /\ uv_handle \subseteq created
  /\ revived \subseteq created
  /\ cb_on_close \in [Handle -> Block \cup {None}]
  /\ run_mode \in Mode \cup {"not_running", "nowait"}
  /\ caller \in Callers
  /\ target \subseteq Handle

\* The libuv handle is freed in rbuv_handle_on_close and nowhere else while the
\* object lives.  Nothing libuv still reaches has been freed: the handles uv_walk
\* visits, the armed ones, those of the walk it is in, the ones named by messages
\* in the signal pipe and the closes to come; but for the handles that a program
\* started while they were closing.
NoDanglingHandle ==
  /\ handle_queue = uv_handle
  /\ active \cup due \cup work \subseteq uv_handle \cup revived
  /\ pipe \cup closing \cup closing_handles \cup finishing \subseteq uv_handle
  /\ phase \in Walks /\ at # None => at \in uv_handle
  /\ phase \notin {"closing", "crashed"} /\ cb # None => cb \in uv_handle

\* The closes requested with Handle#close and what libuv knows of them agree: a
\* closing handle is neither active nor about to fire unless it was started again,
\* its close is queued at most once, and a close block is kept only for a handle
\* whose close has been requested.
CloseStateAgrees ==
  /\ closing \cap active \subseteq revived
  /\ due \subseteq active
  /\ closing_handles \cup finishing \subseteq closing
  /\ closing_handles \cap finishing = {}
  /\ \A h \in Handle : cb_on_close[h] # None => h \in closing

\* Every close that was requested is still going to be finished: it is queued,
\* or being finished, or waits for a signal message that is still to be counted.
CloseNotForgotten ==
  phase # "crashed" =>
    \A h \in closing :
      h \in closing_handles \cup finishing \/ (Undispatched(h) /\ h \notin lost)

\* run_mode, the guard against running a loop from one of its own blocks, tells
\* exactly whether uv_run() is on the stack, whichever way a run ended.
RunModeAgrees ==
  phase # "crashed" =>
    /\ run_mode = "not_running" <=> phase = "none"
    /\ phase = "none" <=> caller \in {"none", "ensure", "disposing"}
    /\ cb # None => phase # "none"

\* Once stop or close has returned, the block of the handle is not called until
\* the handle is started again, even by the phase that was about to call it.  The
\* one exception: the walk stands at a handle that has been stopped itself.
NoBlockAfterStop ==
  [][\A h \in Handle :
       cb = None /\ cb' = h /\ phase # "closing" =>
         \/ h \in active /\ (h \in closing => h \in revived)
         \/ phase \in Walks /\ at # None /\ at \notin active]_vars

\* A default run that was not asked to stop returns only when no active handle
\* is referenced and every close has been finished.
RunDrains ==
  [][phase \notin {"none", "crashed"} /\ phase' = "none" /\ cb = None
       /\ UvMode = "default" /\ ~stop_flag
     => active \cap refd = {} /\ closing = {}]_vars

\* When dispose ends without an exception from a close block, every handle that
\* was associated with the loop when it was called is closed.
DisposeClosesAll ==
  [][caller = "dispose" /\ caller' = "none" /\ cb = None
     => target \cap handle_queue' = {}]_vars

-----------------------------------------------------------------------------
(* The inductive invariant behind these.                                   *)

\* Only the phases that walk a list have one, and it holds handles of the phase's
\* own kinds.  They are active but for the events read before a stop and what the
\* stale link of an unlinked watcher leads to.
WorkOfPhase ==
  /\ phase \in {"none", "test", "timers", "poll", "closing", "timers2", "leave"} => work = {}
  /\ phase \in Walks => work \subseteq OfKind(phase)
  /\ phase \in Walks /\ work \ active # {} => at # None /\ at \notin active
  /\ phase \in Walks /\ at # None => Kind[at] = phase
  /\ phase \notin Walks \cup {"crashed"} => at = None
  /\ phase = "events" => work \subseteq OfKind("poll") \cup Signals
  /\ phase \notin {"closing", "crashed"} => finishing = {}

\* A callback is entered only where libuv makes one, for a handle the phase will
\* not visit again; in a walk it is the handle the walk stands at.
CallbackOfPhase ==
  /\ phase \in {"none", "test", "poll", "leave"} => cb = None
  /\ phase \in Walks /\ cb # None => at = cb
  /\ cb \notin work

\* A close is queued only for a handle no signal message names any more.
QueuedNotTrapped == \A h \in closing_handles \cup finishing : ~Undispatched(h)

\* Only timers, idles, prepares and checks can be started while they are closing.
RevivedIsClosed ==
  /\ active \ uv_handle \subseteq revived
  /\ revived \cap uv_handle \subseteq closing
  /\ revived \cap (OfKind("poll") \cup Signals) = {}

\* The process does not end between the closes of a dispose and its run.
CrashedInRuby == phase = "crashed" => caller \notin {"ensure", "disposing"}

\* The conjunction that every step of the loop and of any program preserves.
IInv ==
  /\ TypeOK
  /\ NoDanglingHandle
  /\ CloseStateAgrees
  /\ RunModeAgrees
  /\ WorkOfPhase
  /\ CallbackOfPhase
  /\ QueuedNotTrapped
  /\ RevivedIsClosed
  /\ CrashedInRuby

-----------------------------------------------------------------------------
(* Liveness.  libuv's own steps and the blocks are assumed to go on: a     *)
(* block that never returns stops the loop, and that is the program's      *)
(* doing.  Nothing is assumed of the main program, of signals or of i/o: a *)
(* poll that can only end with an event may last for ever.                 *)

PollMustEnd == PollsWithoutBlocking(UvMode) \/ active \cap Timers # {} \/ pipe # {}

Progress ==
  \/ LoopStep \/ RunReturns \/ Return \/ DisposeRuns \/ DisposeNothing
  \/ PollMustEnd /\ Poll
  \/ caller = "ensure" /\ Dispose
  \/ Crash
  \/ \E h \in Handle : CallBlock(h) \/ OnClose(h)

FairSpec == Spec /\ WF_vars(Progress)

\* stop ends the run it was called in.
StopEndsRun == (phase # "none" /\ stop_flag) ~> phase = "none"

\* A close requested in a block is finished before the run is over, unless a
\* stop or the bounded mode ends the run first.
CloseFinishes ==
  \A h \in Handle : (h \in closing /\ phase # "none") ~> (h \notin closing \/ phase = "none")

\* dispose always comes back.
DisposeEnds == caller \in {"ensure", "disposing", "dispose"} ~> caller = "none"
=============================================================================
