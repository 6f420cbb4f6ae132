------------------------------- MODULE Libuv -------------------------------
(***************************************************************************)
(* The part of libuv 1.7.3 (the release the Rakefile builds) that rbuv     *)
(* calls into, as seen from one event loop: the handles linked into it,    *)
(* their flags, the list of handles whose close is pending, and the phases *)
(* of uv_run().  None of this code is in the repository; every definition  *)
(* is modelled from what the C sources under ext/rbuv rely on.             *)
(*                                                                         *)
(* The operators named uv_* are the calls rbuv makes.  Those named Uv* are *)
(* the internal steps of uv_run(), which the loop takes by itself between  *)
(* two Ruby blocks.  Every one of them says what becomes of each variable  *)
(* of this module, so that RbuvHandle and RbuvLoop only conjoin them.      *)
(*                                                                         *)
(* Lists whose order no property depends on are sets: the loop may then    *)
(* visit their members in any order, which includes libuv's.               *)
(***************************************************************************)

CONSTANTS Handle,       \* every handle object a program may ever create
          Kind,         \* the libuv type of each of them
          None          \* "no handle", "no block"

HandleKinds == {"timer", "idle", "prepare", "check", "poll", "signal"}

ASSUME KindAssumption == Kind \in [Handle -> HandleKinds]
ASSUME NoneAssumption == None \notin Handle

VARIABLES
  handle_queue,      \* handles linked into loop->handle_queue (what uv_walk visits)
  active,            \* handles with UV__HANDLE_ACTIVE
  refd,              \* handles with UV__HANDLE_REF
  repeat,            \* timers with a non-zero repeat interval
  due,               \* active timers whose timeout is not after loop->time
  closing,           \* handles with UV_CLOSING and not yet UV_CLOSED
  closing_handles,   \* loop->closing_handles, the closes to finish
  pipe,              \* signal handles with a message in the loop's signal pipe
  lost,              \* signal handles with a message read but never dispatched
  stop_flag,         \* loop->stop_flag
  phase,             \* where uv_run() is, "none" when nobody is inside it
  work,              \* handles the current phase has still to visit
  at,                \* the handle a walk over a watcher queue stands at, or None
  finishing,         \* the closing list uv__run_closing_handles took for itself
  cb                 \* handle whose callback uv_run() is inside of, or None

handleVars == <<handle_queue, active, refd, repeat, due, closing, closing_handles>>
signalVars == <<pipe, lost>>
runVars    == <<phase, work, at, finishing, cb>>
uvVars     == <<handleVars, signalVars, stop_flag, runVars>>

OfKind(k) == {h \in Handle : Kind[h] = k}
Timers    == OfKind("timer")
Signals   == OfKind("signal")

Phases == {"none", "test", "timers", "idle", "prepare", "poll", "events",
           "check", "closing", "timers2", "leave", "crashed"}

\* The phases that walk a queue of watchers with QUEUE_FOREACH.
Walks == {"idle", "prepare", "check"}

UvInit ==
  /\ handle_queue = {} /\ active = {} /\ refd = {} /\ repeat = {} /\ due = {}
  /\ closing = {} /\ closing_handles = {}
  /\ pipe = {} /\ lost = {}
  /\ stop_flag = FALSE
  /\ phase = "none" /\ work = {} /\ at = None /\ finishing = {} /\ cb = None

\* uv__loop_alive: the test that ends a run of a loop with nothing left to do.
Alive == active \cap refd # {} \/ closing_handles # {}

\* caught_signals > dispatched_signals: while it holds for a signal handle,
\* libuv does not queue the handle's close.
Undispatched(h) ==
  /\ Kind[h] = "signal"
  /\ h \in pipe \cup lost \cup work \/ (phase = "events" /\ cb = h)

-----------------------------------------------------------------------------
(* The calls.                                                              *)

\* uv_timer_init, uv_idle_init, ...: uv__handle_init links and references.
uv_init(h) ==
  /\ handle_queue' = handle_queue \cup {h}
  /\ refd' = refd \cup {h}
  /\ UNCHANGED <<active, repeat, due, closing, closing_handles,
                 signalVars, stop_flag, runVars>>

\* uv_timer_start: stops the timer if it is active, then arms it.  With a
\* timeout of zero it is already due; otherwise only when the clock has moved.
uv_timer_start(h, zero, repeats) ==
  /\ active' = active \cup {h}
  /\ due' = IF zero THEN due \cup {h} ELSE due \ {h}
  /\ repeat' = IF repeats THEN repeat \cup {h} ELSE repeat \ {h}
  /\ UNCHANGED <<handle_queue, refd, closing, closing_handles,
                 signalVars, stop_flag, runVars>>

\* QUEUE_INSERT_HEAD puts a watcher in front of the queue, where the walk over it
\* does not come again, unless the watcher is the one the walk stands at or one
\* it will still meet: its link now leads to the whole queue once more.
InsertHead(h) ==
  LET queue    == active \cap OfKind(Kind[h])
      inserted == h \notin active /\ phase = Kind[h] IN
  \/ inserted /\ h = at /\ work' = queue
  \/ /\ inserted /\ h # at /\ h \in work
     /\ \E before \in SUBSET (work \ active) : work' = before \cup {h} \cup queue
  \/ ~(inserted /\ h \in work \cup {at}) /\ UNCHANGED work

\* uv_idle_start, uv_prepare_start, uv_check_start, uv_poll_start and
\* uv_signal_start.
uv_start(h) ==
  /\ active' = active \cup {h}
  /\ InsertHead(h)
  /\ UNCHANGED <<handle_queue, refd, repeat, due, closing, closing_handles,
                 signalVars, stop_flag, phase, at, finishing, cb>>

\* The process is over: an assertion failed, or libuv used freed memory.
uv_crash ==
  /\ phase' = "crashed"
  /\ UNCHANGED <<handleVars, signalVars, stop_flag, work, at, finishing, cb>>

\* The walk follows the link of the watcher it stands at.  As long as that one is
\* linked itself, a stopped watcher is never met.  Once it has been stopped, too,
\* its link is not updated any more: the watcher behind it is met even if it is
\* stopped then.  What the poll has read stays in any case: signal messages, to be
\* counted as dispatched, and the readiness of descriptors, which counts if the
\* handle is started again.
Unwatch(S) ==
  LET unlinked == {w \in work \cap active \cap S : Kind[w] \notin {"signal", "poll"}} IN
  \E met \in SUBSET unlinked :
    /\ at \in active \ S => met = {}
    /\ work' = (work \ unlinked) \cup met

\* uv_timer_stop, uv_idle_stop, ...
uv_handle_stop(h) ==
  /\ active' = active \ {h}
  /\ due' = due \ {h}
  /\ Unwatch({h})
  /\ UNCHANGED <<handle_queue, refd, repeat, closing, closing_handles,
                 signalVars, stop_flag, phase, at, finishing, cb>>

\* uv_close for each handle of S: stop it, flag it and queue its close, except
\* that the close of a signal handle waits for its trapped signals.
uv_close(S) ==
  /\ active' = active \ S
  /\ due' = due \ S
  /\ Unwatch(S)
  /\ closing' = closing \cup S
  /\ closing_handles' = closing_handles \cup {h \in S : ~Undispatched(h)}
  /\ UNCHANGED <<handle_queue, refd, repeat, signalVars, stop_flag,
                 phase, at, finishing, cb>>

uv_set_ref(h, on) ==
  /\ refd' = IF on THEN refd \cup {h} ELSE refd \ {h}
  /\ UNCHANGED <<handle_queue, active, repeat, due, closing, closing_handles,
                 signalVars, stop_flag, runVars>>

uv_timer_set_repeat(h, on) ==
  /\ repeat' = IF on THEN repeat \cup {h} ELSE repeat \ {h}
  /\ UNCHANGED <<handle_queue, active, refd, due, closing, closing_handles,
                 signalVars, stop_flag, runVars>>

uv_stop ==
  /\ stop_flag' = TRUE
  /\ UNCHANGED <<handleVars, signalVars, runVars>>

\* uv_update_time: any armed timers may have become due since the last call.
Elapse == \E late \in SUBSET (active \cap Timers) : due' = due \cup late

uv_update_time ==
  /\ Elapse
  /\ UNCHANGED <<handle_queue, active, refd, repeat, closing, closing_handles,
                 signalVars, stop_flag, runVars>>

-----------------------------------------------------------------------------
(* The steps of uv_run().  They happen between callbacks: cb = None.       *)

\* The loop condition held: another iteration begins with its timers.
UvIterate ==
  /\ phase = "test" /\ cb = None
  /\ Alive /\ ~stop_flag
  /\ phase' = "timers"
  /\ Elapse
  /\ UNCHANGED <<handle_queue, active, refd, repeat, closing, closing_handles,
                 signalVars, stop_flag, work, at, finishing, cb>>

\* The loop condition failed, or a bounded run finished its one iteration.
UvOver ==
  /\ cb = None
  /\ \/ phase = "leave"
     \/ phase = "test" /\ (~Alive \/ stop_flag)

\* The loop's locals disappear and stop_flag is cleared when uv_run() returns.
UvReturnFromRun ==
  /\ UvOver
  /\ phase' = "none"
  /\ stop_flag' = FALSE
  /\ UNCHANGED <<handleVars, signalVars, work, at, finishing, cb>>

\* uv__run_timers: a due timer is stopped, rearmed if it repeats, and called.
UvRunTimer(h) ==
  /\ phase \in {"timers", "timers2"} /\ cb = None
  /\ h \in due
  /\ active' = IF h \in repeat THEN active ELSE active \ {h}
  /\ due' = due \ {h}
  /\ cb' = h
  /\ UNCHANGED <<handle_queue, refd, repeat, closing, closing_handles,
                 signalVars, stop_flag, phase, work, at, finishing>>

UvTimersDone ==
  /\ phase \in {"timers", "timers2"} /\ cb = None
  /\ due = {}
  /\ phase' = IF phase = "timers" THEN "idle" ELSE "leave"
  /\ work' = IF phase = "timers" THEN active \cap OfKind("idle") ELSE {}
  /\ UNCHANGED <<handleVars, signalVars, stop_flag, at, finishing, cb>>

\* uv__run_idle, uv__run_prepare, uv__run_check.  The stopped watchers that will
\* be met are the ones that stale links lead to: they come first.
UvRunWatcher(h) ==
  /\ phase \in Walks /\ cb = None
  /\ h \in work /\ (work \subseteq active \/ h \notin active)
  /\ work' = work \ {h}
  /\ at' = h
  /\ cb' = h
  /\ UNCHANGED <<handleVars, signalVars, stop_flag, phase, finishing>>

UvIdleDone ==
  /\ phase = "idle" /\ cb = None /\ work = {}
  /\ phase' = "prepare"
  /\ at' = None
  /\ work' = active \cap OfKind("prepare")
  /\ UNCHANGED <<handleVars, signalVars, stop_flag, finishing, cb>>

UvPrepareDone ==
  /\ phase = "prepare" /\ cb = None /\ work = {}
  /\ phase' = "poll"
  /\ at' = None
  /\ UNCHANGED <<handleVars, signalVars, stop_flag, work, finishing, cb>>

\* uv_backend_timeout = 0: this iteration's poll for i/o does not block.
PollsWithoutBlocking(mode) ==
  \/ mode = "nowait"
  \/ stop_flag
  \/ active \cap refd = {}
  \/ active \cap OfKind("idle") # {}
  \/ closing_handles # {}

\* uv__io_poll: returns with the ready descriptors, among them the signal pipe
\* whenever it holds a message; without any only if a timeout ends the wait.
UvPoll(mode) ==
  /\ phase = "poll" /\ cb = None
  /\ \E ready \in SUBSET (active \cap OfKind("poll")) :
       /\ \/ PollsWithoutBlocking(mode)
          \/ active \cap Timers # {}
          \/ ready \cup pipe # {}
       /\ work' = ready \cup pipe
  /\ pipe' = {}
  /\ phase' = "events"
  /\ UNCHANGED <<handleVars, lost, stop_flag, at, finishing, cb>>

UvRunEvent(h) ==
  /\ phase = "events" /\ cb = None
  /\ h \in work \cap active
  /\ work' = work \ {h}
  /\ cb' = h
  /\ UNCHANGED <<handleVars, signalVars, stop_flag, phase, at, finishing>>

\* uv__signal_event after a message: if that was the last one a closing handle
\* waited for, its close is queued.
QueueDeferredClose(h) ==
  closing_handles' =
    IF h \in closing /\ h \notin pipe \cup lost THEN closing_handles \cup {h}
                                                ELSE closing_handles

\* An event nobody watches any more: its handle has been stopped or closed since
\* it was read, or started again for another signal or other events.
UvSkipEvent(h) ==
  /\ phase = "events" /\ cb = None
  /\ h \in work
  /\ work' = work \ {h}
  /\ QueueDeferredClose(h)
  /\ UNCHANGED <<handle_queue, active, refd, repeat, due, closing,
                 signalVars, stop_flag, phase, at, finishing, cb>>

UvEventsDone ==
  /\ phase = "events" /\ cb = None /\ work = {}
  /\ phase' = "check"
  /\ work' = active \cap OfKind("check")
  /\ UNCHANGED <<handleVars, signalVars, stop_flag, at, finishing, cb>>

\* uv__run_closing_handles moves the whole list to a local variable and clears
\* loop->closing_handles before it finishes the first close.
UvCheckDone ==
  /\ phase = "check" /\ cb = None /\ work = {}
  /\ phase' = "closing"
  /\ at' = None
  /\ finishing' = closing_handles
  /\ closing_handles' = {}
  /\ UNCHANGED <<handle_queue, active, refd, repeat, due, closing,
                 signalVars, stop_flag, work, cb>>

\* uv__finish_close up to and including handle->close_cb(handle), which calls
\* a block (callsBlock) or returns at once.
uv_finish_close(h, callsBlock) ==
  /\ phase = "closing" /\ cb = None
  /\ h \in finishing
  /\ finishing' = finishing \ {h}
  /\ closing' = closing \ {h}
  /\ handle_queue' = handle_queue \ {h}
  /\ refd' = refd \ {h}
  /\ repeat' = repeat \ {h}
  /\ cb' = IF callsBlock THEN h ELSE None
  /\ UNCHANGED <<active, due, closing_handles, signalVars, stop_flag, phase, work, at>>

UvClosingDone(mode) ==
  /\ phase = "closing" /\ cb = None /\ finishing = {}
  /\ \/ /\ mode = "default" /\ phase' = "test" /\ UNCHANGED due
     \/ /\ mode = "nowait" /\ phase' = "leave" /\ UNCHANGED due
     \/ /\ mode = "once" /\ phase' = "timers2" /\ Elapse
  /\ UNCHANGED <<handle_queue, active, refd, repeat, closing, closing_handles,
                 signalVars, stop_flag, work, at, finishing, cb>>

\* The callback returns to libuv; for a signal its message is now dispatched.
UvCallbackReturns ==
  /\ cb # None /\ phase # "crashed"
  /\ cb' = None
  /\ IF phase = "events" /\ Kind[cb] = "signal"
     THEN QueueDeferredClose(cb) ELSE UNCHANGED closing_handles
  /\ UNCHANGED <<handle_queue, active, refd, repeat, due, closing,
                 signalVars, stop_flag, phase, work, at, finishing>>

\* A Ruby exception unwinds uv_run() from inside a callback: what the phase had
\* still to do is forgotten, and nothing after the callback is executed, so
\* neither the current signal message nor the others read are ever counted.
UvUnwound ==
  /\ cb # None /\ phase # "crashed"
  /\ cb' = None
  /\ phase' = "none"
  /\ work' = {} /\ at' = None
  /\ finishing' = {}
  /\ lost' = lost \cup {h \in Signals : h \in work \/ (phase = "events" /\ cb = h)}
  /\ UNCHANGED <<handleVars, pipe, stop_flag>>

\* The signal arrives: the process's handler writes to the pipe of each loop
\* with a started handle for it.  It may happen at any time, on any thread.
UvSignalArrives(h) ==
  /\ phase # "crashed"
  /\ h \in active \cap Signals
  /\ pipe' = pipe \cup {h}
  /\ UNCHANGED <<handleVars, lost, stop_flag, runVars>>
=============================================================================
