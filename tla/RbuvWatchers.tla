--------------------------- MODULE RbuvWatchers ---------------------------
(***************************************************************************)
(* The handle classes that make no requests: Timer, Idle, Prepare, Check,  *)
(* Poll and Signal.  For each of them: what its initialize, start and stop *)
(* do, and the callback through which libuv calls its block.  None of the  *)
(* start methods looks at the result of the libuv call it makes.  The      *)
(* block passed to start replaces the previous one; which block that is    *)
(* makes no difference to the loop and is left out.  No start looks whether *)
(* the handle is closing, either: libuv 1.7.3 asserts it for polls and     *)
(* signals only.                                                           *)
(***************************************************************************)
EXTENDS RbuvHandle

timer_initialize(h) == h \in Timers /\ handle_initialize(h)

\* Slip: the timeout is taken for seconds and truncated to zero (CloseFinishes).
timer_start_slip(h, zero, repeats) ==
  /\ h \in Timers
  /\ h \in uv_handle
  /\ uv_timer_start(h, TRUE, repeats)
  /\ Revive(h)

\* Whether the timeout is zero and whether the timer repeats is all that matters.
timer_start(h, zero, repeats) ==
  /\ h \in Timers
  /\ h \in uv_handle
  /\ uv_timer_start(h, zero, repeats)
  /\ Revive(h)

timer_stop(h) == h \in Timers /\ handle_stop(h)

timer_repeat_set(h, on) ==
  /\ h \in Timers
  /\ h \in uv_handle
  /\ uv_timer_set_repeat(h, on)
  /\ UNCHANGED objVars

\* The block is called with the object: Data_Get_Handle_Struct raises here too
\* if the handle is closed.
timer_on_timeout(h) == h \in uv_handle /\ UvRunTimer(h) /\ UNCHANGED objVars

idle_initialize(h) == Kind[h] = "idle" /\ handle_initialize(h)

idle_start(h) == Kind[h] = "idle" /\ watcher_start(h)

idle_stop(h) == Kind[h] = "idle" /\ handle_stop(h)

idle_on_idle(h) ==
  phase = "idle" /\ h \in uv_handle /\ UvRunWatcher(h) /\ UNCHANGED objVars

prepare_initialize(h) == Kind[h] = "prepare" /\ handle_initialize(h)

prepare_start(h) == Kind[h] = "prepare" /\ watcher_start(h)

prepare_stop(h) == Kind[h] = "prepare" /\ handle_stop(h)

prepare_on_prepare(h) ==
  phase = "prepare" /\ h \in uv_handle /\ UvRunWatcher(h) /\ UNCHANGED objVars

check_initialize(h) == Kind[h] = "check" /\ handle_initialize(h)

check_start(h) == Kind[h] = "check" /\ watcher_start(h)

check_stop(h) == Kind[h] = "check" /\ handle_stop(h)

check_on_check(h) ==
  phase = "check" /\ h \in uv_handle /\ UvRunWatcher(h) /\ UNCHANGED objVars

poll_initialize(h) == Kind[h] = "poll" /\ handle_initialize(h)

poll_start(h) ==
  Kind[h] = "poll" /\ (event_start(h) \/ event_start_closing(h))

poll_stop(h) == Kind[h] = "poll" /\ handle_stop(h)

poll_on_available(h) ==
  Kind[h] = "poll" /\ h \in uv_handle /\ UvRunEvent(h) /\ UNCHANGED objVars

signal_initialize(h) == Kind[h] = "signal" /\ handle_initialize(h)

signal_start(h) ==
  Kind[h] = "signal" /\ (event_start(h) \/ event_start_closing(h))

signal_stop(h) == Kind[h] = "signal" /\ handle_stop(h)

signal_on_signal(h) ==
  Kind[h] = "signal" /\ h \in uv_handle /\ UvRunEvent(h) /\ UNCHANGED objVars
=============================================================================
