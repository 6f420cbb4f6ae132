---------------------------- MODULE RbuvHandle ----------------------------
(***************************************************************************)
(* Rbuv::Handle: what every handle object is and what its classes share.   *)
(*                                                                         *)
(* A Ruby handle object owns a malloc'ed libuv handle and keeps a pointer  *)
(* to it until the close completes; every method but close?d starts with   *)
(* Data_Get_Handle_Struct, which raises once the pointer is NULL.  Calls   *)
(* that raise change nothing and are not actions: the first conjunct of    *)
(* each operator below is that test.                                       *)
(*                                                                         *)
(* An operator whose name ends in _slip is not part of the model: it is    *)
(* the definition that follows it with one plausible mistake, kept to show *)
(* that the property named in its comment notices that mistake.            *)
(***************************************************************************)
EXTENDS Libuv

CONSTANT Block          \* the blocks a program may pass to close

ASSUME BlockAssumption == None \notin Block

VARIABLES
  created,        \* handle objects whose initialize has run
  uv_handle,      \* those whose rbuv_handle_t.uv_handle is not NULL
  cb_on_close,    \* rbuv_handle_t.cb_on_close, None for nil
  revived         \* history: the handles started while they were closing

objVars == <<created, uv_handle, cb_on_close, revived>>

HandleInit ==
  /\ created = {}
  /\ uv_handle = {}
  /\ cb_on_close = [h \in Handle |-> None]
  /\ revived = {}

\* What the initialize of every class does with the pointer once uv_*_init has
\* succeeded.  When it fails the pointer stays NULL and `new` raises.
handle_initialize(h) ==
  /\ h \notin created
  /\ created' = created \cup {h}
  /\ uv_handle' = uv_handle \cup {h}
  /\ uv_init(h)
  /\ UNCHANGED <<cb_on_close, revived>>

\* Neither the binding nor, for most kinds, libuv looks whether the handle is
\* being closed: it is started, and on_close will free it while it is armed.
Revive(h) ==
  /\ revived' = revived \cup ({h} \cap closing)
  /\ UNCHANGED <<created, uv_handle, cb_on_close>>

\* start of an Idle, Prepare or Check.
watcher_start(h) ==
  /\ h \in uv_handle
  /\ uv_start(h)
  /\ Revive(h)

\* start of an open Poll or Signal.
event_start(h) ==
  /\ h \in uv_handle \ closing
  /\ uv_start(h)
  /\ UNCHANGED objVars

\* start of a closing Poll or Signal: libuv's assertion ends the process.
event_start_closing(h) ==
  /\ h \in uv_handle \cap closing
  /\ uv_crash
  /\ UNCHANGED objVars

\* libuv still links a handle that on_close has freed.  Whatever touches it next,
\* a walk, a timer or the start of a neighbour, reads freed memory: the process
\* may end there, or go on as if nothing had happened.
use_after_free ==
  /\ active \ uv_handle # {}
  /\ uv_crash
  /\ UNCHANGED objVars

\* Slip: stop clears the flag but leaves the watcher linked (NoBlockAfterStop).
handle_stop_slip(h) ==
  /\ h \in uv_handle
  /\ active' = active \ {h}
  /\ due' = due \ {h}
  /\ UNCHANGED <<handle_queue, refd, repeat, closing, closing_handles,
                 signalVars, stop_flag, runVars, objVars>>

\* stop of any handle.
handle_stop(h) ==
  /\ h \in uv_handle
  /\ uv_handle_stop(h)
  /\ UNCHANGED objVars

\* rbuv_handle_ref and rbuv_handle_unref.
handle_set_ref(h, on) ==
  /\ h \in uv_handle
  /\ uv_set_ref(h, on)
  /\ UNCHANGED objVars

\* Slip: the libuv handle is freed without waiting for on_close (NoDanglingHandle).
handle_close_frees_slip(h, block) ==
  /\ h \in uv_handle
  /\ h \notin closing
  /\ cb_on_close' = [cb_on_close EXCEPT ![h] = block]
  /\ uv_close({h})
  /\ uv_handle' = uv_handle \ {h}
  /\ UNCHANGED <<created, revived>>

\* Slip: the block is stored before closing? is tested (LifecycleHeld).
handle_close_slip(h, block) ==
  /\ h \in uv_handle
  /\ cb_on_close' = [cb_on_close EXCEPT ![h] = block]
  /\ \/ h \notin closing /\ uv_close({h})
     \/ h \in closing /\ UNCHANGED uvVars
  /\ UNCHANGED <<created, uv_handle, revived>>

\* rbuv_handle_close: the block of a second close is ignored.
handle_close(h, block) ==
  /\ h \in uv_handle
  /\ h \notin closing
  /\ cb_on_close' = [cb_on_close EXCEPT ![h] = block]
  /\ uv_close({h})
  /\ UNCHANGED <<created, uv_handle, revived>>

\* Slip: dispose closes the handles that are active (DisposeClosesAll).
close_every_handle_slip ==
  /\ cb_on_close' =
       [h \in Handle |-> IF h \in active \ closing THEN None ELSE cb_on_close[h]]
  /\ uv_close(active \ closing)
  /\ UNCHANGED <<created, uv_handle, revived>>

\* handles.each { |handle| handle.close unless handle.closing? }
close_every_handle ==
  /\ cb_on_close' =
       [h \in Handle |-> IF h \in handle_queue \ closing THEN None ELSE cb_on_close[h]]
  /\ uv_close(handle_queue \ closing)
  /\ UNCHANGED <<created, uv_handle, revived>>

\* Slip: the block stays in the object (CloseStateAgrees).
handle_on_close_slip(h) ==
  /\ uv_finish_close(h, cb_on_close[h] # None)
  /\ h \in uv_handle
  /\ uv_handle' = uv_handle \ {h}
  /\ UNCHANGED <<created, cb_on_close, revived>>

\* rbuv_handle_on_close: frees the libuv handle, clears the pointer, takes the
\* block out of the object and, if there is one, calls it.
handle_on_close(h) ==
  /\ uv_finish_close(h, cb_on_close[h] # None)
  /\ h \in uv_handle
  /\ uv_handle' = uv_handle \ {h}
  /\ cb_on_close' = [cb_on_close EXCEPT ![h] = None]
  /\ UNCHANGED <<created, revived>>
=============================================================================
