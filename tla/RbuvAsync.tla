----------------------------- MODULE RbuvAsync -----------------------------
(***************************************************************************)
(* Rbuv::Async: the one handle that other Ruby threads may use while the   *)
(* loop runs.  The loop's thread is inside uv_run() without the GVL and    *)
(* takes it for each callback; a sender holds it during the whole of       *)
(* Async#send.  What libuv does without the GVL (reading its wakeup        *)
(* descriptor, clearing pending flags) may therefore come between the two  *)
(* halves of a send: setting the flag and writing the wakeup.              *)
(*                                                                         *)
(* Only send is called from other threads, as its documentation demands.   *)
(* Other handles of the loop appear as polls that end without a wakeup.    *)
(***************************************************************************)
CONSTANTS Handle,       \* the Async objects a program may ever create
          Sender,       \* Ruby threads other than the one that runs the loop
          LoopThread,
          None,
          MayRaise      \* may an exception escape from a block?

ASSUME NamesAssumption == LoopThread \notin Sender /\ None \notin Handle \cup Sender \cup {LoopThread}
ASSUME RaiseAssumption == MayRaise \in BOOLEAN

Thread == Sender \cup {LoopThread}

VARIABLES
  gvl,               \* the thread that holds the GVL, or None
  created,           \* Async objects whose initialize has run
  uv_handle,         \* those whose pointer is not NULL
  async_handles,     \* loop->async_handles: the open ones
  pending,           \* those whose uv_async_t.pending is 1
  wakeup,            \* whether the loop's wakeup descriptor is readable
  closing_handles,   \* loop->closing_handles
  phase,             \* where uv_run() is, "none" outside it
  visit,             \* handles uv__async_event has still to look at
  taken,             \* handle whose flag it cleared, before its callback has the GVL
  finishing,         \* closes the closing phase has still to finish
  cb,                \* handle whose block is being called, or None
  sending,           \* by thread: the handle of a send whose wakeup is not yet written
  owed,              \* handles sent to since their block last began
  stranded           \* handles an exception left with their flag set and nobody to look at it

uvVars == <<async_handles, pending, wakeup, closing_handles, phase, visit, taken, finishing>>
vars   == <<gvl, created, uv_handle, uvVars, cb, sending, owed, stranded>>

Init ==
  /\ gvl = LoopThread
  /\ created = {} /\ uv_handle = {}
  /\ async_handles = {} /\ pending = {} /\ wakeup = FALSE
  /\ closing_handles = {} /\ finishing = {}
  /\ phase = "none" /\ visit = {} /\ taken = None /\ cb = None
  /\ sending = [t \in Thread |-> None]
  /\ owed = {} /\ stranded = {}

-----------------------------------------------------------------------------
(* Ruby's threads.                                                         *)

\* Thread t executes Ruby code and is between two calls of the binding.
Ruby(t) ==
  /\ gvl = t
  /\ sending[t] = None
  /\ t = LoopThread => phase = "none" \/ cb # None

\* The timer thread makes a thread yield, or it blocks somewhere else in Ruby.
ReleaseGvl(t) ==
  /\ Ruby(t)
  /\ gvl' = None
  /\ UNCHANGED <<created, uv_handle, uvVars, cb, sending, owed, stranded>>

AcquireGvl(t) ==
  /\ gvl = None
  /\ t = LoopThread => phase = "none" \/ cb # None
  /\ gvl' = t
  /\ UNCHANGED <<created, uv_handle, uvVars, cb, sending, owed, stranded>>

-----------------------------------------------------------------------------
(* The methods.                                                            *)

\* rbuv_async_intialize.  uv_async_init appends the handle to the list, where a
\* walk of the list that is going on will meet it.
New(h) ==
  /\ Ruby(LoopThread)
  /\ h \notin created
  /\ created' = created \cup {h}
  /\ uv_handle' = uv_handle \cup {h}
  /\ async_handles' = async_handles \cup {h}
  /\ visit' = IF phase = "events" THEN visit \cup {h} ELSE visit
  /\ UNCHANGED <<gvl, pending, wakeup, closing_handles, phase, taken, finishing,
                 cb, sending, owed, stranded>>

\* Slip: a send to the handle whose block is running is ignored (NoSendLost).
Send_slip(t, h) ==
  /\ Ruby(t)
  /\ h \in uv_handle
  /\ owed' = owed \cup {h}
  /\ IF h \in pending \/ cb = h
     THEN UNCHANGED <<pending, sending>>
     ELSE pending' = pending \cup {h} /\ sending' = [sending EXCEPT ![t] = h]
  /\ UNCHANGED <<gvl, created, uv_handle, async_handles, wakeup, closing_handles,
                 phase, visit, taken, finishing, cb, stranded>>

\* rbuv_async_send up to uv_async_send's exchange of the pending flag: if it was
\* set already, that is all.  The GVL is not released before the send is over.
Send(t, h) ==
  /\ Ruby(t)
  /\ h \in uv_handle
  /\ owed' = owed \cup {h}
  /\ IF h \in pending
     THEN UNCHANGED <<pending, sending>>
     ELSE pending' = pending \cup {h} /\ sending' = [sending EXCEPT ![t] = h]
  /\ UNCHANGED <<gvl, created, uv_handle, async_handles, wakeup, closing_handles,
                 phase, visit, taken, finishing, cb, stranded>>

\* The second half: libuv writes to the wakeup descriptor of the handle's loop.
Wake(t) ==
  /\ sending[t] # None
  /\ wakeup' = TRUE
  /\ sending' = [sending EXCEPT ![t] = None]
  /\ UNCHANGED <<gvl, created, uv_handle, async_handles, pending, closing_handles,
                 phase, visit, taken, finishing, cb, owed, stranded>>

\* rbuv_handle_close on the loop's thread: unlinked and queued.  The walk goes on
\* from the handle whose block is running: if that one is closed, it may still
\* meet one closed after it.
Close(h) ==
  /\ Ruby(LoopThread)
  /\ h \in async_handles
  /\ async_handles' = async_handles \ {h}
  /\ closing_handles' = closing_handles \cup {h}
  /\ visit' = visit \ {h} \/ (cb \notin async_handles /\ visit' = visit)
  /\ UNCHANGED <<gvl, created, uv_handle, pending, wakeup, phase, taken, finishing,
                 cb, sending, owed, stranded>>

\* rbuv_loop_run: uv_run() is entered and the GVL given up.
Run ==
  /\ Ruby(LoopThread) /\ phase = "none"
  /\ async_handles \cup closing_handles # {}
  /\ phase' = "poll"
  /\ gvl' = None
  /\ UNCHANGED <<created, uv_handle, async_handles, pending, wakeup, closing_handles,
                 visit, taken, finishing, cb, sending, owed, stranded>>

-----------------------------------------------------------------------------
(* uv_run(), without the GVL.                                              *)

NoCallback == cb = None /\ taken = None

\* uv__async_io empties the wakeup descriptor, then uv__async_event walks the list.
Poll ==
  /\ phase = "poll" /\ wakeup
  /\ wakeup' = FALSE
  /\ visit' = async_handles
  /\ phase' = "events"
  /\ stranded' = {}
  /\ UNCHANGED <<gvl, created, uv_handle, async_handles, pending, closing_handles,
                 taken, finishing, cb, sending, owed>>

\* The poll ends for another handle, for a timeout or not to delay closes.
PollOther ==
  /\ phase = "poll" /\ ~wakeup
  /\ phase' = "closing"
  /\ finishing' = closing_handles
  /\ closing_handles' = {}
  /\ UNCHANGED <<gvl, created, uv_handle, async_handles, pending, wakeup, visit,
                 taken, cb, sending, owed, stranded>>

\* One handle of the walk: its flag is exchanged for 0, and if it was set the
\* callback is entered, which then waits for the GVL.
Visit(h) ==
  /\ phase = "events" /\ NoCallback /\ h \in visit
  /\ visit' = visit \ {h}
  /\ pending' = pending \ {h}
  /\ taken' = IF h \in pending THEN h ELSE None
  /\ UNCHANGED <<gvl, created, uv_handle, async_handles, wakeup, closing_handles,
                 phase, finishing, cb, sending, owed, stranded>>

EventsDone ==
  /\ phase = "events" /\ NoCallback /\ visit = {}
  /\ phase' = "closing"
  /\ finishing' = closing_handles
  /\ closing_handles' = {}
  /\ UNCHANGED <<gvl, created, uv_handle, async_handles, pending, wakeup, visit,
                 taken, cb, sending, owed, stranded>>

\* The end of an iteration: another one, or uv_run() returns because nothing is
\* left, because of a stop or because of its mode.
ClosingDone ==
  /\ phase = "closing" /\ NoCallback /\ finishing = {}
  /\ phase' = "none" \/ (async_handles \cup closing_handles # {} /\ phase' = "poll")
  /\ UNCHANGED <<gvl, created, uv_handle, async_handles, pending, wakeup, closing_handles,
                 visit, taken, finishing, cb, sending, owed, stranded>>

-----------------------------------------------------------------------------
(* The callbacks.                                                          *)

\* rbuv_async_on_async has the GVL: the block begins.
OnAsync(h) ==
  /\ taken = h /\ h \in uv_handle
  /\ gvl = None
  /\ gvl' = LoopThread
  /\ taken' = None
  /\ cb' = h
  /\ owed' = owed \ {h}
  /\ UNCHANGED <<created, uv_handle, async_handles, pending, wakeup, closing_handles,
                 phase, visit, finishing, sending, stranded>>

\* Slip: the handle is freed before the GVL is taken (NoUseAfterFree, IInv).
OnClose_slip(h) ==
  /\ phase = "closing" /\ NoCallback /\ h \in finishing
  /\ finishing' = finishing \ {h}
  /\ uv_handle' = uv_handle \ {h}
  /\ pending' = pending \ {h}
  /\ UNCHANGED <<gvl, cb, created, async_handles, wakeup, closing_handles, phase,
                 visit, taken, sending, owed, stranded>>

\* rbuv_handle_on_close has the GVL: the libuv handle is freed with its flag, the
\* pointer cleared, and the block of close is called, if there is one.
OnClose(h) ==
  /\ phase = "closing" /\ NoCallback /\ h \in finishing
  /\ gvl = None
  /\ finishing' = finishing \ {h}
  /\ uv_handle' = uv_handle \ {h}
  /\ pending' = pending \ {h}
  /\ (gvl' = LoopThread /\ cb' = h) \/ UNCHANGED <<gvl, cb>>
  /\ UNCHANGED <<created, async_handles, wakeup, closing_handles, phase, visit,
                 taken, sending, owed, stranded>>

\* Slip: the callback returns to libuv without giving the GVL up (SendAnswered).
Return_slip ==
  /\ Ruby(LoopThread) /\ cb # None
  /\ cb' = None
  /\ UNCHANGED <<gvl, created, uv_handle, uvVars, sending, owed, stranded>>

\* The block returns, and rb_thread_call_with_gvl gives the GVL up again.
Return ==
  /\ Ruby(LoopThread) /\ cb # None
  /\ cb' = None
  /\ gvl' = None
  /\ UNCHANGED <<created, uv_handle, uvVars, sending, owed, stranded>>

\* An exception leaves the block and uv_run() with it.  The wakeup that the walk
\* was answering is gone, and the rest of the walk with it.
Raise ==
  /\ MayRaise
  /\ Ruby(LoopThread) /\ cb # None
  /\ cb' = None
  /\ phase' = "none"
  /\ visit' = {} /\ finishing' = {}
  /\ stranded' = IF wakeup THEN stranded ELSE stranded \cup (visit \cap pending)
  /\ UNCHANGED <<gvl, created, uv_handle, async_handles, pending, wakeup,
                 closing_handles, taken, sending, owed>>

Callback == \E h \in Handle : OnAsync(h) \/ OnClose(h)

LoopStep == Poll \/ EventsDone \/ ClosingDone \/ \E h \in Handle : Visit(h)

Next ==
  \/ LoopStep \/ PollOther \/ Callback \/ Return \/ Raise \/ Run
  \/ \E h \in Handle : New(h) \/ Close(h)
  \/ \E t \in Thread : ReleaseGvl(t) \/ AcquireGvl(t) \/ Wake(t)
  \/ \E t \in Thread, h \in Handle : Send(t, h)

Spec == Init /\ [][Next]_vars

\* libuv goes on, blocks return, no thread keeps the GVL for ever, and the loop's
\* thread gets it in the end although others compete for it (Ruby queues them).  A
\* poll does not wait if there are closes to finish; that i/o ends it is not assumed.
FairSpec ==
  /\ Spec
  /\ WF_vars(LoopStep) /\ WF_vars(closing_handles # {} /\ PollOther)
  /\ SF_vars(\E h \in Handle : OnAsync(h)) /\ SF_vars(\E h \in Handle : OnClose(h))
  /\ SF_vars(AcquireGvl(LoopThread)) /\ SF_vars(Return)
  /\ \A t \in Sender : WF_vars(ReleaseGvl(t))
  /\ \A t \in Thread : WF_vars(Wake(t))

-----------------------------------------------------------------------------
(* Properties.                                                             *)

TypeOK ==
  /\ gvl \in Thread \cup {None}
  /\ created \subseteq Handle /\ uv_handle \subseteq created
  /\ async_handles \subseteq Handle /\ pending \subseteq created
  /\ wakeup \in BOOLEAN
  /\ closing_handles \subseteq Handle /\ finishing \subseteq Handle
  /\ phase \in {"none", "poll", "events", "closing"}
  /\ visit \subseteq Handle
  /\ taken \in Handle \cup {None} /\ cb \in Handle \cup {None}
  /\ sending \in [Thread -> Handle \cup {None}]
  /\ owed \subseteq created /\ stranded \subseteq created

\* Nothing that libuv or a send in progress still reaches has been freed by
\* rbuv_handle_on_close: neither the handle another thread is sending to, nor
\* those being walked, nor the one whose callback waits for the GVL.
NoUseAfterFree ==
  /\ async_handles \cup visit \cup closing_handles \cup finishing \subseteq uv_handle
  /\ taken # None => taken \in uv_handle
  /\ \A t \in Thread : sending[t] # None => sending[t] \in uv_handle

\* Some thread is about to write the wakeup for h.
IsSending(h) == \E t \in Thread : sending[t] = h

\* A send to an open handle whose block has not begun since is on its way: the
\* callback waits for the GVL, or the flag is set and there is something that makes
\* libuv look at it.  The one exception is an exception (Raise).
NoSendLost ==
  \A h \in owed \cap async_handles :
    \/ taken = h
    \/ h \in pending /\ (wakeup \/ h \in visit \/ IsSending(h) \/ h \in stranded)

\* The same of every flag that is set, and what each phase may hold: the
\* conjuncts under which the two properties above are inductive.
FlagIsSeen ==
  \A h \in pending \cap async_handles :
    wakeup \/ h \in visit \/ IsSending(h) \/ h \in stranded

OfPhase ==
  /\ visit # {} \/ taken # None => phase = "events"
  /\ finishing # {} => phase = "closing"
  /\ cb # None => phase \in {"events", "closing"} /\ taken = None
  /\ gvl = LoopThread => phase = "none" \/ cb # None
  /\ async_handles \cap (closing_handles \cup finishing) = {}
  /\ closing_handles \cap finishing = {}
  /\ \A t \in Thread : sending[t] # None => gvl = t

IInv == TypeOK /\ NoUseAfterFree /\ NoSendLost /\ FlagIsSeen /\ OfPhase

\* "The only guarantee is that the block function is called at least once after
\* the call to send" (rbuv_async.c): while the loop runs and the handle is open,
\* unless an exception of another block stranded it.
SendAnswered ==
  \A h \in Handle :
    (h \in owed /\ phase # "none")
      ~> (h \notin owed \/ h \notin async_handles \/ phase = "none" \/ h \in stranded)
=============================================================================
