----------------------------- MODULE NextTick -----------------------------
(***************************************************************************)
(* Loop#next_tick and the run methods that take a block.  The loop object  *)
(* keeps a list of blocks and one Idle handle whose own block runs them;   *)
(* it creates the handle when a first block is queued and closes it after  *)
(* a batch that queued nothing.  The rest of the program uses the loop and *)
(* other handles freely, but reaches this handle only through dispose.     *)
(*                                                                         *)
(* Blocks are numbered in the order of the calls that queue them.  Since   *)
(* run(&block) is next_tick(&block) followed by _run, it is the action     *)
(* Tick followed by Run, or by nothing when _run raises.                   *)
(***************************************************************************)
EXTENDS RbuvLoop, Naturals, Sequences

CONSTANTS TickHandle,    \* the Idle objects next_tick may create
          MaxTicks       \* bound on the blocks queued

ASSUME TickAssumption == TickHandle \subseteq OfKind("idle") /\ MaxTicks \in Nat

VARIABLES
  next_tick_handle,      \* @next_tick_handle, None for nil
  next_tick_callbacks,   \* @next_tick_callbacks
  batch,                 \* what the idle block has still to call of its own list
  tick,                  \* the queued block being called, 0 if none is
  issued,                \* blocks queued so far
  last                   \* the last block begun

tickVars == <<next_tick_handle, next_tick_callbacks, batch, tick, issued, last>>
allVars  == <<vars, tickVars>>

TickInit ==
  /\ Init
  /\ next_tick_handle = None
  /\ next_tick_callbacks = <<>> /\ batch = <<>>
  /\ tick = 0 /\ issued = 0 /\ last = 0

\* Inside the idle block, other Ruby code runs only while it calls a block.
BlockOfProgram == cb \in TickHandle => tick # 0

\* Slip: a new list instead of the one that is there (DroppedByException).
Queue_slip ==
  /\ issued < MaxTicks
  /\ issued' = issued + 1
  /\ next_tick_callbacks' = <<issued'>>
  /\ UNCHANGED <<batch, tick, last>>

\* @next_tick_callbacks << block.
Queue ==
  /\ issued < MaxTicks
  /\ issued' = issued + 1
  /\ next_tick_callbacks' = Append(next_tick_callbacks, issued')
  /\ UNCHANGED <<batch, tick, last>>

\* Slip: a new handle for every call, whatever there is already (TickHandleIsCurrent).
TickFresh_slip(h) ==
  /\ h \notin created
  /\ created' = created \cup {h}
  /\ uv_handle' = uv_handle \cup {h}
  /\ handle_queue' = handle_queue \cup {h}
  /\ refd' = refd \cup {h}
  /\ active' = active \cup {h}
  /\ next_tick_handle' = h
  /\ UNCHANGED <<repeat, due, closing, closing_handles, cb_on_close, revived,
                 signalVars, stop_flag, runVars, loopVars>>

\* next_tick with no handle yet: Idle.new and start.
TickFresh(h) ==
  /\ next_tick_handle = None
  /\ h \notin created
  /\ created' = created \cup {h}
  /\ uv_handle' = uv_handle \cup {h}
  /\ handle_queue' = handle_queue \cup {h}
  /\ refd' = refd \cup {h}
  /\ active' = active \cup {h}
  /\ next_tick_handle' = h
  /\ UNCHANGED <<repeat, due, closing, closing_handles, cb_on_close, revived,
                 signalVars, stop_flag, runVars, loopVars>>

\* next_tick with a handle: start unless active, which is also what starting an
\* active one amounts to.  A handle that dispose has closed is started as well, and
\* freed later while it is linked.  On a closed one active? raises, and nothing is
\* queued: no action.
TickAgain ==
  /\ next_tick_handle # None
  /\ watcher_start(next_tick_handle)
  /\ UNCHANGED <<loopVars, next_tick_handle>>

Tick ==
  /\ Ruby /\ BlockOfProgram
  /\ Queue
  /\ TickAgain \/ \E h \in TickHandle : TickFresh(h)

\* Slip: the list is called but not emptied (TicksInOrder).
CallTickBlock_slip(h) ==
  /\ CallBlock(h)
  /\ batch' = next_tick_callbacks
  /\ UNCHANGED <<next_tick_handle, next_tick_callbacks, tick, issued, last>>

\* The idle block begins: it takes the list and leaves an empty one.
CallTickBlock(h) ==
  /\ next_tick_handle # None
  /\ CallBlock(h)
  /\ batch' = next_tick_callbacks
  /\ next_tick_callbacks' = <<>>
  /\ UNCHANGED <<next_tick_handle, tick, issued, last>>

\* The idle block of a handle that was forgotten after an earlier batch and, having
\* been started while it was closing, is called once more: nothing is queued, and
\* nil.close raises NoMethodError.
TickBlockFails(h) ==
  /\ next_tick_handle = None
  /\ phase = "idle" /\ cb = None
  /\ h \in work \cap uv_handle /\ (work \subseteq active \/ h \notin active)
  /\ phase' = "none" /\ work' = {} /\ at' = None
  /\ AfterRun
  /\ UNCHANGED <<handleVars, signalVars, stop_flag, finishing, cb, objVars, tickVars>>

BeginTick ==
  /\ phase # "crashed"
  /\ cb \in TickHandle /\ tick = 0 /\ batch # <<>>
  /\ tick' = Head(batch)
  /\ last' = Head(batch)
  /\ batch' = Tail(batch)
  /\ UNCHANGED <<vars, next_tick_handle, next_tick_callbacks, issued>>

EndTick ==
  /\ tick # 0 /\ phase # "crashed"
  /\ tick' = 0
  /\ UNCHANGED <<vars, next_tick_handle, next_tick_callbacks, batch, issued, last>>

BatchOver == cb \in TickHandle /\ tick = 0 /\ batch = <<>>

\* Slip: blocks queued meanwhile do not keep it open (QueuedTickIsArmed, TickRuns).
CloseTickHandle_slip ==
  /\ phase # "crashed" /\ BatchOver /\ next_tick_handle # None
  /\ \/ handle_close(next_tick_handle, None) /\ UNCHANGED loopVars
     \/ next_tick_handle \in closing /\ UNCHANGED vars
  /\ next_tick_handle' = None
  /\ UNCHANGED <<next_tick_callbacks, batch, tick, issued, last>>

\* Nothing was queued meanwhile: close the handle (no effect if it is closing
\* already) and forget it.
CloseTickHandle ==
  /\ phase # "crashed"
  /\ BatchOver /\ next_tick_callbacks = <<>> /\ next_tick_handle # None
  /\ \/ handle_close(next_tick_handle, None) /\ UNCHANGED loopVars
     \/ next_tick_handle \in closing /\ UNCHANGED vars
  /\ next_tick_handle' = None
  /\ UNCHANGED <<next_tick_callbacks, batch, tick, issued, last>>

TickBlockReturns ==
  /\ BatchOver /\ (next_tick_callbacks # <<>> \/ next_tick_handle = None)
  /\ Return
  /\ UNCHANGED tickVars

\* An exception from any block.  From a queued one it leaves the idle block
\* too: the rest of its batch is gone, while the handle stays active.
TickRaise ==
  /\ BlockOfProgram
  /\ Raise
  /\ batch' = <<>> /\ tick' = 0
  /\ UNCHANGED <<next_tick_handle, next_tick_callbacks, issued, last>>

\* Everything the loop does that next_tick has no part in.
Elsewhere ==
  \/ RunReturns \/ DisposeRuns \/ DisposeNothing \/ Crash
  \/ cb \notin TickHandle /\ Return
  \/ \E h \in Handle : OnClose(h)
  \/ \E h \in Handle \ TickHandle : CallBlock(h)

TickProgram ==
  /\ BlockOfProgram
  /\ LoopCall \/ \E h \in Handle \ TickHandle : HandleCall(h)
  /\ UNCHANGED tickVars

TickNext ==
  \/ TickProgram
  \/ Tick
  \/ (Elsewhere \/ Poll \/ LoopStep) /\ UNCHANGED tickVars
  \/ \E h \in TickHandle : CallTickBlock(h) \/ TickBlockFails(h)
  \/ BeginTick \/ EndTick \/ CloseTickHandle \/ TickBlockReturns
  \/ TickRaise

TickSpec == TickInit /\ [][TickNext]_allVars

TickProgress ==
  \/ /\ \/ Elsewhere \/ LoopStep
        \/ PollMustEnd /\ Poll
        \/ caller = "ensure" /\ Dispose
     /\ UNCHANGED tickVars
  \/ \E h \in TickHandle : CallTickBlock(h) \/ TickBlockFails(h)
  \/ BeginTick \/ EndTick \/ CloseTickHandle \/ TickBlockReturns

TickFairSpec == TickSpec /\ WF_allVars(TickProgress)

-----------------------------------------------------------------------------

\* The blocks queued and not begun, in the order they would be called.
Pending == batch \o next_tick_callbacks

IsPending(n) == \E i \in 1 .. Len(Pending) : Pending[i] = n

\* No block is called twice or out of order, whatever exceptions drop.
TicksInOrder ==
  \A i \in 1 .. Len(Pending) :
    /\ last < Pending[i] /\ Pending[i] <= issued
    /\ i > 1 => Pending[i - 1] < Pending[i]

\* A block stays queued until it is called; only an exception that leaves
\* another queued block of its batch drops it.
DroppedByException ==
  [][\A n \in 1 .. MaxTicks :
       IsPending(n) /\ ~IsPending(n)' => last' = n \/ (tick # 0 /\ phase' = "none")]_allVars

\* The idle block only ever runs for the handle the loop object remembers, so
\* that the close after its batch is not sent to another handle; but for a handle
\* that was started while it was closing.
TickHandleIsCurrent ==
  cb \in TickHandle /\ ~(BatchOver /\ next_tick_handle = None) =>
    cb = next_tick_handle \/ cb \in revived

\* The handle that next_tick will start is not one that is closed already.
TickHandleUsable == next_tick_handle # None => next_tick_handle \in uv_handle

\* A queued block has an idle handle to call it: it is active, unless a dispose
\* closed it.
QueuedTickIsArmed ==
  next_tick_callbacks # <<>> =>
    next_tick_handle # None /\ (next_tick_handle \in active \/ next_tick_handle \in closing
                                \/ next_tick_handle \notin uv_handle)

\* While the loop runs and the handle is open, a queued block gets its turn.
TickRuns ==
  \A n \in 1 .. MaxTicks :
    (IsPending(n) /\ phase # "none" /\ next_tick_handle \in active \cap uv_handle)
      ~> (n <= last \/ phase \in {"none", "crashed"} \/ next_tick_handle \in closing)
=============================================================================
