-------------------------- MODULE NextTickProofs --------------------------
(***************************************************************************)
(* Proofs about NextTick, for any handles, any number of queued blocks and *)
(* programs with or without exceptions.                                    *)
(*                                                                         *)
(* Two invariants carry them.  IInv is RbuvLoop's: next_tick creates,      *)
(* starts and closes its handle by the same calls as any program, one of   *)
(* them two in one step.  TickInv ties the list of blocks to that handle.  *)
(***************************************************************************)
EXTENDS NextTick, RbuvLoopProofs

\* The loop object remembers an Idle handle or none; blocks are numbers.
TickTypeOK ==
  /\ next_tick_handle \in TickHandle \cup {None}
  /\ next_tick_callbacks \in Seq(Nat) /\ batch \in Seq(Nat)
  /\ tick \in Nat /\ issued \in Nat /\ last \in Nat

\* Only the handle the loop object remembers may fire, or one that was started
\* while it was closing, which nothing stops any more; and a close never calls a
\* block for one of its kind: the idle block is all cb can be in.
OnlyCurrentFires ==
  /\ TickHandle \cap (active \cup work) \subseteq {next_tick_handle} \cup revived
  /\ TickHandle \cap revived \subseteq active
  /\ \A k \in TickHandle : cb_on_close[k] = None
  /\ cb \in TickHandle => phase \in {"idle", "crashed"}

\* Outside the idle block no batch is left over and no queued block executes.
BatchInBlock == cb \notin TickHandle => batch = <<>> /\ tick = 0

Ascending(s) == \A i, j \in 1 .. Len(s) : i < j => s[i] < s[j]

\* The batch comes before what was queued since, and both after the last begun.
QueuedInOrder ==
  /\ last <= issued
  /\ Ascending(batch) /\ Ascending(next_tick_callbacks)
  /\ \A i \in 1 .. Len(batch) : last < batch[i] /\ batch[i] <= issued
  /\ \A i \in 1 .. Len(next_tick_callbacks) :
       last < next_tick_callbacks[i] /\ next_tick_callbacks[i] <= issued
  /\ \A i \in 1 .. Len(batch), j \in 1 .. Len(next_tick_callbacks) :
       batch[i] < next_tick_callbacks[j]

TickInv ==
  /\ TickTypeOK
  /\ OnlyCurrentFires
  /\ BatchInBlock
  /\ TickHandleIsCurrent
  /\ QueuedTickIsArmed
  /\ QueuedInOrder

-----------------------------------------------------------------------------
(* RbuvLoop's invariant under the steps of next_tick.                      *)

\* Creating the handle and starting it, in one step, keep IInv.
LEMMA TickFreshIInv ==
  ASSUME IInv, Ruby, NEW h \in TickHandle, TickFresh(h)
  PROVE  IInv'
BY KindAssumption, NoneAssumption, BlockAssumption, TickAssumption
   DEF TickFresh, IInv, TypeOK, NoDanglingHandle, CloseStateAgrees, RunModeAgrees,
       WorkOfPhase, CallbackOfPhase, QueuedNotTrapped, RevivedIsClosed, CrashedInRuby,
       Undispatched, Ruby, OfKind, Timers, Signals, Walks, signalVars, runVars, loopVars

\* Starting the handle there is, closing or not, keeps IInv.
LEMMA TickAgainIInv ==
  ASSUME IInv, Ruby, next_tick_handle \in TickHandle, TickAgain
  PROVE  IInv'
BY WatcherStartIInv, TickAssumption DEF TickAgain, OfKind, Walks

\* The close after a batch is made by Ruby code like any other.
LEMMA CloseTickIInv ==
  ASSUME IInv, next_tick_handle \in TickHandle, CloseTickHandle
  PROVE  IInv'
<1>1. next_tick_handle \in Handle /\ cb # None
  BY TickAssumption, NoneAssumption DEF OfKind, CloseTickHandle, BatchOver
<1>2. CASE handle_close(next_tick_handle, None) /\ UNCHANGED loopVars
  <2>1. HandleCall(next_tick_handle)
    BY <1>1, <1>2 DEF HandleCall, Close, Ruby, CloseTickHandle
  <2> QED
    BY <1>1, <2>1, HandleCallIInv
<1>3. CASE UNCHANGED vars
  BY <1>3, StutterIInv
<1> QED
  BY <1>2, <1>3 DEF CloseTickHandle

-----------------------------------------------------------------------------
(* The steps next_tick has no part in.                                     *)

\* None of them starts a handle of next_tick's or gives one a close block; they
\* stop one only by closing it, and finish a close.
HandlesKept ==
  \A k \in TickHandle :
    /\ k \in active' => k \in active
    /\ k \in work' => k \in active \cup work
    /\ k \in revived <=> k \in revived'
    /\ k \in active \cap revived => k \in active'
    /\ k \in active => k \in active' \/ k \in closing'
    /\ k \in closing => k \in closing' \/ k \notin uv_handle'
    /\ k \notin uv_handle => k \notin uv_handle'
    /\ cb_on_close[k] = None => cb_on_close'[k] = None

\* They neither enter the idle block nor leave it, except by the end of the process.
BlockKept ==
  cb \in TickHandle \/ cb' \in TickHandle => cb' = cb /\ phase' \in {phase, "crashed"}

\* The handles of next_tick are Idle handles.
LEMMA TickHandlesAreIdle ==
  \A k \in TickHandle : k \in Handle /\ Kind[k] = "idle" /\ k # None
BY TickAssumption, NoneAssumption DEF OfKind

\* A call about another handle.
LEMMA HandleCallKeeps ==
  ASSUME IInv, NEW h \in Handle \ TickHandle, HandleCall(h)
  PROVE  HandlesKept /\ BlockKept
<1> USE DEF HandlesKept, BlockKept, IInv, TypeOK, objVars, handleVars, signalVars, runVars
<1>1. CASE New(h)
  BY <1>1 DEF New, timer_initialize, idle_initialize, prepare_initialize,
              check_initialize, poll_initialize, signal_initialize, handle_initialize, uv_init
<1>2. CASE Start(h)
  <2>1. CASE watcher_start(h)
    BY <1>2, <2>1 DEF watcher_start, uv_start, InsertHead, Revive
  <2>2. CASE event_start(h)
    BY <1>2, <2>2 DEF event_start, uv_start, InsertHead
  <2>3. CASE event_start_closing(h)
    BY <1>2, <2>3 DEF event_start_closing, uv_crash
  <2>4. CASE \E zero, repeats \in BOOLEAN : timer_start(h, zero, repeats)
    BY <1>2, <2>4 DEF timer_start, uv_timer_start, Revive
  <2> QED
    BY <1>2, <2>1, <2>2, <2>3, <2>4
    DEF Start, idle_start, prepare_start, check_start, poll_start, signal_start
<1>3. CASE Stop(h)
  BY <1>3 DEF Stop, timer_stop, idle_stop, prepare_stop, check_stop, poll_stop, signal_stop,
              handle_stop, uv_handle_stop, Unwatch
<1>4. CASE SetRef(h)
  BY <1>4 DEF SetRef, handle_set_ref, uv_set_ref
<1>5. CASE SetRepeat(h)
  BY <1>5 DEF SetRepeat, timer_repeat_set, uv_timer_set_repeat
<1>6. CASE Close(h)
  BY <1>6 DEF Close, handle_close, uv_close, Unwatch
<1> QED
  BY <1>1, <1>2, <1>3, <1>4, <1>5, <1>6 DEF HandleCall

\* A call about the loop, or a step of dispose and run.
LEMMA LoopCallKeeps ==
  ASSUME IInv, LoopCall \/ DisposeRuns \/ DisposeNothing
  PROVE  HandlesKept /\ BlockKept
<1> USE DEF HandlesKept, BlockKept, IInv, TypeOK, NoDanglingHandle,
            objVars, handleVars, signalVars, runVars, uvVars, loopVars
<1>1. CASE StopLoop \/ UpdateTime
  BY <1>1 DEF StopLoop, uv_stop, UpdateTime, uv_update_time
<1>2. CASE Dispose
  BY <1>2, TickHandlesAreIdle DEF Dispose, close_every_handle, uv_close, Unwatch,
                                  RevivedIsClosed
<1>3. CASE \E mode \in Mode : Run(mode)
  BY <1>3, TickHandlesAreIdle DEF Run, EnterRun, RunModeAgrees, Ruby
<1>4. CASE DisposeRuns \/ DisposeNothing
  BY <1>4, TickHandlesAreIdle DEF DisposeRuns, EnterRun, DisposeNothing, RunModeAgrees,
                                  CrashedInRuby
<1> QED
  BY <1>1, <1>2, <1>3, <1>4 DEF LoopCall

\* A step of uv_run() by itself.
LEMMA LoopStepKeeps ==
  ASSUME IInv, LoopStep \/ Poll \/ RunReturns
  PROVE  HandlesKept /\ BlockKept
<1> USE TickHandlesAreIdle
    DEF HandlesKept, BlockKept, objVars, handleVars, signalVars, runVars
<1>1. CASE LoopStep
  BY <1>1 DEF LoopStep, UvIterate, UvTimersDone, UvIdleDone, UvPrepareDone,
              UvEventsDone, UvCheckDone, UvClosingDone, UvSkipEvent
<1>2. CASE Poll \/ RunReturns
  BY <1>2 DEF Poll, UvPoll, RunReturns, UvReturnFromRun, UvOver, IInv, TypeOK, OfKind,
              Signals
<1> QED
  BY <1>1, <1>2

\* Another block begins, returns or raises; a close is finished.
LEMMA BlockStepKeeps ==
  ASSUME IInv, \A k \in TickHandle : cb_on_close[k] = None,
         \/ cb \notin TickHandle /\ (Return \/ Raise)
         \/ Crash
         \/ \E h \in Handle : OnClose(h)
         \/ \E h \in Handle \ TickHandle : CallBlock(h)
  PROVE  HandlesKept /\ BlockKept
<1> USE TickHandlesAreIdle
    DEF HandlesKept, BlockKept, IInv, TypeOK, objVars, handleVars, signalVars, runVars
<1>1. CASE cb \notin TickHandle /\ (Return \/ Raise)
  BY <1>1 DEF Return, UvCallbackReturns, Raise, UvUnwound
<1>2. ASSUME NEW h \in Handle, OnClose(h) PROVE HandlesKept /\ BlockKept
  BY <1>2 DEF OnClose, handle_on_close, uv_finish_close
<1>3. ASSUME NEW h \in Handle \ TickHandle, CallBlock(h) PROVE HandlesKept /\ BlockKept
  BY <1>3
  DEF CallBlock, timer_on_timeout, idle_on_idle, prepare_on_prepare, check_on_check,
      poll_on_available, signal_on_signal, UvRunTimer, UvRunWatcher, UvRunEvent,
      CloseStateAgrees, Timers, OfKind
<1>4. CASE Crash
  BY <1>4 DEF Crash, use_after_free, uv_crash
<1> QED
  BY <1>1, <1>2, <1>3, <1>4

\* The idle block begins, for a handle the walk was still to visit.
LEMMA TickBlockBegins ==
  ASSUME IInv, NEW h \in TickHandle, CallBlock(h)
  PROVE  /\ HandlesKept /\ cb = None /\ cb' = h /\ h \in work /\ phase' = "idle"
         /\ UNCHANGED revived
BY TickHandlesAreIdle
DEF HandlesKept, CallBlock, timer_on_timeout, idle_on_idle, prepare_on_prepare,
    check_on_check, poll_on_available, signal_on_signal, UvRunTimer, UvRunWatcher,
    UvRunEvent, IInv, TypeOK, WorkOfPhase, Timers, Signals, OfKind, Walks, objVars,
    handleVars, signalVars, runVars

\* The idle block that finds no handle remembered leaves the run by an exception.
LEMMA TickBlockFailsKeeps ==
  ASSUME IInv, NEW h \in TickHandle, TickBlockFails(h)
  PROVE  IInv' /\ HandlesKept /\ BlockKept
<1> USE TickHandlesAreIdle, NoneAssumption
    DEF TickBlockFails, AfterRun, handleVars, signalVars, objVars
<1>1. IInv'
  BY DEF IInv, TypeOK, NoDanglingHandle, CloseStateAgrees, RunModeAgrees, WorkOfPhase,
         CallbackOfPhase, QueuedNotTrapped, RevivedIsClosed, CrashedInRuby, Undispatched,
         Walks, OfKind, Timers, Signals, Phases, Callers
<1>2. HandlesKept /\ BlockKept
  BY DEF HandlesKept, BlockKept
<1> QED
  BY <1>1, <1>2

-----------------------------------------------------------------------------
(* TickInv is inductive.                                                   *)

\* A step that touches neither next_tick's variables nor its handles.
LEMMA KeepsTickInv ==
  ASSUME TickInv, HandlesKept, BlockKept, UNCHANGED tickVars
  PROVE  TickInv'
<1> USE TickHandlesAreIdle DEF tickVars
<1>1. TickTypeOK' /\ QueuedInOrder'
  BY DEF TickInv, TickTypeOK, QueuedInOrder, Ascending
<1>2. OnlyCurrentFires'
  BY DEF TickInv, HandlesKept, BlockKept, OnlyCurrentFires
<1>3. BatchInBlock'
  BY DEF TickInv, BlockKept, BatchInBlock
<1>4. TickHandleIsCurrent'
  BY DEF TickInv, HandlesKept, BlockKept, TickHandleIsCurrent, BatchOver
<1>5. QueuedTickIsArmed'
  BY DEF TickInv, HandlesKept, QueuedTickIsArmed, TickTypeOK
<1> QED
  BY <1>1, <1>2, <1>3, <1>4, <1>5 DEF TickInv

\* What `<<` makes of a list: one element more, at its end.
LEMMA AppendedList ==
  ASSUME NEW s \in Seq(Nat), NEW n \in Nat
  PROVE  /\ Append(s, n) \in Seq(Nat)
         /\ Len(Append(s, n)) = Len(s) + 1 /\ Len(s) \in Nat
         /\ \A i \in 1 .. Len(s) : s[i] \in Nat /\ Append(s, n)[i] = s[i]
         /\ Append(s, n)[Len(s) + 1] = n
         /\ \A i \in 1 .. Len(s) + 1 : i \in 1 .. Len(s) \/ i = Len(s) + 1
  OBVIOUS

\* Appending a number above all others keeps a list ascending.
LEMMA AppendAscends ==
  ASSUME NEW s \in Seq(Nat), Ascending(s), NEW n \in Nat, \A i \in 1 .. Len(s) : s[i] < n
  PROVE  Ascending(Append(s, n))
<1> SUFFICES ASSUME NEW i \in 1 .. Len(s) + 1, NEW j \in 1 .. Len(s) + 1, i < j
             PROVE  Append(s, n)[i] < Append(s, n)[j]
  BY AppendedList DEF Ascending
<1>1. i \in 1 .. Len(s)
  BY AppendedList
<1>2. CASE j \in 1 .. Len(s)
  BY <1>1, <1>2, AppendedList DEF Ascending
<1>3. CASE j = Len(s) + 1
  BY <1>1, <1>3, AppendedList
<1> QED
  BY <1>2, <1>3, AppendedList

\* The list after `<< block`: the new block has the highest number.
LEMMA QueueInOrder ==
  ASSUME TickTypeOK, QueuedInOrder, Queue
  PROVE  QueuedInOrder' /\ next_tick_callbacks' \in Seq(Nat) /\ issued' \in Nat
<1> DEFINE queue == next_tick_callbacks
<1>1. queue \in Seq(Nat) /\ issued \in Nat /\ last \in Nat /\ batch \in Seq(Nat)
  BY DEF TickTypeOK
<1>2. /\ issued' = issued + 1 /\ queue' = Append(queue, issued + 1)
      /\ UNCHANGED <<batch, last>>
  BY DEF Queue
<1>3. \A i \in 1 .. Len(batch) : batch[i] \in Nat
  BY <1>1
<1>4. queue' \in Seq(Nat) /\ issued' \in Nat
  BY <1>1, <1>2, AppendedList
<1>5. Ascending(queue)'
  <2>1. \A i \in 1 .. Len(queue) : queue[i] < issued + 1
    BY <1>1, AppendedList DEF QueuedInOrder
  <2>2. Ascending(queue)
    BY DEF QueuedInOrder
  <2>3. Ascending(Append(queue, issued + 1))
    <3> HIDE DEF queue
    <3> QED
      BY <1>1, <2>1, <2>2, AppendAscends
  <2> QED
    BY <1>2, <2>3 DEF Ascending
<1>6. \A j \in 1 .. Len(queue') :
        /\ last < queue'[j] /\ queue'[j] <= issued + 1
        /\ \A i \in 1 .. Len(batch) : batch[i] < queue'[j]
  <2> SUFFICES ASSUME NEW j \in 1 .. Len(queue')
               PROVE  /\ last < queue'[j] /\ queue'[j] <= issued + 1
                      /\ \A i \in 1 .. Len(batch) : batch[i] < queue'[j]
    OBVIOUS
  <2>1. CASE j \in 1 .. Len(queue)
    <3>1. queue'[j] = queue[j] /\ queue[j] \in Nat
      BY <1>1, <1>2, <2>1, AppendedList
    <3> QED
      BY <1>1, <1>3, <2>1, <3>1 DEF QueuedInOrder
  <2>2. CASE j = Len(queue) + 1
    <3>1. queue'[j] = issued + 1
      BY <1>1, <1>2, <2>2, AppendedList
    <3> QED
      BY <1>1, <1>3, <3>1 DEF QueuedInOrder
  <2> QED
    BY <1>1, <1>2, <2>1, <2>2, AppendedList
<1>7. Ascending(batch)' /\ \A i \in 1 .. Len(batch) : last < batch[i] /\ batch[i] <= issued + 1
  BY <1>1, <1>2, <1>3 DEF QueuedInOrder, Ascending
<1> QED
  BY <1>1, <1>2, <1>4, <1>5, <1>6, <1>7 DEF QueuedInOrder

\* next_tick: the handle it starts is the one it remembers.
LEMMA TickTickInv ==
  ASSUME IInv, TickInv, Tick
  PROVE  TickInv'
<1> USE TickHandlesAreIdle DEF Tick
<1>1. /\ Ruby /\ BlockOfProgram /\ Queue
      /\ UNCHANGED <<cb, phase, cb_on_close, closing>> /\ UNCHANGED <<batch, tick, last>>
  BY DEF Queue, TickAgain, TickFresh, watcher_start, uv_start, Revive,
         objVars, handleVars, signalVars, runVars
<1>2. QueuedInOrder' /\ next_tick_callbacks' \in Seq(Nat) /\ issued' \in Nat
  BY <1>1, QueueInOrder DEF TickInv
<1>3. /\ next_tick_handle' \in TickHandle /\ next_tick_handle' \in active'
      /\ active' = active \cup {next_tick_handle'}
      /\ work' \subseteq active' \cup work
      /\ next_tick_handle # None => next_tick_handle' = next_tick_handle
      /\ revived \subseteq revived' /\ revived' \subseteq revived \cup {next_tick_handle'}
  BY DEF TickAgain, TickFresh, watcher_start, uv_start, InsertHead, Revive, runVars,
         TickInv, TickTypeOK
<1>4. TickTypeOK'
  BY <1>1, <1>2, <1>3 DEF TickInv, TickTypeOK
<1>5. OnlyCurrentFires'
  BY <1>1, <1>3 DEF TickInv, OnlyCurrentFires, TickTypeOK
<1>6. BatchInBlock'
  BY <1>1 DEF TickInv, BatchInBlock
<1>7. TickHandleIsCurrent'
  BY <1>1, <1>3 DEF TickInv, TickHandleIsCurrent, BatchOver, BlockOfProgram
<1>8. QueuedTickIsArmed'
  BY <1>3 DEF QueuedTickIsArmed
<1> QED
  BY <1>2, <1>4, <1>5, <1>6, <1>7, <1>8 DEF TickInv

\* The idle block takes the list: no batch was left, so its order is the list's.
LEMMA CallTickBlockTickInv ==
  ASSUME IInv, TickInv, NEW h \in TickHandle, CallTickBlock(h)
  PROVE  TickInv'
<1> USE TickHandlesAreIdle DEF CallTickBlock
<1>1. /\ HandlesKept /\ cb = None /\ cb' = h /\ h \in work /\ phase' = "idle"
      /\ UNCHANGED revived
  BY TickBlockBegins
<1>2. batch = <<>> /\ tick = 0 /\ h \in {next_tick_handle} \cup revived
  BY <1>1 DEF TickInv, BatchInBlock, OnlyCurrentFires
<1>3. TickTypeOK'
  BY DEF TickInv, TickTypeOK
<1>4. OnlyCurrentFires'
  BY <1>1 DEF TickInv, OnlyCurrentFires, HandlesKept
<1>5. BatchInBlock' /\ TickHandleIsCurrent'
  BY <1>1, <1>2 DEF BatchInBlock, TickHandleIsCurrent
<1>6. QueuedTickIsArmed'
  BY DEF QueuedTickIsArmed
<1>7. QueuedInOrder'
  BY DEF TickInv, QueuedInOrder, Ascending
<1> QED
  BY <1>3, <1>4, <1>5, <1>6, <1>7 DEF TickInv

\* The next block of the batch: the lowest number of all that are left.
LEMMA BeginTickTickInv ==
  ASSUME TickInv, BeginTick
  PROVE  TickInv'
<1> USE DEF BeginTick, vars, uvVars, handleVars, runVars, objVars
<1>1. batch \in Seq(Nat) /\ batch # <<>> /\ last \in Nat
  BY DEF TickInv, TickTypeOK
<1>2. /\ Head(batch) = batch[1] /\ Tail(batch) \in Seq(Nat)
      /\ Len(batch) \in Nat \ {0} /\ Len(Tail(batch)) = Len(batch) - 1
      /\ \A i \in 1 .. Len(batch) - 1 : Tail(batch)[i] = batch[i + 1]
      /\ \A i \in 1 .. Len(batch) : batch[i] \in Nat
  BY <1>1
<1>3. tick' = batch[1] /\ last' = batch[1] /\ batch' = Tail(batch)
  BY <1>2
<1>4. last < batch[1] /\ batch[1] <= issued /\ batch[1] # 0
  BY <1>1, <1>2 DEF TickInv, QueuedInOrder
<1>5. TickTypeOK'
  BY <1>2, <1>3 DEF TickInv, TickTypeOK
<1>6. QueuedInOrder'
  <2>1. Ascending(batch')
    BY <1>2, <1>3 DEF TickInv, QueuedInOrder, Ascending
  <2>2. \A i \in 1 .. Len(batch') : batch[1] < batch'[i] /\ batch'[i] <= issued
    BY <1>2, <1>3 DEF TickInv, QueuedInOrder, Ascending
  <2>3. \A i \in 1 .. Len(next_tick_callbacks) :
          batch[1] < next_tick_callbacks[i] /\ next_tick_callbacks[i] <= issued
    BY <1>2 DEF TickInv, QueuedInOrder
  <2>4. \A i \in 1 .. Len(batch'), j \in 1 .. Len(next_tick_callbacks) :
          batch'[i] < next_tick_callbacks[j]
    BY <1>2, <1>3 DEF TickInv, QueuedInOrder
  <2> QED
    BY <1>3, <1>4, <2>1, <2>2, <2>3, <2>4 DEF TickInv, QueuedInOrder, Ascending
<1>7. OnlyCurrentFires' /\ BatchInBlock' /\ QueuedTickIsArmed'
  BY DEF TickInv, OnlyCurrentFires, BatchInBlock, QueuedTickIsArmed
<1>8. TickHandleIsCurrent'
  BY <1>3, <1>4 DEF TickInv, TickHandleIsCurrent, BatchOver
<1> QED
  BY <1>5, <1>6, <1>7, <1>8 DEF TickInv

\* A queued block returns to the idle block.
LEMMA EndTickTickInv ==
  ASSUME TickInv, EndTick
  PROVE  TickInv'
<1> USE DEF EndTick, vars, uvVars, handleVars, runVars, objVars
<1>1. TickTypeOK' /\ OnlyCurrentFires' /\ BatchInBlock' /\ QueuedTickIsArmed'
  BY DEF TickInv, TickTypeOK, OnlyCurrentFires, BatchInBlock, QueuedTickIsArmed
<1>2. TickHandleIsCurrent'
  BY DEF TickInv, TickHandleIsCurrent, BatchOver
<1>3. QueuedInOrder'
  BY DEF TickInv, QueuedInOrder, Ascending
<1> QED
  BY <1>1, <1>2, <1>3 DEF TickInv

\* The handle is closed and forgotten, with an empty list: the walk does not meet
\* it again, for the handle the walk stands at is either that one or still linked.
LEMMA CloseTickHandleTickInv ==
  ASSUME IInv, TickInv, CloseTickHandle
  PROVE  TickInv'
<1> USE TickHandlesAreIdle DEF CloseTickHandle, BatchOver
<1> DEFINE k == next_tick_handle
<1>1. k \in TickHandle /\ cb \in TickHandle /\ (cb = k \/ cb \in revived \cap active)
  BY DEF TickInv, TickTypeOK, TickHandleIsCurrent, OnlyCurrentFires
<1>2. phase = "idle" /\ at = cb /\ cb \notin work
  BY <1>1 DEF TickInv, OnlyCurrentFires, IInv, CallbackOfPhase, Walks
<1>3. work \subseteq active \/ at \notin active
  BY <1>2 DEF IInv, WorkOfPhase, Walks
<1>4. ASSUME handle_close(k, None) PROVE OnlyCurrentFires'
  <2>1. /\ active' = active \ {k} /\ Unwatch({k}) /\ k \notin closing
        /\ UNCHANGED <<revived, cb, phase>>
        /\ \A g \in TickHandle : cb_on_close'[g] = None
    BY <1>1, <1>4 DEF handle_close, uv_close, TickInv, OnlyCurrentFires, IInv, TypeOK
  <2>2. work' \subseteq work /\ k \notin work'
    <3>1. CASE cb = k
      BY <1>2, <2>1, <3>1 DEF Unwatch
    <3>2. CASE cb # k
      <4>1. at \in active \ {k} /\ work \subseteq active
        BY <1>1, <1>2, <1>3, <3>2
      <4> QED
        BY <1>1, <2>1, <4>1 DEF Unwatch
    <3> QED
      BY <3>1, <3>2
  <2>3. k \notin revived
    BY <1>1, <1>4, <2>1 DEF IInv, RevivedIsClosed, handle_close
  <2> QED
    BY <1>1, <1>2, <2>1, <2>2, <2>3 DEF TickInv, OnlyCurrentFires
<1>5. ASSUME k \in closing, UNCHANGED vars PROVE OnlyCurrentFires'
  <2>1. k \in active \cup work => k \in revived
    BY <1>1, <1>2, <1>3, <1>5 DEF IInv, CloseStateAgrees
  <2>2. UNCHANGED <<active, work, revived, cb, phase, cb_on_close>>
    BY <1>5 DEF vars, uvVars, handleVars, runVars, objVars
  <2> QED
    BY <1>1, <2>1, <2>2 DEF TickInv, OnlyCurrentFires
<1>6. OnlyCurrentFires'
  BY <1>4, <1>5
<1>7. UNCHANGED cb
  BY DEF handle_close, uv_close, vars, uvVars, runVars
<1>8. TickTypeOK' /\ QueuedInOrder' /\ QueuedTickIsArmed'
  BY DEF TickInv, TickTypeOK, QueuedInOrder, Ascending, QueuedTickIsArmed
<1>9. BatchInBlock' /\ TickHandleIsCurrent'
  BY <1>7 DEF BatchInBlock, TickHandleIsCurrent
<1> QED
  BY <1>6, <1>8, <1>9 DEF TickInv

\* The idle block ends, by returning with its batch done or by an exception.
LEMMA TickBlockEndsTickInv ==
  ASSUME IInv, TickInv, cb \in TickHandle, TickBlockReturns \/ TickRaise
  PROVE  TickInv'
<1> USE TickHandlesAreIdle DEF TickBlockReturns, TickRaise, tickVars
<1>1. /\ cb' = None /\ work' \subseteq work
      /\ UNCHANGED <<active, closing, uv_handle, cb_on_close, revived>>
      /\ batch' = <<>> /\ tick' = 0
      /\ UNCHANGED <<next_tick_handle, next_tick_callbacks, issued, last>>
  BY DEF BatchOver, Return, UvCallbackReturns, Raise, UvUnwound, objVars, handleVars
<1>2. TickTypeOK' /\ QueuedInOrder'
  BY <1>1 DEF TickInv, TickTypeOK, QueuedInOrder, Ascending
<1>3. OnlyCurrentFires' /\ QueuedTickIsArmed'
  BY <1>1 DEF TickInv, OnlyCurrentFires, QueuedTickIsArmed
<1>4. BatchInBlock' /\ TickHandleIsCurrent'
  BY <1>1 DEF BatchInBlock, TickHandleIsCurrent
<1> QED
  BY <1>2, <1>3, <1>4 DEF TickInv

-----------------------------------------------------------------------------
(* The theorems.                                                           *)

\* In the first state there is no handle and nothing is queued.
LEMMA InitTick == TickInit => IInv /\ TickInv
<1> SUFFICES ASSUME TickInit PROVE IInv /\ TickInv
  OBVIOUS
<1>1. IInv
  BY InitIInv DEF TickInit
<1>2. TickInv
  BY TickHandlesAreIdle
  DEF TickInit, Init, UvInit, HandleInit, TickInv, TickTypeOK, OnlyCurrentFires,
      BatchInBlock, TickHandleIsCurrent,
      QueuedTickIsArmed, QueuedInOrder, Ascending
<1> QED
  BY <1>1, <1>2

\* Every step of TickNext keeps both invariants.
LEMMA StepTick == IInv /\ TickInv /\ [TickNext]_allVars => IInv' /\ TickInv'
<1> SUFFICES ASSUME IInv, TickInv, [TickNext]_allVars PROVE IInv' /\ TickInv'
  OBVIOUS
<1> USE TickHandlesAreIdle
<1>1. CASE TickProgram
  BY <1>1, HandleCallIInv, LoopCallIInv, HandleCallKeeps, LoopCallKeeps, KeepsTickInv
  DEF TickProgram
<1>2. CASE Tick
  <2>1. TickInv'
    BY <1>2, TickTickInv
  <2>2. next_tick_handle \in TickHandle \/ next_tick_handle = None
    BY DEF TickInv, TickTypeOK
  <2> QED
    BY <1>2, <2>1, <2>2, TickFreshIInv, TickAgainIInv DEF Tick, TickAgain
<1>3. CASE (Elsewhere \/ Poll \/ LoopStep) /\ UNCHANGED tickVars
  <2>1. \A k \in TickHandle : cb_on_close[k] = None
    BY DEF TickInv, OnlyCurrentFires
  <2>2. CASE LoopStep \/ Poll \/ RunReturns \/ DisposeRuns \/ DisposeNothing
    BY <1>3, <2>2, LoopStepIInv, LoopCallIInv, LoopStepKeeps, LoopCallKeeps, KeepsTickInv
  <2>3. CASE \/ cb \notin TickHandle /\ Return
             \/ Crash
             \/ \E h \in Handle : OnClose(h)
             \/ \E h \in Handle \ TickHandle : CallBlock(h)
    BY <1>3, <2>1, <2>3, BlockStepIInv, BlockStepKeeps, KeepsTickInv
  <2> QED
    BY <1>3, <2>2, <2>3 DEF Elsewhere
<1>4. ASSUME NEW h \in TickHandle, CallTickBlock(h) \/ TickBlockFails(h)
      PROVE  IInv' /\ TickInv'
  <2>1. CASE CallTickBlock(h)
    BY <2>1, BlockStepIInv, CallTickBlockTickInv DEF CallTickBlock
  <2>2. CASE TickBlockFails(h)
    BY <2>2, TickBlockFailsKeeps, KeepsTickInv DEF TickBlockFails
  <2> QED
    BY <1>4, <2>1, <2>2
<1>5. CASE BeginTick \/ EndTick
  BY <1>5, StutterIInv, BeginTickTickInv, EndTickTickInv DEF BeginTick, EndTick
<1>6. CASE CloseTickHandle
  <2>1. next_tick_handle \in TickHandle
    BY <1>6 DEF CloseTickHandle, BatchOver, TickInv, TickTypeOK
  <2> QED
    BY <1>6, <2>1, CloseTickIInv, CloseTickHandleTickInv
<1>7. CASE TickBlockReturns
  BY <1>7, BlockStepIInv, TickBlockEndsTickInv DEF TickBlockReturns, BatchOver
<1>8. CASE TickRaise
  <2>1. IInv'
    BY <1>8, BlockStepIInv DEF TickRaise
  <2>2. CASE cb \in TickHandle
    BY <1>8, <2>1, <2>2, TickBlockEndsTickInv
  <2>3. CASE cb \notin TickHandle
    <3>1. HandlesKept /\ BlockKept
      BY <1>8, <2>3, BlockStepKeeps DEF TickRaise, TickInv, OnlyCurrentFires
    <3>2. UNCHANGED tickVars
      BY <1>8, <2>3 DEF TickRaise, tickVars, TickInv, BatchInBlock
    <3> QED
      BY <2>1, <3>1, <3>2, KeepsTickInv
  <2> QED
    BY <2>2, <2>3
<1>9. CASE UNCHANGED allVars
  <2>1. UNCHANGED vars /\ UNCHANGED tickVars
    BY <1>9 DEF allVars
  <2>2. HandlesKept /\ BlockKept
    BY <2>1 DEF HandlesKept, BlockKept, vars, uvVars, handleVars, runVars, objVars
  <2> QED
    BY <2>1, <2>2, StutterIInv, KeepsTickInv
<1> QED
  BY <1>1, <1>2, <1>3, <1>4, <1>5, <1>6, <1>7, <1>8, <1>9 DEF TickNext

\* The loop's own invariant survives next_tick, which starts a handle in the
\* step that creates it and may do so from any block.
THEOREM TickInvariance == TickSpec => [](IInv /\ TickInv)
BY InitTick, StepTick, PTL DEF TickSpec

\* Where the elements of two lists are in the list of both.
LEMMA ConcatList ==
  ASSUME NEW s \in Seq(Nat), NEW t \in Seq(Nat)
  PROVE  /\ Len(s \o t) = Len(s) + Len(t) /\ Len(s) \in Nat /\ Len(t) \in Nat
         /\ \A i \in 1 .. Len(s) : (s \o t)[i] = s[i] /\ s[i] \in Nat
         /\ \A i \in 1 .. Len(t) : (s \o t)[Len(s) + i] = t[i] /\ t[i] \in Nat
         /\ \A i \in 1 .. Len(s \o t) :
              i \in 1 .. Len(s) \/ (i - Len(s) \in 1 .. Len(t) /\ i = Len(s) + (i - Len(s)))
OBVIOUS

Holds(s, n) == \E i \in 1 .. Len(s) : s[i] = n

\* A list of two lists holds what either of them holds.
LEMMA ConcatHolds ==
  ASSUME NEW s \in Seq(Nat), NEW t \in Seq(Nat), NEW n
  PROVE  Holds(s \o t, n) <=> Holds(s, n) \/ Holds(t, n)
<1>1. ASSUME Holds(s \o t, n) PROVE Holds(s, n) \/ Holds(t, n)
  BY <1>1, ConcatList DEF Holds
<1>2. ASSUME Holds(s, n) PROVE Holds(s \o t, n)
  <2>1. 1 .. Len(s) \subseteq 1 .. Len(s \o t)
    BY ConcatList
  <2> QED
    BY <1>2, <2>1, ConcatList DEF Holds
<1>3. ASSUME Holds(t, n) PROVE Holds(s \o t, n)
  <2>1. \A i \in 1 .. Len(t) : Len(s) + i \in 1 .. Len(s \o t)
    BY ConcatList
  <2> QED
    BY <1>3, <2>1, ConcatList DEF Holds
<1> QED
  BY <1>1, <1>2, <1>3

\* QueuedInOrder says of the two lists what TicksInOrder says of both together.
LEMMA OrderOfPending == TickTypeOK /\ QueuedInOrder => TicksInOrder
<1> DEFINE queue == next_tick_callbacks
<1> SUFFICES ASSUME TickTypeOK, QueuedInOrder, NEW i \in 1 .. Len(Pending)
             PROVE  /\ last < Pending[i] /\ Pending[i] <= issued
                    /\ i > 1 => Pending[i - 1] < Pending[i]
  BY DEF TicksInOrder
<1>1. last \in Nat /\ issued \in Nat /\ batch \in Seq(Nat) /\ queue \in Seq(Nat)
  BY DEF TickTypeOK
<1>2. Pending = batch \o queue
  BY DEF Pending
<1>3. CASE i \in 1 .. Len(batch)
  <2>1. i > 1 => i - 1 \in 1 .. Len(batch) /\ i - 1 < i
    BY <1>1, <1>3, ConcatList
  <2> QED
    BY <1>1, <1>2, <1>3, <2>1, ConcatList DEF QueuedInOrder, Ascending
<1>4. CASE i - Len(batch) \in 1 .. Len(queue) /\ i = Len(batch) + (i - Len(batch))
  <2> DEFINE j == i - Len(batch)
  <2>1. Pending[i] = queue[j]
    BY <1>1, <1>2, <1>4, ConcatList
  <2>2. last < Pending[i] /\ Pending[i] <= issued
    BY <1>4, <2>1 DEF QueuedInOrder
  <2>3. CASE j > 1
    <3>1. j - 1 \in 1 .. Len(queue) /\ i - 1 = Len(batch) + (j - 1) /\ j - 1 < j
      BY <1>1, <1>4, <2>3, ConcatList
    <3>2. Pending[i - 1] = queue[j - 1]
      BY <1>1, <1>2, <3>1, ConcatList
    <3> QED
      BY <1>4, <2>1, <2>2, <3>1, <3>2 DEF QueuedInOrder, Ascending
  <2>4. CASE j = 1
    <3>1. i > 1 => i - 1 \in 1 .. Len(batch) /\ Pending[i - 1] = batch[i - 1]
      BY <1>1, <1>2, <1>4, <2>4, ConcatList
    <3> QED
      BY <1>4, <2>1, <2>2, <3>1 DEF QueuedInOrder
  <2> QED
    BY <1>1, <1>4, <2>3, <2>4, ConcatList
<1> QED
  BY <1>1, <1>2, <1>3, <1>4, ConcatList

\* No block is called twice or out of the order of the calls of next_tick, in
\* every program, whatever exceptions drop.
THEOREM TicksAreInOrder == TickSpec => []TicksInOrder
<1>1. TickInv => TicksInOrder
  BY OrderOfPending DEF TickInv
<1> QED
  BY <1>1, TickInvariance, PTL

\* The handle whose block executes is the one the loop object remembers, unless it
\* was started after dispose had closed it.
THEOREM TickHandleCurrent == TickSpec => []TickHandleIsCurrent
<1>1. TickInv => TickHandleIsCurrent
  BY DEF TickInv
<1> QED
  BY <1>1, TickInvariance, PTL

\* A queued block has an active idle handle to call it, unless a dispose closed
\* that handle.
THEOREM QueuedTickArmed == TickSpec => []QueuedTickIsArmed
<1>1. TickInv => QueuedTickIsArmed
  BY DEF TickInv
<1> QED
  BY <1>1, TickInvariance, PTL

\* A block that leaves the lists was begun, or an exception of another queued
\* block made the loop leave the idle block.
LEMMA LeavesLists ==
  ASSUME IInv, TickInv, TickInv', [TickNext]_allVars, NEW n \in 1 .. MaxTicks,
         IsPending(n), ~IsPending(n)'
  PROVE  last' = n \/ (tick # 0 /\ phase' = "none" /\ MayRaise)
<1>1. /\ batch \in Seq(Nat) /\ next_tick_callbacks \in Seq(Nat)
      /\ batch' \in Seq(Nat) /\ next_tick_callbacks' \in Seq(Nat)
  BY DEF TickInv, TickTypeOK
<1>2. /\ Holds(batch, n) \/ Holds(next_tick_callbacks, n)
      /\ ~Holds(batch', n) /\ ~Holds(next_tick_callbacks', n)
  <2>1. Holds(batch \o next_tick_callbacks, n) /\ ~Holds(batch' \o next_tick_callbacks', n)
    BY DEF IsPending, Pending, Holds
  <2> QED
    BY <1>1, <2>1, ConcatHolds
<1>3. CASE Tick
  <2>1. Holds(batch', n) \/ Holds(next_tick_callbacks', n)
    BY <1>1, <1>2, <1>3, AppendedList DEF Tick, Queue, TickInv, TickTypeOK, Holds
  <2> QED
    BY <1>2, <2>1
<1>4. ASSUME NEW h \in TickHandle, CallTickBlock(h) PROVE FALSE
  <2>1. batch = <<>>
    BY <1>4, TickBlockBegins, TickHandlesAreIdle DEF CallTickBlock, TickInv, BatchInBlock
  <2> QED
    BY <1>2, <1>4, <2>1 DEF CallTickBlock, Holds
<1>5. CASE BeginTick
  <2>1. PICK i \in 1 .. Len(batch) : batch[i] = n
    BY <1>2, <1>5 DEF BeginTick, Holds
  <2>2. CASE i = 1
    BY <1>1, <1>5, <2>1, <2>2 DEF BeginTick
  <2>3. CASE i # 1
    <3>1. i - 1 \in 1 .. Len(Tail(batch)) /\ Tail(batch)[i - 1] = n
      BY <1>1, <2>1, <2>3
    <3> QED
      BY <1>2, <1>5, <3>1 DEF BeginTick, Holds
  <2> QED
    BY <2>2, <2>3
<1>6. CASE TickRaise
  <2>1. batch # <<>>
    BY <1>2, <1>6 DEF TickRaise, Holds
  <2>2. tick # 0
    BY <1>6, <2>1 DEF TickRaise, BlockOfProgram, TickInv, BatchInBlock
  <2> QED
    BY <1>6, <2>2 DEF TickRaise, Raise, UvUnwound
<1>7. CASE \/ TickProgram \/ EndTick \/ CloseTickHandle \/ TickBlockReturns
           \/ \E h \in TickHandle : TickBlockFails(h)
  BY <1>2, <1>7
  DEF TickBlockFails, TickProgram, EndTick, CloseTickHandle, TickBlockReturns, tickVars, Holds
<1>8. CASE (Elsewhere \/ Poll \/ LoopStep) /\ UNCHANGED tickVars
  BY <1>2, <1>8 DEF tickVars, Holds
<1>9. CASE UNCHANGED allVars
  BY <1>2, <1>9 DEF allVars, tickVars, Holds
<1> QED
  BY <1>3, <1>4, <1>5, <1>6, <1>7, <1>8, <1>9 DEF TickNext

\* A block leaves the lists by being called, or dropped by an exception that
\* another queued block of its batch let escape, and in no other way.
THEOREM OnlyExceptionsDrop == TickSpec => DroppedByException
<1>1. IInv /\ TickInv /\ TickInv' /\ [TickNext]_allVars =>
        \A n \in 1 .. MaxTicks :
          IsPending(n) /\ ~IsPending(n)' => last' = n \/ (tick # 0 /\ phase' = "none")
  BY LeavesLists
<1> QED
  BY <1>1, TickInvariance, PTL DEF TickSpec, DroppedByException

\* A program whose blocks raise nothing loses none of them: a block that is in
\* a list no more has just been begun.
THEOREM NothingIsDropped ==
  ASSUME ~MayRaise
  PROVE  TickSpec =>
           [][\A n \in 1 .. MaxTicks : IsPending(n) /\ ~IsPending(n)' => last' = n]_allVars
<1>1. IInv /\ TickInv /\ TickInv' /\ [TickNext]_allVars =>
        \A n \in 1 .. MaxTicks : IsPending(n) /\ ~IsPending(n)' => last' = n
  BY LeavesLists
<1> QED
  BY <1>1, TickInvariance, PTL DEF TickSpec

\* Each block is begun at most once, after all blocks queued before it that are
\* ever begun: a step begins either none or one with a higher number than the last.
THEOREM TicksBeginOnce ==
  TickSpec => [][last' # last => last < last' /\ last' <= issued]_allVars
<1>1. TickInv /\ [TickNext]_allVars => (last' # last => last < last' /\ last' <= issued)
  <2> SUFFICES ASSUME TickInv, [TickNext]_allVars, last' # last
               PROVE  last < last' /\ last' <= issued
    OBVIOUS
  <2>1. BeginTick
    BY DEF TickNext, TickProgram, Tick, Queue, CallTickBlock, TickBlockFails, EndTick,
           CloseTickHandle, TickBlockReturns, TickRaise, allVars, tickVars
  <2>2. batch \in Seq(Nat) /\ batch # <<>> /\ last' = Head(batch)
    BY <2>1 DEF BeginTick, TickInv, TickTypeOK
  <2>3. 1 \in 1 .. Len(batch) /\ last' = batch[1]
    BY <2>2
  <2> QED
    BY <2>3 DEF TickInv, QueuedInOrder
<1> QED
  BY <1>1, TickInvariance, PTL DEF TickSpec
=============================================================================
