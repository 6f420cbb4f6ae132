# rbuv: models, checks and proofs

rbuv is a Ruby binding of libuv (C extension under `src/ext/rbuv`, a little Ruby
under `src/lib`). A Ruby program creates an event loop and handles, starts the
handles with blocks, and runs the loop; libuv calls the blocks back. This
directory holds TLA+ modules of the loop and its handles, TLC runs that check
them on small instances, and proofs, checked by TLAPS, of the properties that
matter most for every instance.

    tlc -config MCRbuvLoop_any_program.cfg MCRbuvLoop     # model-check one run
    tlapm RbuvLoopProofs.tla                              # check one proof module

## 1. Inventory of the system

| Part | Source | State | Operations | Correct when |
|---|---|---|---|---|
| Loop | `rbuv_loop.c` | libuv loop, `run_mode`, `requests` | `_run`, `stop`, `update_time`, queries | `run_mode` tells whether `uv_run()` is on the stack; a default run drains; stop ends the run it was made in and no other |
| dispose, run_and_dispose | `loop.rb:93-111` | none of its own | close everything, `run_nowait`, raise if something is left | everything is closed, and it comes back |
| next_tick, run with a block | `loop.rb:26-87` | `@next_tick_handle`, `@next_tick_callbacks` | queue a block; the Idle block runs a batch and closes its handle | blocks are called once, in order, none is lost |
| Handle | `rbuv_handle.c` | `uv_handle` pointer, `cb_on_close` | `close`, `ref`, `unref`, queries, `on_close` | opened once, closed once, the block of the closing call is called once, no freed handle is reached |
| Timer, Idle, Prepare, Check, Poll, Signal | `rbuv_timer.c` ... `rbuv_signal.c` | one block each | `initialize`, `start`, `stop`, `repeat=`, callback | a block is called only while its handle is started; a start after a close harms no other handle |
| Async | `rbuv_async.c` | a block | `send` from any thread | every send is followed by a call of the block; no thread reaches a freed handle |
| Stream, Tcp | `rbuv_stream.c`, `rbuv_tcp.c` | blocks for connection, read, connect; `requests` | listen, accept, read, write, shutdown, bind, connect | each request's block is called once, in order and before the close; a request object is kept while libuv uses it |
| Requests, getaddrinfo | `rbuv_request.c`, `rbuv_write.c`, `rbuv_shutdown.c`, `rbuv_getaddrinfo.c` | libuv request, block; registered with its loop or stream | constructor, cancel, worker threads, completion | reported once; registered and allocated as long as libuv uses it; cancel takes effect or fails |
| Mark and free functions | `rbuv_handle.c:48-77`, `rbuv_loop.c:78-99`, `rbuv_request.c:17-24` | which object keeps which | mark, free, in any order | no callback and no method meets freed memory |
| Initialisation, errors, debug, build, examples, specs | rest | constants | none | not of interest here |

**How they interact.** `rbuv_loop_run` sets `run_mode`, releases Ruby's global
lock (GVL) and enters `uv_run()`. libuv walks its phases and, for each handle
whose turn it is, calls a C callback, which takes the GVL back and calls the
Ruby block. The block may do whatever the main program may: create, start, stop
and close handles, stop or dispose the loop. When it returns, `uv_run()` goes
on; when an exception escapes from it, the C frames of `uv_run()` are unwound
up to the `rb_ensure` of `rbuv_loop_run`, whatever they were in the middle of.
A close is a request: libuv finishes it at the end of an iteration and calls
`rbuv_handle_on_close`, which frees the libuv handle, clears the pointer and
calls the block of `close`. The loop object's `dispose` and `next_tick` are Ruby
code built from these calls.

**What is hard to test.** Exceptions in the middle of libuv's lists; handles
stopped, closed or started again by the block before theirs in the same phase;
handles started while they are being closed; a signal that
arrives between the start of its handle and the close of it; a request to stop
that no run clears; what one bounded iteration of `dispose` finishes when other
blocks run in it; blocks queued by queued blocks; and the order in which the
phases come; sends from other threads, cut in two by a loop that runs without
the GVL; writes, shutdowns and closes of a stream issued from the blocks of
earlier ones; connections accepted late, twice or not at all; cancels at every
stage of a request that a worker thread is busy with; and collections while the
loop's thread runs without the GVL. `PROJECT.json` lists each of these at its line under `hazards`,
with the properties that would notice it going wrong.

## 2. Modules

| Module | Models | Built on |
|---|---|---|
| `Libuv` | the part of libuv 1.7.3 the binding uses: one loop, its handles' flags, the closing list, signal pipe, stop flag and phases of `uv_run()` (external code) | |
| `RbuvHandle` | `rbuv_handle.c`: pointer, close block, close, ref, on_close | `Libuv` |
| `RbuvWatchers` | `initialize`, `start`, `stop`, callback of the six simple classes | `RbuvHandle` |
| `RbuvLoop` | `rbuv_loop.c` and `dispose`/`run_and_dispose`, with any Ruby program on top; the specification, its properties and the inductive invariant | `RbuvWatchers` |
| `HandleLifecycle` | abstract: what a handle promises | |
| `RbuvLoopLifecycle` | the refinement mapping from `RbuvLoop` to `HandleLifecycle` | both |
| `NextTick` | `loop.rb:26-43` on top of `RbuvLoop` | `RbuvLoop` |
| `RbuvAsync` | `rbuv_async.c` with the GVL and several Ruby threads; self-contained | |
| `RequestLife` | abstract: what a stream promises about its requests | |
| `RbuvStream` | one `Rbuv::Tcp`: connect, bind, read, write, shutdown, close and their callbacks, on libuv's `stream.c` | `RequestLife` |
| `RbuvListen` | the same object as a server or an accepted client: listen, accept, the connection block, the backlog, libuv's `uv__server_io` | `RbuvStream` |
| `RbuvRequest` | `rbuv_getaddrinfo.c` and `Request#cancel`, with libuv's thread pool; self-contained | |
| `RbuvGC` | mark and free functions of loop, handles and getaddrinfo requests, the collector and the program's references; self-contained | |
| `MCRbuvLoop`, `MCNextTick`, `MCRbuvAsync`, `MCRbuvListen`, `MCRbuvRequest`, `MCRbuvGC` | values for the constants: one set of model values per kind of handle; the symmetry of `RbuvGC` | |
| `RbuvLoopProofs`, `RbuvDisposeProofs`, `RbuvLifecycleProofs`, `RbuvAsyncProofs`, `RbuvRequestProofs`, `RbuvGCProofs`, `NextTickProofs`, `RbuvListenProofs` | the proofs | |

### State and code

| Variable | In the code |
|---|---|
| `handle_queue, active, refd, closing` | libuv's handle queue and the flags of each handle |
| `repeat, due` | the timers' repeat interval (zero or not) and whether the timeout has come; the clock itself is abstracted to an arbitrary set of timers that becomes due when libuv reads it (`Elapse`) |
| `closing_handles, finishing` | `loop->closing_handles`, and the local variable into which `uv__run_closing_handles` moves it |
| `pipe, lost` | signal messages in the pipe; messages read but never counted because an exception unwound the loop |
| `phase, work, at, cb` | where `uv_run()` is, what the current phase has still to visit, the watcher whose link a walk over idle, prepare or check handles will follow next, whose callback it is in |
| `created, uv_handle, cb_on_close` | the Ruby objects, their non-NULL pointers and close blocks |
| `revived` | handles started while they were closing (used by properties only) |
| `run_mode` | `rbuv_loop_t.run_mode` |
| `caller, target` | which Loop method of the main program is on the stack, and the handles a `dispose` has undertaken to close (the latter is used by properties only) |
| `next_tick_handle, next_tick_callbacks, batch, tick` | `@next_tick_handle`, `@next_tick_callbacks`, the local list of the idle block, the queued block being called |
| `issued, last` | numbers of blocks queued and begun (used by properties only) |
| `gvl`, `sending` | who holds the GVL; by thread, the handle of a send whose wakeup is not yet written |
| `async_handles, pending, wakeup, visit, taken` | `loop->async_handles`, the flags `uv_async_t.pending`, whether the wakeup descriptor is readable, what the walk of `uv__async_event` has still to look at, the handle whose flag it took and whose callback waits for the GVL |
| `owed, stranded` | handles sent to since their block began; those an exception left with a set flag (used by properties only) |
| `requests, cb_on_connect` | the fields of `rbuv_stream_t` and `rbuv_tcp_t` |
| `fd, connected, connect_req, reading, write_queue, completed, shutdown_req, shut` | the fields of `uv_stream_t` |
| `pos, cb` (RbuvStream) | which function of libuv handles the stream, whose block it has called |
| `listening, armed, accepted_fd, cb_on_connection` | the stream's callback is `uv__server_io`; the loop watches the socket; `uv_stream_t.accepted_fd` is set; the block |
| `backlog`, `mishap` | connections in the kernel; which of the accidents the properties except has happened (used by properties only) |
| `uv_req, cb_on_getaddrinfo, requests` (RbuvRequest) | non-NULL pointers, blocks, and the array `rbuv_loop_t.requests` |
| `pool, executing, cancelled, finished, notified, batch` | the thread pool's queue, what its threads are busy with, work replaced by `uv__cancelled`, `loop->wq`, the flag of `loop->wq_async`, the local list of `uv__work_done` |
| `executed, called, stranded` (RbuvRequest) | requests begun by a worker, those whose block was called, those an exception left registered (used by properties only) |
| `alive, garbage, held` | Ruby objects that exist, those the last mark did not reach, those the program refers to |
| `loop_mem, mem, pointer` | which memory of libuv is allocated, which objects have a non-NULL pointer to theirs |
| `unlinked` | the handle between `uv__finish_close` and `rbuv_handle_on_close` |
| `dirty, bad` | the loop became garbage before it was empty; who has used freed memory (used by properties only) |

An action is a whole method call or a whole step of `uv_run()` up to the next
call of a block. Between two Ruby calls the GVL is not released, so a method is
atomic with respect to other Ruby code. Three modules have other threads.
In `RbuvAsync` libuv's own steps come between the two halves of a send, so a send
is two actions, `Send` and `Wake`. In `RbuvRequest` the worker threads take and
finish requests at any moment, between the clearing of the flag (`Wake`) and the
taking of the list (`TakeFinished`) too. In `RbuvGC` a collection comes from any
Ruby thread while the loop's has given up the GVL. The arrival of a
Unix signal (`SignalArrives`) may come between any two steps. Methods that raise
before they change anything (a closed handle, a missing block) are not actions.

**Starting a closing handle.** No `start` asks whether the handle is being closed.
For polls and signals libuv asserts it, and the process ends (`event_start_closing`).
For idles, prepares, checks and timers libuv 1.7.3 asserts nothing on Unix: the
handle is active and linked again (`watcher_start`), `rbuv_handle_on_close` frees it
like that, and from then on whoever follows the link reads freed memory. What then
happens is undefined; the model lets it end the process (`use_after_free`, phase
`crashed`) or go on as if the memory were still there.

**Walks.** Idle, prepare and check handles are in a queue that libuv walks with
`QUEUE_FOREACH` while the blocks change it. `Unwatch` and `InsertHead` say what becomes
of the rest of the walk. A watcher stopped further on is not met, unless the one
the walk stands at was stopped before it: then the walk follows a link that is no longer kept
up. A watcher that is started goes to the head, where the walk does not come again,
unless it is the very one the walk stands at or meets.

`dispose` is two calls of the loop's API with a run in between, and is modelled
so: `Dispose`, `DisposeRuns`, the steps of `uv_run()`, `RunReturns`.

### Constants that name what a program does

`MayRaise` (exceptions escape from blocks), `StopsIdleLoop` (stop while no run is
active), `RearmsDue` (timer blocks make timers due at once), `StartsClosing`
(start of a handle that is being closed). They let a run or a theorem state the
condition under which its property holds; the run `any_program` allows all four.

`RbuvRequest` and `RbuvGC` leave one step each out of `Spec` and add it in a second
specification. `CancelAgain` (`SpecAnyCancel`) is a cancel of a request that was
cancelled and reported before; what libuv then does is undefined. `Collect` at
any moment (`SpecAnyMoment`) lets a collection fall between the moment libuv
takes a closed handle off its queue and the moment its callback has the GVL.
`Spec` is every program that does the one not, and every collection but these.

## 3. Properties

* `NoDanglingHandle`: whatever libuv still reaches has not been freed by
  `rbuv_handle_on_close`, but for the handles that were started while they were
  closing (`revived`): these may stay armed and linked. A message, a close or the walk itself never
  leads to freed memory through any other.
* `CloseStateAgrees`: the closes requested and libuv's lists agree; a closing handle is
  inactive unless it was started again; each close is queued at most once.
* `CloseNotForgotten`: every requested close is still going to be finished.
* `RunModeAgrees`: the guard against nested runs says exactly whether
  `uv_run()` is on the stack, however earlier runs ended.
* `NoBlockAfterStop`: after stop or close returned, the block is not called until the
  handle is started again, even by the phase that was about to. The exception is
  libuv's: a block that stops its own handle and then the next one in the queue.
* `RunDrains`, `DisposeClosesAll`: what a default run and dispose leave behind.
* `LifecycleHeld`: `RbuvLoop` implements `HandleLifecycle`.
* `StopEndsRun`, `CloseFinishes`, `DisposeEnds`: liveness.
* `TicksInOrder`, `DroppedByException`, `TickHandleIsCurrent`,
  `QueuedTickIsArmed`, `TickRuns`: next_tick.
* `NoUseAfterFree`, `NoSendLost`, `SendAnswered`: Async. A send is on its way to
  the block until the block begins, whatever the threads do.
* `RequestsHeld`: `requests` is exactly what libuv still uses, and exactly the
  requests whose block was not called.
* `ConnectHasBlock`: a connect in flight has a block, calls that raised included.
* `RequestsAreServed`: `RbuvStream` implements `RequestLife`: blocks once, in order,
  a shutdown after the writes before it, all of them before the close.
* `CloseCompletes`: a close is finished, whatever the blocks of the requests it
  cancels do.
* `ListenerHasBlock`, `WatchAgrees`, `AbortNeedsMishap`, `ConnectionsReported`: a
  server that is watched has a block; it is watched exactly when no connection
  waits for accept; libuv's assertions are not met; no connection is left
  in the kernel. Each names the accident that breaks it: an exception in
  the connection block, a second listen while a connection waits, an accept whose
  client cannot be configured, a listen that fails and succeeds when the
  macro repeats it, a listen of a stream that is being closed. Where the code has
  the defect, the exception says so; it is not claimed to be right.
* `NoRequestLost`, `RequestsProtected`, `StatusIsTrue`, `RequestsReported`: each
  request is in exactly one list of libuv or was reported; its object is
  registered, allocated and has its block while libuv uses it; a cancel that
  succeeds means that it was not resolved; all are reported in the end.
* `CallbackSafe`, `MethodSafe`, `FreeSafe`: callbacks and methods find their
  memory whatever is collected; the free functions, in any order, do too if
  nothing was left in the loop. `FreeOrderIrrelevant` drops that condition, as the
  comments in the code do; it does not hold (`freed_loop`).

## 4. Runs

| Run | Instance | Shows |
|---|---|---|
| `any_program` | 2 idle handles (interchangeable), 1 signal handle, modes default and once, all four flags on | type invariant, `NoDanglingHandle`, `CloseStateAgrees`, `RunModeAgrees`, `IInv`, `LifecycleHeld`, `NoBlockAfterStop` |
| `drain` | timer, prepare, poll, all modes, no exceptions, no starts of closing handles, with fairness | `CloseNotForgotten`, `RunDrains`, `DisposeClosesAll`, the three liveness properties |
| `ticks` | 2 next_tick handles, 1 Idle handle of the program in the same queue, 3 blocks, exceptions and stops, with fairness | `TicksInOrder`, `DroppedByException`, `TickHandleIsCurrent`, `QueuedTickIsArmed`, `TickRuns` |
| `async` | 2 Async handles, 2 sending threads, exceptions, with fairness | `NoUseAfterFree`, `NoSendLost`, `IInv`, `SendAnswered` |
| `tcp` | 1 Tcp as client, server or accepted, up to 4 requests, 2 waiting connections, exceptions, with fairness | `ListenTypeOK`, `RequestsHeld`, `ConnectHasBlock`, `ListenerHasBlock`, `WatchAgrees`, `AbortNeedsMishap`, `RequestsAreServed`, `CloseCompletes`, `ConnectionsReported` |
| `requests` | 4 requests, 2 worker threads, exceptions, with fairness | `TypeOK`, `NoRequestLost`, `RequestsProtected`, `StatusIsTrue`, `RequestsReported` |
| `collector` | 1 loop, 3 handles, 2 requests, symmetric | `CallbackSafe`, `MethodSafe`, `FreeSafe` |
| `exception_strands` | 2 idle handles, exceptions | **violation** of `RunDrains` |
| `tick_after_dispose` | dispose with a next_tick handle open | **violation** of `TickHandleUsable` |
| `cancel_finished` | 1 request, any cancel | **violation** of `OnlyPendingCancelled` |
| `gc_window` | 1 handle, collections at any moment | **violation** of `CallbackSafe` |
| `freed_loop` | 1 handle, given up with its loop | **violation** of `FreeOrderIrrelevant` |

The five violations are disagreements between the code and what its own comments
and specs say; `PROJECT.json` describes each under `findings`. In short: an
exception in a close block strands the other closes of that iteration; after
`dispose` the loop's `next_tick` raises for ever; `cancel` succeeds for a request that
was reported as cancelled already; a handle whose close is being finished is marked
by nobody; and a handle that was not closed is freed while its loop still links it,
so that freeing the loop reads freed memory.

More are known and have no run of their own, because a property or a theorem states
their condition:

* `stop` on an idle loop is kept: the next bounded run returns before its first
  iteration, against `rbuv_loop.c:169-171`, and the next `dispose` raises (a hypothesis
  of `DisposeCloses`).
* A signal that is trapped and not read, or whose block raised, keeps the close of its
  handle waiting while nothing keeps the loop alive: `dispose` raises (a
  hypothesis of `DisposeCloses` and `DefaultRunDrains`).
* An exception in an Async block leaves other handles with a set flag and no wakeup;
  until another handle is sent to, they are not called, however often they are
  sent to, against `rbuv_async.c:82-83` (`stranded`, excepted by `NoSendLost` and
  `SendAnswered`).
* An Idle, Prepare or Check block that stops and starts its own handle sends the walk
  round again, so that others are called twice in one iteration, against
  `rbuv_idle.c:80` (`InsertHead`).
* A listen that succeeds when the checking macro repeats it leaves a server without
  a block, and an exception in a connection block makes the next run end the process
  (the mishaps `retried` and `unwound`).
* An exception in a queued block drops the rest of its batch (`DroppedByException`
  says that nothing else drops one); and a block queued by a timer block runs in
  the same iteration, as idle handles come after timers, although the
  documentation says the next one.

**Bounds.** Handles are never recycled, so an instance of n handles is every
program that creates at most n of them. Two handles of one kind are what it
takes for one block to interfere with the other handle of the same phase or of
the same closing list; one handle of a second kind puts code before or after
that phase. Three queued blocks (`MaxTicks`) are the fewest that give a batch
with a rest and a block queued from inside it; two tick handles allow a second
`Idle.new` after the first was closed. Two Async handles give a walk
with a rest, two senders a send that finds the flag of another one set. Four
requests (`MaxRequests`) are one being finished, one finished behind it, one
waiting and one issued by a block. A backlog of two (`MaxBacklog`) is a connection
behind the one that waits for accept. Four getaddrinfo requests for two workers
(`Threads`) leave one queued, and one whose block may act on each of the others.
Three handles and two requests (`collector`) let one be closed, one be forgotten
and one be used when the loop goes. Nothing else is bounded: runs may be
entered, stopped, unwound and repeated without limit. `collector` and
`any_program` use symmetry: handles, and requests, of one kind are
interchangeable. Neither checks liveness.

**Deadlock** is not checked. The system may really stop: the start of a closing
poll, or the use of a freed handle, ends the process, and a poll with nothing to wait for but a prepare
handle blocks for ever; a program may stop with all requests reported, and
libuv's assertion on an accepted connection ends it.

**Fairness.** `FairSpec` and `TickFairSpec` assume weak fairness of one action:
the steps of `uv_run()`, the methods already begun, and the return of blocks
taken together. It says that the thread inside the loop keeps running and that
blocks return. It does not assume that the main program calls anything, that
signals or i/o arrive, or that a poll ends which only an event could end
(`PollMustEnd`). Under it `StopEndsRun` holds as long as no timer block makes a
timer due at once: with `RearmsDue = TRUE` the timers phase need not end, because
libuv looks at the stop flag only between iterations. The same is true of a phase
whose watchers stop and start themselves in turn: libuv then never leaves its walk. `drain`
has one prepare handle and no starts of closing handles, which excludes this; for
`TickRuns` it does no harm, because `ticks` has one Idle handle next to that of `next_tick`
and a walk that goes round comes to the latter, too. `RbuvStream`'s `FairSpec`
is of the same kind: libuv's steps for the stream and returning blocks; it does
not say when a run ends; `RbuvListen`'s `ListenFairSpec` counts `uv__server_io`
among them, and does not assume that connections arrive or are accepted.
`RbuvRequest`'s says that workers, the loop and blocks go on, and that the
loop comes to `wq_async` although other handles have their turns before; that is
strong fairness of `Wake`, since `uv__async_event` looks at it in every poll.
`RbuvAsync`'s adds that a poll with closes to finish does not wait, that threads do not
keep the GVL for ever
and that the loop's thread gets it in the end; that is strong fairness, because
the GVL is taken and released by others meanwhile, and justified by Ruby, which
queues the threads that wait for it and makes the holder yield to them.

**Slips.** The operators whose names end in `_slip` are not part of the model.
Each is the definition after it with one plausible mistake (a missing guard, a
list not reset, a wrong run mode), and each property is violated when its slip
takes the place of the definition, which shows that the property depends on that
line.

## 5. Proofs

All for arbitrary sets of handles of any kinds, worker threads, blocks and modes, and
for any number of requests, queued blocks and waiting connections.

| Theorem | Statement | Hypotheses |
|---|---|---|
| `Invariance` | `Spec => []IInv` | none |
| `TypeCorrect` | `Spec => []TypeOK` | none |
| `NothingDangles` | `Spec => []NoDanglingHandle` | none |
| `ClosesAgree` | `Spec => []CloseStateAgrees` | none |
| `RunModeIsTrue` | `Spec => []RunModeAgrees` | none |
| `StopHolds` | `Spec => NoBlockAfterStop` | none |
| `ImplementsLifecycle` | `Spec => LifecycleHeld` | none |
| `AsyncInvariance` | `Spec => []IInv` (RbuvAsync) | none |
| `AsyncNotFreedInUse` | `Spec => []NoUseAfterFree` | none |
| `SendsAreNotLost` | `Spec => []NoSendLost` | none |
| `RequestTypeCorrect` | `Spec => []TypeOK` (RbuvRequest) | none |
| `RequestsAreNotLost` | `Spec => []NoRequestLost` | none |
| `RequestsAreProtected` | `Spec => []RequestsProtected` | none |
| `CancelTakesEffect` | `Spec => []StatusIsTrue` | none |
| `CallbacksAreSafe` | `Spec => []CallbackSafe` (RbuvGC) | none |
| `MethodsAreSafe` | `Spec => []MethodSafe` | none |
| `FreeingIsSafe` | `Spec => []FreeSafe` | none |
| `ClosesNotForgotten` | `Spec => []CloseNotForgotten` | no exceptions |
| `DisposeCloses` | `Spec => DisposeClosesAll` | no exceptions, no stop of an idle loop, no signal handles |
| `DefaultRunDrains` | `Spec => RunDrains` | no exceptions, no signal handles |
| `TickInvariance` | `TickSpec => [](IInv /\ TickInv)` (NextTick) | none |
| `TicksAreInOrder` | `TickSpec => []TicksInOrder` | none |
| `TickHandleCurrent` | `TickSpec => []TickHandleIsCurrent` | none |
| `QueuedTickArmed` | `TickSpec => []QueuedTickIsArmed` | none |
| `OnlyExceptionsDrop` | `TickSpec => DroppedByException` | none |
| `NothingIsDropped` | a block leaves the lists only by being begun | no exceptions |
| `TicksBeginOnce` | `last` only grows, up to `issued` | none |
| `ListenInvariance` | `ListenSpec => []ListenInv` (RbuvListen) | none |
| `ListenTypeCorrect` | `ListenSpec => []ListenTypeOK` | none |
| `RequestsAreHeld` | `ListenSpec => []RequestsHeld` | none |
| `ConnectIsReported` | `ListenSpec => []ConnectHasBlock` | none |
| `ListenerReports` | `ListenSpec => []ListenerHasBlock` | none |
| `ListenerIsWatched` | `ListenSpec => []WatchAgrees` | none |
| `AbortIsExplained` | `ListenSpec => []AbortNeedsMishap` | none |
| `StreamServesRequests` | `ListenSpec => RequestsAreServed` | none |
| `StreamServesInOrder` | `ListenSpec => []ServedInOrder` | none |

The assumptions on constants are the named ones of the modules: every handle has
a kind, `None` is neither a handle nor a block, modes and flags have their types,
the handles `next_tick` may create are Idle handles, and the bounds are numbers (that
on the backlog not zero).

`NoDanglingHandle` is not inductive. That the callback of a freed handle is not
called needs to know what `work` holds in each phase, which needs `finishing`
to be empty outside the closing phase, which needs closing handles to be
inactive or revived, and that a handle whose close is queued has no signal message left.
`IInv` is the conjunction of these: `TypeOK`, `NoDanglingHandle`,
`CloseStateAgrees`, `RunModeAgrees`, `WorkOfPhase`, `CallbackOfPhase`,
`QueuedNotTrapped`, `RevivedIsClosed`, `CrashedInRuby`. `WorkOfPhase` says that a stopped
watcher is left in a walk only while the walk stands at a stopped one; `UnwatchKeeps` and
`WatcherStartIInv` prove it of the two changes a block can make to the walk, and
`StopHolds` has its exception from it. `RevivedIsClosed` bounds the exception of
`NoDanglingHandle`: what is active and freed was started while it was closing, and only
handles of the four kinds that libuv does not check. Four lemmas prove it for the calls about
handles, the calls about the loop, the steps of `uv_run()` and the blocks that
begin and end.

`RbuvDisposeProofs` adds `CloseInv` (nothing was dropped from the signal pipe, and
every closing handle is accounted for), `NoStaleStop` (an auxiliary fact: no run begins
with the stop flag set, which the hypotheses allow) and `DisposeInv` (where the targets of a
dispose are at each phase of its run), both relative to `IInv`. Its hypotheses
are needed: the violation run `exception_strands` is what happens without the first, and section 4
says what happens without the others.

`ImplementsLifecycle` maps every action to `Open`, `RequestClose`,
`RequestCloseAll`, `Finish`, `BlockOver` or a stutter, with `IInv` supplying that
the object's pointer and libuv's handle queue agree.

`RbuvAsync`'s `IInv` adds to its two properties `FlagIsSeen` (a set flag is always
seen by somebody: the wakeup is readable, the walk has still to come by, a send
is about to write the wakeup, or an exception stranded it) and `OfPhase` (what each
phase may hold; a send holds the GVL). `Send` needs `FlagIsSeen` where the flag
was set already; that nothing is freed under a sender is `OfPhase`: `OnClose`
needs the GVL.

`RbuvRequest`'s `IInv` is the four properties with `BlockIsCalled` (the request
whose block runs was taken off its list, which `Return` needs to unregister it
alone) and `QueuedIsUntouched` (what is queued was neither begun nor cancelled,
which is why `Take` and `Cancel` exclude each other).

`RbuvGC`'s `IInv` turns on whether the last mark reached the loop. If it did,
everything on libuv's lists is alive and allocated (`Kept`); if it did not,
the program has nothing left that leads to the loop (`Lost`), so that nobody can
bring a list back to life between the mark and the last free function. `Lists`
and `Stack` say which lists a request or a closed handle is on. `CollectSafely` is
where the window of `gc_window` matters: `Kept` covers a handle in `unlinked` only
because no mark falls there.

`NextTickProofs` needs `IInv` under `TickNext`, too: `next_tick` creates and starts its
handle in one step, and starts or closes it from inside the idle block. `TickInv` then
adds what ties the list to the handle. `TickHandleIsCurrent` alone is not inductive:
that the block which begins is the one of the remembered handle needs
`OnlyCurrentFires` (no other of these handles is active unless it was started while it was
closing, and none has a close block to be entered through). A handle so started may
call its block once more after the loop object has forgotten it; with nothing queued
`nil.close` then raises, which is the action `TickBlockFails`. `TicksInOrder` needs `BatchInBlock`: when the idle block takes
the list, no batch is left that could come behind it, because an exception that left
the idle block took its batch along. `QueuedInOrder` is the order said of the two
lists apart, which the lemmas about lists turn into the order of both. All steps in
which `next_tick` has no part are proved to keep its handles (`HandlesKept`) and its
block (`BlockKept`), and that is all the invariant asks of them. `LeavesLists` names
the two ways out of the lists; both `OnlyExceptionsDrop` and, for programs without
exceptions, `NothingIsDropped` follow from it.

`RbuvListenProofs` is about `ListenSpec`, whose steps include all those of
`RbuvStream`. `ListenInv` has three parts. `RequestInv`: `RequestsHeld` counts the two
queues of writes and the shutdown as sets, which is preserved only if no number is
twice in them; `InOrder` says why (both queues ascend, the finished ones are
before the others, shutdowns are in neither). `SocketInv`: `ConnectHasBlock` with how far
a close has come (`StageOfClose`): after the writes are cancelled the queue stays
empty, since a write needs a socket, which a closing stream has only as a listener. `ServerInv`:
`WatchAgrees` and `AbortNeedsMishap` with the fact that a listener is watched all along
`uv__server_io`, so that only an exception can leave that function with a connection
unaccepted and the socket watched. `OpenSocket` says that a stream which is
being closed has a socket only if it was told to listen meanwhile. Five lemmas about queues (append, concatenation,
head and tail) carry the sequences; the steps use only the sets they give.

`StreamServesRequests` maps `Write` and `Shutdown` to `Issue`, `OnWrite` and `OnShutdown`
to `Call` of the oldest finished write or of the shutdown, the end of a close to
`Disappear`, and all else, listening included, to a stutter. `InOrder` supplies the order
that `Call` asks for, `StageOfClose` that no request is held when the pointer is cleared.
`StreamServesInOrder` states what `RequestLife` amounts to as an invariant.

**Only model-checked:** the liveness properties (`StopEndsRun`, `CloseFinishes`,
`DisposeEnds`, `TickRuns`, `SendAnswered`, `CloseCompletes`, `ConnectionsReported`,
`RequestsReported`), because fairness and `ENABLED` are out of the prover's reach. Every
safety and action property that a passing run checks is also proved.

## 6. Not modelled, and approximations

* Initialisation, constants, errors, debug output and the build keep no state.
  `Loop.default` and the shortcuts `Rbuv.run` and `Rbuv.stop` are one loop more.
* Loops other than one. Loops share no state but the process's signal pipe ends,
  and each loop has its own.
* Threads: one Ruby thread, except in `RbuvAsync` and `RbuvGC`. Only `send` is called
  from other threads in the first, which is what its documentation allows; only
  collections come from them in the second.
* A listening stream is not read from, written to or shut down, a stream that was
  a client does not listen, and a client that was used, or is closing, is not
  passed to `accept`: libuv answers with assertions, or leaks a descriptor. A listen of
  a stream that is closing is modelled: it opens a socket that trips an
  assertion of `uv__stream_destroy`, or leaks (`Abort`, `CloseReopened`). The
  client's state after `accept` is that of `AcceptedBy`; the pair is not modelled
  together, as the two share nothing afterwards. An `accept` without an
  argument that fails leaves a client object nobody refers to.
* The options and addresses of a Tcp (`enable_nodelay`, `enable_keepalive`,
  `getsockname`, `getpeername`) are data.
* Requests are made and cancelled by the loop's thread, as the rest of the loop is
  used. After an exception in a getaddrinfo block libuv still counts the
  request as active, so that a default run no longer ends; `RbuvRequest` lets any
  run end, and keeps such requests in `stranded`. The list of addresses that
  leaks then is memory only.
* `RbuvGC` takes a mark as one step, although it walks a queue that the loop's
  thread may be changing; objects captured by blocks count as held; requests of
  streams, which their stream marks, are left out; exit is a program that
  forgets everything at once.
* `RbuvStream` has one stream. What other handles do shows as the order and the
  moment in which libuv comes to this one; an exception in one of their blocks
  shows as the end of a run. Whether the socket is readable or
  writable, and what the network answers, is free.
* `connect` and `bind` on a stream that is closing, and `read_start` without a
  socket, fail an assertion of libuv and end the process; they are left out.
* `rbuv_stream_on_write_no_gvl` and its twin for shutdown read the handle through
  the request they have just freed. The model takes the value that was there,
  which is what they read with glibc's allocator.
* libuv is modelled from how the binding uses it. Lists are sets, so a phase
  visits its handles in any order, and a walk that is disturbed meets any of the
  watchers that libuv's order could lead it to.
* A handle that was freed while it was linked, or anything next to it, may be used with no
  visible effect or end the process. Other outcomes of the undefined behaviour (memory that
  was given to another object meanwhile) are left out; so the theorems that hold
  after such a use are about the runs that were lucky.
* Several messages of one signal for one handle count as one: whether a handle
  has undispatched signals is all that its close looks at.
* `initialize` that fails (a bad descriptor) raises and leaves the object as it
  was; calls of libuv made by `start` are assumed to succeed.
* The symbol `:not_running` given as a run mode defeats the guard against nested
  runs; it is left out of `Mode` because a nested `uv_run()` is outside libuv's
  contract.
* Time, descriptors, signal numbers and the arguments of blocks are data that no
  property looks at. `Loop#now`, which truncates the clock to 32 bits, is listed
  as a hazard.
* The main program does not rescue an exception inside `run` other than by
  leaving the method: after `Raise` control is back in the main program (or in
  the `ensure` of `run_and_dispose`).

## 7. Plan

1. (done) `Libuv`, `RbuvHandle`, `RbuvWatchers`, `RbuvLoop` with dispose; the
   invariant and its proof; the refinement of `HandleLifecycle`; `NextTick`.
2. (done) `RbuvAsync` with its proofs; `RbuvStream`, which implements `RequestLife`.
3. (done) `RbuvListen`: listen and accept, and the macro that makes a failing call
   twice.
4. (done) `RbuvRequest`: getaddrinfo's registration, completion and cancel on the
   thread pool.
5. (done) `RbuvGC`: which object marks which, and the free functions in any order.
6. (done) Proofs of `RbuvRequest` and `RbuvGC`.
7. (done) Proofs of `NextTick` and `RbuvListen`, with the refinement of `RequestLife`.
8. (done) Starts of closing handles and streams, and walks that blocks disturb.
9. Proofs about programs that use `next_tick`: that `stop`, `close` and `dispose` keep
   their promises there, too, and that only a `dispose` makes its handle unusable.
