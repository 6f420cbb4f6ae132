------------------------------- MODULE RbuvGC -------------------------------
(***************************************************************************)
(* What Ruby's collector does to a loop, its handles and its getaddrinfo   *)
(* requests.  Each is a Ruby object with memory of libuv behind it; mark   *)
(* functions say which object keeps which, and free functions, called in   *)
(* any order and some time after the mark, look at each other's memory.    *)
(*                                                                         *)
(* `held` is what the program refers to from elsewhere: variables, the     *)
(* stack, and what blocks capture.  The collector runs in whatever Ruby    *)
(* thread allocates, hence also in others while the loop's thread is in    *)
(* uv_run() without the GVL.                                               *)
(***************************************************************************)
CONSTANTS Loop,      \* a loop other than Loop.default, which is never collected
          Handle, Request,
          None

ASSUME ObjectsAssumption ==
  Loop \notin Handle \cup Request /\ Handle \cap Request = {}
    /\ None \notin {Loop} \cup Handle \cup Request

VARIABLES
  alive,         \* Ruby objects whose free function has not run
  garbage,       \* those that the last mark did not reach
  held,
  loop_mem,      \* the uv_loop_t is allocated
  mem,           \* handles and requests whose libuv structure is allocated
  pointer,       \* those whose object's pointer to it is not NULL
  handle_queue,  \* loop->handle_queue
  closing,       \* UV_CLOSING
  requests,      \* rbuv_loop_t.requests
  working,       \* requests on the thread pool
  finished,      \* requests to be reported
  running,       \* uv_run() is on the stack
  unlinked,      \* handle taken off the queue by uv__finish_close, callback not begun
  cb,            \* object whose block is being called
  created,       \* objects ever made
  dirty,         \* the loop became garbage with handles or requests of its own
  bad            \* who has used freed memory

objVars == <<alive, garbage, held, created>>
memVars == <<loop_mem, mem, pointer>>
uvVars  == <<handle_queue, closing, requests, working, finished>>
runVars == <<running, unlinked, cb>>
vars    == <<objVars, memVars, uvVars, runVars, dirty, bad>>

Init ==
  /\ alive = {Loop} /\ garbage = {} /\ held = {Loop} /\ created = {Loop}
  /\ loop_mem = TRUE /\ mem = {} /\ pointer = {}
  /\ handle_queue = {} /\ closing = {}
  /\ requests = {} /\ working = {} /\ finished = {}
  /\ running = FALSE /\ unlinked = None /\ cb = None
  /\ dirty = FALSE /\ bad = {}

\* The loop's thread executes Ruby code; otherwise other threads may.
Ruby == running => cb # None

-----------------------------------------------------------------------------
(* Marking.                                                                *)

\* rbuv_loop_run's self and the arguments of the block being called are on the stack.
Roots == held \cup (IF running THEN {Loop} ELSE {}) \cup (alive \cap {cb})

\* Slip: the loop does not mark its handles (CallbackSafe).
Marked_queue_slip ==
  LET loopReached == Loop \in Roots \/ Roots \cap pointer # {}
  IN  Roots \cup (IF loopReached THEN {Loop} \cup requests ELSE {})

\* Slip: handles do not mark their loop (MethodSafe).
Marked_loop_slip ==
  LET loopReached == Loop \in Roots \/ Roots \cap pointer \cap Request # {}
  IN  Roots \cup (IF loopReached THEN {Loop} \cup handle_queue \cup requests ELSE {})

\* A handle or request whose pointer is not NULL marks its loop; the loop marks what
\* libuv's queue of handles and its array of requests contain.
Marked ==
  LET loopReached == Loop \in Roots \/ Roots \cap pointer # {}
  IN  Roots \cup (IF loopReached THEN {Loop} \cup handle_queue \cup requests ELSE {})

\* A collection begins when the sweep of the one before is over.
Collect ==
  /\ garbage = {}
  /\ garbage' = alive \ Marked
  /\ dirty' = (dirty \/ (Loop \in garbage' /\ handle_queue \cup working \cup finished # {}))
  /\ UNCHANGED <<alive, held, created, memVars, uvVars, runVars, bad>>

\* The loop's thread collects, or another one while uv_run() waits or is busy
\* elsewhere than between taking a handle off its queue and the call of its block.
CollectSafely == unlinked = None /\ Collect

-----------------------------------------------------------------------------
(* The program.                                                            *)

\* initialize of a handle.
NewHandle(h) ==
  /\ Ruby /\ Loop \in held /\ h \notin created
  /\ handle_queue' = handle_queue \cup {h}
  /\ alive' = alive \cup {h} /\ held' = held \cup {h} /\ created' = created \cup {h}
  /\ mem' = mem \cup {h} /\ pointer' = pointer \cup {h}
  /\ UNCHANGED <<garbage, loop_mem, closing, requests, working, finished, runVars, dirty, bad>>

\* initialize of a request.
NewRequest(r) ==
  /\ Ruby /\ Loop \in held /\ r \notin created
  /\ requests' = requests \cup {r} /\ working' = working \cup {r}
  /\ alive' = alive \cup {r} /\ held' = held \cup {r} /\ created' = created \cup {r}
  /\ mem' = mem \cup {r} /\ pointer' = pointer \cup {r}
  /\ UNCHANGED <<garbage, loop_mem, handle_queue, closing, finished, runVars, dirty, bad>>

\* Any method that goes through the pointer of an object: loop, inspect, start, cancel ...
Use(x) ==
  /\ Ruby /\ x \in held \cap pointer
  /\ bad' = IF x \in mem /\ loop_mem THEN bad ELSE bad \cup {"method"}
  /\ UNCHANGED <<objVars, memVars, uvVars, runVars, dirty>>

Close(h) ==
  /\ Ruby /\ h \in held \cap pointer /\ h \notin closing
  /\ closing' = closing \cup {h}
  /\ UNCHANGED <<objVars, memVars, handle_queue, requests, working, finished, runVars, dirty, bad>>

Forget(x) ==
  /\ held' = held \ {x} /\ held' # held
  /\ UNCHANGED <<alive, garbage, created, memVars, uvVars, runVars, dirty, bad>>

\* The program gets hold of an object: handle.loop, loop.handles, a block's argument.
Obtain(x) ==
  /\ x \in Marked /\ x \notin held
  /\ held' = held \cup {x}
  /\ UNCHANGED <<alive, garbage, created, memVars, uvVars, runVars, dirty, bad>>

Run ==
  /\ ~running /\ Loop \in held
  /\ running' = TRUE
  /\ UNCHANGED <<objVars, memVars, uvVars, unlinked, cb, dirty, bad>>

RunReturns ==
  /\ running /\ cb = None /\ unlinked = None
  /\ running' = FALSE
  /\ UNCHANGED <<objVars, memVars, uvVars, unlinked, cb, dirty, bad>>

-----------------------------------------------------------------------------
(* The free functions.                                                     *)

Swept(x) == alive' = alive \ {x} /\ garbage' = garbage \ {x} /\ UNCHANGED <<held, created>>

\* rbuv_handle_free.  It looks for its loop in libuv's memory, closes the handle if
\* nobody did, and frees it in either case, although it may be on libuv's queue.
FreeHandle(h) ==
  /\ h \in garbage \cap Handle
  /\ Swept(h)
  /\ mem' = IF h \in pointer THEN mem \ {h} ELSE mem
  /\ pointer' = pointer \ {h}
  /\ closing' = IF h \in pointer /\ Loop \in alive THEN closing \cup {h} ELSE closing
  /\ bad' = IF h \in pointer /\ ~(h \in mem /\ loop_mem) THEN bad \cup {"free"} ELSE bad
  /\ UNCHANGED <<loop_mem, handle_queue, requests, working, finished, runVars, dirty>>

\* rbuv_getaddrinfo_free.
FreeRequest(r) ==
  /\ r \in garbage \cap Request
  /\ Swept(r)
  /\ mem' = IF r \in pointer THEN mem \ {r} ELSE mem
  /\ pointer' = pointer \ {r}
  /\ UNCHANGED <<loop_mem, uvVars, runVars, dirty, bad>>

\* rbuv_loop_free walks the queue and closes the handles whose object still exists;
\* their pointers become NULL and their memory is lost.  Those that are closing keep
\* theirs.  That uv_loop_close refuses a loop in use is ignored.
FreeLoop ==
  /\ Loop \in garbage
  /\ Swept(Loop)
  /\ LET closed == (handle_queue \cap alive \cap pointer) \ closing
     IN  pointer' = pointer \ closed /\ closing' = closing \cup closed
  /\ loop_mem' = FALSE
  /\ bad' = IF handle_queue \subseteq mem THEN bad ELSE bad \cup {"free"}
  /\ UNCHANGED <<mem, handle_queue, requests, working, finished, runVars, dirty>>

-----------------------------------------------------------------------------
(* libuv and its callbacks.                                                *)

InLoop == running /\ cb = None /\ unlinked = None

\* A callback finds its object through libuv's memory.
Reach(x) == bad' = IF x \in alive \cap mem THEN bad ELSE bad \cup {"callback"}

\* A worker thread has the answer, whether or not a run goes on.
WorkerFinishes(r) ==
  /\ r \in working
  /\ working' = working \ {r} /\ finished' = finished \cup {r}
  /\ bad' = IF r \in mem /\ loop_mem THEN bad ELSE bad \cup {"worker"}
  /\ UNCHANGED <<objVars, memVars, handle_queue, closing, requests, runVars, dirty>>

\* The callback of an active handle.
OnEvent(h) ==
  /\ InLoop /\ h \in handle_queue \ closing
  /\ Reach(h)
  /\ cb' = h
  /\ UNCHANGED <<objVars, memVars, uvVars, running, unlinked, dirty>>

\* The callback of a request.
OnGetaddrinfo(r) ==
  /\ InLoop /\ r \in finished
  /\ Reach(r)
  /\ finished' = finished \ {r}
  /\ cb' = r
  /\ UNCHANGED <<objVars, memVars, handle_queue, closing, requests, working, running, unlinked, dirty>>

\* uv__finish_close, without the GVL.
FinishClose(h) ==
  /\ InLoop /\ h \in handle_queue \cap closing
  /\ handle_queue' = handle_queue \ {h}
  /\ unlinked' = h
  /\ UNCHANGED <<objVars, memVars, closing, requests, working, finished, running, cb, dirty, bad>>

\* Slip: the pointer is not set to NULL (FreeSafe).
OnClose_slip ==
  /\ unlinked # None
  /\ Reach(unlinked)
  /\ mem' = mem \ {unlinked}
  /\ unlinked' = None /\ cb' = unlinked
  /\ UNCHANGED <<objVars, loop_mem, pointer, uvVars, running, dirty>>

\* rbuv_handle_on_close, with the GVL, and the block.
OnClose ==
  /\ unlinked # None
  /\ Reach(unlinked)
  /\ mem' = mem \ {unlinked} /\ pointer' = pointer \ {unlinked}
  /\ unlinked' = None /\ cb' = unlinked
  /\ UNCHANGED <<objVars, loop_mem, uvVars, running, dirty>>

\* The block returns; that of a request is followed by the end of the request.
Return ==
  /\ cb # None
  /\ cb' = None
  /\ requests' = requests \ {cb}
  /\ mem' = mem \ ({cb} \cap Request) /\ pointer' = pointer \ ({cb} \cap Request)
  /\ UNCHANGED <<objVars, loop_mem, handle_queue, closing, working, finished,
                 running, unlinked, dirty, bad>>

Raise ==
  /\ cb # None
  /\ cb' = None /\ running' = FALSE
  /\ UNCHANGED <<objVars, memVars, uvVars, unlinked, dirty, bad>>

Program ==
  \/ Run \/ RunReturns \/ Return \/ Raise
  \/ \E h \in Handle : NewHandle(h) \/ Close(h)
  \/ \E r \in Request : NewRequest(r)
  \/ \E x \in created : Use(x) \/ Forget(x) \/ Obtain(x)

Sweep == FreeLoop \/ \E x \in garbage : FreeHandle(x) \/ FreeRequest(x)

Libuv ==
  \/ OnClose
  \/ \E h \in Handle : OnEvent(h) \/ FinishClose(h)
  \/ \E r \in Request : WorkerFinishes(r) \/ OnGetaddrinfo(r)

Next == Program \/ Sweep \/ Libuv \/ CollectSafely

Spec == Init /\ [][Next]_vars

\* Other threads collect at any moment at which the loop's thread has no GVL.
SpecAnyMoment == Init /\ [][Next \/ Collect]_vars

-----------------------------------------------------------------------------
(* Properties.                                                             *)

\* Every callback of libuv finds its object and its memory, also when the program has
\* forgotten all it ever made: what libuv has on its lists is marked by the loop,
\* and the loop by its run.
CallbackSafe == "callback" \notin bad

\* A method of an object that the program can still call finds the memory of the
\* object and of its loop, collections and closes in any order.
MethodSafe == "method" \notin bad

\* The free functions, in any order, and the worker threads use freed memory only if
\* the program let go of a loop with handles it had not closed or requests that were
\* pending: a loop that was disposed is collected safely.
FreeSafe == bad # {} => dirty

\* What the comments in rbuv_handle.c and rbuv_loop.c say of a loop that is collected
\* with handles: each of the two free functions can do with what the other has left.
FreeOrderIrrelevant == "free" \notin bad
=============================================================================
