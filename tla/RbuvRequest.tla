---------------------------- MODULE RbuvRequest ----------------------------
(***************************************************************************)
(* Rbuv::GetaddrinfoRequest and Request#cancel.  The constructor hands a   *)
(* request to libuv, whose worker threads resolve names while the loop's   *)
(* thread runs Ruby; the loop reports the result to the block.  In between *)
(* libuv holds a pointer into an object of Ruby, which only the `requests` *)
(* array of the loop keeps from the collector.                             *)
(*                                                                         *)
(* Requests are made and cancelled by the loop's thread.  libuv's part is  *)
(* src/threadpool.c of release 1.7.3.  Its wakeup handle wq_async is the   *)
(* first of the loop's async handles, so that no exception of an Async     *)
(* block comes between a wakeup and the look at wq_async's flag.           *)
(***************************************************************************)
EXTENDS Naturals, FiniteSets

CONSTANTS Request,        \* the requests a program may ever make
          Threads,        \* number of worker threads
          None, Other,    \* no block; a block of one of the loop's other handles
          MayRaise        \* may an exception escape from a block?

ASSUME RequestAssumption == None \notin Request \cup {Other} /\ Other \notin Request
ASSUME ThreadsAssumption == Threads \in Nat \ {0}
ASSUME RaiseAssumption == MayRaise \in BOOLEAN

VARIABLES
  created,            \* requests that initialize handed to libuv
  uv_req,             \* those whose pointer is not NULL
  cb_on_getaddrinfo,  \* those that still hold a block
  requests,           \* rbuv_loop_t.requests
  pool,               \* the worker threads' queue
  executing,          \* requests a worker is resolving
  cancelled,          \* uv__work.work is uv__cancelled
  finished,           \* loop->wq: to be reported
  notified,           \* wq_async has been sent to
  phase,              \* where uv_run() is, "none" outside it
  batch,              \* the list uv__work_done has taken
  cb,                 \* request whose block is being called
  executed, called,   \* requests a worker began; whose block was called
  stranded            \* what an exception left registered for ever

objVars  == <<created, uv_req, cb_on_getaddrinfo, requests>>
poolVars == <<pool, executing, executed>>
doneVars == <<cancelled, finished, notified>>
runVars  == <<phase, batch, cb, called, stranded>>
vars     == <<objVars, poolVars, doneVars, runVars>>

Init ==
  /\ created = {} /\ uv_req = {} /\ cb_on_getaddrinfo = {} /\ requests = {}
  /\ pool = {} /\ executing = {} /\ executed = {}
  /\ cancelled = {} /\ finished = {} /\ notified = FALSE
  /\ phase = "none" /\ batch = {} /\ cb = None
  /\ called = {} /\ stranded = {}

\* Ruby code executes: the main program outside a run, or a block.
Ruby == phase = "none" \/ cb # None

-----------------------------------------------------------------------------
(* The methods.                                                            *)

\* rbuv_getaddrinfo_initialize.  A worker may begin before it returns.
New(r) ==
  /\ Ruby /\ r \notin created
  /\ created' = created \cup {r}
  /\ uv_req' = uv_req \cup {r}
  /\ cb_on_getaddrinfo' = cb_on_getaddrinfo \cup {r}
  /\ requests' = requests \cup {r}
  /\ pool' = pool \cup {r}
  /\ UNCHANGED <<executing, executed, doneVars, runVars>>

\* Work that waits in some queue and was not done can be cancelled.
Cancellable == pool \cup (cancelled \cap (finished \cup batch))

\* Slip: the request leaves its queue and nobody reports it (NoRequestLost).
Cancel_slip(r) ==
  /\ Ruby /\ r \in uv_req /\ r \in Cancellable
  /\ pool' = pool \ {r} /\ batch' = batch \ {r}
  /\ cancelled' = cancelled \cup {r}
  /\ UNCHANGED <<objVars, executing, executed, finished, notified, phase, cb, called, stranded>>

\* Slip: the cancelled request is unregistered (RequestsProtected).
Cancel_frees_slip(r) ==
  /\ Ruby /\ r \in uv_req /\ r \in Cancellable
  /\ pool' = pool \ {r} /\ batch' = batch \ {r}
  /\ cancelled' = cancelled \cup {r}
  /\ finished' = finished \cup {r} /\ notified' = TRUE
  /\ requests' = requests \ {r}
  /\ UNCHANGED <<created, uv_req, cb_on_getaddrinfo, executing, executed, phase, cb, called, stranded>>

\* Slip: whatever waits for its report can be cancelled (StatusIsTrue).
Cancel_late_slip(r) ==
  /\ Ruby /\ r \in uv_req /\ r \in pool \cup finished \cup batch
  /\ pool' = pool \ {r} /\ batch' = batch \ {r}
  /\ cancelled' = cancelled \cup {r}
  /\ finished' = finished \cup {r} /\ notified' = TRUE
  /\ UNCHANGED <<objVars, executing, executed, phase, cb, called, stranded>>

\* rbuv_request_cancel.  Otherwise it raises and changes nothing.
Cancel(r) ==
  /\ Ruby /\ r \in uv_req /\ r \in Cancellable
  /\ pool' = pool \ {r} /\ batch' = batch \ {r}
  /\ cancelled' = cancelled \cup {r}
  /\ finished' = finished \cup {r} /\ notified' = TRUE
  /\ UNCHANGED <<objVars, executing, executed, phase, cb, called, stranded>>

\* The same for a cancelled request that was reported, or dropped, before it is
\* freed: it was taken off its list without emptying its links, so it looks queued.
CancelAgain(r) ==
  /\ Ruby /\ r \in uv_req /\ r \in cancelled \ Cancellable
  /\ finished' = finished \cup {r} /\ notified' = TRUE
  /\ UNCHANGED <<objVars, poolVars, cancelled, runVars>>

Run ==
  /\ phase = "none"
  /\ phase' = "poll"
  /\ UNCHANGED <<objVars, poolVars, doneVars, batch, cb, called, stranded>>

-----------------------------------------------------------------------------
(* The worker threads, at any time.                                        *)

Take(r) ==
  /\ r \in pool /\ Cardinality(executing) < Threads
  /\ pool' = pool \ {r}
  /\ executing' = executing \cup {r} /\ executed' = executed \cup {r}
  /\ UNCHANGED <<objVars, doneVars, runVars>>

Finish(r) ==
  /\ r \in executing
  /\ executing' = executing \ {r}
  /\ finished' = finished \cup {r} /\ notified' = TRUE
  /\ UNCHANGED <<objVars, pool, executed, cancelled, runVars>>

-----------------------------------------------------------------------------
(* uv_run().                                                               *)

\* uv__async_event finds the flag of wq_async set and clears it.
Wake ==
  /\ phase = "poll" /\ cb = None /\ notified
  /\ notified' = FALSE
  /\ phase' = "woken"
  /\ UNCHANGED <<objVars, poolVars, cancelled, finished, batch, cb, called, stranded>>

\* Slip: the flag is cleared once more after the list (RequestsReported).
WorkDone_slip ==
  /\ phase = "report" /\ cb = None /\ batch = {}
  /\ phase' = "poll"
  /\ notified' = FALSE
  /\ UNCHANGED <<objVars, poolVars, cancelled, finished, batch, cb, called, stranded>>

\* uv__work_done takes the whole list ...
TakeFinished ==
  /\ phase = "woken"
  /\ batch' = finished /\ finished' = {}
  /\ phase' = "report"
  /\ UNCHANGED <<objVars, poolVars, cancelled, notified, cb, called, stranded>>

\* ... and reports one after the other: rbuv_getaddrinfo_on_getaddrinfo takes the
\* block out of the object and calls it, with the addresses or with the error.
Report(r) ==
  /\ phase = "report" /\ cb = None
  /\ r \in batch /\ r \in cb_on_getaddrinfo
  /\ batch' = batch \ {r}
  /\ cb_on_getaddrinfo' = cb_on_getaddrinfo \ {r}
  /\ cb' = r
  /\ called' = called \cup {r}
  /\ UNCHANGED <<created, uv_req, requests, poolVars, doneVars, phase, stranded>>

WorkDone ==
  /\ phase = "report" /\ cb = None /\ batch = {}
  /\ phase' = "poll"
  /\ UNCHANGED <<objVars, poolVars, doneVars, batch, cb, called, stranded>>

\* Another handle's turn.
OtherBlock ==
  /\ phase = "poll" /\ cb = None
  /\ cb' = Other
  /\ UNCHANGED <<objVars, poolVars, doneVars, phase, batch, called, stranded>>

\* After the block: the request is unregistered and its memory freed.
Return ==
  /\ cb # None
  /\ cb' = None
  /\ requests' = requests \ {cb}
  /\ uv_req' = uv_req \ {cb}
  /\ UNCHANGED <<created, cb_on_getaddrinfo, poolVars, doneVars, phase, batch, called, stranded>>

\* Slip: the list survives the exception (TypeOK).
Raise_slip ==
  /\ MayRaise /\ cb # None
  /\ cb' = None
  /\ phase' = "none"
  /\ stranded' = stranded \cup (Request \cap {cb})
  /\ UNCHANGED <<objVars, poolVars, doneVars, batch, called>>

\* An exception leaves the block: what follows it in the callback and the rest of
\* the list, a local variable, are gone.
Raise ==
  /\ MayRaise /\ cb # None
  /\ cb' = None
  /\ phase' = "none" /\ batch' = {}
  /\ stranded' = stranded \cup batch \cup (Request \cap {cb})
  /\ UNCHANGED <<objVars, poolVars, doneVars, called>>

\* Nothing is left to do, a stop, or the mode of the run.
RunReturns ==
  /\ phase = "poll" /\ cb = None
  /\ phase' = "none"
  /\ UNCHANGED <<objVars, poolVars, doneVars, batch, cb, called, stranded>>

Worker   == \E r \in Request : Take(r) \/ Finish(r)
LoopStep == Wake \/ TakeFinished \/ WorkDone \/ \E r \in Request : Report(r)
Program  == Run \/ \E r \in Request : New(r) \/ Cancel(r)

Next == Program \/ Worker \/ LoopStep \/ OtherBlock \/ Return \/ Raise \/ RunReturns

\* Programs that do not cancel a request once more after its report has begun.
Spec == Init /\ [][Next]_vars

\* Programs that may.  What libuv does with such a request is undefined, as the
\* request is freed when its block returns; the behaviours end with its report.
SpecAnyCancel == Init /\ [][Next \/ \E r \in Request : CancelAgain(r)]_vars

\* Workers and the loop go on and blocks return.  The loop looks at wq_async in
\* every poll, however often other handles have their turn.
FairSpec ==
  /\ Spec
  /\ WF_vars(Worker)
  /\ WF_vars(TakeFinished \/ WorkDone \/ \E r \in Request : Report(r))
  /\ SF_vars(Wake)
  /\ WF_vars(Return)

-----------------------------------------------------------------------------
(* Properties.                                                             *)

\* The requests whose memory libuv will still use.
Held == pool \cup executing \cup finished \cup batch

TypeOK ==
  /\ Held \cup requests \cup uv_req \cup cb_on_getaddrinfo \subseteq created
  /\ cancelled \cup executed \cup called \cup stranded \subseteq created
  /\ created \subseteq Request
  /\ notified \in BOOLEAN
  /\ phase \in {"none", "poll", "woken", "report"}
  /\ cb \in Request \cup {None, Other}
  /\ batch # {} => phase = "report"

\* Every request is either in exactly one of libuv's lists, or its block was called,
\* or an exception of another block dropped it, cancels at any moment included.
NoRequestLost ==
  /\ created = Held \cup called \cup stranded
  /\ Held \cap (called \cup stranded) = {}
  /\ pool \cap (executing \cup finished \cup batch) = {}
  /\ executing \cap (finished \cup batch) = {}
  /\ finished \cap batch = {}

\* As long as libuv may write to a request or report it, the loop's array protects
\* its object and the object has its memory and a block.  Afterwards both are given
\* back, save for what an exception left.
RequestsProtected ==
  /\ Held \subseteq requests \cap cb_on_getaddrinfo
  /\ requests = uv_req
  /\ requests = Held \cup (created \cap {cb}) \cup stranded

\* cancel takes effect or fails: a request it succeeded for is never resolved, and one
\* that was resolved is not reported as cancelled.
StatusIsTrue == cancelled \cap executed = {}

\* Every request is reported while the loop runs, whatever workers, cancels and
\* other blocks do; or an exception ends the run or dropped it before.
RequestsReported ==
  \A r \in Request : (r \in Held /\ phase # "none") ~> (r \notin Held \/ phase = "none")

\* "Cancel a pending request": what waits to be reported was not reported before.
OnlyPendingCancelled == (finished \cup batch) \cap called = {}
=============================================================================
