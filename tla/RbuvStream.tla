---------------------------- MODULE RbuvStream ----------------------------
(***************************************************************************)
(* One Rbuv::Tcp object: connect, read, write, shutdown and close, with    *)
(* the requests it keeps in its `requests` array so that the collector     *)
(* does not free them while libuv uses them.                               *)
(*                                                                         *)
(* A program may call any of its methods from the main program, while the  *)
(* loop does not run, and from any block.  The loop has other handles too; *)
(* it may reach this one's socket and its close at any time and in any     *)
(* order, so readiness, polling and the network are nondeterministic.      *)
(* Methods that raise without changing anything are not actions.           *)
(*                                                                         *)
(* libuv's part is src/unix/stream.c of release 1.7.3: uv__stream_io and   *)
(* uv__stream_connect call several blocks one after the other, and what    *)
(* they do next after each depends on what that block did to the stream.   *)
(***************************************************************************)
EXTENDS Naturals, SequencesExt

CONSTANTS MaxRequests,   \* bound on the requests made
          MayRaise       \* may an exception escape from a block?

ASSUME StreamAssumption == MaxRequests \in Nat /\ MayRaise \in BOOLEAN

VARIABLES
  created,         \* initialize has run
  uv_handle,       \* the pointer is not NULL
  cb_on_connect,   \* whether it holds a block
  requests,        \* the requests in rbuv_stream_t.requests, by number
  fd,              \* there is a socket: connect created it, close has not closed it
  connected,
  connect_req,     \* a connect is in flight
  reading,         \* UV_STREAM_READING
  write_queue,     \* writes not yet finished
  completed,       \* write_completed_queue: finished, block not yet called
  shutdown_req,    \* the pending shutdown, 0 for none
  shut,            \* UV_STREAM_SHUT
  closing,         \* UV_CLOSING
  closed,          \* UV_CLOSED: uv__finish_close has begun
  running,         \* uv_run() is on the stack
  pos,             \* which function of libuv handles this stream, "wait" if none
  cb,              \* which block is being called, "none" if none
  issued, shutdowns, called   \* as in RequestLife; used by properties only

objVars  == <<created, uv_handle>>
sockVars == <<fd, connected, reading>>
reqVars  == <<requests, write_queue, completed, shutdown_req, shut, issued, shutdowns, called>>
connVars == <<cb_on_connect, connect_req>>
endVars  == <<closing, closed>>
runVars  == <<running, pos, cb>>
vars     == <<objVars, sockVars, reqVars, connVars, endVars, runVars>>

Init ==
  /\ created = FALSE /\ uv_handle = FALSE
  /\ cb_on_connect = FALSE /\ connect_req = FALSE
  /\ fd = FALSE /\ connected = FALSE /\ reading = FALSE
  /\ requests = {} /\ write_queue = <<>> /\ completed = <<>>
  /\ shutdown_req = 0 /\ shut = FALSE
  /\ closing = FALSE /\ closed = FALSE
  /\ running = FALSE /\ pos = "wait" /\ cb = "none"
  /\ issued = 0 /\ shutdowns = {} /\ called = {}

\* Ruby code executes: the main program outside a run, or a block.
Ruby == running => cb # "none"

-----------------------------------------------------------------------------
(* The methods.                                                            *)

New ==
  /\ Ruby /\ ~created
  /\ created' = TRUE /\ uv_handle' = TRUE
  /\ UNCHANGED <<sockVars, reqVars, connVars, endVars, runVars>>

\* connect: the block is stored before libuv is asked.
Connect ==
  /\ Ruby /\ uv_handle /\ ~closing
  /\ ~connect_req /\ ~connected
  /\ cb_on_connect' = TRUE
  /\ connect_req' = TRUE
  /\ fd' = TRUE
  /\ UNCHANGED <<objVars, connected, reading, reqVars, endVars, runVars>>

\* Slip: the block is dropped again because the call failed (ConnectHasBlock).
ConnectRaises_slip ==
  /\ Ruby /\ uv_handle
  /\ cb_on_connect' = FALSE
  /\ UNCHANGED <<objVars, sockVars, reqVars, connect_req, endVars, runVars>>

\* connect raises: a bad address, one in flight already, an error of the system
\* after the socket was created.  The block takes the place of the one there was.
ConnectRaises ==
  /\ Ruby /\ uv_handle
  /\ cb_on_connect' = TRUE
  /\ fd' \in {fd, fd \/ ~closing}
  /\ UNCHANGED <<objVars, connected, reading, reqVars, connect_req, endVars, runVars>>

\* bind creates the socket, too.
Bind ==
  /\ Ruby /\ uv_handle /\ ~closing
  /\ fd' = TRUE
  /\ UNCHANGED <<objVars, connected, reading, reqVars, connVars, endVars, runVars>>

\* Slip: the request is registered under another identity (TypeOK).
Register_slip(isShutdown) ==
  /\ issued < MaxRequests
  /\ issued' = issued + 1
  /\ shutdowns' = IF isShutdown THEN shutdowns \cup {issued'} ELSE shutdowns
  /\ requests' = requests \cup {issued' + 1}
  /\ UNCHANGED called

\* A request libuv has accepted is wrapped and pushed onto the array.
Register(isShutdown) ==
  /\ issued < MaxRequests
  /\ issued' = issued + 1
  /\ shutdowns' = IF isShutdown THEN shutdowns \cup {issued'} ELSE shutdowns
  /\ requests' = requests \cup {issued'}
  /\ UNCHANGED called

\* write.  uv_write fails without a socket; it tries at once if nothing is
\* queued before and no connect is in flight.
Write ==
  /\ Ruby /\ uv_handle /\ fd
  /\ Register(FALSE)
  /\ \/ write_queue' = Append(write_queue, issued') /\ UNCHANGED completed
     \/ /\ write_queue = <<>> /\ ~connect_req
        /\ completed' = Append(completed, issued') /\ UNCHANGED write_queue
  /\ UNCHANGED <<shutdown_req, shut, objVars, sockVars, connVars, endVars, runVars>>

\* shutdown.  uv_shutdown fails without a socket, after a shutdown and during one.
Shutdown ==
  /\ Ruby /\ uv_handle /\ fd
  /\ ~shut /\ shutdown_req = 0
  /\ Register(TRUE)
  /\ shutdown_req' = issued'
  /\ UNCHANGED <<write_queue, completed, shut, objVars, sockVars, connVars, endVars, runVars>>

\* read_start and read_stop.
Read(on) ==
  /\ Ruby /\ uv_handle /\ (on => fd)
  /\ reading' = on
  /\ UNCHANGED <<objVars, fd, connected, reqVars, connVars, endVars, runVars>>

\* Slip: reading goes on after close (CloseCompletes).
Close_slip ==
  /\ Ruby /\ uv_handle /\ ~closing
  /\ closing' = TRUE
  /\ fd' = FALSE
  /\ UNCHANGED <<objVars, reading, connected, reqVars, connVars, closed, runVars>>

\* close of the handle; libuv closes the socket at once and the rest later.
Close ==
  /\ Ruby /\ uv_handle /\ ~closing
  /\ closing' = TRUE
  /\ fd' = FALSE /\ reading' = FALSE
  /\ UNCHANGED <<objVars, connected, reqVars, connVars, closed, runVars>>

Run ==
  /\ ~running
  /\ running' = TRUE
  /\ UNCHANGED <<objVars, sockVars, reqVars, connVars, endVars, pos, cb>>

-----------------------------------------------------------------------------
(* The callbacks up to the call of the block.                              *)

\* rbuv_tcp_on_connect: takes the block out of the object and calls it.
on_connect ==
  /\ cb_on_connect' = FALSE
  /\ cb' = "connect"

\* Slip: the request stays in the array (RequestsHeld).
Complete_slip(r, block) ==
  /\ called' = called \cup {r}
  /\ cb' = block
  /\ UNCHANGED <<issued, shutdowns, requests>>

\* rbuv_stream_on_write and _on_shutdown: free the libuv request, delete the
\* request from the array, call its block.
Complete(r, block) ==
  /\ requests' = requests \ {r}
  /\ called' = called \cup {r}
  /\ cb' = block
  /\ UNCHANGED <<issued, shutdowns>>

on_write ==
  /\ completed # <<>>
  /\ completed' = Tail(completed)
  /\ Complete(Head(completed), "write")
  /\ UNCHANGED <<write_queue, shutdown_req, shut>>

on_shutdown ==
  /\ shutdown_req # 0
  /\ shutdown_req' = 0
  /\ Complete(shutdown_req, "shutdown")
  /\ UNCHANGED <<write_queue, completed>>

-----------------------------------------------------------------------------
(* libuv and the loop.                                                     *)

InLoop(p) == running /\ cb = "none" /\ pos \in p

\* uv__stream_connect: the connect succeeds, or fails.
Connected ==
  /\ InLoop({"wait"}) /\ connect_req /\ ~closing
  /\ connect_req' = FALSE
  /\ \/ connected' = TRUE /\ pos' = "wait"
     \/ connected' = FALSE /\ pos' = "refused"
  /\ on_connect
  /\ UNCHANGED <<objVars, fd, reading, reqVars, endVars, running>>

\* All writes queued fail.
Flush ==
  /\ completed' = completed \o write_queue
  /\ write_queue' = <<>>
  /\ UNCHANGED <<requests, shutdown_req, shut, issued, shutdowns, called>>

\* After a failed connect, unless its block closed the stream.
Refused ==
  /\ InLoop({"refused"})
  /\ IF fd THEN Flush /\ pos' = "flushed" ELSE UNCHANGED reqVars /\ pos' = "wait"
  /\ UNCHANGED <<objVars, sockVars, connVars, endVars, running, cb>>

\* uv__stream_io begins with uv__read, which goes on while the block wants more.
OnRead ==
  /\ InLoop({"wait", "read"})
  /\ pos = "wait" => fd /\ ~connect_req
  /\ reading
  /\ pos' = "read" /\ cb' = "read"
  /\ UNCHANGED <<objVars, sockVars, reqVars, connVars, endVars, running>>

\* Then uv__write, which finishes at most one write.
TryWrite ==
  /\ InLoop({"wait", "read"}) /\ fd /\ ~connect_req
  /\ \/ UNCHANGED <<write_queue, completed>>
     \/ /\ write_queue # <<>>
        /\ completed' = Append(completed, Head(write_queue))
        /\ write_queue' = Tail(write_queue)
  /\ pos' = "callbacks"
  /\ UNCHANGED <<objVars, sockVars, requests, shutdown_req, shut, issued, shutdowns, called,
                 connVars, endVars, running, cb>>

\* uv__write_callbacks, wherever it is called from, whatever its blocks do.
OnWrite ==
  /\ InLoop({"callbacks", "flushed", "cancel"})
  /\ on_write
  /\ UNCHANGED <<objVars, sockVars, connVars, endVars, running, pos>>

\* uv__drain, when everything queued is written: the shutdown, if one waits.
OnShutdown ==
  /\ InLoop({"callbacks"}) /\ completed = <<>> /\ write_queue = <<>>
  /\ ~closing
  /\ on_shutdown
  /\ shut' \in BOOLEAN
  /\ pos' = "wait"
  /\ UNCHANGED <<objVars, sockVars, connVars, endVars, running>>

\* uv__stream_io returns.
IoDone ==
  /\ \/ InLoop({"read"})
     \/ InLoop({"flushed"}) /\ completed = <<>>
     \/ /\ InLoop({"callbacks"}) /\ completed = <<>>
        /\ write_queue # <<>> \/ shutdown_req = 0 \/ closing
  /\ pos' = "wait"
  /\ UNCHANGED <<objVars, sockVars, reqVars, connVars, endVars, running, cb>>

\* uv__finish_close, uv__stream_destroy: a connect in flight is cancelled, its
\* block called first.  (libuv forgets it only after the block; in between the
\* flag makes a difference to nobody, since the stream is closing.)
FinishClose ==
  /\ InLoop({"wait"}) /\ closing /\ ~closed
  /\ closed' = TRUE
  /\ connect_req' = FALSE
  /\ IF connect_req THEN on_connect ELSE UNCHANGED <<cb_on_connect, cb>>
  /\ pos' = "destroy"
  /\ UNCHANGED <<objVars, sockVars, reqVars, closing, running>>

\* Then the writes.
Cancel ==
  /\ InLoop({"destroy"})
  /\ Flush
  /\ pos' = "cancel"
  /\ UNCHANGED <<objVars, sockVars, connVars, endVars, running, cb>>

\* Then the shutdown.
CancelShutdown ==
  /\ InLoop({"cancel"}) /\ completed = <<>>
  /\ \/ on_shutdown /\ UNCHANGED shut
     \/ shutdown_req = 0 /\ UNCHANGED <<reqVars, cb>>
  /\ pos' = "last"
  /\ UNCHANGED <<objVars, sockVars, connVars, endVars, running>>

\* Slip: the close callback comes before the requests are cancelled
\* (RequestsAreServed).
OnClose_slip ==
  /\ InLoop({"destroy", "cancel", "last"})
  /\ uv_handle' = FALSE
  /\ cb' \in {"none", "close"}
  /\ pos' = "wait"
  /\ UNCHANGED <<created, sockVars, reqVars, connVars, endVars, running>>

\* Then rbuv_handle_on_close frees the handle and calls the block of close, if any.
OnClose ==
  /\ InLoop({"last"})
  /\ uv_handle' = FALSE
  /\ cb' \in {"none", "close"}
  /\ pos' = "wait"
  /\ UNCHANGED <<created, sockVars, reqVars, connVars, endVars, running>>

\* uv_run() returns: nothing is left, a stop, or its mode.
RunReturns ==
  /\ InLoop({"wait"})
  /\ running' = FALSE
  /\ UNCHANGED <<objVars, sockVars, reqVars, connVars, endVars, pos, cb>>

Return ==
  /\ cb # "none"
  /\ cb' = "none"
  /\ UNCHANGED <<objVars, sockVars, reqVars, connVars, endVars, running, pos>>

\* An exception leaves the block, whichever function of libuv it was called from.
Raise ==
  /\ MayRaise
  /\ cb # "none"
  /\ cb' = "none" /\ running' = FALSE /\ pos' = "wait"
  /\ UNCHANGED <<objVars, sockVars, reqVars, connVars, endVars>>

Program ==
  \/ New \/ Connect \/ ConnectRaises \/ Bind \/ Write \/ Shutdown \/ Close \/ Run
  \/ \E on \in BOOLEAN : Read(on)

LoopStep ==
  \/ Connected \/ Refused \/ OnRead \/ TryWrite \/ OnWrite \/ OnShutdown \/ IoDone
  \/ FinishClose \/ Cancel \/ CancelShutdown \/ OnClose

Next == Program \/ LoopStep \/ RunReturns \/ Return \/ Raise

Spec == Init /\ [][Next]_vars

\* uv_run() goes on and blocks return.  Nothing is assumed of when a run ends.
FairSpec == Spec /\ WF_vars(LoopStep) /\ WF_vars(Return)

-----------------------------------------------------------------------------
(* Properties.                                                             *)

TypeOK ==
  /\ {created, uv_handle, cb_on_connect, fd, connected, connect_req, reading,
      shut, closing, closed, running} \subseteq BOOLEAN
  /\ issued \in 0 .. MaxRequests
  /\ requests \subseteq 1 .. issued /\ shutdowns \subseteq 1 .. issued
  /\ called \subseteq 1 .. issued
  /\ write_queue \in Seq(1 .. issued) /\ completed \in Seq(1 .. issued)
  /\ shutdown_req \in 0 .. issued
  /\ pos \in {"wait", "read", "callbacks", "refused", "flushed", "destroy", "cancel", "last",
              "server", "aborted"}
  /\ cb \in {"none", "connect", "read", "write", "shutdown", "close", "connection"}

\* The requests array, which protects request objects from the collector, holds
\* exactly the requests whose memory libuv still uses, however they end; these
\* are the requests whose block has not been called.
RequestsHeld ==
  /\ requests = ToSet(write_queue) \cup ToSet(completed) \cup ({shutdown_req} \ {0})
  /\ requests = (1 .. issued) \ called

\* A connect that libuv is going to report has a block to be reported to, also
\* after calls of connect that raised.
ConnectHasBlock == connect_req => cb_on_connect

\* RequestLife with gone for a pointer that close has cleared.
Life == INSTANCE RequestLife WITH gone <- created /\ ~uv_handle

\* Blocks of requests are called once, writes in order, the shutdown after the
\* writes before it, and all of them before the close.
RequestsAreServed == Life!RequestSpec

\* A close that was requested is finished while the loop runs, with the blocks of
\* all requests called on the way, whatever those blocks do; an exception of one of
\* them ends the run, and what is left of the close with it.  Only a listen, which
\* gives the closing stream another socket, comes between.
CloseCompletes == (closing /\ ~closed /\ running) ~> (~uv_handle \/ ~running \/ fd)
=============================================================================
