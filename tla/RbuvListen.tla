---------------------------- MODULE RbuvListen ----------------------------
(***************************************************************************)
(* The other life of a Rbuv::Tcp object: listening for connections that it *)
(* hands to fresh clients, or being such a client.  The object of          *)
(* RbuvStream may choose either.                                           *)
(*                                                                         *)
(* libuv's part is uv__server_io and uv_accept of release 1.7.3: a         *)
(* connection is taken from the kernel, the block is called, and if it did *)
(* not accept, the socket is not watched until somebody does.  An          *)
(* assertion of uv__server_io ends the process when it finds a connection  *)
(* that is still to be accepted.  Another one, of uv__stream_destroy, ends *)
(* it when the close of a stream finishes whose socket is watched: listen  *)
(* of a stream that is closing creates a new socket and watches it.        *)
(*                                                                         *)
(* Left out: read, write and shutdown of a listening stream (assertions of *)
(* libuv), listen of a stream that was used as a client, accept into a     *)
(* client that was used or closed before, and the socket that a listen     *)
(* leaves behind when it fails on a stream that is closing.                *)
(***************************************************************************)
EXTENDS RbuvStream

CONSTANT MaxBacklog   \* bound on the connections waiting in the kernel

ASSUME BacklogAssumption == MaxBacklog \in Nat \ {0}

VARIABLES
  listening,         \* the socket's callback is uv__server_io
  armed,             \* the loop watches it
  cb_on_connection,  \* whether it holds a block
  accepted_fd,       \* a connection was taken from the kernel and not accepted yet
  backlog,           \* connections waiting in the kernel
  mishap             \* what went wrong before: "retried", "unwound", "relistened", "refused", "reopened"

serverVars == <<listening, armed, cb_on_connection, accepted_fd, backlog, mishap>>
listenVars == <<vars, serverVars>>

ListenInit ==
  /\ Init
  /\ listening = FALSE /\ armed = FALSE /\ cb_on_connection = FALSE
  /\ accepted_fd = FALSE /\ backlog = 0 /\ mishap = {}

-----------------------------------------------------------------------------
(* The methods.                                                            *)

\* Not used as a client, nor inside one of its own blocks as such.
Fresh == ~connected /\ ~connect_req /\ ~reading /\ issued = 0 /\ pos \in {"wait", "server"}

\* uv_listen succeeds: a listening stream may be told to listen again, and so may
\* one whose close is under way.
uv_listen(more) ==
  /\ fd' = TRUE
  /\ listening' = TRUE /\ armed' = TRUE
  /\ mishap' = UNION {mishap, more, IF accepted_fd /\ ~armed THEN {"relistened"} ELSE {},
                                   IF closing THEN {"reopened"} ELSE {}}
  /\ UNCHANGED <<accepted_fd, backlog>>

\* listen: the block is stored after libuv is told.
Listen ==
  /\ Ruby /\ uv_handle /\ (Fresh \/ listening)
  /\ uv_listen({})
  /\ cb_on_connection' = TRUE
  /\ UNCHANGED <<objVars, connected, reading, reqVars, connVars, endVars, runVars>>

\* Slip: a listen that fails drops the block of an earlier one (ListenerHasBlock).
ListenRaises_slip ==
  /\ Ruby /\ uv_handle /\ (Fresh \/ listening)
  /\ cb_on_connection' = FALSE
  /\ UNCHANGED <<vars, listening, armed, accepted_fd, backlog, mishap>>

\* listen raises.  The macro that checks the result makes the call a second time,
\* for the text of the error: the call may have created the socket, and it may
\* succeed, the second time, with nobody to store the block.
ListenRaises ==
  /\ Ruby /\ uv_handle /\ (Fresh \/ listening)
  /\ \/ fd' \in {fd, fd \/ ~closing} /\ UNCHANGED <<listening, armed, accepted_fd, backlog, mishap>>
     \/ uv_listen({"retried"})
  /\ UNCHANGED <<objVars, connected, reading, reqVars, connVars, endVars, runVars, cb_on_connection>>

\* Slip: the socket is not watched again (WatchAgrees, ConnectionsReported).
Accept_slip ==
  /\ Ruby /\ uv_handle /\ listening /\ accepted_fd
  /\ accepted_fd' = FALSE
  /\ UNCHANGED <<vars, listening, armed, cb_on_connection, backlog, mishap>>

\* accept, in the block or later; without a connection to accept it raises.
Accept ==
  /\ Ruby /\ uv_handle /\ listening /\ accepted_fd
  /\ accepted_fd' = FALSE
  /\ armed' = TRUE
  /\ UNCHANGED <<vars, listening, cb_on_connection, backlog, mishap>>

\* An option of the client cannot be set: the connection is closed, a second call
\* finds none and raises.  The socket stays as it is, watched or not.
AcceptRaises ==
  /\ Ruby /\ uv_handle /\ listening /\ accepted_fd
  /\ accepted_fd' = FALSE
  /\ mishap' = IF armed THEN mishap ELSE mishap \cup {"refused"}
  /\ UNCHANGED <<vars, listening, armed, cb_on_connection, backlog>>

\* This object is the client of another one's accept.
AcceptedBy ==
  /\ Ruby /\ uv_handle /\ ~closing /\ ~fd /\ ~connect_req
  /\ fd' = TRUE /\ connected' = TRUE
  /\ UNCHANGED <<objVars, reading, reqVars, connVars, endVars, runVars, serverVars>>

\* The socket, the connection nobody accepted and those in the kernel are closed.
CloseServer ==
  /\ listening
  /\ Close
  /\ listening' = FALSE /\ armed' = FALSE /\ accepted_fd' = FALSE /\ backlog' = 0
  /\ UNCHANGED <<cb_on_connection, mishap>>

-----------------------------------------------------------------------------
(* The kernel and libuv.                                                   *)

Arrive ==
  /\ listening /\ backlog < MaxBacklog
  /\ backlog' = backlog + 1
  /\ UNCHANGED <<vars, listening, armed, cb_on_connection, accepted_fd, mishap>>

\* The peer gives up, or libuv gets rid of connections for which no descriptor is left.
Abandon ==
  /\ backlog > 0
  /\ backlog' = backlog - 1
  /\ UNCHANGED <<vars, listening, armed, cb_on_connection, accepted_fd, mishap>>

\* uv__server_io: the next connection, or an error of the system instead of it.
TakeConnection ==
  /\ listening /\ backlog > 0 /\ ~accepted_fd
  /\ InLoop({"server"}) \/ (InLoop({"wait"}) /\ armed /\ ~closing)
  /\ \/ accepted_fd' = TRUE /\ backlog' = backlog - 1
     \/ UNCHANGED <<accepted_fd, backlog>>

\* rbuv_stream_on_connection.
OnConnection ==
  /\ TakeConnection
  /\ cb_on_connection
  /\ cb' = "connection" /\ pos' = "server"
  /\ UNCHANGED <<objVars, sockVars, reqVars, connVars, endVars, running,
                 listening, armed, cb_on_connection, mishap>>

\* Without a block it calls nil: an exception unwinds uv_run().
OnConnectionRaises ==
  /\ TakeConnection
  /\ ~cb_on_connection
  /\ running' = FALSE /\ pos' = "wait"
  /\ mishap' = mishap \cup {"unwound"}
  /\ UNCHANGED <<objVars, sockVars, reqVars, connVars, endVars, cb,
                 listening, armed, cb_on_connection>>

\* Slip: the socket is watched although a connection waits (AbortNeedsMishap).
ServerDone_slip ==
  /\ InLoop({"server"})
  /\ accepted_fd \/ ~listening \/ backlog = 0
  /\ pos' = "wait"
  /\ UNCHANGED <<objVars, sockVars, reqVars, connVars, endVars, running, cb, serverVars>>

\* Nothing accepted: the socket is not watched any more.  Nothing left: it is.
ServerDone ==
  /\ InLoop({"server"})
  /\ accepted_fd \/ ~listening \/ backlog = 0
  /\ pos' = "wait"
  /\ armed' = (armed /\ ~accepted_fd)
  /\ UNCHANGED <<objVars, sockVars, reqVars, connVars, endVars, running, cb,
                 listening, cb_on_connection, accepted_fd, backlog, mishap>>

\* uv__server_io finds a connection that is still to be accepted, or that the stream
\* is closing; or uv__stream_destroy finds its socket watched.
Abort ==
  /\ InLoop({"wait"}) /\ listening /\ armed
  /\ closing \/ (backlog > 0 /\ accepted_fd)
  /\ pos' = "aborted"
  /\ UNCHANGED <<objVars, sockVars, reqVars, connVars, endVars, running, cb, serverVars>>

\* An exception leaves the block before libuv could stop watching the socket.
RaiseServer ==
  /\ listening
  /\ Raise
  /\ mishap' = IF accepted_fd /\ armed THEN mishap \cup {"unwound"} ELSE mishap
  /\ UNCHANGED <<listening, armed, cb_on_connection, accepted_fd, backlog>>

-----------------------------------------------------------------------------
AsStream   == ~listening /\ Next /\ UNCHANGED serverVars
AsListener == listening /\ (ConnectRaises \/ Bind \/ Run \/ RunReturns \/ Return)
                        /\ UNCHANGED serverVars

\* The close of a stream that was told to listen meanwhile: it passes the assertion
\* if nobody accepted the connection last reported, and leaks the socket.
CloseReopened ==
  /\ listening /\ closing /\ ~armed
  /\ FinishClose \/ Cancel \/ CancelShutdown \/ OnClose
  /\ UNCHANGED serverVars

ServerCall == Listen \/ ListenRaises \/ Accept \/ AcceptRaises \/ AcceptedBy \/ CloseServer
ServerStep == OnConnection \/ OnConnectionRaises \/ ServerDone \/ Abort

ListenNext ==
  AsStream \/ AsListener \/ CloseReopened \/ ServerCall \/ ServerStep \/ RaiseServer \/ Arrive \/ Abandon

ListenSpec == ListenInit /\ [][ListenNext]_listenVars

\* As in RbuvStream, with uv__server_io among libuv's steps.
ListenFairSpec ==
  /\ ListenSpec
  /\ WF_listenVars((~listening /\ LoopStep /\ UNCHANGED serverVars)
                     \/ CloseReopened \/ ServerStep)
  /\ WF_listenVars(Return /\ UNCHANGED serverVars)

-----------------------------------------------------------------------------
(* Properties.                                                             *)

ListenTypeOK ==
  /\ TypeOK
  /\ {listening, armed, cb_on_connection, accepted_fd} \subseteq BOOLEAN
  /\ backlog \in 0 .. MaxBacklog
  /\ mishap \subseteq {"retried", "unwound", "relistened", "refused", "reopened"}

\* A connection finds a block to be reported to, listens that failed included, unless
\* the second call of the macro started to listen after the first one had failed.
ListenerHasBlock == armed => cb_on_connection \/ "retried" \in mishap

\* Between two steps of uv__server_io the socket is watched exactly when no connection
\* waits for accept, whenever the program accepts.  The exceptions: it is watched while
\* one waits, and the next ends the process; or it is not, and the server stays deaf.
WatchAgrees ==
  listening /\ pos = "wait" =>
    /\ armed /\ accepted_fd => mishap \cap {"unwound", "relistened"} # {}
    /\ armed \/ accepted_fd \/ "refused" \in mishap

\* libuv's assertions fail only after an exception left a connection unaccepted, or
\* after a listen while one was, or a listen of a stream that was closing.
AbortNeedsMishap ==
  pos = "aborted" => mishap \cap {"unwound", "relistened", "reopened"} # {}

\* A connection that waits in the kernel while none waits for accept is reported,
\* however late the one before it was accepted and whatever comes in between; unless
\* it is given up, the server is closed, the run ends or the server is deaf.
ConnectionsReported ==
  (backlog > 0 /\ listening /\ ~accepted_fd /\ running /\ "refused" \notin mishap)
    ~> (cb = "connection" \/ backlog = 0 \/ ~listening \/ closing \/ ~running)
=============================================================================
