---------------------------- MODULE RbuvGCProofs ----------------------------
(***************************************************************************)
(* The safety properties of RbuvGC for any sets of handles and requests:   *)
(* every order of marks, free functions, closes and runs.                  *)
(***************************************************************************)
EXTENDS RbuvGC, TLAPS

\* The last mark reached the loop.
Reached == Loop \in alive \ garbage

Lists ==
  /\ created \subseteq {Loop} \cup Handle \cup Request
  /\ garbage \subseteq alive /\ alive \subseteq created
  /\ handle_queue \subseteq Handle
  /\ requests \subseteq Request \cap created
  /\ working \cup finished \subseteq requests
  /\ working \cap finished = {}
  /\ pointer \subseteq (Handle \cup Request) \cap mem
  /\ pointer \cap Handle \subseteq handle_queue \cup {unlinked}

\* A callback belongs to a run; its object is on the stack, no longer on a list.
Stack ==
  /\ unlinked \in (Handle \ handle_queue) \cup {None}
  /\ cb \in Handle \cup Request \cup {None}
  /\ running \in BOOLEAN
  /\ unlinked = None \/ cb = None
  /\ unlinked # None \/ cb # None => running
  /\ cb # None => cb \in alive \ garbage
  /\ cb \notin working \cup finished

\* While the loop is reached, so is all that libuv knows, with its memory.
Kept ==
  Reached =>
    /\ loop_mem
    /\ handle_queue \cup requests \cup ({unlinked} \ {None}) \subseteq (alive \ garbage) \cap mem

\* Otherwise the program has nothing left that leads to the loop; and if it was left
\* empty, it stays so.
Lost ==
  /\ held \subseteq alive \ garbage
  /\ ~Reached => Loop \notin held /\ ~running /\ held \cap pointer = {}
  /\ ~Reached /\ ~dirty => handle_queue \cup working \cup finished = {}

\* The inductive invariant.
IInv ==
  /\ Lists /\ Stack /\ Kept /\ Lost
  /\ CallbackSafe /\ MethodSafe /\ FreeSafe

\* A loop without handles and requests.
LEMMA InitIInv == Init => IInv
BY ObjectsAssumption
DEF Init, IInv, Lists, Stack, Kept, Lost, Reached, CallbackSafe, MethodSafe, FreeSafe

\* The mark reaches the loop or nothing that leads to it.
LEMMA CollectIInv == ASSUME IInv, CollectSafely PROVE IInv'
<1> USE ObjectsAssumption
    DEF IInv, Lists, Stack, Kept, Lost, Reached, CallbackSafe, MethodSafe, FreeSafe,
        objVars, memVars, uvVars, runVars
<1> USE DEF CollectSafely, Collect, Marked, Roots
<1>1. Lists' /\ Stack'
  OBVIOUS
<1>2. Kept'
  OBVIOUS
<1>3. Lost'
  OBVIOUS
<1>4. CallbackSafe' /\ MethodSafe' /\ FreeSafe'
  OBVIOUS
<1> QED BY <1>1, <1>2, <1>3, <1>4

\* A new handle has a loop that the program holds.
LEMMA NewHandleIInv == ASSUME IInv, NEW h \in Handle, NewHandle(h) PROVE IInv'
<1> USE ObjectsAssumption
    DEF IInv, Lists, Stack, Kept, Lost, Reached, CallbackSafe, MethodSafe, FreeSafe,
        objVars, memVars, uvVars, runVars
<1> USE DEF NewHandle, Ruby
<1>1. Lists' /\ Stack'
  OBVIOUS
<1>2. Kept'
  OBVIOUS
<1>3. Lost'
  OBVIOUS
<1>4. CallbackSafe' /\ MethodSafe' /\ FreeSafe'
  OBVIOUS
<1> QED BY <1>1, <1>2, <1>3, <1>4

\* So has a new request.
LEMMA NewRequestIInv == ASSUME IInv, NEW r \in Request, NewRequest(r) PROVE IInv'
<1> USE ObjectsAssumption
    DEF IInv, Lists, Stack, Kept, Lost, Reached, CallbackSafe, MethodSafe, FreeSafe,
        objVars, memVars, uvVars, runVars
<1> USE DEF NewRequest, Ruby
<1>1. Lists' /\ Stack'
  OBVIOUS
<1>2. Kept'
  OBVIOUS
<1>3. Lost'
  OBVIOUS
<1>4. CallbackSafe' /\ MethodSafe' /\ FreeSafe'
  OBVIOUS
<1> QED BY <1>1, <1>2, <1>3, <1>4

\* The methods meet no freed memory.
LEMMA UseIInv == ASSUME IInv, NEW x, Use(x) PROVE IInv'
<1> USE ObjectsAssumption
    DEF IInv, Lists, Stack, Kept, Lost, Reached, CallbackSafe, MethodSafe, FreeSafe,
        objVars, memVars, uvVars, runVars
<1> USE DEF Use
<1>1. Lists' /\ Stack'
  OBVIOUS
<1>2. Kept'
  OBVIOUS
<1>3. Lost'
  OBVIOUS
<1>4. CallbackSafe' /\ MethodSafe' /\ FreeSafe'
  OBVIOUS
<1> QED BY <1>1, <1>2, <1>3, <1>4

\* What the program can get hold of was reached by the last mark.
LEMMA ObtainIInv == ASSUME IInv, NEW x, Obtain(x) PROVE IInv'
<1> USE ObjectsAssumption
    DEF IInv, Lists, Stack, Kept, Lost, Reached, CallbackSafe, MethodSafe, FreeSafe,
        objVars, memVars, uvVars, runVars
<1> USE DEF Obtain, Marked, Roots
<1>1. Lists' /\ Stack'
  OBVIOUS
<1>2. Kept'
  OBVIOUS
<1>3. Lost'
  <2>1. CASE Reached
    <3>1. Roots \subseteq alive \ garbage
      BY <2>1
    <3>2. Marked \subseteq alive \ garbage
      BY <2>1, <3>1
    <3> QED BY <2>1, <3>2
  <2>2. CASE ~Reached
    <3>1. cb = None /\ Roots = held
      BY <2>2
    <3>2. Marked = held
      BY <2>2, <3>1
    <3> QED BY <3>2
  <2> QED BY <2>1, <2>2
<1>4. CallbackSafe' /\ MethodSafe' /\ FreeSafe'
  OBVIOUS
<1> QED BY <1>1, <1>2, <1>3, <1>4

\* Only what was not reached is freed.
LEMMA FreeHandleIInv == ASSUME IInv, NEW h, FreeHandle(h) PROVE IInv'
<1> USE ObjectsAssumption
    DEF IInv, Lists, Stack, Kept, Lost, Reached, CallbackSafe, MethodSafe, FreeSafe,
        objVars, memVars, uvVars, runVars
<1> USE DEF FreeHandle, Swept
<1>1. Lists' /\ Stack'
  OBVIOUS
<1>2. Kept'
  OBVIOUS
<1>3. Lost'
  OBVIOUS
<1>4. CallbackSafe' /\ MethodSafe' /\ FreeSafe'
  OBVIOUS
<1> QED BY <1>1, <1>2, <1>3, <1>4

\* The same for requests.
LEMMA FreeRequestIInv == ASSUME IInv, NEW r, FreeRequest(r) PROVE IInv'
<1> USE ObjectsAssumption
    DEF IInv, Lists, Stack, Kept, Lost, Reached, CallbackSafe, MethodSafe, FreeSafe,
        objVars, memVars, uvVars, runVars
<1> USE DEF FreeRequest, Swept
<1>1. Lists' /\ Stack'
  OBVIOUS
<1>2. Kept'
  OBVIOUS
<1>3. Lost'
  OBVIOUS
<1>4. CallbackSafe' /\ MethodSafe' /\ FreeSafe'
  OBVIOUS
<1> QED BY <1>1, <1>2, <1>3, <1>4

\* The loop is freed with an empty queue, unless it was left with something.
LEMMA FreeLoopIInv == ASSUME IInv, FreeLoop PROVE IInv'
<1> USE ObjectsAssumption
    DEF IInv, Lists, Stack, Kept, Lost, Reached, CallbackSafe, MethodSafe, FreeSafe,
        objVars, memVars, uvVars, runVars
<1> USE DEF FreeLoop, Swept
<1>1. Lists' /\ Stack'
  OBVIOUS
<1>2. Kept'
  OBVIOUS
<1>3. Lost'
  OBVIOUS
<1>4. CallbackSafe' /\ MethodSafe' /\ FreeSafe'
  OBVIOUS
<1> QED BY <1>1, <1>2, <1>3, <1>4

\* The callbacks find their objects.
LEMMA OnEventIInv == ASSUME IInv, NEW h \in Handle, OnEvent(h) PROVE IInv'
<1> USE ObjectsAssumption
    DEF IInv, Lists, Stack, Kept, Lost, Reached, CallbackSafe, MethodSafe, FreeSafe,
        objVars, memVars, uvVars, runVars
<1> USE DEF OnEvent, InLoop, Reach
<1>1. Lists' /\ Stack'
  OBVIOUS
<1>2. Kept'
  OBVIOUS
<1>3. Lost'
  OBVIOUS
<1>4. CallbackSafe' /\ MethodSafe' /\ FreeSafe'
  OBVIOUS
<1> QED BY <1>1, <1>2, <1>3, <1>4

\* So do those of requests.
LEMMA OnGetaddrinfoIInv == ASSUME IInv, NEW r \in Request, OnGetaddrinfo(r) PROVE IInv'
<1> USE ObjectsAssumption
    DEF IInv, Lists, Stack, Kept, Lost, Reached, CallbackSafe, MethodSafe, FreeSafe,
        objVars, memVars, uvVars, runVars
<1> USE DEF OnGetaddrinfo, InLoop, Reach
<1>1. Lists' /\ Stack'
  OBVIOUS
<1>2. Kept'
  OBVIOUS
<1>3. Lost'
  OBVIOUS
<1>4. CallbackSafe' /\ MethodSafe' /\ FreeSafe'
  OBVIOUS
<1> QED BY <1>1, <1>2, <1>3, <1>4

\* A worker thread finds the memory of its request.
LEMMA WorkerFinishesIInv == ASSUME IInv, NEW r \in Request, WorkerFinishes(r) PROVE IInv'
<1> USE ObjectsAssumption
    DEF IInv, Lists, Stack, Kept, Lost, Reached, CallbackSafe, MethodSafe, FreeSafe,
        objVars, memVars, uvVars, runVars
<1> USE DEF WorkerFinishes
<1>1. Lists' /\ Stack'
  OBVIOUS
<1>2. Kept'
  OBVIOUS
<1>3. Lost'
  OBVIOUS
<1>4. CallbackSafe' /\ MethodSafe' /\ FreeSafe'
  OBVIOUS
<1> QED BY <1>1, <1>2, <1>3, <1>4

\* A handle leaves the queue and waits for its callback.
LEMMA FinishCloseIInv == ASSUME IInv, NEW h \in Handle, FinishClose(h) PROVE IInv'
<1> USE ObjectsAssumption
    DEF IInv, Lists, Stack, Kept, Lost, Reached, CallbackSafe, MethodSafe, FreeSafe,
        objVars, memVars, uvVars, runVars
<1> USE DEF FinishClose, InLoop
<1>1. Lists' /\ Stack'
  OBVIOUS
<1>2. Kept'
  OBVIOUS
<1>3. Lost'
  OBVIOUS
<1>4. CallbackSafe' /\ MethodSafe' /\ FreeSafe'
  OBVIOUS
<1> QED BY <1>1, <1>2, <1>3, <1>4

\* The callback of a close finds the handle it frees.
LEMMA OnCloseIInv == ASSUME IInv, OnClose PROVE IInv'
<1> USE ObjectsAssumption
    DEF IInv, Lists, Stack, Kept, Lost, Reached, CallbackSafe, MethodSafe, FreeSafe,
        objVars, memVars, uvVars, runVars
<1> USE DEF OnClose, Reach
<1>1. Lists' /\ Stack'
  OBVIOUS
<1>2. Kept'
  OBVIOUS
<1>3. Lost'
  OBVIOUS
<1>4. CallbackSafe' /\ MethodSafe' /\ FreeSafe'
  OBVIOUS
<1> QED BY <1>1, <1>2, <1>3, <1>4

\* A block returns, and a request ends.
LEMMA ReturnIInv == ASSUME IInv, Return PROVE IInv'
<1> USE ObjectsAssumption
    DEF IInv, Lists, Stack, Kept, Lost, Reached, CallbackSafe, MethodSafe, FreeSafe,
        objVars, memVars, uvVars, runVars
<1> USE DEF Return
<1>1. Lists' /\ Stack'
  OBVIOUS
<1>2. Kept'
  OBVIOUS
<1>3. Lost'
  OBVIOUS
<1>4. CallbackSafe' /\ MethodSafe' /\ FreeSafe'
  OBVIOUS
<1> QED BY <1>1, <1>2, <1>3, <1>4

\* The steps that neither free nor create.
LEMMA OtherIInv ==
  ASSUME IInv,
         Run \/ RunReturns \/ Raise
           \/ (\E h \in Handle : Close(h)) \/ (\E x \in created : Forget(x)) \/ UNCHANGED vars
  PROVE  IInv'
<1> USE ObjectsAssumption
    DEF IInv, Lists, Stack, Kept, Lost, Reached, CallbackSafe, MethodSafe, FreeSafe,
        objVars, memVars, uvVars, runVars
<1>1. CASE Run
  BY <1>1 DEF Run
<1>2. CASE RunReturns
  BY <1>2 DEF RunReturns
<1>3. CASE Raise
  BY <1>3 DEF Raise
<1>4. ASSUME NEW h \in Handle, Close(h) PROVE IInv'
  BY <1>4 DEF Close
<1>5. ASSUME NEW x, Forget(x) PROVE IInv'
  BY <1>5 DEF Forget
<1>6. CASE UNCHANGED vars
  BY <1>6 DEF vars
<1> QED BY <1>1, <1>2, <1>3, <1>4, <1>5, <1>6

\* In every reachable state the invariant holds.
THEOREM CollectorInvariance == Spec => []IInv
<1>1. IInv /\ [Next]_vars => IInv'
  <2> SUFFICES ASSUME IInv, [Next]_vars PROVE IInv'
    OBVIOUS
  <2>1. CASE Program
    BY <2>1, NewHandleIInv, NewRequestIInv, UseIInv, ObtainIInv, ReturnIInv, OtherIInv DEF Program
  <2>2. CASE Sweep
    BY <2>2, FreeHandleIInv, FreeRequestIInv, FreeLoopIInv DEF Sweep
  <2>3. CASE Libuv
    BY <2>3, OnEventIInv, OnGetaddrinfoIInv, WorkerFinishesIInv, FinishCloseIInv, OnCloseIInv DEF Libuv
  <2> QED BY <2>1, <2>2, <2>3, CollectIInv, OtherIInv DEF Next
<1> QED BY InitIInv, <1>1, PTL DEF Spec

\* No callback of libuv meets a freed object, unless a collection falls into the
\* window between the end of a close and its callback.
THEOREM CallbacksAreSafe == Spec => []CallbackSafe
<1>1. IInv => CallbackSafe
  BY DEF IInv
<1> QED BY <1>1, CollectorInvariance, PTL

\* No method meets freed memory, in whatever order objects are closed and collected.
THEOREM MethodsAreSafe == Spec => []MethodSafe
<1>1. IInv => MethodSafe
  BY DEF IInv
<1> QED BY <1>1, CollectorInvariance, PTL

\* The free functions are safe in any order if the loop was left empty.
THEOREM FreeingIsSafe == Spec => []FreeSafe
<1>1. IInv => FreeSafe
  BY DEF IInv
<1> QED BY <1>1, CollectorInvariance, PTL
=============================================================================
