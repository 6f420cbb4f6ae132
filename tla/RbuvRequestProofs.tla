------------------------- MODULE RbuvRequestProofs -------------------------
(***************************************************************************)
(* The safety properties of RbuvRequest for any set of requests and any    *)
(* number of worker threads, exceptions included.                          *)
(***************************************************************************)
EXTENDS RbuvRequest, TLAPS

\* Whose block is being called was taken off its list, and no exception left it.
BlockIsCalled == cb \in Request => cb \in called \ stranded

\* What is still queued was neither begun nor cancelled: the two ways to leave the
\* queue, Take and Cancel, exclude each other only because of this.
QueuedIsUntouched == pool \cap (executed \cup cancelled) = {}

\* The inductive invariant.
IInv ==
  /\ TypeOK /\ NoRequestLost /\ RequestsProtected /\ StatusIsTrue
  /\ BlockIsCalled /\ QueuedIsUntouched

\* Nothing exists in the beginning.
LEMMA InitIInv == Init => IInv
BY RequestAssumption
DEF Init, IInv, TypeOK, NoRequestLost, RequestsProtected, StatusIsTrue, BlockIsCalled,
    QueuedIsUntouched, Held

\* initialize: a fresh request is in the queue, registered, with a block.
LEMMA NewIInv == ASSUME IInv, NEW r \in Request, New(r) PROVE IInv'
<1> USE DEF IInv, TypeOK, NoRequestLost, RequestsProtected, StatusIsTrue, BlockIsCalled,
            QueuedIsUntouched, objVars, poolVars, doneVars, runVars
<1> USE RequestAssumption DEF New
<1>0. Held' = Held \cup {r}
  BY DEF Held
<1>1. TypeOK'
  BY <1>0
<1>2. NoRequestLost'
  BY DEF Held
<1>3. RequestsProtected'
  BY <1>0
<1>4. StatusIsTrue'
  OBVIOUS
<1>5. BlockIsCalled'
  OBVIOUS
<1>6. QueuedIsUntouched'
  OBVIOUS
<1> QED BY <1>1, <1>2, <1>3, <1>4, <1>5, <1>6

\* cancel moves what it cancels from its list to the finished ones.
LEMMA CancelIInv == ASSUME IInv, NEW r \in Request, Cancel(r) PROVE IInv'
<1> USE DEF IInv, TypeOK, NoRequestLost, RequestsProtected, StatusIsTrue, BlockIsCalled,
            QueuedIsUntouched, objVars, poolVars, doneVars, runVars
<1> USE DEF Cancel, Cancellable
<1>0. Held' = Held
  BY DEF Held
<1>1. TypeOK'
  <2>1. r \in created
    BY DEF Held
  <2>2. batch' # {} => batch # {}
    OBVIOUS
  <2> QED BY <1>0, <2>1, <2>2
<1>2. NoRequestLost'
  BY DEF Held
<1>3. RequestsProtected'
  BY <1>0
<1>4. StatusIsTrue'
  OBVIOUS
<1>5. BlockIsCalled'
  OBVIOUS
<1>6. QueuedIsUntouched'
  OBVIOUS
<1> QED BY <1>1, <1>2, <1>3, <1>4, <1>5, <1>6

\* A worker thread takes a request out of the queue.
LEMMA TakeIInv == ASSUME IInv, NEW r \in Request, Take(r) PROVE IInv'
<1> USE DEF IInv, TypeOK, NoRequestLost, RequestsProtected, StatusIsTrue, BlockIsCalled,
            QueuedIsUntouched, objVars, poolVars, doneVars, runVars
<1> USE DEF Take
<1>0. Held' = Held
  BY DEF Held
<1>1. TypeOK'
  <2>1. r \in created
    BY DEF Held
  <2> QED BY <1>0, <2>1
<1>2. NoRequestLost'
  BY DEF Held
<1>3. RequestsProtected'
  BY <1>0
<1>4. StatusIsTrue'
  OBVIOUS
<1>5. BlockIsCalled'
  OBVIOUS
<1>6. QueuedIsUntouched'
  OBVIOUS
<1> QED BY <1>1, <1>2, <1>3, <1>4, <1>5, <1>6

\* A worker thread puts it among the finished ones.
LEMMA FinishIInv == ASSUME IInv, NEW r \in Request, Finish(r) PROVE IInv'
<1> USE DEF IInv, TypeOK, NoRequestLost, RequestsProtected, StatusIsTrue, BlockIsCalled,
            QueuedIsUntouched, objVars, poolVars, doneVars, runVars
<1> USE DEF Finish
<1>0. Held' = Held
  BY DEF Held
<1>1. TypeOK'
  BY <1>0
<1>2. NoRequestLost'
  BY DEF Held
<1>3. RequestsProtected'
  BY <1>0
<1>4. StatusIsTrue'
  OBVIOUS
<1>5. BlockIsCalled'
  OBVIOUS
<1>6. QueuedIsUntouched'
  OBVIOUS
<1> QED BY <1>1, <1>2, <1>3, <1>4, <1>5, <1>6

\* libuv calls the block of a finished request.
LEMMA ReportIInv == ASSUME IInv, NEW r \in Request, Report(r) PROVE IInv'
<1> USE DEF IInv, TypeOK, NoRequestLost, RequestsProtected, StatusIsTrue, BlockIsCalled,
            QueuedIsUntouched, objVars, poolVars, doneVars, runVars
<1> USE RequestAssumption DEF Report
<1>0. Held' = Held \ {r}
  BY DEF Held
<1>a. r \in Held /\ r \in created /\ r \notin called \cup stranded
  BY DEF Held
<1>b. created \cap {None} = {} /\ created \cap {r} = {r}
  BY <1>a
<1>1. TypeOK'
  <2>1. batch' # {} => batch # {}
    OBVIOUS
  <2> QED BY <1>0, <1>a, <2>1
<1>2. NoRequestLost'
  BY DEF Held
<1>3. RequestsProtected'
  <2>1. requests = Held \cup stranded
    BY <1>b
  <2>2. requests' = Held' \cup {r} \cup stranded'
    BY <1>0, <1>a, <2>1
  <2>3. created' \cap {cb'} = {r}
    BY <1>b
  <2>4. Held' \subseteq requests' \cap cb_on_getaddrinfo'
    BY <1>0
  <2>5. requests' = uv_req'
    OBVIOUS
  <2> HIDE DEF Report, Held
  <2> QED BY <2>2, <2>3, <2>4, <2>5
<1>4. StatusIsTrue'
  OBVIOUS
<1>5. BlockIsCalled'
  BY <1>a
<1>6. QueuedIsUntouched'
  OBVIOUS
<1> QED BY <1>1, <1>2, <1>3, <1>4, <1>5, <1>6

\* A block ends; that of a request is followed by the end of the request.
LEMMA ReturnIInv == ASSUME IInv, Return PROVE IInv'
<1> USE DEF IInv, TypeOK, NoRequestLost, RequestsProtected, StatusIsTrue, BlockIsCalled,
            QueuedIsUntouched, objVars, poolVars, doneVars, runVars
<1> USE RequestAssumption DEF Return
<1>0. Held' = Held
  BY DEF Held
<1>1. TypeOK'
  BY <1>0
<1>2. NoRequestLost'
  BY DEF Held
<1>3. RequestsProtected'
  <2>1. cb \notin Held \cup stranded
    BY RequestAssumption
  <2>2. created' \cap {cb'} = {}
    OBVIOUS
  <2>3. requests' = Held \cup stranded
    BY <2>1
  <2> QED BY <1>0, <2>1, <2>2, <2>3
<1>4. StatusIsTrue'
  OBVIOUS
<1>5. BlockIsCalled'
  OBVIOUS
<1>6. QueuedIsUntouched'
  OBVIOUS
<1> QED BY <1>1, <1>2, <1>3, <1>4, <1>5, <1>6

\* An exception leaves a block: the list being reported is lost.
LEMMA RaiseIInv == ASSUME IInv, Raise PROVE IInv'
<1> USE DEF IInv, TypeOK, NoRequestLost, RequestsProtected, StatusIsTrue, BlockIsCalled,
            QueuedIsUntouched, objVars, poolVars, doneVars, runVars
<1> USE RequestAssumption DEF Raise
<1>0. Held' = Held \ batch
  BY DEF Held
<1>a. batch \subseteq Held /\ Request \cap {cb} = created \cap {cb}
  BY DEF Held
<1>1. TypeOK'
  BY <1>0, <1>a
<1>2. NoRequestLost'
  BY DEF Held
<1>3. RequestsProtected'
  <2>1. created' \cap {cb'} = {}
    OBVIOUS
  <2>2. requests' = Held' \cup stranded'
    BY <1>0, <1>a
  <2> QED BY <1>0, <2>1, <2>2
<1>4. StatusIsTrue'
  OBVIOUS
<1>5. BlockIsCalled'
  OBVIOUS
<1>6. QueuedIsUntouched'
  OBVIOUS
<1> QED BY <1>1, <1>2, <1>3, <1>4, <1>5, <1>6

\* The steps that move no request: those of the run, and blocks of other handles.
LEMMA RunIInv ==
  ASSUME IInv, Run \/ Wake \/ TakeFinished \/ WorkDone \/ OtherBlock \/ RunReturns
  PROVE  IInv'
<1> USE DEF IInv, TypeOK, NoRequestLost, RequestsProtected, StatusIsTrue, BlockIsCalled,
            QueuedIsUntouched, Held, objVars, poolVars, doneVars, runVars
<1>1. CASE Run
  BY <1>1 DEF Run
<1>2. CASE Wake
  BY <1>2 DEF Wake
<1>3. CASE TakeFinished
  <2>1. batch = {}
    BY <1>3 DEF TakeFinished
  <2> QED BY <1>3, <2>1 DEF TakeFinished
<1>4. CASE WorkDone
  BY <1>4 DEF WorkDone
<1>5. CASE OtherBlock
  <2>1. created \cap {cb} = {} /\ created' \cap {cb'} = {}
    BY <1>5, RequestAssumption DEF OtherBlock
  <2>2. cb' \notin Request
    BY <1>5, RequestAssumption DEF OtherBlock
  <2> QED BY <1>5, <2>1, <2>2 DEF OtherBlock
<1>6. CASE RunReturns
  BY <1>6 DEF RunReturns
<1> QED BY <1>1, <1>2, <1>3, <1>4, <1>5, <1>6

\* In every reachable state the invariant holds.
THEOREM RequestInvariance == Spec => []IInv
<1>1. IInv /\ [Next]_vars => IInv'
  <2> SUFFICES ASSUME IInv, [Next]_vars PROVE IInv'
    OBVIOUS
  <2>1. CASE UNCHANGED vars
    BY <2>1
    DEF vars, IInv, TypeOK, NoRequestLost, RequestsProtected, StatusIsTrue, BlockIsCalled,
        QueuedIsUntouched, Held, objVars, poolVars, doneVars, runVars
  <2>2. CASE Next
    BY <2>2, NewIInv, CancelIInv, TakeIInv, FinishIInv, ReportIInv, ReturnIInv, RaiseIInv, RunIInv
    DEF Next, Program, Worker, LoopStep
  <2> QED BY <2>1, <2>2
<1> QED BY InitIInv, <1>1, PTL DEF Spec

\* Requests and libuv's lists have their types; a list is taken only while it is reported.
THEOREM RequestTypeCorrect == Spec => []TypeOK
<1>1. IInv => TypeOK
  BY DEF IInv
<1> QED BY <1>1, RequestInvariance, PTL

\* A request is in one list of libuv, reported, or dropped by an exception.
THEOREM RequestsAreNotLost == Spec => []NoRequestLost
<1>1. IInv => NoRequestLost
  BY DEF IInv
<1> QED BY <1>1, RequestInvariance, PTL

\* The object of a request that libuv uses is registered, allocated and has its block.
THEOREM RequestsAreProtected == Spec => []RequestsProtected
<1>1. IInv => RequestsProtected
  BY DEF IInv
<1> QED BY <1>1, RequestInvariance, PTL

\* A request that was cancelled is never resolved, whichever thread was first.
THEOREM CancelTakesEffect == Spec => []StatusIsTrue
<1>1. IInv => StatusIsTrue
  BY DEF IInv
<1> QED BY <1>1, RequestInvariance, PTL
=============================================================================
