-------------------------- MODULE RbuvAsyncProofs --------------------------
(***************************************************************************)
(* RbuvAsync for every set of handles and of sending threads.              *)
(***************************************************************************)
EXTENDS RbuvAsync, TLAPS

USE NamesAssumption, RaiseAssumption

\* The invariant holds before any call.
LEMMA AsyncInit == Init => IInv
  BY DEF Init, IInv, TypeOK, NoUseAfterFree, NoSendLost, FlagIsSeen, OfPhase, Thread

\* A thread that is between two calls is not in the middle of a send, and while
\* nobody holds the GVL nobody is.
LEMMA NobodySends ==
  ASSUME IInv
  PROVE  /\ gvl = None => \A t \in Thread : sending[t] = None
         /\ \A t \in Thread : Ruby(t) => \A u \in Thread : sending[u] = None
  BY DEF IInv, OfPhase, TypeOK, Ruby, Thread

\* The switches of threads.
LEMMA GvlStep ==
  ASSUME IInv, NEW t \in Thread, ReleaseGvl(t) \/ AcquireGvl(t)
  PROVE  IInv'
  BY NobodySends DEF IInv, TypeOK, NoUseAfterFree, NoSendLost, FlagIsSeen, OfPhase,
     IsSending, ReleaseGvl, AcquireGvl, Ruby, uvVars, Thread

\* A step of a send, by any thread.
LEMMA SendStep ==
  ASSUME IInv, NEW t \in Thread, NEW h \in Handle, Send(t, h)
  PROVE  IInv'
  <1> USE DEF Send
  <1>1. TypeOK'
    BY DEF IInv, TypeOK
  <1>2. NoUseAfterFree'
    BY DEF IInv, NoUseAfterFree, TypeOK
  <1>3. \A g \in Handle : IsSending(g) => IsSending(g)'
    BY NobodySends DEF IsSending, IInv, TypeOK
  <1>4. h \in pending \/ IsSending(h)'
    BY DEF IsSending, IInv, TypeOK
  <1>5. FlagIsSeen'
    BY <1>3, <1>4 DEF IInv, FlagIsSeen, TypeOK
  <1>6. NoSendLost'
    BY <1>3, <1>4 DEF IInv, FlagIsSeen, NoSendLost, TypeOK
  <1>7. OfPhase'
    BY DEF IInv, OfPhase, TypeOK, Ruby
  <1>8. QED
    BY <1>1, <1>2, <1>5, <1>6, <1>7 DEF IInv

\* The second half of a send: the wake-up is written.
LEMMA WakeStep ==
  ASSUME IInv, NEW t \in Thread, Wake(t)
  PROVE  IInv'
  BY DEF IInv, TypeOK, NoUseAfterFree, NoSendLost, FlagIsSeen, OfPhase, Wake

\* The calls that only the loop's thread makes.
LEMMA LoopThreadStep ==
  ASSUME IInv, Run \/ Return \/ Raise \/ \E h \in Handle : New(h) \/ Close(h)
  PROVE  IInv'
  <1> USE DEF IInv, TypeOK, NoUseAfterFree, NoSendLost, FlagIsSeen, OfPhase, IsSending
  <1>1. CASE Run
    BY <1>1, NobodySends DEF Run, Ruby, Thread
  <1>2. CASE Return
    BY <1>2, NobodySends DEF Return, Ruby, uvVars, Thread
  <1>3. CASE Raise
    BY <1>3, NobodySends DEF Raise, Ruby, Thread
  <1>4. ASSUME NEW h \in Handle, New(h) PROVE IInv'
    BY <1>4, NobodySends DEF New, Ruby, Thread
  <1>5. ASSUME NEW h \in Handle, Close(h) PROVE IInv'
    BY <1>5, NobodySends DEF Close, Ruby, Thread
  <1>6. QED
    BY <1>1, <1>2, <1>3, <1>4, <1>5

\* The steps of uv_run(), which no lock protects.
LEMMA UvStep ==
  ASSUME IInv, LoopStep \/ PollOther
  PROVE  IInv'
  <1> USE DEF IInv, TypeOK, NoUseAfterFree, NoSendLost, FlagIsSeen, OfPhase, IsSending, NoCallback
  <1>1. CASE Poll
    BY <1>1 DEF Poll
  <1>2. CASE EventsDone
    BY <1>2 DEF EventsDone
  <1>3. CASE ClosingDone
    BY <1>3 DEF ClosingDone
  <1>4. ASSUME NEW h \in Handle, Visit(h) PROVE IInv'
    <2>1. TypeOK' /\ NoUseAfterFree' /\ OfPhase'
      BY <1>4 DEF Visit
    <2>2. \A g \in Handle : IsSending(g)' = IsSending(g)
      BY <1>4 DEF Visit
    <2>3. ASSUME NEW g \in Handle, g # h, g \in pending'
          PROVE  (wakeup \/ g \in visit \/ IsSending(g) \/ g \in stranded)
                   => (wakeup \/ g \in visit \/ IsSending(g) \/ g \in stranded)'
      BY ONLY <1>4, <2>2, <2>3 DEF Visit
    <2>4. FlagIsSeen' /\ NoSendLost'
      BY <1>4, <2>2, <2>3 DEF Visit
    <2>5. QED
      BY <2>1, <2>4
  <1>5. CASE PollOther
    BY <1>5 DEF PollOther
  <1>6. QED
    BY <1>1, <1>2, <1>3, <1>4, <1>5 DEF LoopStep

\* The two callbacks: the block of an async handle, and that of its close.
LEMMA CallbackStep ==
  ASSUME IInv, NEW h \in Handle, OnAsync(h) \/ OnClose(h)
  PROVE  IInv'
  <1> USE DEF IInv, TypeOK, NoUseAfterFree, NoSendLost, FlagIsSeen, OfPhase, IsSending, NoCallback
  <1>1. CASE OnAsync(h)
    <2>1. TypeOK' /\ NoUseAfterFree' /\ OfPhase'
      BY <1>1, NobodySends DEF OnAsync, Thread
    <2>2. FlagIsSeen' /\ NoSendLost'
      BY <1>1 DEF OnAsync
    <2>3. QED
      BY <2>1, <2>2
  <1>2. CASE OnClose(h)
    <2>1. TypeOK' /\ NoUseAfterFree' /\ OfPhase'
      BY <1>2, NobodySends DEF OnClose, Thread
    <2>2. FlagIsSeen' /\ NoSendLost'
      BY <1>2 DEF OnClose
    <2>3. QED
      BY <2>1, <2>2
  <1>3. QED
    BY <1>1, <1>2

\* Every state of every program that uses Async as documented satisfies IInv.
THEOREM AsyncInvariance == Spec => []IInv
  <1>1. ASSUME IInv, [Next]_vars PROVE IInv'
    <2>1. CASE UNCHANGED vars
      BY <1>1, <2>1 DEF vars, uvVars, IInv, TypeOK, NoUseAfterFree, NoSendLost,
         FlagIsSeen, OfPhase, IsSending
    <2>2. CASE Next
      BY <1>1, <2>2, GvlStep, SendStep, WakeStep, LoopThreadStep, UvStep, CallbackStep
         DEF Next, Callback
    <2>3. QED
      BY <1>1, <2>1, <2>2
  <1>2. QED
    BY AsyncInit, <1>1, PTL DEF Spec

\* rbuv_handle_on_close never frees an Async handle that a send of another thread
\* or uv_run() is still using, because both sides hold the GVL.
THEOREM AsyncNotFreedInUse == Spec => []NoUseAfterFree
  <1>1. IInv => NoUseAfterFree
    BY DEF IInv
  <1>2. QED
    BY <1>1, AsyncInvariance, PTL

\* Between any steps of the senders and of the loop, an unanswered send is on its
\* way to the block, but for those an exception stranded.
THEOREM SendsAreNotLost == Spec => []NoSendLost
  <1>1. IInv => NoSendLost
    BY DEF IInv
  <1>2. QED
    BY <1>1, AsyncInvariance, PTL
=============================================================================
