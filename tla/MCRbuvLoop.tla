---------------------------- MODULE MCRbuvLoop ----------------------------
(* RbuvLoop on a few handles, given as one set of model values per kind.   *)
EXTENDS RbuvLoopLifecycle, TLC

CONSTANTS TimerHandles, IdleHandles, PrepareHandles, CheckHandles, PollHandles, SignalHandles

MCHandle == UNION {TimerHandles, IdleHandles, PrepareHandles,
                   CheckHandles, PollHandles, SignalHandles}

MCKind ==
  [h \in MCHandle |->
     CASE h \in TimerHandles   -> "timer"
       [] h \in IdleHandles    -> "idle"
       [] h \in PrepareHandles -> "prepare"
       [] h \in CheckHandles   -> "check"
       [] h \in PollHandles    -> "poll"
       [] h \in SignalHandles  -> "signal"]

\* No definition tells two handles of one kind apart.
MCSymmetry == Permutations(IdleHandles)
=============================================================================
