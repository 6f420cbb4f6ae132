------------------------ MODULE RbuvLoopLifecycle ------------------------
(***************************************************************************)
(* The loop implements the life of a handle that HandleLifecycle promises. *)
(* A handle is open or closing while its object has a libuv handle, which  *)
(* of the two is libuv's UV_CLOSING flag; the block owed is cb_on_close;   *)
(* and the block being called is that of the handle whose close callback   *)
(* uv_run() is inside of.                                                  *)
(***************************************************************************)
EXTENDS RbuvLoop

LifeState ==
  [h \in Handle |-> IF h \notin created THEN "unborn"
                    ELSE IF h \notin uv_handle THEN "closed"
                    ELSE IF h \in closing THEN "closing" ELSE "open"]

LifeCalling == IF phase = "closing" THEN cb ELSE None

Life == INSTANCE HandleLifecycle
          WITH state <- LifeState, owed <- cb_on_close, calling <- LifeCalling

\* Every behaviour of the loop, exceptions and all, is one the promise allows:
\* no close block is called early, twice, for another handle or after another
\* block replaced it.
LifecycleHeld == Life!LifeSpec
=============================================================================
