---------------------------- MODULE MCNextTick ----------------------------
(* NextTick with the handles it creates and some of the program's own.     *)
EXTENDS NextTick

CONSTANTS TimerHandles, IdleHandles

MCHandle == TickHandle \cup TimerHandles \cup IdleHandles

MCKind == [h \in MCHandle |-> IF h \in TimerHandles THEN "timer" ELSE "idle"]
=============================================================================
