-------------------------- MODULE HandleLifecycle --------------------------
(***************************************************************************)
(* What Rbuv::Handle promises about the life of a handle, whatever its     *)
(* class and whatever the loop does: a handle is opened once, closed once, *)
(* and the block given to the call of close that closed it is called once, *)
(* after the handle is closed, one such block at a time.                   *)
(***************************************************************************)
CONSTANTS Handle, Block, None

VARIABLES
  state,      \* "unborn", "open", "closing" or "closed"
  owed,       \* the block to call when the close is finished, None for none
  calling     \* the handle whose close block is being called, or None

lifeVars == <<state, owed, calling>>

LifeInit ==
  /\ state = [h \in Handle |-> "unborn"]
  /\ owed = [h \in Handle |-> None]
  /\ calling = None

Open(h) ==
  /\ state[h] = "unborn"
  /\ state' = [state EXCEPT ![h] = "open"]
  /\ UNCHANGED <<owed, calling>>

RequestClose(h, block) ==
  /\ state[h] = "open"
  /\ state' = [state EXCEPT ![h] = "closing"]
  /\ owed' = [owed EXCEPT ![h] = block]
  /\ UNCHANGED calling

\* dispose closes every open handle, without a block.
RequestCloseAll ==
  /\ state' = [h \in Handle |-> IF state[h] = "open" THEN "closing" ELSE state[h]]
  /\ UNCHANGED <<owed, calling>>

Finish(h) ==
  /\ state[h] = "closing" /\ calling = None
  /\ state' = [state EXCEPT ![h] = "closed"]
  /\ owed' = [owed EXCEPT ![h] = None]
  /\ calling' = IF owed[h] # None THEN h ELSE None

\* The block returned, or an exception escaped from it.
BlockOver ==
  /\ calling # None
  /\ calling' = None
  /\ UNCHANGED <<state, owed>>

LifeNext ==
  \/ \E h \in Handle : Open(h) \/ Finish(h)
  \/ \E h \in Handle, block \in Block \cup {None} : RequestClose(h, block)
  \/ RequestCloseAll
  \/ BlockOver

LifeSpec == LifeInit /\ [][LifeNext]_lifeVars
=============================================================================
