---------------------------- MODULE RequestLife ----------------------------
(***************************************************************************)
(* What a stream promises about the requests made of it ("Buffers are      *)
(* written in order", shutdown "waits for pending write requests to        *)
(* complete"): the block of each request is called exactly once, after the *)
(* blocks of all writes that were requested before it, and the stream is   *)
(* not closed before every one of them has been called.                    *)
(***************************************************************************)
EXTENDS Naturals

VARIABLES
  issued,      \* how many requests were made; they are numbered from 1
  shutdowns,   \* which of them are shutdowns; the others are writes
  called,      \* those whose block has been called
  gone         \* whether the stream is closed

requestVars == <<issued, shutdowns, called, gone>>

RequestInit == issued = 0 /\ shutdowns = {} /\ called = {} /\ gone = FALSE

Issue ==
  /\ ~gone
  /\ issued' = issued + 1
  /\ shutdowns' \in {shutdowns, shutdowns \cup {issued'}}
  /\ UNCHANGED <<called, gone>>

Call(r) ==
  /\ ~gone
  /\ r \notin called
  /\ \A q \in 1 .. r - 1 : q \in shutdowns \cup called
  /\ called' = called \cup {r}
  /\ UNCHANGED <<issued, shutdowns, gone>>

Disappear ==
  /\ called = 1 .. issued
  /\ gone' = TRUE
  /\ UNCHANGED <<issued, shutdowns, called>>

RequestNext == Issue \/ Disappear \/ \E r \in 1 .. issued : Call(r)

RequestSpec == RequestInit /\ [][RequestNext]_requestVars
=============================================================================
