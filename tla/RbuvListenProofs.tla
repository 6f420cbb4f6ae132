------------------------- MODULE RbuvListenProofs -------------------------
(***************************************************************************)
(* Proofs about RbuvListen, and with it about RbuvStream: any number of    *)
(* requests, any backlog, programs with or without exceptions.             *)
(*                                                                         *)
(* The invariant falls into three parts that disturb each other little:    *)
(* the requests and the queues of libuv they are in, the socket with the   *)
(* stages of its close, and the state of a listening socket.               *)
(***************************************************************************)
EXTENDS RbuvListen, TLAPS

-----------------------------------------------------------------------------
(* Queues of numbered requests.                                            *)

Ascending(s) == \A i, j \in 1 .. Len(s) : i < j => s[i] < s[j]

\* Everything of the one queue was requested before everything of the other.
Before(s, t) == \A x \in ToSet(s), y \in ToSet(t) : x < y

\* The elements of a queue are those at its positions.
LEMMA Elements ==
  ASSUME NEW s \in Seq(Nat)
  PROVE  /\ Len(s) \in Nat
         /\ \A i \in 1 .. Len(s) : s[i] \in ToSet(s)
         /\ \A x \in ToSet(s) : x \in Nat /\ \E i \in 1 .. Len(s) : x = s[i]
  BY DEF ToSet

\* An empty queue holds nothing.
LEMMA EmptyQueue == ToSet(<<>>) = {} /\ Ascending(<<>>)
  BY DEF ToSet, Ascending

\* A request at the end of a queue.
LEMMA AppendQueue ==
  ASSUME NEW s \in Seq(Nat), NEW r \in Nat
  PROVE  /\ ToSet(Append(s, r)) = ToSet(s) \cup {r}
         /\ Ascending(s) /\ (\A x \in ToSet(s) : x < r) => Ascending(Append(s, r))
<1> DEFINE a == Append(s, r)
<1>1. /\ a \in Seq(Nat)
      /\ Len(a) = Len(s) + 1 /\ Len(s) \in Nat
      /\ \A i \in 1 .. Len(s) : i \in 1 .. Len(a) /\ a[i] = s[i] /\ s[i] \in Nat
      /\ Len(a) \in 1 .. Len(a) /\ a[Len(a)] = r
      /\ \A i \in 1 .. Len(a) : i \in 1 .. Len(s) \/ i = Len(a)
  OBVIOUS
<1> HIDE DEF a
<1>2. /\ \A i \in 1 .. Len(a) : a[i] \in ToSet(a)
      /\ \A x \in ToSet(a) : \E i \in 1 .. Len(a) : x = a[i]
  BY <1>1, Elements
<1>3. /\ \A i \in 1 .. Len(s) : s[i] \in ToSet(s)
      /\ \A x \in ToSet(s) : \E i \in 1 .. Len(s) : x = s[i]
  BY Elements
<1>4. ToSet(a) = ToSet(s) \cup {r}
  <2>1. ASSUME NEW x \in ToSet(a) PROVE x \in ToSet(s) \cup {r}
    <3>1. PICK i \in 1 .. Len(a) : x = a[i]
      BY <1>2
    <3> QED
      BY <1>1, <1>3, <3>1
  <2>2. \A x \in ToSet(s) \cup {r} : x \in ToSet(a)
    BY <1>1, <1>2, <1>3
  <2> QED
    BY <2>1, <2>2
<1>5. ASSUME Ascending(s), \A x \in ToSet(s) : x < r,
             NEW i \in 1 .. Len(a), NEW j \in 1 .. Len(a), i < j
      PROVE  a[i] < a[j]
  <2>1. i \in 1 .. Len(s)
    BY <1>1, <1>5
  <2>2. CASE j \in 1 .. Len(s)
    BY <1>1, <1>5, <2>1, <2>2 DEF Ascending
  <2>3. CASE j = Len(a)
    BY <1>1, <1>3, <1>5, <2>1, <2>3
  <2> QED
    BY <1>1, <2>2, <2>3
<1> QED
  BY <1>4, <1>5 DEF Ascending, a

\* One queue moved behind another.
LEMMA ConcatQueue ==
  ASSUME NEW s \in Seq(Nat), NEW t \in Seq(Nat)
  PROVE  /\ s \o t \in Seq(Nat)
         /\ ToSet(s \o t) = ToSet(s) \cup ToSet(t)
         /\ Ascending(s) /\ Ascending(t) /\ Before(s, t) => Ascending(s \o t)
<1> DEFINE c == s \o t
<1>1. /\ c \in Seq(Nat)
      /\ Len(c) = Len(s) + Len(t) /\ Len(s) \in Nat /\ Len(t) \in Nat
      /\ \A i \in 1 .. Len(s) : c[i] = s[i]
      /\ \A k \in 1 .. Len(t) : c[Len(s) + k] = t[k]
  OBVIOUS
<1> HIDE DEF c
<1>2. /\ \A i \in 1 .. Len(s) : i \in 1 .. Len(c)
      /\ \A k \in 1 .. Len(t) : Len(s) + k \in 1 .. Len(c)
      /\ \A i \in 1 .. Len(c) :
           i \in 1 .. Len(s) \/ (i - Len(s) \in 1 .. Len(t) /\ i = Len(s) + (i - Len(s)))
  BY <1>1
<1>3. /\ \A i \in 1 .. Len(c) : c[i] \in ToSet(c)
      /\ \A x \in ToSet(c) : \E i \in 1 .. Len(c) : x = c[i]
  BY <1>1, Elements
<1>4. /\ \A i \in 1 .. Len(s) : s[i] \in ToSet(s)
      /\ \A x \in ToSet(s) : \E i \in 1 .. Len(s) : x = s[i]
  BY Elements
<1>5. /\ \A i \in 1 .. Len(t) : t[i] \in ToSet(t)
      /\ \A x \in ToSet(t) : \E i \in 1 .. Len(t) : x = t[i]
  BY Elements
<1>6. ToSet(c) = ToSet(s) \cup ToSet(t)
  <2>1. ASSUME NEW x \in ToSet(c) PROVE x \in ToSet(s) \cup ToSet(t)
    <3>1. PICK i \in 1 .. Len(c) : x = c[i]
      BY <1>3
    <3>2. CASE i \in 1 .. Len(s)
      BY <1>1, <1>4, <3>1, <3>2
    <3>3. CASE i - Len(s) \in 1 .. Len(t) /\ i = Len(s) + (i - Len(s))
      <4>1. x = t[i - Len(s)]
        BY <1>1, <3>1, <3>3
      <4> QED
        BY <1>5, <3>3, <4>1
    <3> QED
      BY <1>2, <3>2, <3>3
  <2>2. ASSUME NEW x \in ToSet(s) PROVE x \in ToSet(c)
    BY <1>1, <1>2, <1>3, <1>4
  <2>3. ASSUME NEW x \in ToSet(t) PROVE x \in ToSet(c)
    <3>1. PICK k \in 1 .. Len(t) : x = t[k]
      BY <1>5
    <3>2. x = c[Len(s) + k] /\ Len(s) + k \in 1 .. Len(c)
      BY <1>1, <1>2, <3>1
    <3> QED
      BY <1>3, <3>2
  <2> QED
    BY <2>1, <2>2, <2>3
<1>7. ASSUME Ascending(s), Ascending(t), Before(s, t),
             NEW i \in 1 .. Len(c), NEW j \in 1 .. Len(c), i < j
      PROVE  c[i] < c[j]
  <2>1. CASE j \in 1 .. Len(s)
    <3>1. i \in 1 .. Len(s)
      BY <1>1, <1>7, <2>1
    <3> QED
      BY <1>1, <1>7, <2>1, <3>1 DEF Ascending
  <2>2. CASE j - Len(s) \in 1 .. Len(t) /\ j = Len(s) + (j - Len(s))
    <3>1. c[j] = t[j - Len(s)]
      BY <1>1, <2>2
    <3>2. CASE i \in 1 .. Len(s)
      BY <1>1, <1>4, <1>5, <1>7, <2>2, <3>1, <3>2 DEF Before
    <3>3. CASE i - Len(s) \in 1 .. Len(t) /\ i = Len(s) + (i - Len(s))
      <4>1. c[i] = t[i - Len(s)]
        BY <1>1, <3>3
      <4>2. i - Len(s) < j - Len(s)
        BY <1>1, <1>7
      <4> QED
        BY <1>7, <2>2, <3>1, <3>3, <4>1, <4>2 DEF Ascending
    <3> QED
      BY <1>2, <3>2, <3>3
  <2> QED
    BY <1>2, <2>1, <2>2
<1> QED
  BY <1>1, <1>6, <1>7 DEF Ascending, c

\* The first of a queue is the oldest, and is not in the rest of it.
LEMMA HeadOfQueue ==
  ASSUME NEW s \in Seq(Nat), s # <<>>
  PROVE  /\ ToSet(s) = {Head(s)} \cup ToSet(Tail(s))
         /\ Head(s) \in Nat /\ Tail(s) \in Seq(Nat)
         /\ Ascending(s) => Ascending(Tail(s)) /\ \A x \in ToSet(Tail(s)) : Head(s) < x
<1> DEFINE t == Tail(s)
<1>1. /\ Head(s) = s[1] /\ t \in Seq(Nat) /\ Len(s) \in Nat \ {0}
      /\ Len(t) = Len(s) - 1
      /\ \A k \in 1 .. Len(t) : t[k] = s[k + 1]
      /\ s[1] \in Nat
  OBVIOUS
<1> HIDE DEF t
<1>2. /\ 1 \in 1 .. Len(s)
      /\ \A k \in 1 .. Len(t) : k + 1 \in 1 .. Len(s) /\ 1 < k + 1
      /\ \A i \in 1 .. Len(s) : i = 1 \/ (i - 1 \in 1 .. Len(t) /\ i = (i - 1) + 1)
  BY <1>1
<1>3. /\ \A i \in 1 .. Len(s) : s[i] \in ToSet(s)
      /\ \A x \in ToSet(s) : \E i \in 1 .. Len(s) : x = s[i]
  BY Elements
<1>4. /\ \A i \in 1 .. Len(t) : t[i] \in ToSet(t)
      /\ \A x \in ToSet(t) : \E i \in 1 .. Len(t) : x = t[i]
  BY <1>1, Elements
<1>5. ToSet(s) = {Head(s)} \cup ToSet(t)
  <2>1. ASSUME NEW x \in ToSet(s), x # Head(s) PROVE x \in ToSet(t)
    <3>1. PICK i \in 1 .. Len(s) : x = s[i]
      BY <1>3
    <3>2. i - 1 \in 1 .. Len(t) /\ x = t[i - 1]
      BY <1>1, <1>2, <2>1, <3>1
    <3> QED
      BY <1>4, <3>2
  <2>2. Head(s) \in ToSet(s)
    BY <1>1, <1>2, <1>3
  <2>3. ASSUME NEW x \in ToSet(t) PROVE x \in ToSet(s)
    <3>1. PICK k \in 1 .. Len(t) : x = t[k]
      BY <1>4
    <3>2. x = s[k + 1] /\ k + 1 \in 1 .. Len(s)
      BY <1>1, <1>2, <3>1
    <3> QED
      BY <1>3, <3>2
  <2> QED
    BY <2>1, <2>2, <2>3
<1>6. ASSUME Ascending(s) PROVE Ascending(t) /\ \A x \in ToSet(t) : Head(s) < x
  <2>1. ASSUME NEW i \in 1 .. Len(t), NEW j \in 1 .. Len(t), i < j PROVE t[i] < t[j]
    <3>1. t[i] = s[i + 1] /\ t[j] = s[j + 1] /\ i + 1 < j + 1
      BY <1>1, <2>1
    <3> QED
      BY <1>2, <1>6, <3>1 DEF Ascending
  <2>2. \A k \in 1 .. Len(t) : Head(s) < t[k]
    BY <1>1, <1>2, <1>6 DEF Ascending
  <2> QED
    BY <1>4, <2>1, <2>2 DEF Ascending
<1> QED
  BY <1>1, <1>5, <1>6 DEF t

\* A queue of numbers up to n, as a sequence and as a set.
LEMMA QueueOf ==
  ASSUME NEW n \in Nat, NEW s
  PROVE  s \in Seq(1 .. n) <=> s \in Seq(Nat) /\ ToSet(s) \subseteq 1 .. n
<1>1. ASSUME s \in Seq(1 .. n) PROVE s \in Seq(Nat) /\ ToSet(s) \subseteq 1 .. n
  <2>1. s \in Seq(Nat) /\ \A i \in 1 .. Len(s) : s[i] \in 1 .. n
    BY <1>1
  <2> QED
    BY <2>1, Elements
<1>2. ASSUME s \in Seq(Nat), ToSet(s) \subseteq 1 .. n PROVE s \in Seq(1 .. n)
  <2>1. \A i \in 1 .. Len(s) : s[i] \in 1 .. n
    BY <1>2, Elements
  <2> QED
    BY <1>2, <2>1
<1> QED
  BY <1>1, <1>2

-----------------------------------------------------------------------------
(* The requests.                                                           *)

\* The part of TypeOK about them.
RequestTypes ==
  /\ issued \in 0 .. MaxRequests
  /\ requests \subseteq 1 .. issued /\ shutdowns \subseteq 1 .. issued
  /\ called \subseteq 1 .. issued
  /\ write_queue \in Seq(1 .. issued) /\ completed \in Seq(1 .. issued)
  /\ shutdown_req \in 0 .. issued

\* Writes are finished in the order of their numbers, and a shutdown is apart.
InOrder ==
  /\ Ascending(completed) /\ Ascending(write_queue)
  /\ Before(completed, write_queue)
  /\ (ToSet(completed) \cup ToSet(write_queue)) \cap shutdowns = {}
  /\ shutdown_req # 0 => shutdown_req \in shutdowns

RequestInv == RequestTypes /\ RequestsHeld /\ InOrder

\* The same without sequences: the writes finished, those queued, and what is
\* known of each.
LEMMA RequestSets ==
  ASSUME RequestInv
  PROVE  /\ issued \in Nat /\ MaxRequests \in Nat /\ issued <= MaxRequests
         /\ write_queue \in Seq(Nat) /\ completed \in Seq(Nat)
         /\ ToSet(write_queue) \subseteq 1 .. issued /\ ToSet(completed) \subseteq 1 .. issued
BY StreamAssumption, QueueOf DEF RequestInv, RequestTypes

\* Steps that leave the requests alone.
LEMMA RequestsAlone == RequestInv /\ UNCHANGED reqVars => RequestInv'
BY DEF RequestInv, RequestTypes, RequestsHeld, InOrder, Ascending, Before, reqVars, ToSet

\* The array and the properties' variables after libuv accepted a request.
LEMMA RegisterKeeps ==
  ASSUME RequestInv, NEW isShutdown \in BOOLEAN, Register(isShutdown)
  PROVE  /\ issued' = issued + 1 /\ issued' \in 0 .. MaxRequests
         /\ called' = called /\ requests' = requests \cup {issued'}
         /\ requests' \subseteq 1 .. issued' /\ shutdowns' \subseteq 1 .. issued'
         /\ called' \subseteq 1 .. issued'
         /\ requests' = (1 .. issued') \ called'
         /\ shutdowns' = IF isShutdown THEN shutdowns \cup {issued'} ELSE shutdowns
<1>1. issued \in Nat /\ MaxRequests \in Nat /\ issued <= MaxRequests
  BY RequestSets
<1>2. issued' = issued + 1 /\ issued' \in 0 .. MaxRequests
  BY <1>1 DEF Register
<1>3. 1 .. issued' = (1 .. issued) \cup {issued'} /\ issued' \notin 1 .. issued
  BY <1>1, <1>2
<1> QED
  BY <1>2, <1>3 DEF Register, RequestInv, RequestTypes, RequestsHeld

\* write: the new request goes behind all that are queued, or is finished at
\* once when none is.
LEMMA WriteKeeps ==
  ASSUME RequestInv, Write
  PROVE  RequestInv'
<1> DEFINE r == issued + 1
<1>1. /\ issued' = r /\ r \in 0 .. MaxRequests
      /\ called' = called /\ requests' = requests \cup {r} /\ shutdowns' = shutdowns
      /\ requests' \subseteq 1 .. r /\ shutdowns' \subseteq 1 .. r /\ called' \subseteq 1 .. r
      /\ requests' = (1 .. r) \ called'
  BY RegisterKeeps DEF Write
<1>2. shutdown_req' = shutdown_req /\ shutdown_req' \in 0 .. r
  BY RequestSets DEF Write, RequestInv, RequestTypes
<1>3. \/ write_queue' = Append(write_queue, r) /\ completed' = completed
      \/ /\ write_queue = <<>> /\ completed' = Append(completed, r)
         /\ write_queue' = write_queue
  BY <1>1 DEF Write
<1>4. /\ write_queue' \in Seq(Nat) /\ completed' \in Seq(Nat)
      /\ ToSet(completed') \cup ToSet(write_queue')
           = ToSet(completed) \cup ToSet(write_queue) \cup {r}
      /\ Ascending(completed') /\ Ascending(write_queue')
      /\ Before(completed', write_queue')
  <2>1. /\ r \in Nat /\ r \notin 1 .. issued /\ issued \in Nat
        /\ \A x \in ToSet(completed) \cup ToSet(write_queue) : x < r
    BY RequestSets
  <2>2. Ascending(completed) /\ Ascending(write_queue) /\ Before(completed, write_queue)
    BY DEF RequestInv, InOrder
  <2>3. CASE write_queue' = Append(write_queue, r) /\ completed' = completed
    <3>1. ToSet(write_queue') = ToSet(write_queue) \cup {r} /\ Ascending(write_queue')
      BY <2>1, <2>2, <2>3, AppendQueue, RequestSets
    <3>2. write_queue' \in Seq(Nat)
      BY <2>1, <2>3, RequestSets
    <3> QED
      BY <2>1, <2>2, <2>3, <3>1, <3>2, RequestSets DEF Before
  <2>4. CASE write_queue = <<>> /\ completed' = Append(completed, r) /\ write_queue' = write_queue
    <3>1. ToSet(completed') = ToSet(completed) \cup {r} /\ Ascending(completed')
      BY <2>1, <2>2, <2>4, AppendQueue, RequestSets
    <3>2. completed' \in Seq(Nat)
      BY <2>1, <2>4, RequestSets
    <3>3. ToSet(write_queue') = {}
      BY <2>4, EmptyQueue
    <3> QED
      BY <2>1, <2>2, <2>4, <3>1, <3>2, <3>3, RequestSets DEF Before
  <2> QED
    BY <1>3, <2>3, <2>4
<1>5. RequestTypes'
  <2>1. 1 .. issued \cup {r} \subseteq 1 .. r
    BY RequestSets
  <2>2. ToSet(completed') \subseteq 1 .. r /\ ToSet(write_queue') \subseteq 1 .. r
    <3> HIDE DEF r
    <3> QED
      BY <1>4, <2>1, RequestSets
  <2>3. write_queue' \in Seq(1 .. r) /\ completed' \in Seq(1 .. r)
    BY <1>1, <1>4, <2>2, QueueOf
  <2> QED
    BY <1>1, <1>2, <2>3 DEF RequestTypes
<1>6. RequestsHeld'
  <2> HIDE DEF r
  <2> QED
    BY <1>1, <1>2, <1>4 DEF RequestsHeld, RequestInv
<1>7. InOrder'
  <2>1. r \notin shutdowns
    BY RequestSets DEF RequestInv, RequestTypes
  <2> HIDE DEF r
  <2> QED
    BY <1>1, <1>2, <1>4, <2>1 DEF RequestInv, InOrder
<1> QED
  BY <1>5, <1>6, <1>7 DEF RequestInv

\* shutdown: one at a time, and its request is in no queue.
LEMMA ShutdownKeeps ==
  ASSUME RequestInv, Shutdown
  PROVE  RequestInv'
<1> DEFINE r == issued + 1
<1>1. /\ issued' = r /\ r \in 0 .. MaxRequests
      /\ called' = called /\ requests' = requests \cup {r} /\ shutdowns' = shutdowns \cup {r}
      /\ requests' \subseteq 1 .. r /\ shutdowns' \subseteq 1 .. r /\ called' \subseteq 1 .. r
      /\ requests' = (1 .. r) \ called'
  BY RegisterKeeps DEF Shutdown
<1>2. /\ shutdown_req = 0 /\ shutdown_req' = r
      /\ write_queue' = write_queue /\ completed' = completed
  BY <1>1 DEF Shutdown
<1>3. r \notin 1 .. issued /\ 1 .. issued \subseteq 1 .. r /\ r \in Nat \ {0}
  BY RequestSets
<1> HIDE DEF r
<1>4. RequestTypes'
  <2>1. write_queue' \in Seq(1 .. r) /\ completed' \in Seq(1 .. r)
    BY <1>1, <1>2, <1>3, RequestSets, QueueOf
  <2>2. shutdown_req' \in 0 .. r
    BY <1>2, <1>3
  <2> QED
    BY <1>1, <2>1, <2>2 DEF RequestTypes
<1>5. RequestsHeld'
  BY <1>1, <1>2, <1>3 DEF RequestsHeld, RequestInv
<1>6. InOrder'
  <2>1. (ToSet(completed) \cup ToSet(write_queue)) \cap (shutdowns \cup {r}) = {}
    BY <1>3, RequestSets DEF RequestInv, InOrder
  <2> QED
    BY <1>1, <1>2, <2>1 DEF RequestInv, InOrder, Ascending, Before
<1> QED
  BY <1>4, <1>5, <1>6 DEF RequestInv

\* Writes that libuv finishes, all of those queued or the first of them, go
\* behind those that were finished before.
LEMMA FinishKeeps ==
  ASSUME RequestInv,
         \/ completed' = completed \o write_queue /\ write_queue' = <<>>
         \/ /\ write_queue # <<>>
            /\ completed' = Append(completed, Head(write_queue))
            /\ write_queue' = Tail(write_queue),
         UNCHANGED <<requests, shutdown_req, issued, shutdowns, called>>
  PROVE  RequestInv'
<1>1. Ascending(completed) /\ Ascending(write_queue) /\ Before(completed, write_queue)
  BY DEF RequestInv, InOrder
<1>2. /\ write_queue' \in Seq(Nat) /\ completed' \in Seq(Nat)
      /\ ToSet(completed') \cup ToSet(write_queue') = ToSet(completed) \cup ToSet(write_queue)
      /\ Ascending(completed') /\ Ascending(write_queue') /\ Before(completed', write_queue')
  <2>1. CASE completed' = completed \o write_queue /\ write_queue' = <<>>
    BY <1>1, <2>1, EmptyQueue, ConcatQueue, RequestSets DEF Before
  <2>2. CASE /\ write_queue # <<>>
             /\ completed' = Append(completed, Head(write_queue))
             /\ write_queue' = Tail(write_queue)
    <3>1. /\ ToSet(write_queue) = {Head(write_queue)} \cup ToSet(write_queue')
          /\ Head(write_queue) \in Nat /\ write_queue' \in Seq(Nat)
          /\ Ascending(write_queue') /\ \A x \in ToSet(write_queue') : Head(write_queue) < x
      BY <1>1, <2>2, HeadOfQueue, RequestSets
    <3>2. \A x \in ToSet(completed) : x < Head(write_queue)
      BY <1>1, <3>1 DEF Before
    <3>3. /\ ToSet(completed') = ToSet(completed) \cup {Head(write_queue)}
          /\ Ascending(completed') /\ completed' \in Seq(Nat)
      BY <1>1, <2>2, <3>1, <3>2, AppendQueue, RequestSets
    <3> QED
      BY <1>1, <3>1, <3>3 DEF Before
  <2> QED
    BY <2>1, <2>2
<1>3. RequestTypes'
  <2>1. ToSet(completed') \subseteq 1 .. issued /\ ToSet(write_queue') \subseteq 1 .. issued
    BY <1>2, RequestSets
  <2>2. write_queue' \in Seq(1 .. issued) /\ completed' \in Seq(1 .. issued)
    BY <1>2, <2>1, QueueOf, RequestSets
  <2> QED
    BY <2>2 DEF RequestTypes, RequestInv
<1>4. RequestsHeld'
  BY <1>2 DEF RequestsHeld, RequestInv
<1>5. InOrder'
  BY <1>2 DEF InOrder, RequestInv
<1> QED
  BY <1>3, <1>4, <1>5 DEF RequestInv

\* The request of the oldest finished write: nothing older is held but shutdowns.
LEMMA OnWriteKeeps ==
  ASSUME RequestInv, on_write
  PROVE  /\ RequestInv'
         /\ Head(completed) \in (1 .. issued) \ called
         /\ \A q \in 1 .. Head(completed) - 1 : q \in shutdowns \cup called
<1> DEFINE r == Head(completed)
<1>1. completed # <<>> /\ completed' = Tail(completed) /\ requests' = requests \ {r}
      /\ called' = called \cup {r}
      /\ UNCHANGED <<write_queue, shutdown_req, shut, issued, shutdowns>>
  BY DEF on_write, Complete
<1>2. Ascending(completed) /\ Ascending(write_queue) /\ Before(completed, write_queue)
  BY DEF RequestInv, InOrder
<1>3. /\ ToSet(completed) = {r} \cup ToSet(completed')
      /\ r \in Nat /\ completed' \in Seq(Nat) /\ Ascending(completed')
      /\ \A x \in ToSet(completed') : r < x
  BY <1>1, <1>2, HeadOfQueue, RequestSets
<1> HIDE DEF r
<1>4. (\A x \in ToSet(write_queue) : r < x) /\ Before(completed', write_queue)
  BY <1>2, <1>3 DEF Before
<1>5. r \notin ToSet(completed') \cup ToSet(write_queue) /\ r \in 1 .. issued
  BY <1>3, <1>4, RequestSets
<1>6. r \notin shutdowns /\ r \notin {shutdown_req} \ {0}
  BY <1>3 DEF RequestInv, InOrder
<1>7. r \notin called
  BY <1>3, <1>5 DEF RequestInv, RequestsHeld
<1>8. RequestTypes'
  <2>1. ToSet(completed') \subseteq 1 .. issued
    BY <1>3, RequestSets
  <2>2. completed' \in Seq(1 .. issued)
    BY <1>3, <2>1, QueueOf, RequestSets
  <2> QED
    BY <1>1, <1>5, <2>2 DEF RequestTypes, RequestInv
<1>9. RequestsHeld'
  BY <1>1, <1>3, <1>5, <1>6 DEF RequestsHeld, RequestInv
<1>10. InOrder'
  <2>1. (ToSet(completed') \cup ToSet(write_queue)) \cap shutdowns = {}
    BY <1>3 DEF RequestInv, InOrder
  <2> QED
    BY <1>1, <1>2, <1>3, <1>4, <2>1 DEF RequestInv, InOrder, Ascending, Before
<1>11. \A q \in 1 .. r - 1 : q \in shutdowns \cup called
  <2> SUFFICES ASSUME NEW q \in 1 .. r - 1, q \notin called PROVE q \in shutdowns
    OBVIOUS
  <2>1. q \in 1 .. issued /\ q < r
    BY <1>5, RequestSets
  <2>2. q \in requests
    BY <2>1 DEF RequestInv, RequestsHeld
  <2>3. q \notin ToSet(completed) \cup ToSet(write_queue)
    BY <1>3, <1>4, <2>1
  <2>4. q = shutdown_req /\ shutdown_req # 0
    BY <2>2, <2>3 DEF RequestInv, RequestsHeld
  <2> QED
    BY <2>4 DEF RequestInv, InOrder
<1> QED
  BY <1>5, <1>7, <1>8, <1>9, <1>10, <1>11 DEF RequestInv, r

\* The request of the shutdown, with no write left: it is the last one held.
LEMMA OnShutdownKeeps ==
  ASSUME RequestInv, on_shutdown, completed = <<>>, write_queue = <<>>
  PROVE  /\ RequestInv'
         /\ shutdown_req \in (1 .. issued) \ called
         /\ \A q \in 1 .. shutdown_req - 1 : q \in shutdowns \cup called
<1>1. /\ shutdown_req # 0 /\ shutdown_req' = 0
      /\ requests' = requests \ {shutdown_req} /\ called' = called \cup {shutdown_req}
      /\ UNCHANGED <<write_queue, completed, issued, shutdowns>>
  BY DEF on_shutdown, Complete
<1>2. requests = {shutdown_req} /\ requests = (1 .. issued) \ called
  BY <1>1, EmptyQueue DEF RequestInv, RequestsHeld
<1>3. shutdown_req \in (1 .. issued) \ called
  BY <1>2
<1>4. RequestTypes'
  BY <1>1, <1>3, RequestSets DEF RequestInv, RequestTypes
<1>5. RequestsHeld'
  BY <1>1, <1>2, EmptyQueue DEF RequestsHeld
<1>6. InOrder'
  BY <1>1 DEF RequestInv, InOrder, Ascending, Before
<1>7. \A q \in 1 .. shutdown_req - 1 : q \in called
  <2>1. 1 .. shutdown_req - 1 \subseteq (1 .. issued) \ {shutdown_req}
    BY <1>3, RequestSets
  <2> QED
    BY <1>2, <2>1
<1> QED
  BY <1>3, <1>4, <1>5, <1>6, <1>7 DEF RequestInv

-----------------------------------------------------------------------------
(* The socket and the stages of its close.                                 *)

\* The rest of TypeOK.
SocketTypes ==
  /\ created \in BOOLEAN /\ uv_handle \in BOOLEAN /\ cb_on_connect \in BOOLEAN
  /\ fd \in BOOLEAN /\ connected \in BOOLEAN /\ connect_req \in BOOLEAN
  /\ reading \in BOOLEAN /\ shut \in BOOLEAN
  /\ closing \in BOOLEAN /\ closed \in BOOLEAN /\ running \in BOOLEAN
  /\ pos \in {"wait", "read", "callbacks", "refused", "flushed", "destroy", "cancel", "last",
              "server", "aborted"}
  /\ cb \in {"none", "connect", "read", "write", "shutdown", "close", "connection"}

\* What close has done with the pointer and a connect in flight.
SocketOfStream ==
  /\ connect_req => uv_handle
  /\ uv_handle \/ closing => created
  /\ closed => closing /\ ~connect_req
  /\ created /\ ~uv_handle => closed

\* How far libuv has come with a close: it gets rid of the requests kind by
\* kind before it calls back.
StageOfClose ==
  /\ pos \in {"read", "callbacks", "refused", "flushed"} => uv_handle
  /\ pos \in {"destroy", "cancel", "last"} => closed /\ uv_handle
  /\ pos \in {"cancel", "last"} => write_queue = <<>>
  /\ pos = "last" => completed = <<>> /\ shutdown_req = 0

SocketInv == SocketTypes /\ ConnectHasBlock /\ SocketOfStream /\ StageOfClose

\* The type invariant of a stream is its two parts together.
LEMMA TypesOfStream == TypeOK <=> RequestTypes /\ SocketTypes
BY DEF TypeOK, RequestTypes, SocketTypes

\* A call by Ruby code.
LEMMA ProgramKeepsSocket ==
  ASSUME SocketInv, Program, Write \/ Shutdown => ~closing
  PROVE  SocketInv'
<1> USE DEF SocketInv, SocketTypes, ConnectHasBlock, SocketOfStream, StageOfClose,
            objVars, sockVars, connVars, endVars, runVars, reqVars
<1>1. CASE New
  BY <1>1 DEF New
<1>2. CASE Connect
  BY <1>2 DEF Connect
<1>3. CASE ConnectRaises
  <2>1. fd' \in {fd, fd \/ ~closing}
    BY <1>3 DEF ConnectRaises
  <2>2. fd' \in BOOLEAN
    BY <2>1
  <2>3. /\ UNCHANGED <<created, uv_handle, connected, reading, shut, connect_req, closing, closed>>
        /\ UNCHANGED <<running, pos, cb, write_queue, completed, shutdown_req>>
        /\ cb_on_connect' = TRUE
    BY <1>3 DEF ConnectRaises
  <2> QED
    BY <2>2, <2>3
<1>4. CASE Bind
  BY <1>4 DEF Bind
<1>5. CASE Write
  BY <1>5 DEF Write
<1>6. CASE Shutdown
  BY <1>6 DEF Shutdown
<1>7. CASE Close
  BY <1>7 DEF Close
<1>8. CASE Run
  BY <1>8 DEF Run
<1>9. CASE \E on \in BOOLEAN : Read(on)
  BY <1>9 DEF Read
<1> QED
  BY <1>1, <1>2, <1>3, <1>4, <1>5, <1>6, <1>7, <1>8, <1>9 DEF Program

\* A step of libuv on an open stream.
LEMMA IoKeepsSocket ==
  ASSUME SocketInv, fd => uv_handle,
         \/ Connected \/ Refused \/ OnRead \/ TryWrite \/ OnWrite \/ OnShutdown \/ IoDone
  PROVE  SocketInv'
<1> USE DEF SocketInv, SocketTypes, ConnectHasBlock, SocketOfStream, StageOfClose, InLoop,
            objVars, sockVars, connVars, endVars, runVars, reqVars
<1>1. CASE Connected
  BY <1>1 DEF Connected, on_connect
<1>2. CASE Refused
  BY <1>2 DEF Refused, Flush
<1>3. CASE OnRead
  BY <1>3 DEF OnRead
<1>4. CASE TryWrite
  BY <1>4 DEF TryWrite
<1>5. CASE OnWrite
  BY <1>5 DEF OnWrite, on_write, Complete
<1>6. CASE OnShutdown
  BY <1>6 DEF OnShutdown, on_shutdown, Complete
<1>7. CASE IoDone
  BY <1>7 DEF IoDone
<1> QED
  BY <1>1, <1>2, <1>3, <1>4, <1>5, <1>6, <1>7

\* A step of its close, or the end of a block or of the run.
LEMMA CloseKeepsSocket ==
  ASSUME SocketInv,
         \/ FinishClose \/ Cancel \/ CancelShutdown \/ OnClose
         \/ RunReturns \/ Return \/ Raise
  PROVE  SocketInv'
<1> USE DEF SocketInv, SocketTypes, ConnectHasBlock, SocketOfStream, StageOfClose, InLoop,
            objVars, sockVars, connVars, endVars, runVars, reqVars
<1>1. CASE FinishClose
  <2>1. CASE connect_req
    BY <1>1, <2>1 DEF FinishClose, on_connect
  <2>2. CASE ~connect_req
    BY <1>1, <2>2 DEF FinishClose
  <2> QED
    BY <2>1, <2>2
<1>2. CASE Cancel
  BY <1>2 DEF Cancel, Flush
<1>3. CASE CancelShutdown
  BY <1>3 DEF CancelShutdown, on_shutdown, Complete
<1>4. CASE OnClose
  BY <1>4 DEF OnClose
<1>5. CASE RunReturns
  BY <1>5 DEF RunReturns
<1>6. CASE Return
  BY <1>6 DEF Return
<1>7. CASE Raise
  BY <1>7 DEF Raise
<1> QED
  BY <1>1, <1>2, <1>3, <1>4, <1>5, <1>6, <1>7

\* Every step of the stream keeps RequestInv: the others do not touch requests.
LEMMA StreamKeepsRequests ==
  ASSUME RequestInv, StageOfClose, Next
  PROVE  RequestInv'
<1>1. CASE New \/ Connect \/ ConnectRaises \/ Bind \/ Close \/ Run \/ \E on \in BOOLEAN : Read(on)
  BY <1>1, RequestsAlone
  DEF New, Connect, ConnectRaises, Bind, Close, Run, Read
<1>2. CASE Write \/ Shutdown
  BY <1>2, WriteKeeps, ShutdownKeeps
<1>3. CASE Connected \/ OnRead \/ IoDone \/ FinishClose \/ OnClose \/ RunReturns \/ Return \/ Raise
  BY <1>3, RequestsAlone
  DEF Connected, OnRead, IoDone, FinishClose, OnClose, RunReturns, Return, Raise
<1>4. CASE Refused
  <2>1. CASE fd
    BY <1>4, <2>1, FinishKeeps DEF Refused, Flush
  <2>2. CASE ~fd
    BY <1>4, <2>2, RequestsAlone DEF Refused
  <2> QED
    BY <2>1, <2>2
<1>5. CASE Cancel
  BY <1>5, FinishKeeps DEF Cancel, Flush
<1>6. CASE TryWrite
  <2>1. CASE UNCHANGED <<write_queue, completed>>
    <3>1. UNCHANGED <<requests, write_queue, completed, shutdown_req, shut, issued, shutdowns, called>>
      BY <1>6, <2>1 DEF TryWrite
    <3> QED
      BY <3>1, RequestsAlone DEF reqVars
  <2>2. CASE /\ write_queue # <<>>
             /\ completed' = Append(completed, Head(write_queue))
             /\ write_queue' = Tail(write_queue)
    BY <1>6, <2>2, FinishKeeps DEF TryWrite
  <2> QED
    BY <1>6, <2>1, <2>2 DEF TryWrite
<1>7. CASE OnWrite
  BY <1>7, OnWriteKeeps DEF OnWrite
<1>8. CASE OnShutdown
  BY <1>8, OnShutdownKeeps DEF OnShutdown
<1>9. CASE CancelShutdown
  BY <1>9, OnShutdownKeeps, RequestsAlone DEF CancelShutdown, InLoop, StageOfClose
<1> QED
  BY <1>1, <1>2, <1>3, <1>4, <1>5, <1>6, <1>7, <1>8, <1>9 DEF Next, Program, LoopStep

-----------------------------------------------------------------------------
(* The listening socket.                                                   *)

\* A socket is open on an open stream, but for the one a closing stream listens on.
OpenSocket == fd /\ ~listening => uv_handle /\ ~closing

\* A listening socket is open and used for nothing else; the close of a stream that
\* listens again calls no block on its way.
ListenerIsFresh ==
  listening =>
    /\ fd /\ ~connect_req /\ ~connected /\ ~reading /\ issued = 0
    /\ \/ pos \in {"wait", "server", "aborted"}
       \/ /\ pos \in {"destroy", "cancel", "last"} /\ running /\ cb = "none"
          /\ ~armed /\ (accepted_fd \/ "refused" \in mishap)

\* Libuv keeps connections only for a listening stream, with a block to report
\* them to, and watches it all along uv__server_io.
ServerState ==
  /\ listening \in BOOLEAN /\ armed \in BOOLEAN
  /\ cb_on_connection \in BOOLEAN /\ accepted_fd \in BOOLEAN
  /\ backlog \in 0 .. MaxBacklog
  /\ mishap \subseteq {"retried", "unwound", "relistened", "refused", "reopened"}
  /\ listening /\ closing => "reopened" \in mishap
  /\ listening => cb_on_connection \/ "retried" \in mishap
  /\ armed \/ accepted_fd \/ backlog > 0 => listening
  /\ listening /\ pos = "server" => armed
  /\ pos = "aborted" => running /\ cb = "none"

ServerInv == OpenSocket /\ ListenerIsFresh /\ ServerState /\ WatchAgrees /\ AbortNeedsMishap

\* A stream that does not listen: nothing of the listener changes.
LEMMA StreamKeepsServer ==
  ASSUME SocketInv, ServerInv, AsStream
  PROVE  ServerInv'
<1>1. ~listening /\ UNCHANGED serverVars
  BY DEF AsStream
<1>2. pos' = "aborted" => pos = "aborted" /\ running' = running /\ cb' = cb
  BY DEF AsStream, Next, Program, New, Connect, ConnectRaises, Bind, Write, Shutdown, Close,
         Run, Read, LoopStep, Connected, Refused, OnRead, TryWrite, OnWrite, OnShutdown,
         IoDone, FinishClose, Cancel, CancelShutdown, OnClose, RunReturns, Return, Raise,
         InLoop, Ruby, runVars, ServerInv, ServerState
<1>3. fd' => uv_handle' /\ ~closing'
  <2>1. fd => uv_handle /\ ~closing
    BY <1>1 DEF ServerInv, OpenSocket
  <2>2. CASE Program
    BY <2>1, <2>2
    DEF Program, New, Connect, ConnectRaises, Bind, Write, Shutdown, Close, Run, Read,
        objVars, sockVars, endVars
  <2>3. CASE OnClose
    BY <2>1, <2>3 DEF OnClose, InLoop, sockVars, endVars, SocketInv, StageOfClose, SocketOfStream
  <2>4. CASE (LoopStep \/ RunReturns \/ Return \/ Raise) /\ ~OnClose
    <3>1. fd' = fd /\ uv_handle' = uv_handle /\ closing' = closing
      BY <2>4
      DEF LoopStep, Connected, Refused, OnRead, TryWrite, OnWrite, OnShutdown, IoDone,
          FinishClose, Cancel, CancelShutdown, RunReturns, Return, Raise,
          objVars, sockVars, endVars
    <3> QED
      BY <2>1, <3>1
  <2> QED
    BY <2>2, <2>3, <2>4 DEF AsStream, Next
<1> QED
  BY <1>1, <1>2, <1>3
  DEF ServerInv, OpenSocket, ListenerIsFresh, ServerState, WatchAgrees, AbortNeedsMishap,
      serverVars

\* The listener's other steps, by actors: each keeps the socket's part as well,
\* and no request is there to be touched.
ListenInv == RequestInv /\ SocketInv /\ ServerInv

\* listen: the second call of the macro, too, may start to listen.
LEMMA ListenKeeps ==
  ASSUME ListenInv, Listen \/ ListenRaises
  PROVE  ListenInv'
<1> USE DEF ListenInv, objVars, sockVars, connVars, endVars, runVars
<1>1. RequestInv'
  BY RequestsAlone DEF Listen, ListenRaises
<1>2. /\ Ruby /\ uv_handle /\ (Fresh \/ listening)
      /\ UNCHANGED <<created, uv_handle, connected, reading, cb_on_connect, connect_req>>
      /\ UNCHANGED <<closing, closed, running, pos, cb>>
      /\ UNCHANGED <<write_queue, completed, shutdown_req, shut, issued>>
      /\ fd' = fd \/ fd' = TRUE \/ fd' = (fd \/ ~closing)
  BY DEF Listen, ListenRaises, uv_listen, reqVars
<1>3. SocketInv'
  <2>1. fd' \in BOOLEAN
    BY <1>2 DEF SocketInv, SocketTypes
  <2> QED
    BY <1>2, <2>1 DEF SocketInv, SocketTypes, ConnectHasBlock, SocketOfStream, StageOfClose
<1>4. pos \in {"wait", "server"}
  BY <1>2 DEF Ruby, ServerInv, ServerState, ListenerIsFresh, Fresh
<1>5. ASSUME UNCHANGED <<listening, armed, cb_on_connection, accepted_fd, backlog, mishap>>,
             fd' \in {fd, fd \/ ~closing}
      PROVE  ServerInv'
  <2>1. listening => fd' = TRUE
    BY <1>5 DEF ServerInv, ListenerIsFresh
  <2>2. OpenSocket'
    BY <1>2, <1>5 DEF ServerInv, OpenSocket
  <2> QED
    BY <1>2, <1>4, <1>5, <2>1, <2>2
    DEF ServerInv, ListenerIsFresh, ServerState, WatchAgrees, AbortNeedsMishap
<1>6. ASSUME NEW more \in SUBSET {"retried"}, uv_listen(more),
             cb_on_connection' = TRUE \/ ("retried" \in more /\ cb_on_connection' = cb_on_connection)
      PROVE  ServerInv'
  <2>1. /\ fd' = TRUE /\ listening' = TRUE /\ armed' = TRUE
        /\ UNCHANGED <<accepted_fd, backlog>>
    BY <1>6 DEF uv_listen
  <2>2. /\ mishap \cup more \subseteq mishap'
        /\ mishap' \subseteq mishap \cup more \cup {"relistened", "reopened"}
        /\ accepted_fd /\ ~armed => "relistened" \in mishap'
        /\ closing => "reopened" \in mishap'
    BY <1>6 DEF uv_listen
  <2>3. /\ cb_on_connection' \in BOOLEAN
        /\ cb_on_connection' \/ "retried" \in mishap'
    BY <1>6, <2>2 DEF ServerInv, ServerState
  <2>4. OpenSocket' /\ ListenerIsFresh'
    BY <1>2, <1>4, <2>1 DEF ServerInv, OpenSocket, ListenerIsFresh, Fresh
  <2>5. ServerState' /\ AbortNeedsMishap'
    BY <1>2, <1>4, <2>1, <2>2, <2>3 DEF ServerInv, ServerState, AbortNeedsMishap
  <2>6. WatchAgrees'
    BY <1>2, <2>1, <2>2 DEF ServerInv, ServerState, WatchAgrees
  <2> QED
    BY <2>4, <2>5, <2>6 DEF ServerInv
<1>7. ServerInv'
  BY <1>5, <1>6 DEF Listen, ListenRaises
<1> QED
  BY <1>1, <1>3, <1>7

\* accept, and being accepted.
LEMMA AcceptKeeps ==
  ASSUME ListenInv, Accept \/ AcceptRaises \/ AcceptedBy
  PROVE  ListenInv'
<1> USE DEF ListenInv
<1>1. RequestInv'
  BY RequestsAlone DEF Accept, AcceptRaises, AcceptedBy, vars
<1>2. CASE Accept \/ AcceptRaises
  <2>1. /\ Ruby /\ listening /\ accepted_fd /\ accepted_fd' = FALSE
        /\ UNCHANGED <<created, uv_handle, fd, connected, reading, cb_on_connect, connect_req>>
        /\ UNCHANGED <<closing, closed, running, pos, cb>>
        /\ UNCHANGED <<write_queue, completed, shutdown_req, shut, issued>>
        /\ UNCHANGED <<listening, cb_on_connection, backlog>>
    BY <1>2 DEF Accept, AcceptRaises, vars, objVars, sockVars, connVars, endVars, runVars, reqVars
  <2>2. /\ mishap \subseteq mishap' /\ mishap' \subseteq mishap \cup {"refused"}
        /\ armed => armed'
        /\ armed' \in BOOLEAN
        /\ armed' \/ "refused" \in mishap'
    BY <1>2 DEF Accept, AcceptRaises, ServerInv, ServerState
  <2>3. SocketInv'
    BY <2>1 DEF SocketInv, SocketTypes, ConnectHasBlock, SocketOfStream, StageOfClose
  <2>4. OpenSocket' /\ ListenerIsFresh'
    BY <2>1 DEF ServerInv, OpenSocket, ListenerIsFresh, Ruby
  <2>5. ServerState' /\ AbortNeedsMishap'
    BY <2>1, <2>2 DEF ServerInv, ServerState, AbortNeedsMishap
  <2>6. WatchAgrees'
    BY <2>1, <2>2 DEF WatchAgrees
  <2> QED
    BY <1>1, <2>3, <2>4, <2>5, <2>6 DEF ServerInv
<1>3. CASE AcceptedBy
  <2>1. /\ Ruby /\ uv_handle /\ ~closing /\ ~fd /\ fd' = TRUE /\ connected' = TRUE
        /\ UNCHANGED <<created, uv_handle, reading, cb_on_connect, connect_req>>
        /\ UNCHANGED <<closing, closed, running, pos, cb>>
        /\ UNCHANGED <<write_queue, completed, shutdown_req, shut, issued>>
        /\ UNCHANGED <<listening, armed, cb_on_connection, accepted_fd, backlog, mishap>>
    BY <1>3 DEF AcceptedBy, objVars, connVars, endVars, runVars, reqVars, serverVars
  <2>2. SocketInv'
    BY <2>1 DEF SocketInv, SocketTypes, ConnectHasBlock, SocketOfStream, StageOfClose
  <2>3. ServerInv'
    BY <2>1
    DEF ServerInv, OpenSocket, ListenerIsFresh, ServerState, WatchAgrees, AbortNeedsMishap
  <2> QED
    BY <1>1, <2>2, <2>3
<1> QED
  BY <1>2, <1>3

\* close of a listener: everything libuv kept for it is gone at once.
LEMMA CloseServerKeeps ==
  ASSUME ListenInv, CloseServer
  PROVE  ListenInv'
<1>1. RequestInv'
  BY RequestsAlone DEF ListenInv, CloseServer, Close
<1>2. SocketInv'
  BY ProgramKeepsSocket DEF ListenInv, CloseServer, Program, Close
<1>3. ServerInv'
  <2>1. /\ listening' = FALSE /\ armed' = FALSE /\ accepted_fd' = FALSE /\ backlog' = 0
        /\ fd' = FALSE /\ UNCHANGED <<cb_on_connection, mishap, running, pos, cb>>
    BY DEF CloseServer, Close, runVars
  <2>2. 0 \in 0 .. MaxBacklog /\ ~(0 > 0)
    BY BacklogAssumption
  <2> QED
    BY <2>1, <2>2
    DEF ListenInv, ServerInv, OpenSocket, ListenerIsFresh, ServerState, WatchAgrees,
        AbortNeedsMishap
<1> QED
  BY <1>1, <1>2, <1>3 DEF ListenInv

\* Other calls of Ruby code on a listener, and the end of a block or a run.
LEMMA ListenerKeeps ==
  ASSUME ListenInv, AsListener
  PROVE  ListenInv'
<1>1. RequestInv'
  BY RequestsAlone
  DEF ListenInv, AsListener, ConnectRaises, Bind, Run, RunReturns, Return
<1>2. SocketInv'
  <2>1. CASE ConnectRaises \/ Bind \/ Run
    <3>1. UNCHANGED issued /\ issued = 0
      BY <2>1
      DEF ConnectRaises, Bind, Run, reqVars, ListenInv, AsListener, ServerInv, ListenerIsFresh
    <3>2. ~Write /\ ~Shutdown
      BY <3>1 DEF Write, Shutdown, Register
    <3> QED
      BY <2>1, <3>2, ProgramKeepsSocket DEF ListenInv, Program
  <2>2. CASE RunReturns \/ Return
    BY <2>2, CloseKeepsSocket DEF ListenInv
  <2> QED
    BY <2>1, <2>2 DEF AsListener
<1>3. ServerInv'
  <2>1. /\ listening /\ fd' = TRUE /\ pos' = pos
        /\ UNCHANGED <<connected, connect_req, reading, issued, closing>>
        /\ UNCHANGED <<listening, armed, cb_on_connection, accepted_fd, backlog, mishap>>
    BY DEF ListenInv, AsListener, ConnectRaises, Bind, Run, RunReturns, Return,
           sockVars, connVars, endVars, reqVars, runVars, serverVars,
           ServerInv, ListenerIsFresh, SocketInv, SocketTypes
  <2>2. pos = "aborted" => running' = running /\ cb' = cb
    BY DEF ListenInv, AsListener, ConnectRaises, Bind, Run, RunReturns, Return, InLoop,
           runVars, ServerInv, ServerState
  <2>3. pos \in {"destroy", "cancel", "last"} => running' = running /\ cb' = cb
    BY DEF ListenInv, AsListener, ConnectRaises, Bind, Run, RunReturns, Return, InLoop,
           runVars, ServerInv, ListenerIsFresh
  <2> QED
    BY <2>1, <2>2, <2>3
    DEF ListenInv, ServerInv, OpenSocket, ListenerIsFresh, ServerState, WatchAgrees,
        AbortNeedsMishap
<1> QED
  BY <1>1, <1>2, <1>3 DEF ListenInv

\* uv__server_io, and the network.
LEMMA ServerStepKeeps ==
  ASSUME ListenInv, ServerStep \/ Arrive \/ Abandon
  PROVE  ListenInv'
<1> USE DEF ListenInv
<1>1. /\ UNCHANGED reqVars
      /\ UNCHANGED <<created, uv_handle, fd, connected, reading, cb_on_connect, connect_req>>
      /\ UNCHANGED <<closing, closed, cb_on_connection, listening>>
  BY DEF ServerStep, OnConnection, OnConnectionRaises, ServerDone, Abort, Arrive, Abandon,
         vars, objVars, sockVars, connVars, endVars, serverVars
<1>2. RequestInv'
  BY <1>1, RequestsAlone
<1>3. UNCHANGED <<write_queue, completed, shutdown_req, shut, issued>>
  BY <1>1 DEF reqVars
<1>4. SocketInv'
  <2>1. /\ pos' \in {pos, "wait", "server", "aborted"}
        /\ cb' \in {cb, "connection"}
        /\ running' = running \/ running' = FALSE
    BY DEF ServerStep, OnConnection, OnConnectionRaises, ServerDone, Abort, Arrive, Abandon,
           vars, runVars
  <2>2. running' \in BOOLEAN
    BY <2>1 DEF SocketInv, SocketTypes
  <2> QED
    BY <1>1, <1>3, <2>1, <2>2
    DEF SocketInv, SocketTypes, ConnectHasBlock, SocketOfStream, StageOfClose
<1>5. /\ UNCHANGED <<fd, connected, connect_req, reading, issued, listening, cb_on_connection>>
      /\ UNCHANGED <<uv_handle, closing>>
      /\ backlog' \in 0 .. MaxBacklog
  <2>1. backlog \in Nat /\ MaxBacklog \in Nat /\ backlog <= MaxBacklog
    BY BacklogAssumption DEF ServerInv, ServerState
  <2>2. \/ backlog' = backlog
        \/ backlog > 0 /\ backlog' = backlog - 1
        \/ backlog < MaxBacklog /\ backlog' = backlog + 1
    BY DEF ServerStep, OnConnection, OnConnectionRaises, TakeConnection, ServerDone, Abort,
           Arrive, Abandon, serverVars
  <2> QED
    BY <1>1, <1>3, <2>1, <2>2
<1> USE DEF InLoop, ServerInv, OpenSocket, ListenerIsFresh, ServerState, WatchAgrees,
            AbortNeedsMishap
<1>6. ASSUME OnConnection PROVE ServerInv'
  <2>1. /\ listening /\ armed /\ running /\ ~accepted_fd /\ running' = running
        /\ cb' = "connection" /\ pos' = "server"
        /\ armed' = armed /\ mishap' = mishap
    BY <1>6 DEF OnConnection, TakeConnection
  <2>2. accepted_fd' \in BOOLEAN
    BY <1>6 DEF OnConnection, TakeConnection
  <2> QED
    BY <1>5, <2>1, <2>2
<1>7. ASSUME OnConnectionRaises PROVE ServerInv'
  <2>1. /\ listening /\ armed /\ ~accepted_fd /\ cb' = cb /\ pos' = "wait"
        /\ armed' = armed /\ mishap' = mishap \cup {"unwound"}
    BY <1>7 DEF OnConnectionRaises, TakeConnection
  <2>2. accepted_fd' \in BOOLEAN
    BY <1>7 DEF OnConnectionRaises, TakeConnection
  <2> QED
    BY <1>5, <2>1, <2>2
<1>8. ASSUME ServerDone PROVE ServerInv'
  <2>1. /\ pos = "server" /\ pos' = "wait" /\ (armed' <=> armed /\ ~accepted_fd)
        /\ UNCHANGED <<accepted_fd, backlog, mishap, running, cb>>
    BY <1>8 DEF ServerDone
  <2>2. armed' \in BOOLEAN
    BY <1>8 DEF ServerDone
  <2> QED
    BY <1>5, <2>1, <2>2
<1>9. ASSUME Abort PROVE ServerInv'
  BY <1>5, <1>9 DEF Abort, serverVars
<1>10. ASSUME Arrive \/ Abandon PROVE ServerInv'
  <2>1. UNCHANGED <<armed, accepted_fd, mishap, running, cb, pos>>
    BY <1>10 DEF Arrive, Abandon, vars, runVars
  <2>2. listening
    BY <1>10, BacklogAssumption DEF Arrive, Abandon
  <2> QED
    BY <1>5, <2>1, <2>2
<1> QED
  BY <1>2, <1>4, <1>6, <1>7, <1>8, <1>9, <1>10 DEF ServerStep

\* An exception in the block of a listener.
LEMMA RaiseServerKeeps ==
  ASSUME ListenInv, RaiseServer
  PROVE  ListenInv'
<1>1. RequestInv'
  BY RequestsAlone DEF ListenInv, RaiseServer, Raise
<1>2. SocketInv'
  BY CloseKeepsSocket DEF ListenInv, RaiseServer
<1>3. ServerInv'
  BY DEF ListenInv, RaiseServer, Raise, objVars, sockVars, connVars, endVars, reqVars,
         ServerInv, OpenSocket, ListenerIsFresh, ServerState, WatchAgrees, AbortNeedsMishap
<1> QED
  BY <1>1, <1>2, <1>3 DEF ListenInv

\* The close of a stream that listens again has no request to cancel.
LEMMA CloseReopenedKeeps ==
  ASSUME ListenInv, CloseReopened
  PROVE  ListenInv'
<1>1. SocketInv'
  BY CloseKeepsSocket DEF ListenInv, CloseReopened
<1>2. RequestInv'
  <2>1. Next
    BY DEF CloseReopened, Next, LoopStep
  <2> QED
    BY <2>1, StreamKeepsRequests DEF ListenInv, SocketInv
<1>3. ServerInv'
  <2>1. /\ listening /\ closing /\ ~armed /\ running /\ cb = "none" /\ ~connect_req
        /\ fd /\ ~connected /\ ~reading /\ issued = 0 /\ pos # "server"
        /\ accepted_fd \/ "refused" \in mishap
    BY DEF CloseReopened, FinishClose, Cancel, CancelShutdown, OnClose, InLoop,
           ListenInv, ServerInv, ListenerIsFresh, WatchAgrees
  <2>2. shutdown_req = 0
    BY <2>1 DEF ListenInv, RequestInv, RequestTypes
  <2>3. /\ UNCHANGED serverVars
        /\ UNCHANGED <<fd, connected, reading, connect_req, issued, closing, running>>
        /\ \/ pos' \in {"destroy", "cancel", "last"} /\ cb' = "none"
           \/ pos' = "wait"
    BY <2>1, <2>2
    DEF CloseReopened, FinishClose, Cancel, Flush, CancelShutdown, on_shutdown, OnClose,
        sockVars, connVars, endVars, reqVars, ListenInv, SocketInv, SocketTypes
  <2> QED
    BY <2>1, <2>3
    DEF serverVars, ListenInv, ServerInv, OpenSocket, ListenerIsFresh, ServerState,
        WatchAgrees, AbortNeedsMishap
<1> QED
  BY <1>1, <1>2, <1>3 DEF ListenInv

-----------------------------------------------------------------------------
(* The theorems.                                                           *)

\* Nothing was requested, opened or closed yet.
LEMMA InitListen == ListenInit => ListenInv
<1> SUFFICES ASSUME ListenInit PROVE ListenInv
  OBVIOUS
<1> USE DEF ListenInit, Init
<1>1. RequestInv
  <2>1. 1 .. 0 = {} /\ 0 \in 0 .. MaxRequests /\ <<>> \in Seq(1 .. 0) /\ 0 \in 0 .. 0
    BY StreamAssumption
  <2>2. ToSet(completed) = {} /\ ToSet(write_queue) = {} /\ Ascending(<<>>)
    BY EmptyQueue
  <2> QED
    BY <2>1, <2>2 DEF RequestInv, RequestTypes, RequestsHeld, InOrder, Before
<1>2. SocketInv
  BY DEF SocketInv, SocketTypes, ConnectHasBlock, SocketOfStream, StageOfClose
<1>3. ServerInv
  <2>1. 0 \in 0 .. MaxBacklog /\ ~(0 > 0)
    BY BacklogAssumption
  <2> QED
    BY <2>1
    DEF ServerInv, OpenSocket, ListenerIsFresh, ServerState, WatchAgrees, AbortNeedsMishap
<1> QED
  BY <1>1, <1>2, <1>3 DEF ListenInv

\* Every step of the stream and of the listener keeps the invariant.
LEMMA StepListen == ListenInv /\ [ListenNext]_listenVars => ListenInv'
<1> SUFFICES ASSUME ListenInv, [ListenNext]_listenVars PROVE ListenInv'
  OBVIOUS
<1>1. CASE AsStream
  <2>1. RequestInv /\ SocketInv /\ ServerInv /\ StageOfClose /\ Next
    BY <1>1 DEF AsStream, ListenInv, SocketInv
  <2>2. SocketInv'
    <3>1. /\ fd => uv_handle
          /\ Write \/ Shutdown => ~closing
      BY <1>1, <2>1 DEF AsStream, ServerInv, OpenSocket, Write, Shutdown
    <3> QED
      BY <2>1, <3>1, ProgramKeepsSocket, IoKeepsSocket, CloseKeepsSocket DEF Next, LoopStep
  <2> QED
    BY <1>1, <2>1, <2>2, StreamKeepsRequests, StreamKeepsServer DEF ListenInv
<1>2. CASE ServerCall
  BY <1>2, ListenKeeps, AcceptKeeps, CloseServerKeeps DEF ServerCall
<1>3. CASE AsListener \/ ServerStep \/ RaiseServer \/ Arrive \/ Abandon
  BY <1>3, ListenerKeeps, ServerStepKeeps, RaiseServerKeeps
<1>4. CASE UNCHANGED listenVars
  BY <1>4
  DEF listenVars, vars, objVars, sockVars, reqVars, connVars, endVars, runVars, serverVars,
      ListenInv, RequestInv, RequestTypes, RequestsHeld, InOrder, Ascending, Before, ToSet,
      SocketInv, SocketTypes, ConnectHasBlock, SocketOfStream, StageOfClose,
      ServerInv, OpenSocket, ListenerIsFresh, ServerState, WatchAgrees, AbortNeedsMishap
<1>5. CASE CloseReopened
  BY <1>5, CloseReopenedKeeps
<1> QED
  BY <1>1, <1>2, <1>3, <1>4, <1>5 DEF ListenNext

\* The invariant of streams and listeners, whatever program and network do.
THEOREM ListenInvariance == ListenSpec => []ListenInv
BY InitListen, StepListen, PTL DEF ListenSpec

\* Every variable stays within its type, the bounds on requests and backlog
\* included.
THEOREM ListenTypeCorrect == ListenSpec => []ListenTypeOK
<1>1. ListenInv => ListenTypeOK
  BY TypesOfStream DEF ListenInv, RequestInv, SocketInv, ServerInv, ServerState, ListenTypeOK
<1> QED
  BY <1>1, ListenInvariance, PTL

\* The array that keeps request objects from the collector holds exactly the
\* requests whose memory libuv still uses.
THEOREM RequestsAreHeld == ListenSpec => []RequestsHeld
<1>1. ListenInv => RequestsHeld
  BY DEF ListenInv, RequestInv
<1> QED
  BY <1>1, ListenInvariance, PTL

\* A connect in flight has a block, whatever calls of connect raised meanwhile.
THEOREM ConnectIsReported == ListenSpec => []ConnectHasBlock
<1>1. ListenInv => ConnectHasBlock
  BY DEF ListenInv, SocketInv
<1> QED
  BY <1>1, ListenInvariance, PTL

\* A watched socket has a block to report connections to, or the second call of
\* the checking macro started it.
THEOREM ListenerReports == ListenSpec => []ListenerHasBlock
<1>1. ListenInv => ListenerHasBlock
  BY DEF ListenInv, ServerInv, ServerState, ListenerHasBlock
<1> QED
  BY <1>1, ListenInvariance, PTL

\* Outside uv__server_io a listener is watched exactly when no connection waits
\* to be accepted, but for the mishaps WatchAgrees names.
THEOREM ListenerIsWatched == ListenSpec => []WatchAgrees
<1>1. ListenInv => WatchAgrees
  BY DEF ListenInv, ServerInv
<1> QED
  BY <1>1, ListenInvariance, PTL

\* No program ends in libuv's assertions but after an exception or a listen that
\* came while a connection was unaccepted, or a listen of a closing stream.
THEOREM AbortIsExplained == ListenSpec => []AbortNeedsMishap
<1>1. ListenInv => AbortNeedsMishap
  BY DEF ListenInv, ServerInv
<1> QED
  BY <1>1, ListenInvariance, PTL

-----------------------------------------------------------------------------
(* The stream implements RequestLife.                                      *)

\* A request made is Issue.
LEMMA RequestIsIssue ==
  ASSUME SocketInv, Write \/ Shutdown
  PROVE  Life!Issue
<1>1. uv_handle /\ created' = created /\ uv_handle' = uv_handle
  BY DEF Write, Shutdown, objVars
<1>2. issued' = issued + 1 /\ called' = called
      /\ shutdowns' \in {shutdowns, shutdowns \cup {issued'}}
  BY DEF Write, Shutdown, Register
<1> QED
  BY <1>1, <1>2 DEF Life!Issue

\* A block called is Call: of the oldest finished write, or of the shutdown
\* when no write is left.
LEMMA BlockIsCall ==
  ASSUME RequestInv, SocketInv,
         OnWrite \/ OnShutdown \/ (CancelShutdown /\ on_shutdown)
  PROVE  \E r \in 1 .. issued : Life!Call(r)
<1>1. uv_handle /\ UNCHANGED <<created, uv_handle>>
  BY DEF OnWrite, OnShutdown, CancelShutdown, InLoop, objVars, SocketInv, StageOfClose
<1>2. CASE OnWrite
  <2>1. on_write /\ called' = called \cup {Head(completed)} /\ UNCHANGED <<issued, shutdowns>>
    BY <1>2 DEF OnWrite, on_write, Complete
  <2> QED
    BY <1>1, <2>1, OnWriteKeeps DEF Life!Call
<1>3. CASE OnShutdown \/ (CancelShutdown /\ on_shutdown)
  <2>1. on_shutdown /\ completed = <<>> /\ write_queue = <<>>
    BY <1>3 DEF OnShutdown, CancelShutdown, InLoop, SocketInv, StageOfClose
  <2>2. called' = called \cup {shutdown_req} /\ UNCHANGED <<issued, shutdowns>>
    BY <2>1 DEF on_shutdown, Complete
  <2> QED
    BY <1>1, <2>1, <2>2, OnShutdownKeeps DEF Life!Call
<1> QED
  BY <1>2, <1>3

\* The end of a close is Disappear: by then no request is held.
LEMMA OnCloseIsDisappear ==
  ASSUME RequestInv, SocketInv, OnClose
  PROVE  Life!Disappear
<1>1. completed = <<>> /\ write_queue = <<>> /\ shutdown_req = 0 /\ created
  BY DEF OnClose, InLoop, SocketInv, StageOfClose, SocketOfStream
<1>2. (1 .. issued) \ called = {} /\ called \subseteq 1 .. issued
  BY <1>1, EmptyQueue DEF RequestInv, RequestsHeld, RequestTypes
<1>3. created' = created /\ uv_handle' = FALSE /\ UNCHANGED <<issued, shutdowns, called>>
  BY DEF OnClose, reqVars
<1> QED
  BY <1>1, <1>2, <1>3 DEF Life!Disappear

\* All other steps of the stream are invisible.
LEMMA OtherStepsStutter ==
  ASSUME SocketInv, Next,
         ~(Write \/ Shutdown \/ OnWrite \/ OnShutdown \/ (CancelShutdown /\ on_shutdown) \/ OnClose)
  PROVE  UNCHANGED <<issued, shutdowns, called, created /\ ~uv_handle>>
<1> USE DEF reqVars, objVars
<1>1. CASE New
  BY <1>1 DEF New, SocketInv, SocketOfStream
<1>2. CASE Program /\ ~New
  BY <1>2 DEF Program, Connect, ConnectRaises, Bind, Close, Run, Read
<1>3. CASE LoopStep
  BY <1>3
  DEF LoopStep, Connected, Refused, OnRead, TryWrite, IoDone, FinishClose, Cancel,
      CancelShutdown, Flush
<1>4. CASE RunReturns \/ Return \/ Raise
  BY <1>4 DEF RunReturns, Return, Raise
<1> QED
  BY <1>1, <1>2, <1>3, <1>4 DEF Next

\* The steps of a listener are invisible, too.
LEMMA ListenerStutters ==
  ASSUME AsListener \/ ServerCall \/ ServerStep \/ RaiseServer \/ Arrive \/ Abandon
  PROVE  UNCHANGED <<issued, shutdowns, called, created /\ ~uv_handle>>
<1> USE DEF reqVars, objVars, vars
<1>1. UNCHANGED <<issued, shutdowns, called, created, uv_handle>>
  <2>1. CASE AsListener
    BY <2>1 DEF AsListener, ConnectRaises, Bind, Run, RunReturns, Return
  <2>2. CASE ServerCall
    BY <2>2
    DEF ServerCall, Listen, ListenRaises, Accept, AcceptRaises, AcceptedBy, CloseServer, Close
  <2>3. CASE ServerStep
    BY <2>3 DEF ServerStep, OnConnection, OnConnectionRaises, ServerDone, Abort
  <2>4. CASE RaiseServer \/ Arrive \/ Abandon
    BY <2>4 DEF RaiseServer, Raise, Arrive, Abandon
  <2> QED
    BY <2>1, <2>2, <2>3, <2>4
<1> QED
  BY <1>1

\* Streams serve requests as RequestLife says: each block once, writes in order,
\* a shutdown after the writes before it, and all of them before the close.
THEOREM StreamServesRequests == ListenSpec => RequestsAreServed
<1>1. ListenInit => Life!RequestInit
  BY DEF ListenInit, Init, Life!RequestInit
<1>2. ListenInv /\ [ListenNext]_listenVars => [Life!RequestNext]_(Life!requestVars)
  <2> SUFFICES ASSUME ListenInv, [ListenNext]_listenVars
               PROVE  Life!RequestNext \/ UNCHANGED Life!requestVars
    OBVIOUS
  <2>1. RequestInv /\ SocketInv
    BY DEF ListenInv
  <2>2. CASE AsStream
    BY <2>1, <2>2, RequestIsIssue, BlockIsCall, OnCloseIsDisappear, OtherStepsStutter
    DEF AsStream, Life!RequestNext, Life!requestVars
  <2>3. CASE ListenNext /\ ~AsStream /\ ~CloseReopened
    BY <2>3, ListenerStutters DEF ListenNext, Life!requestVars
  <2>4. CASE UNCHANGED listenVars
    BY <2>4 DEF listenVars, vars, objVars, reqVars, Life!requestVars
  <2>5. CASE CloseReopened
    <3>1. Next
      BY <2>5 DEF CloseReopened, Next, LoopStep
    <3> QED
      BY <2>1, <3>1, RequestIsIssue, BlockIsCall, OnCloseIsDisappear, OtherStepsStutter
      DEF Life!RequestNext, Life!requestVars
  <2> QED
    BY <2>2, <2>3, <2>4, <2>5
<1> QED
  BY <1>1, <1>2, ListenInvariance, PTL DEF ListenSpec, RequestsAreServed, Life!RequestSpec

\* What RequestLife amounts to: no block is called before that of an earlier
\* write, and a stream is gone only with all blocks called.
ServedInOrder ==
  /\ \A r \in called : \A q \in 1 .. r - 1 : q \in shutdowns \cup called
  /\ created /\ ~uv_handle => called = 1 .. issued

\* RequestLife allows nothing else: it makes and calls no request of a stream
\* that is gone, and the order holds at each call.
LEMMA RequestLifeServes ==
  ServedInOrder /\ [Life!RequestNext]_(Life!requestVars) => ServedInOrder'
<1> SUFFICES ASSUME ServedInOrder, [Life!RequestNext]_(Life!requestVars) PROVE ServedInOrder'
  OBVIOUS
<1> DEFINE gone == created /\ ~uv_handle
<1>1. CASE Life!Issue
  <2>1. ~gone /\ ~gone' /\ called' = called /\ shutdowns \subseteq shutdowns'
    BY <1>1 DEF Life!Issue
  <2> QED
    BY <2>1 DEF ServedInOrder
<1>2. CASE Life!Disappear
  <2>1. called = 1 .. issued /\ UNCHANGED <<issued, shutdowns, called>>
    BY <1>2 DEF Life!Disappear
  <2> QED
    BY <2>1 DEF ServedInOrder
<1>3. ASSUME NEW r \in 1 .. issued, Life!Call(r) PROVE ServedInOrder'
  <2>1. /\ ~gone /\ ~gone' /\ called' = called \cup {r} /\ shutdowns' = shutdowns
        /\ \A q \in 1 .. r - 1 : q \in shutdowns \cup called
    BY <1>3 DEF Life!Call
  <2> QED
    BY <2>1 DEF ServedInOrder
<1>4. CASE UNCHANGED Life!requestVars
  <2>1. UNCHANGED <<issued, shutdowns, called>> /\ (gone' <=> gone)
    BY <1>4 DEF Life!requestVars
  <2> QED
    BY <2>1 DEF ServedInOrder
<1> QED
  BY <1>1, <1>2, <1>3, <1>4 DEF Life!RequestNext

\* So no write overtakes another, and closing a stream calls the block of every
\* request that was ever made of it, before the pointer is cleared.
THEOREM StreamServesInOrder == ListenSpec => []ServedInOrder
<1>1. Life!RequestInit => ServedInOrder
  BY DEF Life!RequestInit, ServedInOrder
<1>2. Life!RequestSpec => []ServedInOrder
  BY <1>1, RequestLifeServes, PTL DEF Life!RequestSpec
<1> QED
  BY <1>2, StreamServesRequests, PTL DEF RequestsAreServed
=============================================================================
