--------------------------- MODULE ServerPoolProofs ---------------------------
(***************************************************************************)
(* Proofs about ServerPool, for any set of connections and any number of   *)
(* threads and descriptors: the pool is never beyond its limit, never idle *)
(* while connections wait, and loses and doubles none.  PoolInv is         *)
(* inductive once it is known that finitely many connections are at work.  *)
(***************************************************************************)
EXTENDS ServerPool, FiniteSetTheorems, TLAPS

IInv ==
  /\ PoolInv
  /\ IsFiniteSet(In(Working))
  /\ LeaksAreOfBrokenClients

-----------------------------------------------------------------------------
(* The pool's threads                                                      *)

\* A connection that gets a thread while one is free.
LEMMA OneMoreWorks ==
  ASSUME NEW W, NEW c, c \notin W, IsFiniteSet(W), Cardinality(W) < MaxThreads
  PROVE  /\ IsFiniteSet(W \cup {c})
         /\ Cardinality(W \cup {c}) <= MaxThreads
<1>1. IsFiniteSet(W \cup {c}) /\ Cardinality(W \cup {c}) = Cardinality(W) + 1
  BY FS_AddElement
<1>2. Cardinality(W) \in Nat
  BY FS_CardinalityType
<1> QED
  BY <1>1, <1>2, LimitsAssumption

\* A thread that is left, with nothing in the queue.
LEMMA OneLessWorks ==
  ASSUME NEW W, NEW c \in W, IsFiniteSet(W), Cardinality(W) <= MaxThreads
  PROVE  /\ IsFiniteSet(W \ {c})
         /\ Cardinality(W \ {c}) <= MaxThreads
<1>1. IsFiniteSet(W \ {c}) /\ Cardinality(W \ {c}) = Cardinality(W) - 1
  BY FS_RemoveElement
<1>2. Cardinality(W) \in Nat
  BY FS_CardinalityType
<1> QED
  BY <1>1, <1>2, LimitsAssumption

\* A thread that changes hands.
LEMMA HandOver ==
  ASSUME NEW W, NEW c \in W, NEW d, d \notin W, IsFiniteSet(W)
  PROVE  /\ IsFiniteSet((W \ {c}) \cup {d})
         /\ Cardinality((W \ {c}) \cup {d}) = Cardinality(W)
<1>1. IsFiniteSet(W \ {c}) /\ Cardinality(W \ {c}) = Cardinality(W) - 1
  BY FS_RemoveElement
<1>2. /\ IsFiniteSet((W \ {c}) \cup {d})
      /\ Cardinality((W \ {c}) \cup {d}) = Cardinality(W \ {c}) + 1
  BY <1>1, FS_AddElement
<1> QED
  BY <1>1, <1>2, FS_CardinalityType

\* Steps that change no connection's share of the pool.
LEMMA SameShare ==
  ASSUME IInv, TypeOK', queue' = queue,
         \A c \in Conn : (place'[c] \in Working <=> place[c] \in Working)
                         /\ (place'[c] = "queued" <=> place[c] = "queued")
  PROVE  PoolInv' /\ IsFiniteSet(In(Working))'
<1>1. /\ In(Working)' = In(Working)
      /\ In({"queued"})' = In({"queued"})
  BY DEF In
<1> QED
  BY <1>1 DEF IInv, PoolInv

-----------------------------------------------------------------------------
(* The steps                                                               *)

LEMMA InitInv == Init => IInv
<1> SUFFICES ASSUME Init PROVE IInv
  OBVIOUS
<1>1. TypeOK
  BY LimitsAssumption DEF Init, TypeOK, In, Open, Working
<1>2. In(Working) = {} /\ In({"queued"}) = {} /\ In({"leaked"}) = {}
  BY DEF Init, In, Working
<1>3. IsFiniteSet(In(Working)) /\ Cardinality(In(Working)) = 0
  BY <1>2, FS_EmptySet
<1> QED
  BY <1>1, <1>2, <1>3, LimitsAssumption DEF Init, IInv, PoolInv, LeaksAreOfBrokenClients

LEMMA ClientInv ==
  ASSUME IInv, NEW c \in Conn, Connect(c) \/ Send(c) \/ GiveUp(c)
  PROVE  IInv'
<1>1. TypeOK'
  <2>1. CASE Connect(c)
    BY <2>1 DEF IInv, PoolInv, TypeOK, Connect, In, client, limits
  <2>2. CASE Send(c)
    BY <2>2 DEF IInv, PoolInv, TypeOK, Send, In, limits
  <2>3. CASE GiveUp(c)
    BY <2>3 DEF IInv, PoolInv, TypeOK, GiveUp, In, limits
  <2> QED
    BY <2>1, <2>2, <2>3
<1>2. PoolInv' /\ IsFiniteSet(In(Working))'
  <2>1. CASE Connect(c)
    BY <1>1, <2>1, SameShare DEF IInv, PoolInv, TypeOK, Connect, Working
  <2>2. CASE Send(c) \/ GiveUp(c)
    BY <1>1, <2>2, SameShare DEF Send, GiveUp
  <2> QED
    BY <2>1, <2>2
<1>3. LeaksAreOfBrokenClients'
  BY DEF IInv, PoolInv, TypeOK, LeaksAreOfBrokenClients, Connect, Send, GiveUp, In, client, limits
<1> QED
  BY <1>1, <1>2, <1>3 DEF IInv

\* An accepted connection gets a free thread, or the last place of the queue.
LEMMA IncomingInv ==
  ASSUME IInv, NEW c \in Conn, IncomingConnection(c)
  PROVE  IInv'
<1>0. place[c] = "backlog" /\ UNCHANGED <<up, client, limits>>
  BY DEF IncomingConnection
<1>1. CASE Cardinality(In(Working)) < MaxThreads
  <2>1. place' = [place EXCEPT ![c] = "wait"] /\ queue' = queue
    BY <1>1 DEF IncomingConnection
  <2>2. queue = <<>>
    BY <1>1, LimitsAssumption, FS_CardinalityType DEF IInv, PoolInv
  <2>3. TypeOK'
    BY <1>0, <2>1 DEF IInv, PoolInv, TypeOK, In, client, limits, Open, Working
  <2>4. /\ In(Working)' = In(Working) \cup {c}
        /\ c \notin In(Working)
        /\ In({"queued"})' = In({"queued"})
        /\ In({"leaked"})' = In({"leaked"})
    BY <1>0, <2>1 DEF IInv, PoolInv, TypeOK, In, Working
  <2>5. IsFiniteSet(In(Working))' /\ Cardinality(In(Working)') <= MaxThreads
    BY <1>1, <2>4, OneMoreWorks DEF IInv
  <2> QED
    BY <1>0, <2>1, <2>2, <2>3, <2>4, <2>5
       DEF IInv, PoolInv, LeaksAreOfBrokenClients, client, limits
<1>2. CASE ~(Cardinality(In(Working)) < MaxThreads)
  <2>1. place' = [place EXCEPT ![c] = "queued"] /\ queue' = Append(queue, c)
    BY <1>2 DEF IncomingConnection
  <2>2. TypeOK'
    BY <1>0, <2>1 DEF IInv, PoolInv, TypeOK, In, client, limits, Open, Working
  <2>3. /\ In(Working)' = In(Working)
        /\ In({"queued"})' = In({"queued"}) \cup {c}
        /\ c \notin In({"queued"})
        /\ In({"leaked"})' = In({"leaked"})
    BY <1>0, <2>1 DEF IInv, PoolInv, TypeOK, In, Working
  <2>4. Cardinality(In(Working)) = MaxThreads
    BY <1>2, LimitsAssumption, FS_CardinalityType DEF IInv, PoolInv
  <2>5. /\ In({"queued"})' = {queue'[i] : i \in DOMAIN queue'}
        /\ \A i, j \in DOMAIN queue' : queue'[i] = queue'[j] => i = j
    <3>1. /\ queue \in Seq(Conn) /\ Len(queue) \in Nat
          /\ DOMAIN queue = 1..Len(queue)
          /\ DOMAIN queue' = 1..(Len(queue) + 1)
          /\ queue'[Len(queue) + 1] = c
          /\ \A i \in 1..Len(queue) : queue'[i] = queue[i]
      BY <2>1 DEF IInv, PoolInv, TypeOK
    <3>2. /\ In({"queued"}) = {queue[i] : i \in 1..Len(queue)}
          /\ \A i, j \in 1..Len(queue) : queue[i] = queue[j] => i = j
      BY <3>1 DEF IInv, PoolInv
    <3>3. \A i \in 1..(Len(queue) + 1) : i \in 1..Len(queue) \/ i = Len(queue) + 1
      BY <3>1
    <3>4. {queue'[i] : i \in 1..(Len(queue) + 1)} = {queue[i] : i \in 1..Len(queue)} \cup {c}
      BY <3>1, <3>3
    <3>5. ASSUME NEW i \in 1..(Len(queue) + 1), NEW j \in 1..(Len(queue) + 1),
                 queue'[i] = queue'[j]
          PROVE  i = j
      <4>1. \A k \in 1..Len(queue) : queue[k] # c
        BY <2>3, <3>2
      <4> QED
        BY <3>1, <3>2, <3>3, <3>5, <4>1
    <3> QED
      BY <2>3, <3>1, <3>2, <3>4, <3>5
  <2> QED
    BY <1>0, <2>2, <2>3, <2>4, <2>5, LimitsAssumption
       DEF IInv, PoolInv, LeaksAreOfBrokenClients, client, limits
<1> QED
  BY <1>1, <1>2

\* The first of the queue gets the thread of a connection that leaves.
LEMMA LeaveInv ==
  ASSUME IInv, NEW c \in Conn, place[c] \in Working, NEW end \in {"closed", "leaked"},
         Leave(c, end),
         end = "leaked" => gone[c] \/ wire[c] \in {"nothing", "part", "other"}
  PROVE  IInv'
<1>0. UNCHANGED <<up, wire, gone, limits>>
  BY DEF Leave, client, limits
<1>1. CASE queue = <<>>
  <2>1. place' = [place EXCEPT ![c] = end] /\ queue' = queue
    BY <1>1 DEF Leave
  <2>2. TypeOK'
    BY <1>0, <2>1 DEF IInv, PoolInv, TypeOK, In, limits, Open, Working
  <2>3. /\ In(Working)' = In(Working) \ {c}
        /\ c \in In(Working)
        /\ In({"queued"})' = In({"queued"})
        /\ \A d \in In({"leaked"})' : d \in In({"leaked"}) \/ (d = c /\ end = "leaked")
    BY <2>1 DEF IInv, PoolInv, TypeOK, In, Working
  <2>4. IsFiniteSet(In(Working))' /\ Cardinality(In(Working)') <= MaxThreads
    BY <2>3, OneLessWorks DEF IInv, PoolInv
  <2>5. LeaksAreOfBrokenClients'
    BY <1>0, <2>3 DEF IInv, LeaksAreOfBrokenClients
  <2> QED
    BY <1>1, <2>1, <2>2, <2>3, <2>4, <2>5 DEF IInv, PoolInv
<1>2. CASE queue # <<>>
  <2> DEFINE h == Head(queue)
  <2>1. /\ queue \in Seq(Conn) /\ Len(queue) \in Nat \ {0}
        /\ DOMAIN queue = 1..Len(queue)
        /\ h = queue[1] /\ h \in Conn
        /\ Tail(queue) \in Seq(Conn)
        /\ DOMAIN Tail(queue) = 1..(Len(queue) - 1)
        /\ \A i \in 1..(Len(queue) - 1) : Tail(queue)[i] = queue[i + 1]
    BY <1>2 DEF IInv, PoolInv, TypeOK
  <2>2. /\ In({"queued"}) = {queue[i] : i \in 1..Len(queue)}
        /\ \A i, j \in 1..Len(queue) : queue[i] = queue[j] => i = j
    BY <2>1 DEF IInv, PoolInv
  <2>3. place[h] = "queued" /\ h # c
    BY <2>1, <2>2 DEF In, Working
  <2>4. /\ place' = [place EXCEPT ![c] = end, ![h] = "wait"]
        /\ queue' = Tail(queue)
    BY <1>2 DEF Leave
  <2> HIDE DEF h
  <2>5. TypeOK'
    <3>1. \A d \in Conn : place'[d] = IF d = h THEN "wait" ELSE IF d = c THEN end ELSE place[d]
      BY <2>1, <2>3, <2>4 DEF IInv, PoolInv, TypeOK
    <3>2. place' \in [Conn -> Open \cup {"out", "backlog", "closed", "reset"}]
      BY <2>1, <2>4 DEF IInv, PoolInv, TypeOK, Open, Working
    <3> QED
      BY <1>0, <2>1, <2>4, <3>1, <3>2 DEF IInv, PoolInv, TypeOK, In, limits
  <2>6. /\ In(Working)' = (In(Working) \ {c}) \cup {h}
        /\ c \in In(Working) /\ h \notin In(Working)
        /\ In({"queued"})' = In({"queued"}) \ {h}
        /\ \A d \in In({"leaked"})' : d \in In({"leaked"}) \/ (d = c /\ end = "leaked")
    BY <2>1, <2>3, <2>4 DEF IInv, PoolInv, TypeOK, In, Working
  <2>7. IsFiniteSet(In(Working))' /\ Cardinality(In(Working)') = MaxThreads
    <3>1. Cardinality(In(Working)) = MaxThreads
      BY <1>2 DEF IInv, PoolInv
    <3> QED
      BY <2>6, <3>1, HandOver DEF IInv
  <2>8. /\ {queue'[i] : i \in DOMAIN queue'} = In({"queued"}) \ {h}
        /\ \A i, j \in DOMAIN queue' : queue'[i] = queue'[j] => i = j
    <3>1. /\ DOMAIN queue' = 1..(Len(queue) - 1)
          /\ \A i \in 1..(Len(queue) - 1) : queue'[i] = queue[i + 1] /\ i + 1 \in 1..Len(queue)
      BY <2>1, <2>4
    <3>2. ASSUME NEW i \in DOMAIN queue', NEW j \in DOMAIN queue', queue'[i] = queue'[j]
          PROVE  i = j
      BY <2>1, <2>2, <3>1, <3>2
    <3>3. \A i \in 1..(Len(queue) - 1) : queue'[i] \in In({"queued"}) \ {h}
      <4>1. ASSUME NEW i \in 1..(Len(queue) - 1) PROVE queue[i + 1] # queue[1]
        BY <2>1, <2>2
      <4> QED
        BY <2>1, <2>2, <3>1, <4>1
    <3>4. ASSUME NEW d \in In({"queued"}) \ {h}
          PROVE  \E i \in 1..(Len(queue) - 1) : queue'[i] = d
      <4>1. PICK k \in 1..Len(queue) : queue[k] = d
        BY <2>2
      <4>2. k - 1 \in 1..(Len(queue) - 1) /\ (k - 1) + 1 = k
        BY <2>1, <4>1
      <4> QED
        BY <3>1, <4>1, <4>2
    <3> QED
      BY <3>1, <3>2, <3>3, <3>4
  <2>9. LeaksAreOfBrokenClients'
    BY <1>0, <2>6 DEF IInv, LeaksAreOfBrokenClients
  <2> QED
    BY <2>5, <2>6, <2>7, <2>8, <2>9, LimitsAssumption DEF IInv, PoolInv
<1> QED
  BY <1>1, <1>2

\* A step of the handler within its thread.
LEMMA ProceedInv ==
  ASSUME IInv, NEW c \in Conn, place[c] \in Working, NEW next \in {"handle", "fetch", "write", "hung"},
         Proceed(c, next), wire[c] \in {"whole", "parts"}
  PROVE  IInv'
<1>1. TypeOK'
  BY DEF IInv, PoolInv, TypeOK, Proceed, In, client, limits, Open, Working
<1>2. PoolInv' /\ IsFiniteSet(In(Working))'
  BY <1>1, SameShare DEF IInv, PoolInv, TypeOK, Proceed, Working
<1>3. LeaksAreOfBrokenClients'
  BY DEF IInv, PoolInv, TypeOK, LeaksAreOfBrokenClients, Proceed, In, client, limits
<1> QED
  BY <1>2, <1>3 DEF IInv

LEMMA RunInv ==
  ASSUME IInv, NEW c \in Conn, Run(c)
  PROVE  IInv'
<1>1. \A d \in Conn :
        place[d] \in {"handle", "fetch", "write", "hung"} => wire[d] \in {"whole", "parts"}
  BY DEF IInv, PoolInv, TypeOK, In
<1>2. CASE ReadRequest(c)
  <2>1. CASE wire[c] \in {"whole", "parts"}
    BY <1>2, <2>1, ProceedInv DEF ReadRequest, Working
  <2>2. CASE wire[c] \notin {"whole", "parts"}
    <3>1. wire[c] \in {"nothing", "part", "other"}
      BY <2>2 DEF IInv, PoolInv, TypeOK
    <3> QED
      BY <1>2, <2>2, <3>1, LeaveInv DEF ReadRequest, Working
  <2> QED
    BY <2>1, <2>2
<1>3. CASE Handle(c)
  BY <1>1, <1>3, ProceedInv DEF Handle, Working
<1>4. CASE FetchAnswered(c)
  BY <1>1, <1>4, ProceedInv DEF FetchAnswered, Working
<1>5. CASE FetchFailed(c)
  BY <1>1, <1>5, ProceedInv DEF FetchFailed, Working
<1>6. CASE WriteAnswer(c)
  <2>1. CASE Leave(c, "closed")
    BY <1>6, <2>1, LeaveInv DEF WriteAnswer, Working
  <2>2. CASE gone[c] /\ Leave(c, "leaked")
    BY <1>6, <2>2, LeaveInv DEF WriteAnswer, Working
  <2> QED
    BY <1>6, <2>1, <2>2 DEF WriteAnswer
<1> QED
  BY <1>2, <1>3, <1>4, <1>5, <1>6 DEF Run

\* After a death nothing is open.
LEMMA DieInv ==
  ASSUME IInv, Die
  PROVE  IInv'
<1> DEFINE lost == In(Open \cup {"backlog"})
<1>0. /\ up' = FALSE /\ queue' = <<>> /\ maxOpen' = maxOpen
      /\ crashes < MaxCrash /\ crashes' = crashes + 1
      /\ place' = [c \in Conn |-> IF c \in lost THEN "reset" ELSE place[c]]
      /\ wire'  = [c \in Conn |-> IF c \in lost THEN "nothing" ELSE wire[c]]
      /\ gone'  = [c \in Conn |-> gone[c] /\ c \notin lost]
  BY DEF Die
<1>2. \A c \in Conn : place'[c] \notin Open
  BY <1>0 DEF In, Open, Working
<1>1. TypeOK'
  <2>1. crashes' \in 0..MaxCrash
    BY <1>0, LimitsAssumption DEF IInv, PoolInv, TypeOK
  <2>2. /\ place' \in [Conn -> Open \cup {"out", "backlog", "closed", "reset"}]
        /\ wire' \in [Conn -> {"nothing", "part", "parts", "whole", "other"}]
    BY <1>0 DEF IInv, PoolInv, TypeOK
  <2>3. gone' \in [Conn -> BOOLEAN]
    <3> SUFFICES ASSUME NEW c \in Conn PROVE (gone[c] /\ c \notin lost) \in BOOLEAN
      BY <1>0
    <3> QED
      OBVIOUS
  <2>4. In({"handle", "fetch", "write", "hung"})' = {}
    BY <1>2 DEF In, Open, Working
  <2>5. queue' \in Seq(Conn)
    BY <1>0
  <2> QED
    BY <1>0, <2>1, <2>2, <2>3, <2>4, <2>5 DEF IInv, PoolInv, TypeOK
<1>3. In(Working)' = {} /\ In({"queued"})' = {} /\ In({"leaked"})' = {} /\ queue' = <<>>
  BY <1>2 DEF In, Open, Working, Die
<1>4. IsFiniteSet(In(Working)') /\ Cardinality(In(Working)') = 0
  BY <1>3, FS_EmptySet
<1> QED
  BY <1>1, <1>3, <1>4, LimitsAssumption DEF IInv, PoolInv, LeaksAreOfBrokenClients

LEMMA RestartInv ==
  ASSUME IInv, Restart
  PROVE  IInv'
<1>1. TypeOK'
  BY DEF IInv, PoolInv, TypeOK, Restart, In, client, limits
<1> QED
  BY <1>1, SameShare DEF IInv, Restart, LeaksAreOfBrokenClients, In, client, limits

-----------------------------------------------------------------------------
(* The theorems                                                            *)

LEMMA NextInv == IInv /\ [Next]_vars => IInv'
<1> SUFFICES ASSUME IInv, [Next]_vars PROVE IInv'
  OBVIOUS
<1>1. CASE UNCHANGED vars
  BY <1>1 DEF vars, client, limits, IInv, PoolInv, TypeOK, LeaksAreOfBrokenClients, In
<1> QED
  BY <1>1, ClientInv, IncomingInv, RunInv, DieInv, RestartInv DEF Next

LEMMA Invariant == Spec => []IInv
  BY InitInv, NextInv, PTL DEF Spec

\* Whatever clients do and whatever hangs, the pool works on at most
\* setMaxThreadCount connections, on that many while one is queued, and its queue
\* has every waiting connection once.
THEOREM PoolWithinLimits == Spec => []PoolInv
<1>1. IInv => PoolInv
  BY DEF IInv
<1> QED
  BY <1>1, Invariant, PTL

\* Only a broken client makes ServerThread::run forget a socket.
THEOREM LeaksExplained == Spec => []LeaksAreOfBrokenClients
<1>1. IInv => LeaksAreOfBrokenClients
  BY DEF IInv
<1> QED
  BY <1>1, Invariant, PTL
=============================================================================
