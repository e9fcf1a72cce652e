------------------------------ MODULE ServerPool ------------------------------
(***************************************************************************)
(* The server (server.cpp) and what its worker threads do with a           *)
(* connection (ServerThread::run).  incomingConnection gives every         *)
(* accepted socket to QThreadPool, which starts it at once or keeps it in  *)
(* its queue while all threads are busy.  The worker waits for the         *)
(* request, reads it, has it handled, writes the answer and deletes the    *)
(* socket.                                                                 *)
(*                                                                         *)
(* run returns early, and forgets the socket without closing it, when      *)
(* nothing comes for 30 s, when what came first has no end of line or is   *)
(* not a GET, and when the answer cannot be written.  Requests that fetch  *)
(* something over HTTP wait in an event loop that only readyRead ends, so  *)
(* a fetch that fails without data holds its thread for ever.              *)
(*                                                                         *)
(* What a handler computes is not looked at here: see QueueService and     *)
(* CrCache.                                                                *)
(***************************************************************************)
EXTENDS Naturals, FiniteSets, Sequences

CONSTANTS
  Conn,         \* connections of clients, each with one request
  MaxThreads,   \* setMaxThreadCount: 32
  Descriptors,  \* how many sockets a host may let the process have open
  MaxCrash      \* bound of the model

ASSUME LimitsAssumption ==
  /\ MaxThreads \in Nat \ {0}
  /\ Descriptors \subseteq Nat \ {0}
  /\ MaxCrash \in Nat

VARIABLES
  up,       \* the daemon runs
  place,    \* where the connection is
  wire,     \* what the client has sent of its request
  gone,     \* the client has closed its end, or reads no more
  queue,    \* QThreadPool's queue
  maxOpen,  \* how many sockets this host lets it have open
  crashes

client == <<wire, gone>>
limits == <<maxOpen, crashes>>
vars   == <<up, place, client, queue, limits>>

Working == {"wait", "handle", "fetch", "write", "hung"}
Open    == Working \cup {"queued", "leaked"}

In(places) == {c \in Conn : place[c] \in places}

Init ==
  /\ up = TRUE
  /\ place   = [c \in Conn |-> "out"]
  /\ wire    = [c \in Conn |-> "nothing"]
  /\ gone    = [c \in Conn |-> FALSE]
  /\ queue = <<>>
  /\ maxOpen \in Descriptors
  /\ crashes = 0

-----------------------------------------------------------------------------
(* The clients                                                             *)

\* The kernel takes the connection.
Connect(c) ==
  /\ up
  /\ place[c] = "out"
  /\ place' = [place EXCEPT ![c] = "backlog"]
  /\ UNCHANGED <<up, client, queue, limits>>

\* The request comes in one packet or in two, or is none that the server serves
\* ("other": POST, for instance).
Send(c) ==
  /\ place[c] \in {"backlog", "queued", "wait"}
  /\ ~gone[c]
  /\ \E w \in IF wire[c] = "nothing" THEN {"part", "whole", "other"}
              ELSE IF wire[c] = "part" THEN {"parts"} ELSE {} :
       wire' = [wire EXCEPT ![c] = w]
  /\ UNCHANGED <<up, place, gone, queue, limits>>

GiveUp(c) ==
  /\ place[c] \in Open \cup {"backlog"}
  /\ ~gone[c]
  /\ gone' = [gone EXCEPT ![c] = TRUE]
  /\ UNCHANGED <<up, place, wire, queue, limits>>

-----------------------------------------------------------------------------
(* The server and the pool                                                 *)

\* Faulty variant: every socket gets a thread of its own.
IncomingConnectionUnpooled(c) ==
  /\ place[c] = "backlog"
  /\ Cardinality(In(Open)) < maxOpen
  /\ place' = [place EXCEPT ![c] = "wait"]
  /\ UNCHANGED <<up, client, queue, limits>>

\* Server::incomingConnection; QThreadPool::start.
IncomingConnection(c) ==
  /\ place[c] = "backlog"
  /\ Cardinality(In(Open)) < maxOpen
  /\ IF Cardinality(In(Working)) < MaxThreads
       THEN place' = [place EXCEPT ![c] = "wait"] /\ UNCHANGED queue
       ELSE place' = [place EXCEPT ![c] = "queued"] /\ queue' = Append(queue, c)
  /\ UNCHANGED <<up, client, limits>>

\* run returns, the socket closed or forgotten, and the thread takes the next
\* connection from the queue.
Leave(c, end) ==
  /\ IF queue = <<>>
       THEN place' = [place EXCEPT ![c] = end] /\ UNCHANGED queue
       ELSE /\ place' = [place EXCEPT ![c] = end, ![Head(queue)] = "wait"]
            /\ queue' = Tail(queue)
  /\ UNCHANGED <<up, client, limits>>

-----------------------------------------------------------------------------
(* ServerThread::run                                                       *)

Proceed(c, next) ==
  /\ place' = [place EXCEPT ![c] = next]
  /\ UNCHANGED <<up, client, queue, limits>>

\* waitForReadyRead, which the client or the 30 s end, and canReadLine on what it
\* has read: what comes after it is not seen.
ReadRequest(c) ==
  /\ place[c] = "wait"
  /\ IF wire[c] \in {"whole", "parts"} THEN Proceed(c, "handle") ELSE Leave(c, "leaked")

\* The branch of the request: it fetches something over HTTP, or has its answer.
Handle(c) ==
  /\ place[c] = "handle"
  /\ Proceed(c, "fetch") \/ Proceed(c, "write")

\* The event loops of getBugDesc and getWF: data come, or the fetch fails and
\* readyRead is never emitted.
FetchAnswered(c) ==
  /\ place[c] = "fetch"
  /\ Proceed(c, "write")

FetchFailed(c) ==
  /\ place[c] = "fetch"
  /\ Proceed(c, "hung")

\* Faulty variant: the answer is written and the socket not deleted.
WriteAnswerOnly(c) ==
  /\ place[c] = "write"
  /\ Leave(c, "leaked")

\* waitForBytesWritten; then disconnectFromHost, waitForDisconnected and delete.
\* When it fails the socket is not deleted.
WriteAnswer(c) ==
  /\ place[c] = "write"
  /\ \/ Leave(c, "closed")
     \/ gone[c] /\ Leave(c, "leaked")

\* The daemon is killed, or dies of what a handler does; the kernel closes all its
\* connections, and what was sent on them is lost.
Die ==
  LET lost == In(Open \cup {"backlog"}) IN
  /\ up
  /\ crashes < MaxCrash
  /\ crashes' = crashes + 1
  /\ up' = FALSE
  /\ place' = [c \in Conn |-> IF c \in lost THEN "reset" ELSE place[c]]
  /\ wire'  = [c \in Conn |-> IF c \in lost THEN "nothing" ELSE wire[c]]
  /\ gone'  = [c \in Conn |-> gone[c] /\ c \notin lost]
  /\ queue' = <<>>
  /\ UNCHANGED maxOpen

\* check_kueued finds no daemon (pidof) and starts one.
Restart ==
  /\ ~up
  /\ up' = TRUE
  /\ UNCHANGED <<place, client, queue, limits>>

Run(c) == ReadRequest(c) \/ Handle(c) \/ FetchAnswered(c) \/ FetchFailed(c) \/ WriteAnswer(c)

Next ==
  \/ \E c \in Conn : Connect(c) \/ Send(c) \/ GiveUp(c) \/ IncomingConnection(c) \/ Run(c)
  \/ Die \/ Restart

Spec == Init /\ [][Next]_vars

\* The main thread's event loop and every thread of the pool get on, as do a
\* fetch and a handler, one way or the other; the clients do as they like.
FairSpec ==
  /\ Spec
  /\ WF_vars(Restart)
  /\ \A c \in Conn : WF_vars(IncomingConnection(c)) /\ WF_vars(Run(c))

-----------------------------------------------------------------------------
(* Properties                                                              *)

TypeOK ==
  /\ up      \in BOOLEAN
  /\ place   \in [Conn -> Open \cup {"out", "backlog", "closed", "reset"}]
  /\ wire    \in [Conn -> {"nothing", "part", "parts", "whole", "other"}]
  /\ gone    \in [Conn -> BOOLEAN]
  /\ queue   \in Seq(Conn)
  /\ maxOpen \in Descriptors
  /\ crashes \in 0..MaxCrash
  /\ \A c \in In({"handle", "fetch", "write", "hung"}) : wire[c] \in {"whole", "parts"}

\* A connection waits in the queue only while every thread is at work, it waits
\* there once, and the pool never works on more than MaxThreads.
PoolInv ==
  /\ TypeOK
  /\ Cardinality(In(Working)) <= MaxThreads
  /\ queue # <<>> => Cardinality(In(Working)) = MaxThreads
  /\ In({"queued"}) = {queue[i] : i \in DOMAIN queue}
  /\ \A i, j \in DOMAIN queue : queue[i] = queue[j] => i = j

\* The only sockets that run forgets are those of clients that gave up or whose
\* first packet was no whole request: whoever sends a GET at once and reads the
\* answer costs the daemon no descriptor.
LeaksAreOfBrokenClients ==
  \A c \in In({"leaked"}) : gone[c] \/ wire[c] \in {"nothing", "part", "other"}

\* Nothing can be served any more: every thread hangs in an event loop, or every
\* descriptor belongs to a socket that is forgotten or hangs.
Jammed ==
  \/ Cardinality(In({"hung"})) = MaxThreads
  \/ Cardinality(In({"hung", "leaked"})) = maxOpen

\* Unless the server is jammed or dies, a GET that comes in one packet before the
\* worker's wait is over gets its answer, however many broken clients there are and
\* although other threads hang; only its own fetch can keep it.
WholeIsAnswered ==
  \A c \in Conn :
    (place[c] \in {"backlog", "queued", "wait"} /\ wire[c] = "whole")
      ~> (place[c] \in {"closed", "reset", "hung"} \/ gone[c] \/ Jammed)

=============================================================================
