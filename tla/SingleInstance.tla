---------------------------- MODULE SingleInstance ----------------------------
(***************************************************************************)
(* Start-up of the daemon (main.cpp, kueued.cpp): a process becomes the    *)
(* instance of its user by a lock on a file in /tmp (QtLocalPeer::isClient *)
(* on QtLockedFile) and then listens on port 8080.  A process that finds   *)
(* the file locked exits; one whose listen fails goes on and serves        *)
(* nobody, since Server::Server does not look at the result.               *)
(*                                                                         *)
(* The names of the lock file and of the local socket hold the user's id   *)
(* and a checksum of the path of the binary.  So a user, here and below,   *)
(* is a user with one copy of the binary: who starts two copies whose      *)
(* checksums differ is two of them.                                        *)
(*                                                                         *)
(* The lock belongs to the file that was opened, not to its name: whoever  *)
(* cleans /tmp lets the next process create and lock another file.  The    *)
(* kernel frees lock and port when a process ends; the local socket's name *)
(* stays in /tmp.                                                          *)
(*                                                                         *)
(* sendMessage and receiveConnection of QtLocalPeer, which main does not   *)
(* use, are left out.                                                      *)
(***************************************************************************)
EXTENDS Naturals

CONSTANTS
  Proc,         \* slots for processes of kueued
  User,         \* who starts it: a user's id with a path of the binary
  Nobody

ASSUME InstanceAssumption == Nobody \notin Proc \cup User

VARIABLES
  pc,           \* per process: the step of main that is next
  user,         \* per process: who runs it, Nobody where none runs
  fd,           \* per process: the lock file it has opened, 0 for none
  file,         \* per user: the file that the lock's name names, 0 for none
  sock,         \* per user: whose socket the local server's name names
  port,         \* who listens on port 8080
  cleans,       \* how often a lock file was removed
  users         \* who has ever started it

tmp     == <<file, sock>>
history == <<cleans, users>>
ivars   == <<pc, user, fd, tmp, port, history>>

Stale == "stale"

\* QtLockedFile holds its lock from the fcntl of isClient to its process' end.
Holding == {p \in Proc : pc[p] \in {"listen", "construct", "exec"}}
Running == {p \in Proc : pc[p] # "none"}

InstanceTypeOK ==
  /\ pc   \in [Proc -> {"none", "open", "ask", "listen", "construct", "exec"}]
  /\ user \in [Proc -> User \cup {Nobody}]
  /\ fd   \in [Proc -> Nat]
  /\ file \in [User -> Nat]
  /\ sock \in [User -> Proc \cup {Nobody, Stale}]
  /\ port \in Proc \cup {Nobody}
  /\ cleans \in Nat
  /\ users \subseteq User
  /\ \A p \in Holding : fd[p] # 0
  /\ \A p \in Proc : pc[p] = "none" <=> user[p] = Nobody

InstanceInit ==
  /\ pc = [p \in Proc |-> "none"]
  /\ user = [p \in Proc |-> Nobody]
  /\ fd = [p \in Proc |-> 0]
  /\ file = [u \in User |-> 0]
  /\ sock = [u \in User |-> Nobody]
  /\ port = Nobody
  /\ cleans = 0
  /\ users = {}

Goto(p, label) == pc' = [pc EXCEPT ![p] = label]

-----------------------------------------------------------------------------
(* main                                                                    *)

\* startproc -e kueued.ld, or somebody at a shell.
Launch(p, u) ==
  /\ pc[p] = "none"
  /\ Goto(p, "open")
  /\ user' = [user EXCEPT ![p] = u]
  /\ users' = users \cup {u}
  /\ UNCHANGED <<fd, tmp, port, cleans>>

\* QtLocalPeer::QtLocalPeer opens the lock file, creating it; nobody looks at the
\* result.
OpenLockFile(p) ==
  LET u == user[p] IN
  /\ pc[p] = "open"
  /\ Goto(p, "ask")
  /\ file' = [file EXCEPT ![u] = IF @ = 0 THEN cleans + 1 ELSE @]
  /\ fd' = [fd EXCEPT ![p] = file'[u]]
  /\ UNCHANGED <<user, sock, port, history>>

\* The same, where the file belongs to somebody else or /tmp is full.
FailToOpen(p) ==
  /\ pc[p] = "open"
  /\ Goto(p, "ask")
  /\ UNCHANGED <<user, fd, tmp, port, history>>

\* fcntl( F_SETLK ) on the file that p has opened.
LockIsFree(p) == \A q \in Holding \ {p} : <<user[q], fd[q]>> # <<user[p], fd[p]>>

\* Faulty variant: main does not ask isRunning.
AskRunningIgnored(p) ==
  /\ pc[p] = "ask"
  /\ fd[p] # 0
  /\ Goto(p, "listen")
  /\ UNCHANGED <<user, fd, tmp, port, history>>

\* isRunning up to the lock: a client prints that kueued is running and exits, and
\* so does a process whose lock file could not be opened.
AskRunning(p) ==
  /\ pc[p] = "ask"
  /\ IF fd[p] # 0 /\ LockIsFree(p)
       THEN Goto(p, "listen") /\ UNCHANGED <<fd, user>>
       ELSE /\ Goto(p, "none")
            /\ fd' = [fd EXCEPT ![p] = 0]
            /\ user' = [user EXCEPT ![p] = Nobody]
  /\ UNCHANGED <<tmp, port, history>>

\* Faulty variant: isClient without the workaround for a name that is taken.
ListenOnce(p) ==
  /\ pc[p] = "listen"
  /\ sock' = [sock EXCEPT ![user[p]] = IF @ = Nobody THEN p ELSE @]
  /\ Goto(p, "construct")
  /\ UNCHANGED <<user, fd, file, port, history>>

\* The rest of isClient: a name that is taken is removed, and listen called again.
Listen(p) ==
  /\ pc[p] = "listen"
  /\ sock' = [sock EXCEPT ![user[p]] = p]
  /\ Goto(p, "construct")
  /\ UNCHANGED <<user, fd, file, port, history>>

\* Kueued::Kueued and Server::Server; then app.exec(), whatever listen said.
Construct(p) ==
  /\ pc[p] = "construct"
  /\ port' = IF port = Nobody THEN p ELSE port
  /\ Goto(p, "exec")
  /\ UNCHANGED <<user, fd, tmp, history>>

Main(p) == OpenLockFile(p) \/ AskRunning(p) \/ Listen(p) \/ Construct(p)

-----------------------------------------------------------------------------
(* Ends                                                                    *)

\* Processes end without a destructor: SIGTERM, SIGKILL, a fault.
End(procs) ==
  /\ pc' = [p \in Proc |-> IF p \in procs THEN "none" ELSE pc[p]]
  /\ fd' = [p \in Proc |-> IF p \in procs THEN 0 ELSE fd[p]]
  /\ user' = [p \in Proc |-> IF p \in procs THEN Nobody ELSE user[p]]
  /\ sock' = [u \in User |-> IF sock[u] \in procs THEN Stale ELSE sock[u]]
  /\ port' = IF port \in procs THEN Nobody ELSE port
  /\ UNCHANGED <<file, history>>

Die(p) ==
  /\ p \in Running
  /\ End({p})

\* What cleans /tmp removes the lock file, and the socket's name with it or not.
CleanTmp(u) ==
  /\ file[u] # 0
  /\ cleans' = cleans + 1
  /\ file' = [file EXCEPT ![u] = 0]
  /\ \/ sock' = [sock EXCEPT ![u] = Nobody]
     \/ UNCHANGED sock
  /\ UNCHANGED <<pc, user, fd, port, users>>

InstanceNext ==
  \/ \E p \in Proc : \/ \E u \in User : Launch(p, u)
                     \/ Main(p)
                     \/ FailToOpen(p)
  \/ \E procs \in SUBSET Running : End(procs)
  \/ \E u \in User : CleanTmp(u)

InstanceSpec == InstanceInit /\ [][InstanceNext]_ivars

-----------------------------------------------------------------------------
(* Properties                                                              *)

\* As long as nobody cleans /tmp, a user has one instance of a binary at most,
\* however many processes are started, end and are started again at the same time,
\* and that instance owns the local socket's name, whatever those before it left.
OneInstance ==
  cleans = 0 =>
    /\ \A p, q \in Holding : user[p] = user[q] => p = q
    /\ \A p \in Holding : pc[p] \in {"construct", "exec"} => sock[user[p]] = p

\* Where one user only has ever started kueued, from one path, and nobody cleaned
\* /tmp, a daemon in its event loop is the one that listens, although Server::Server
\* does not look at what listen returns.
RunningServes ==
  cleans = 0 /\ (\A u, w \in users : u = w) =>
    \A p \in Proc : pc[p] = "exec" => port = p

\* Daemons run, and none of them has the port.
Deaf ==
  /\ \E p \in Proc : pc[p] = "exec"
  /\ port = Nobody
=============================================================================
