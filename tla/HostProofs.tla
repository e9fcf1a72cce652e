------------------------------ MODULE HostProofs ------------------------------
(***************************************************************************)
(* Proofs about the host, for any processes, users (each with a copy of    *)
(* the binary), process numbers and runs of dbupdate, and any number of    *)
(* events.                                                                 *)
(*                                                                         *)
(* The daemon, first of SingleInstance alone: OneInstance needs to know    *)
(* that all who have the lock file open have the same file open,           *)
(* RunningServes that whoever has the port is in its event loop; LockInv   *)
(* says both.  What happens to the daemon on a host is a behaviour of      *)
(* SingleInstance, so what is proved of that holds there.                  *)
(*                                                                         *)
(* What happens to the job keeps an invariant of its own:                  *)
(*    KnownInv  at each line of dbupdate, who may be a job;                *)
(*    OwnInv    as long as every job ended by dbupdate stop, the number in *)
(*              the pidfile is the job's, but between kill and rm.         *)
(***************************************************************************)
EXTENDS Host, TLAPS

\* Before its user's lock file is opened a process has none; as long as nobody
\* cleans /tmp, an open lock file is the one that the name names.
LockInv ==
  /\ \A p \in Proc : pc[p] \in {"none", "open"} => fd[p] = 0
  /\ cleans = 0 => \A p \in Proc : fd[p] # 0 => fd[p] = file[user[p]]
  /\ port # Nobody => pc[port] = "exec"
  /\ \A p \in Running : user[p] \in users

IInv == InstanceTypeOK /\ LockInv /\ OneInstance /\ RunningServes

-----------------------------------------------------------------------------
(* The daemon: types                                                       *)

LEMMA EndType ==
  ASSUME InstanceTypeOK, NEW procs \in SUBSET Proc, End(procs)
  PROVE  InstanceTypeOK'
  BY InstanceAssumption DEF InstanceTypeOK, End, Holding, Stale, history

\* Types are kept by every step.
LEMMA StepType ==
  ASSUME InstanceTypeOK, InstanceNext
  PROVE  InstanceTypeOK'
<1>1. ASSUME NEW p \in Proc, NEW u \in User, Launch(p, u)
      PROVE  InstanceTypeOK'
  BY <1>1, InstanceAssumption DEF InstanceTypeOK, Launch, Goto, Holding, tmp
<1>2. ASSUME NEW p \in Proc, OpenLockFile(p)
      PROVE  InstanceTypeOK'
  <2>1. user[p] \in User
    BY <1>2, InstanceAssumption DEF InstanceTypeOK, OpenLockFile
  <2>2. /\ file' \in [User -> Nat]
        /\ fd' \in [Proc -> Nat]
    BY <1>2, <2>1 DEF InstanceTypeOK, OpenLockFile
  <2> QED
    BY <1>2, <2>1, <2>2 DEF InstanceTypeOK, OpenLockFile, Goto, Holding, history
<1>3. ASSUME NEW p \in Proc, FailToOpen(p)
      PROVE  InstanceTypeOK'
  BY <1>3 DEF InstanceTypeOK, FailToOpen, Goto, Holding, tmp, history
<1>4. ASSUME NEW p \in Proc, AskRunning(p)
      PROVE  InstanceTypeOK'
  BY <1>4, InstanceAssumption DEF InstanceTypeOK, AskRunning, Goto, Holding, tmp, history
<1>5. ASSUME NEW p \in Proc, Listen(p)
      PROVE  InstanceTypeOK'
  BY <1>5, InstanceAssumption DEF InstanceTypeOK, Listen, Goto, Holding, history
<1>6. ASSUME NEW p \in Proc, Construct(p)
      PROVE  InstanceTypeOK'
  BY <1>6 DEF InstanceTypeOK, Construct, Goto, Holding, tmp, history
<1>7. ASSUME NEW procs \in SUBSET Running, End(procs)
      PROVE  InstanceTypeOK'
  BY <1>7, EndType DEF Running
<1>8. ASSUME NEW u \in User, CleanTmp(u)
      PROVE  InstanceTypeOK'
  BY <1>8 DEF InstanceTypeOK, CleanTmp, Holding
<1> QED
  BY <1>1, <1>2, <1>3, <1>4, <1>5, <1>6, <1>7, <1>8 DEF InstanceNext, Main

-----------------------------------------------------------------------------
(* The lock file                                                           *)

LEMMA StepLock ==
  ASSUME InstanceTypeOK, LockInv, InstanceNext
  PROVE  LockInv'
<1>1. ASSUME NEW p \in Proc, NEW u \in User, Launch(p, u)
      PROVE  LockInv'
  BY <1>1, InstanceAssumption DEF InstanceTypeOK, LockInv, Launch, Goto, Running, tmp
<1>2. ASSUME NEW p \in Proc, OpenLockFile(p)
      PROVE  LockInv'
  <2> DEFINE u == user[p]
             f == IF file[u] = 0 THEN cleans + 1 ELSE file[u]
  <2>1. u \in User /\ pc[p] = "open" /\ f # 0
    BY <1>2, InstanceAssumption DEF InstanceTypeOK, OpenLockFile
  <2>2. /\ file' = [file EXCEPT ![u] = f]
        /\ fd' = [fd EXCEPT ![p] = f]
        /\ pc' = [pc EXCEPT ![p] = "ask"]
        /\ UNCHANGED <<user, port, cleans, users>>
    BY <1>2, <2>1 DEF InstanceTypeOK, OpenLockFile, Goto, history
  <2>3. ASSUME cleans = 0, NEW q \in Proc, fd'[q] # 0
        PROVE  fd'[q] = file'[user[q]]
    <3>1. CASE q = p
      BY <3>1, <2>1, <2>2 DEF InstanceTypeOK
    <3>2. CASE q # p
      <4>1. fd[q] # 0 /\ fd[q] = file[user[q]]
        BY <2>2, <2>3, <3>2 DEF InstanceTypeOK, LockInv
      <4>2. user[q] \in User
        BY <4>1 DEF InstanceTypeOK, LockInv
      <4> QED
        BY <4>1, <4>2, <3>2, <2>1, <2>2 DEF InstanceTypeOK
    <3> QED
      BY <3>1, <3>2
  <2> QED
    BY <2>1, <2>2, <2>3 DEF InstanceTypeOK, LockInv, Running
<1>3. ASSUME NEW p \in Proc, FailToOpen(p)
      PROVE  LockInv'
  BY <1>3 DEF InstanceTypeOK, LockInv, FailToOpen, Goto, Running, tmp, history
<1>4. ASSUME NEW p \in Proc, AskRunning(p)
      PROVE  LockInv'
  BY <1>4 DEF InstanceTypeOK, LockInv, AskRunning, Goto, Running, tmp, history
<1>5. ASSUME NEW p \in Proc, Listen(p)
      PROVE  LockInv'
  BY <1>5 DEF InstanceTypeOK, LockInv, Listen, Goto, Running, history
<1>6. ASSUME NEW p \in Proc, Construct(p)
      PROVE  LockInv'
  BY <1>6, InstanceAssumption DEF InstanceTypeOK, LockInv, Construct, Goto, Running, tmp, history
<1>7. ASSUME NEW procs \in SUBSET Running, End(procs)
      PROVE  LockInv'
  BY <1>7, InstanceAssumption DEF InstanceTypeOK, LockInv, End, Running, history
<1>8. ASSUME NEW u \in User, CleanTmp(u)
      PROVE  LockInv'
  BY <1>8 DEF InstanceTypeOK, LockInv, CleanTmp, Running
<1> QED
  BY <1>1, <1>2, <1>3, <1>4, <1>5, <1>6, <1>7, <1>8 DEF InstanceNext, Main

-----------------------------------------------------------------------------
(* The two properties                                                      *)

\* Two processes of a user that hold their lock are one.  AskRunning is the only
\* step by which a process comes to hold it, and it has the same file open as all
\* who hold it already.
LEMMA StepHolding ==
  ASSUME IInv, InstanceNext, cleans' = 0,
         NEW p \in Proc, NEW q \in Proc, p \in Holding', q \in Holding',
         user'[p] = user'[q]
  PROVE  p = q
<1>0. /\ cleans = 0
      /\ \A r, s \in Holding : user[r] = user[s] => r = s
  BY DEF IInv, OneInstance, InstanceTypeOK, InstanceNext, Main, Launch, OpenLockFile, FailToOpen,
         AskRunning, Listen, Construct, End, CleanTmp, history
<1>1. ASSUME NEW r \in Proc, AskRunning(r)
      PROVE  p = q
  <2>1. CASE r \in Holding'
    <3>1. /\ fd[r] # 0 /\ LockIsFree(r)
          /\ UNCHANGED <<fd, user>>
          /\ Holding' = Holding \cup {r}
      BY <1>1, <2>1 DEF AskRunning, Goto, Holding, IInv, InstanceTypeOK
    <3>2. ASSUME NEW s \in Holding, s # r
          PROVE  user[s] # user[r]
      <4>1. fd[s] = file[user[s]] /\ fd[r] = file[user[r]]
        BY <1>0, <3>1 DEF IInv, LockInv, InstanceTypeOK, Holding
      <4> QED
        BY <4>1, <3>1, <3>2 DEF LockIsFree
    <3> QED
      BY <1>0, <3>1, <3>2
  <2>2. CASE r \notin Holding'
    <3>1. \A s \in Holding' : s \in Holding /\ user'[s] = user[s]
      BY <1>1, <2>2 DEF AskRunning, Goto, Holding, IInv, InstanceTypeOK
    <3> QED
      BY <1>0, <3>1
  <2> QED
    BY <2>1, <2>2
<1>2. ASSUME ~ \E r \in Proc : AskRunning(r)
      PROVE  \A s \in Holding' : s \in Holding /\ user'[s] = user[s]
  <2>1. ASSUME NEW r \in Proc, NEW u \in User, Launch(r, u)
        PROVE  \A s \in Holding' : s \in Holding /\ user'[s] = user[s]
    BY <2>1 DEF Launch, Goto, Holding, IInv, InstanceTypeOK
  <2>2. ASSUME NEW r \in Proc, OpenLockFile(r) \/ FailToOpen(r) \/ Listen(r) \/ Construct(r)
        PROVE  \A s \in Holding' : s \in Holding /\ user'[s] = user[s]
    BY <2>2 DEF OpenLockFile, FailToOpen, Listen, Construct, Goto, Holding, IInv, InstanceTypeOK
  <2>3. ASSUME NEW procs \in SUBSET Running, End(procs)
        PROVE  \A s \in Holding' : s \in Holding /\ user'[s] = user[s]
    BY <2>3 DEF End, Holding, IInv, InstanceTypeOK
  <2>4. ASSUME NEW u \in User, CleanTmp(u)
        PROVE  \A s \in Holding' : s \in Holding /\ user'[s] = user[s]
    BY <2>4 DEF CleanTmp, Holding
  <2> QED
    BY <1>2, <2>1, <2>2, <2>3, <2>4 DEF InstanceNext, Main
<1> QED
  BY <1>0, <1>1, <1>2

\* Who has built its Kueued owns the name of its user's local socket: Listen takes
\* it away from nobody who holds the lock, and an end takes it from the dead only.
LEMMA StepSocket ==
  ASSUME IInv, InstanceNext, cleans' = 0,
         NEW p \in Holding', pc'[p] \in {"construct", "exec"}
  PROVE  sock'[user'[p]] = p
<1>0. /\ p \in Proc
      /\ cleans = 0
      /\ \A r, s \in Holding : user[r] = user[s] => r = s
      /\ \A r \in Holding : pc[r] \in {"construct", "exec"} => sock[user[r]] = r
  BY DEF IInv, OneInstance, InstanceTypeOK, InstanceNext, Main, Launch, OpenLockFile, FailToOpen,
         AskRunning, Listen, Construct, End, CleanTmp, history, Holding
<1>1. ASSUME NEW r \in Proc, NEW u \in User, Launch(r, u)
      PROVE  sock'[user'[p]] = p
  BY <1>0, <1>1 DEF Launch, Goto, Holding, tmp, IInv, InstanceTypeOK
<1>2. ASSUME NEW r \in Proc, OpenLockFile(r) \/ FailToOpen(r) \/ AskRunning(r) \/ Construct(r)
      PROVE  sock'[user'[p]] = p
  BY <1>0, <1>2 DEF OpenLockFile, FailToOpen, AskRunning, Construct, Goto, Holding, tmp,
                    IInv, InstanceTypeOK
<1>3. ASSUME NEW r \in Proc, Listen(r)
      PROVE  sock'[user'[p]] = p
  <2>1. /\ r \in Holding /\ user[r] \in User
        /\ user' = user
        /\ sock' = [sock EXCEPT ![user[r]] = r]
    BY <1>3 DEF Listen, Holding, IInv, InstanceTypeOK
  <2>2. CASE p = r
    BY <2>1, <2>2 DEF IInv, InstanceTypeOK
  <2>3. CASE p # r
    <3>1. p \in Holding /\ pc[p] \in {"construct", "exec"}
      BY <1>0, <1>3, <2>3 DEF Listen, Goto, Holding, IInv, InstanceTypeOK
    <3>2. user[p] # user[r] /\ sock[user[p]] = p
      BY <1>0, <2>1, <2>3, <3>1
    <3> QED
      BY <2>1, <3>2 DEF IInv, InstanceTypeOK
  <2> QED
    BY <2>2, <2>3
<1>4. ASSUME NEW procs \in SUBSET Running, End(procs)
      PROVE  sock'[user'[p]] = p
  <2>1. /\ p \notin procs /\ p \in Holding /\ user'[p] = user[p] /\ user[p] \in User
        /\ pc[p] \in {"construct", "exec"}
    BY <1>0, <1>4, InstanceAssumption DEF End, Holding, IInv, InstanceTypeOK
  <2> QED
    BY <1>0, <1>4, <2>1 DEF End, IInv, InstanceTypeOK
<1>5. ASSUME NEW u \in User, CleanTmp(u)
      PROVE  FALSE
  BY <1>0, <1>5 DEF CleanTmp
<1> QED
  BY <1>1, <1>2, <1>3, <1>4, <1>5 DEF InstanceNext, Main

\* While one user starts kueued, the instance at Construct finds the port free: who
\* has it would be in its event loop, hence hold the lock, hence be the same.
LEMMA StepServes ==
  ASSUME IInv, InstanceNext, cleans' = 0, \A u, w \in users' : u = w,
         NEW p \in Proc, pc'[p] = "exec"
  PROVE  port' = p
<1>0. /\ cleans = 0
      /\ \A u, w \in users : u = w
      /\ \A r \in Proc : pc[r] = "exec" => port = r
      /\ \A r, s \in Holding : user[r] = user[s] => r = s
  <2>1. cleans = 0 /\ users \subseteq users'
    BY DEF IInv, InstanceTypeOK, InstanceNext, Main, Launch, OpenLockFile, FailToOpen,
           AskRunning, Listen, Construct, End, CleanTmp, history
  <2> QED
    BY <2>1 DEF IInv, OneInstance, RunningServes
<1>1. ASSUME NEW r \in Proc, NEW u \in User, Launch(r, u)
      PROVE  port' = p
  BY <1>0, <1>1 DEF Launch, Goto, IInv, InstanceTypeOK
<1>2. ASSUME NEW r \in Proc, OpenLockFile(r) \/ FailToOpen(r) \/ AskRunning(r) \/ Listen(r)
      PROVE  port' = p
  BY <1>0, <1>2 DEF OpenLockFile, FailToOpen, AskRunning, Listen, Goto, IInv, InstanceTypeOK
<1>3. ASSUME NEW r \in Proc, Construct(r)
      PROVE  port' = p
  <2>1. pc[r] = "construct" /\ r \in Holding /\ r \in Running
    BY <1>3 DEF Construct, Holding, Running
  <2>2. port = Nobody
    <3> SUFFICES ASSUME port # Nobody PROVE FALSE
      OBVIOUS
    <3>1. port \in Proc /\ pc[port] = "exec"
      BY DEF IInv, InstanceTypeOK, LockInv
    <3>2. port \in Holding /\ port \in Running
      BY <3>1 DEF Holding, Running
    <3>3. user[port] = user[r]
      BY <1>0, <2>1, <3>2 DEF IInv, LockInv
    <3> QED
      BY <1>0, <2>1, <3>1, <3>2, <3>3
  <2>3. \A s \in Proc : pc[s] # "exec"
    BY <1>0, <2>2, InstanceAssumption
  <2>4. p = r
    BY <1>3, <2>3 DEF Construct, Goto, IInv, InstanceTypeOK
  <2> QED
    BY <1>3, <2>2, <2>4 DEF Construct
<1>4. ASSUME NEW procs \in SUBSET Running, End(procs)
      PROVE  port' = p
  BY <1>0, <1>4 DEF End
<1>5. ASSUME NEW u \in User, CleanTmp(u)
      PROVE  port' = p
  BY <1>0, <1>5 DEF CleanTmp
<1> QED
  BY <1>1, <1>2, <1>3, <1>4, <1>5 DEF InstanceNext, Main

-----------------------------------------------------------------------------
(* The theorems                                                            *)

LEMMA InitInv == InstanceInit => IInv
  BY InstanceAssumption DEF InstanceInit, IInv, InstanceTypeOK, LockInv, OneInstance,
     RunningServes, Holding, Running

LEMMA NextInv == IInv /\ [InstanceNext]_ivars => IInv'
<1> SUFFICES ASSUME IInv, [InstanceNext]_ivars PROVE IInv'
  OBVIOUS
<1>1. CASE InstanceNext
  <2>1. InstanceTypeOK' /\ LockInv'
    BY <1>1, StepType, StepLock DEF IInv
  <2>2. OneInstance'
    <3> SUFFICES ASSUME cleans' = 0
                 PROVE  /\ \A p, q \in Holding' : user'[p] = user'[q] => p = q
                        /\ \A p \in Holding' :
                             pc'[p] \in {"construct", "exec"} => sock'[user'[p]] = p
      BY DEF OneInstance
    <3>1. Holding' \subseteq Proc
      BY DEF Holding
    <3> QED
      BY <1>1, <3>1, StepHolding, StepSocket
  <2>3. RunningServes'
    BY <1>1, StepServes DEF RunningServes
  <2> QED
    BY <2>1, <2>2, <2>3 DEF IInv
<1>2. CASE UNCHANGED ivars
  BY <1>2 DEF ivars, tmp, history, IInv, InstanceTypeOK, LockInv, OneInstance, RunningServes,
              Holding, Running
<1> QED
  BY <1>1, <1>2

\* IInv is an invariant.
LEMMA Invariant == InstanceSpec => []IInv
  BY InitInv, NextInv, PTL DEF InstanceSpec

\* Whatever processes are started, end and clean up, types are right.
THEOREM InstanceTypeCorrect == InstanceSpec => []InstanceTypeOK
<1>1. IInv => InstanceTypeOK
  BY DEF IInv
<1> QED
  BY <1>1, Invariant, PTL

\* A user has one instance at most, and it owns the local socket's name, however
\* many processes start and end at a time (QtLocalPeer::isClient).
THEOREM OneAtATime == InstanceSpec => []OneInstance
<1>1. IInv => OneInstance
  BY DEF IInv
<1> QED
  BY <1>1, Invariant, PTL

\* If one user only starts kueued, a daemon in its event loop is the one that
\* listens (main.cpp, Server::Server).
THEOREM TheOneServes == InstanceSpec => []RunningServes
<1>1. IInv => RunningServes
  BY DEF IInv
<1> QED
  BY <1>1, Invariant, PTL


-----------------------------------------------------------------------------
(* The daemon on a host                                                    *)

\* No step of the host does to the daemon's processes what SingleInstance does not.
LEMMA InstanceSteps == Spec => InstanceSpec
<1>1. Init => InstanceInit
  BY DEF Init
<1>2. [Next]_hvars => [InstanceNext]_ivars
  <2> SUFFICES ASSUME [Next]_hvars PROVE InstanceNext \/ UNCHANGED ivars
    OBVIOUS
  <2>1. CASE UNCHANGED hvars
    BY <2>1 DEF hvars
  <2>2. CASE Check
    <3>1. Running \in SUBSET Running
      OBVIOUS
    <3>2. Service \in User
      BY HostAssumption
    <3> QED
      BY <2>2, <3>1, <3>2
         DEF Check, CheckDaemon, StopDaemon, StartDaemon, CheckJob, InstanceNext
  <2>3. CASE Event
    <3>1. CASE Reboot
      <4>1. Running \in SUBSET Running
        OBVIOUS
      <4> QED
        BY <3>1, <4>1 DEF Reboot, InstanceNext
    <3>2. ASSUME NEW p \in Proc, Die(p) PROVE InstanceNext
      BY <3>2 DEF Die, InstanceNext
    <3>3. ASSUME NEW p \in Proc, (\E u \in User : Launch(p, u)) \/ FailToOpen(p)
          PROVE  InstanceNext
      BY <3>3 DEF InstanceNext
    <3>4. ASSUME NEW u \in User, CleanTmp(u) PROVE InstanceNext
      BY <3>4 DEF InstanceNext
    <3> QED
      BY <2>3, <3>1, <3>2, <3>3, <3>4 DEF Event
  <2>4. ASSUME NEW p \in Proc, Main(p) PROVE InstanceNext
    BY <2>4 DEF InstanceNext
  <2> QED
    BY <2>1, <2>2, <2>3, <2>4 DEF Next
<1> QED
  BY <1>1, <1>2, PTL DEF Spec, InstanceSpec

\* On a host where check_kueued, people and reboots start the daemon, a user has
\* one instance at most.
THEOREM HostOneAtATime == Spec => []OneInstance
  BY InstanceSteps, OneAtATime, PTL

\* And where one user only starts it, the daemon that runs is the one that listens.
THEOREM HostTheOneServes == Spec => []RunningServes
  BY InstanceSteps, TheOneServes, PTL

-----------------------------------------------------------------------------
(* The update job                                                          *)

Lines == {"idle", "fork", "note", "kill", "remove"}

JobTypes ==
  /\ prog \in [Pid -> {"none", "job", "other"}]
  /\ pidfile \in Pid \cup {NoPid}
  /\ cmd \in [Command -> Lines]
  /\ child \in [Command -> Pid \cup {NoPid}]
  /\ wiped \in Nat
  /\ {inits, ended, overlapped, astray} \subseteq BOOLEAN
  /\ \A c \in Command : cmd[c] = "note" => child[c] \in Pid

\* Runs of dbupdate that did not overlap are one at a time.
Alone ==
  ~overlapped => \A c, d \in Command : cmd[c] # "idle" /\ cmd[d] # "idle" => c = d

KnownInv ==
  ~inits /\ ~overlapped /\ wiped = 0 =>
    /\ Quiet => \A p \in Jobs : pidfile = p
    /\ \A c \in Command :
         /\ cmd[c] \in {"fork", "remove"} => Jobs = {}
         /\ cmd[c] = "note" => \A p \in Jobs : p = child[c]
         /\ cmd[c] = "kill" => \A p \in Jobs : p = pidfile

OwnInv ==
  ~ended /\ ~overlapped =>
    /\ ~astray
    /\ \A c \in Command : cmd[c] = "note" => prog[child[c]] = "job"
    /\ pidfile # NoPid /\ (\A c \in Command : cmd[c] # "remove") => prog[pidfile] = "job"

JobInv == JobTypes /\ Alone /\ KnownInv /\ OwnInv

\* The steps of the job's part of a host.
JobStep ==
  \/ InitStart \/ InitStop \/ WipePidfile \/ JobReboot
  \/ \E c \in Command : Start(c) \/ Stop(c) \/ Proceed(c)
  \/ \E p \in Pid : JobDies(p) \/ OtherProgram(p)
  \/ UNCHANGED jvars

LEMMA JobSteps ==
  ASSUME [Next]_hvars
  PROVE  JobStep
<1>1. CASE UNCHANGED hvars
  BY <1>1 DEF hvars, JobStep
<1>2. CASE Check
  BY <1>2 DEF Check, CheckDaemon, StopDaemon, StartDaemon, CheckJob, JobStep
<1>3. CASE Event
  BY <1>3 DEF Event, Reboot, JobStep
<1> QED
  BY <1>1, <1>2, <1>3 DEF Next, JobStep

LEMMA JobInitInv == Init => JobInv
<1> SUFFICES ASSUME JobInit PROVE JobInv
  BY DEF Init
<1>1. JobTypes
  BY DEF JobInit, JobTypes, Lines
<1>2. \A c \in Command : cmd[c] = "idle"
  BY DEF JobInit
<1>3. Jobs = {}
  BY DEF JobInit, Jobs
<1>4. Alone
  BY <1>2 DEF Alone
<1>5. KnownInv
  BY <1>2, <1>3 DEF KnownInv
<1>6. OwnInv
  BY <1>2 DEF JobInit, OwnInv
<1> QED
  BY <1>1, <1>4, <1>5, <1>6 DEF JobInv

\* A number that is free belongs to no program.
LEMMA FreeIsFree ==
  ASSUME NEW p \in Free
  PROVE  p \in Pid /\ prog[p] = "none"
  BY DEF Free

\* dbupdate begins: start finds no pidfile, stop finds one.
LEMMA BeginJobInv ==
  ASSUME JobInv, NEW c \in Command, Start(c) \/ Stop(c)
  PROVE  JobInv'
<1>1. /\ cmd[c] = "idle"
      /\ \/ pidfile = NoPid /\ cmd' = [cmd EXCEPT ![c] = "fork"]
         \/ pidfile # NoPid /\ cmd' = [cmd EXCEPT ![c] = "kill"]
      /\ overlapped' = (overlapped \/ ~Quiet)
      /\ UNCHANGED <<prog, pidfile, child, wiped, inits, ended, astray>>
  BY DEF Start, Stop, Begin, ThenDo
<1>2. JobTypes'
  BY <1>1 DEF JobInv, JobTypes, Lines
<1>3. ASSUME ~overlapped'
      PROVE  Quiet /\ ~overlapped /\ \A d \in Command \ {c} : cmd'[d] = "idle"
  BY <1>1, <1>3 DEF Quiet, JobInv, JobTypes
<1>4. Alone'
  BY <1>3 DEF Alone
<1>5. KnownInv'
  <2> SUFFICES ASSUME ~inits, ~overlapped', wiped = 0
               PROVE  /\ Quiet' => \A p \in Jobs' : pidfile' = p
                      /\ \A d \in Command :
                           /\ cmd'[d] \in {"fork", "remove"} => Jobs' = {}
                           /\ cmd'[d] = "note" => \A p \in Jobs' : p = child'[d]
                           /\ cmd'[d] = "kill" => \A p \in Jobs' : p = pidfile'
    BY <1>1 DEF KnownInv
  <2>1. Jobs' = Jobs /\ Jobs \subseteq Pid
    BY <1>1 DEF Jobs
  <2>2. \A p \in Jobs : pidfile = p
    BY <1>1, <1>3 DEF JobInv, KnownInv
  <2>3. cmd'[c] \in {"fork", "kill"}
    BY <1>1 DEF JobInv, JobTypes
  <2>4. ~Quiet'
    BY <2>3 DEF Quiet
  <2>5. cmd'[c] = "fork" => Jobs = {}
    BY <1>1, <2>1, <2>2, JobAssumption DEF JobInv, JobTypes
  <2> QED
    BY <1>1, <1>3, <2>1, <2>2, <2>3, <2>4, <2>5
<1>6. OwnInv'
  BY <1>1, <1>3 DEF JobInv, JobTypes, OwnInv, Quiet
<1> QED
  BY <1>2, <1>4, <1>5, <1>6 DEF JobInv

LEMMA ForkJobInv ==
  ASSUME JobInv, NEW c \in Command, Fork(c)
  PROVE  JobInv'
<1>1. PICK p \in Free : /\ prog' = [prog EXCEPT ![p] = "job"]
                        /\ child' = [child EXCEPT ![c] = p]
  BY DEF Fork, Becomes
<1>2. /\ cmd[c] = "fork" /\ cmd' = [cmd EXCEPT ![c] = "note"]
      /\ p \in Pid /\ prog[p] = "none"
      /\ UNCHANGED <<pidfile, wiped, inits, ended, overlapped, astray>>
  BY FreeIsFree DEF Fork, ThenDo, known
<1>3. JobTypes'
  BY <1>1, <1>2 DEF JobInv, JobTypes, Lines
<1>4. Alone'
  BY <1>1, <1>2 DEF JobInv, JobTypes, Alone
<1>5. ASSUME ~overlapped PROVE \A d \in Command \ {c} : cmd'[d] = "idle"
  BY <1>1, <1>2, <1>5 DEF JobInv, JobTypes, Alone
<1>6. KnownInv'
  <2>1. Jobs' = Jobs \cup {p}
    BY <1>1, <1>2 DEF JobInv, JobTypes, Jobs
  <2>2. cmd'[c] = "note" /\ child'[c] = p
    BY <1>1, <1>2 DEF JobInv, JobTypes
  <2> QED
    BY <1>2, <1>5, <2>1, <2>2 DEF JobInv, KnownInv, Quiet
<1>7. OwnInv'
  <2>1. cmd'[c] = "note" /\ child'[c] = p /\ prog'[p] = "job"
    BY <1>1, <1>2 DEF JobInv, JobTypes
  <2>2. \A d \in Command \ {c} : cmd'[d] = cmd[d]
    BY <1>2 DEF JobInv, JobTypes
  <2>3. \A q \in Pid : prog[q] = "job" => prog'[q] = "job"
    BY <1>1, <1>2 DEF JobInv, JobTypes
  <2> QED
    BY <1>2, <1>5, <2>1, <2>2, <2>3 DEF JobInv, JobTypes, OwnInv
<1> QED
  BY <1>3, <1>4, <1>6, <1>7 DEF JobInv

LEMMA NoteJobInv ==
  ASSUME JobInv, NEW c \in Command, Note(c)
  PROVE  JobInv'
<1>1. /\ cmd[c] = "note" /\ cmd' = [cmd EXCEPT ![c] = "idle"]
      /\ pidfile' = child[c] /\ child' = [child EXCEPT ![c] = NoPid]
      /\ UNCHANGED <<prog, wiped, inits, ended, overlapped, astray>>
  BY DEF Note, ThenDo, known
<1>2. JobTypes'
  BY <1>1 DEF JobInv, JobTypes, Lines
<1>3. Alone'
  BY <1>1 DEF JobInv, JobTypes, Alone
<1>4. ASSUME ~overlapped PROVE \A d \in Command : cmd'[d] = "idle"
  BY <1>1, <1>4 DEF JobInv, JobTypes, Alone
<1>5. KnownInv'
  BY <1>1, <1>4 DEF JobInv, KnownInv, Jobs
<1>6. OwnInv'
  BY <1>1, <1>4 DEF JobInv, OwnInv
<1> QED
  BY <1>2, <1>3, <1>5, <1>6 DEF JobInv

\* What stop kills is the job, unless the number in the pidfile was free before.
LEMMA KillJobInv ==
  ASSUME JobInv, NEW c \in Command, Kill(c)
  PROVE  JobInv'
<1>1. /\ cmd[c] = "kill" /\ cmd' = [cmd EXCEPT ![c] = "remove"]
      /\ prog' = [p \in Pid |-> IF p = pidfile THEN "none" ELSE prog[p]]
      /\ astray' = (astray \/ pidfile \in {p \in Pid : prog[p] = "other"})
      /\ UNCHANGED <<pidfile, child, wiped, inits, ended, overlapped>>
  BY DEF Kill, ThenDo, known
<1>2. JobTypes'
  <2>1. prog' \in [Pid -> {"none", "job", "other"}]
    BY <1>1 DEF JobInv, JobTypes
  <2>2. astray' \in BOOLEAN
    BY <1>1 DEF JobInv, JobTypes
  <2> QED
    BY <1>1, <2>1, <2>2 DEF JobInv, JobTypes, Lines
<1>3. Alone'
  BY <1>1 DEF JobInv, JobTypes, Alone
<1>4. cmd'[c] = "remove"
  BY <1>1 DEF JobInv, JobTypes
<1>5. ASSUME ~overlapped
      PROVE  \A d \in Command \ {c} : cmd[d] = "idle" /\ cmd'[d] = "idle"
  BY <1>1, <1>5 DEF JobInv, JobTypes, Alone
<1>6. KnownInv'
  <2>1. Jobs' = Jobs \ {pidfile}
    BY <1>1 DEF Jobs
  <2> QED
    BY <1>1, <1>4, <1>5, <2>1 DEF JobInv, KnownInv, Quiet
<1>7. OwnInv'
  <2> SUFFICES ASSUME ~ended, ~overlapped PROVE ~astray'
    BY <1>1, <1>4, <1>5 DEF OwnInv
  <2>1. \A d \in Command : cmd[d] # "remove"
    BY <1>1, <1>5
  <2>2. ~astray /\ (pidfile # NoPid => prog[pidfile] = "job")
    BY <2>1 DEF JobInv, OwnInv
  <2> QED
    BY <1>1, <2>2, JobAssumption
<1> QED
  BY <1>2, <1>3, <1>6, <1>7 DEF JobInv

LEMMA RemoveJobInv ==
  ASSUME JobInv, NEW c \in Command, Remove(c)
  PROVE  JobInv'
<1>1. /\ cmd[c] = "remove" /\ cmd' = [cmd EXCEPT ![c] = "idle"] /\ pidfile' = NoPid
      /\ UNCHANGED <<prog, child, wiped, inits, ended, overlapped, astray>>
  BY DEF Remove, ThenDo, known
<1>2. JobTypes'
  BY <1>1 DEF JobInv, JobTypes, Lines
<1>3. Alone'
  BY <1>1 DEF JobInv, JobTypes, Alone
<1>4. ASSUME ~overlapped PROVE \A d \in Command : cmd'[d] = "idle"
  BY <1>1, <1>4 DEF JobInv, JobTypes, Alone
<1>5. KnownInv'
  BY <1>1, <1>4 DEF JobInv, KnownInv, Jobs
<1>6. OwnInv'
  BY <1>1, <1>4 DEF JobInv, OwnInv
<1> QED
  BY <1>2, <1>3, <1>5, <1>6 DEF JobInv

\* Steps that leave dbupdate and the pidfile alone, make no job, and end none that
\* they do not record.
LEMMA ProgJobInv ==
  ASSUME JobInv, JobTypes', UNCHANGED <<pidfile, cmd, child, wiped, overlapped, astray>>,
         inits => inits', ended => ended',
         ~inits' => Jobs' \subseteq Jobs,
         ~ended' => Jobs \subseteq Jobs'
  PROVE  JobInv'
<1>1. Alone'
  BY DEF JobInv, Alone
<1>2. KnownInv'
  BY DEF JobInv, KnownInv, Quiet
<1>3. OwnInv'
  BY DEF JobInv, JobTypes, OwnInv, Jobs
<1> QED
  BY <1>1, <1>2, <1>3 DEF JobInv

LEMMA OutsideJobInv ==
  ASSUME JobInv,
         \/ InitStart \/ InitStop
         \/ \E p \in Pid : JobDies(p) \/ OtherProgram(p)
  PROVE  JobInv'
<1>1. CASE InitStart
  <2>1. CASE Jobs = {}
    <3>1. PICK p \in Free : prog' = [prog EXCEPT ![p] = "job"] /\ inits'
      BY <1>1, <2>1 DEF InitStart, Becomes
    <3>2. inits' = TRUE /\ UNCHANGED <<pidfile, cmd, child, wiped, ended, overlapped, astray>>
      BY <1>1, <2>1 DEF InitStart
    <3>3. JobTypes'
      BY <3>1, <3>2, FreeIsFree DEF JobInv, JobTypes
    <3> QED
      BY <2>1, <3>2, <3>3, ProgJobInv
  <2>2. CASE Jobs # {}
    <3>1. UNCHANGED <<prog, inits, pidfile, cmd, child, wiped, ended, overlapped, astray>>
      BY <1>1, <2>2 DEF InitStart
    <3> QED
      BY <3>1 DEF JobInv, JobTypes, Alone, KnownInv, OwnInv, Jobs, Quiet
  <2> QED
    BY <2>1, <2>2
<1>2. CASE InitStop
  <2>1. /\ prog' = [p \in Pid |-> IF p \in Jobs THEN "none" ELSE prog[p]] /\ ended' = TRUE
        /\ UNCHANGED <<pidfile, cmd, child, wiped, inits, overlapped, astray>>
    BY <1>2 DEF InitStop
  <2>2. JobTypes'
    BY <2>1 DEF JobInv, JobTypes
  <2>3. Jobs' \subseteq Jobs
    BY <2>1 DEF Jobs
  <2> QED
    BY <2>1, <2>2, <2>3, ProgJobInv
<1>3. ASSUME NEW p \in Pid, JobDies(p) PROVE JobInv'
  <2>1. /\ prog' = [prog EXCEPT ![p] = "none"] /\ ended' = TRUE
        /\ UNCHANGED <<pidfile, cmd, child, wiped, inits, overlapped, astray>>
    BY <1>3 DEF JobDies, Becomes
  <2>2. JobTypes'
    BY <2>1 DEF JobInv, JobTypes
  <2>3. Jobs' \subseteq Jobs
    BY <2>1 DEF Jobs, JobInv, JobTypes
  <2> QED
    BY <2>1, <2>2, <2>3, ProgJobInv
<1>4. ASSUME NEW p \in Pid, OtherProgram(p) PROVE JobInv'
  <2>1. /\ \/ prog[p] = "none" /\ prog' = [prog EXCEPT ![p] = "other"]
           \/ prog[p] = "other" /\ prog' = [prog EXCEPT ![p] = "none"]
        /\ UNCHANGED <<pidfile, cmd, child, wiped, inits, ended, overlapped, astray>>
    BY <1>4, FreeIsFree DEF OtherProgram, Becomes, known
  <2>2. JobTypes'
    BY <2>1 DEF JobInv, JobTypes
  <2>3. Jobs' = Jobs
    BY <2>1 DEF Jobs, JobInv, JobTypes
  <2> QED
    BY <2>1, <2>2, <2>3, ProgJobInv
<1> QED
  BY <1>1, <1>2, <1>3, <1>4

LEMMA WipeJobInv ==
  ASSUME JobInv, WipePidfile
  PROVE  JobInv'
<1>1. /\ pidfile' = NoPid /\ wiped' = wiped + 1
      /\ UNCHANGED <<prog, cmd, child, inits, ended, overlapped, astray>>
  BY DEF WipePidfile
<1>2. JobTypes' /\ wiped' # 0
  BY <1>1 DEF JobInv, JobTypes
<1>3. Alone' /\ KnownInv' /\ OwnInv'
  BY <1>1, <1>2 DEF JobInv, Alone, KnownInv, OwnInv
<1> QED
  BY <1>2, <1>3 DEF JobInv

\* A host that went down without a job and with dbupdate at rest comes up with no
\* pidfile.
LEMMA RebootJobInv ==
  ASSUME JobInv, JobReboot
  PROVE  JobInv'
<1>1. /\ prog' = [p \in Pid |-> "none"]
      /\ cmd' = [c \in Command |-> "idle"]
      /\ child' = [c \in Command |-> NoPid]
      /\ ended' = (ended \/ Jobs # {} \/ ~Quiet)
      /\ UNCHANGED <<pidfile, wiped, inits, overlapped, astray>>
  BY DEF JobReboot
<1>2. JobTypes'
  <2>1. ended' \in BOOLEAN
    BY <1>1 DEF JobInv, JobTypes
  <2> QED
    BY <1>1, <2>1 DEF JobInv, JobTypes, Lines
<1>3. Alone' /\ KnownInv'
  BY <1>1 DEF Alone, KnownInv, Jobs
<1>4. OwnInv'
  <2> SUFFICES ASSUME ~ended', ~overlapped PROVE ~astray /\ pidfile = NoPid
    BY <1>1 DEF OwnInv
  <2>1. ~ended /\ Jobs = {} /\ \A c \in Command : cmd[c] = "idle"
    BY <1>1 DEF Quiet
  <2> QED
    BY <2>1 DEF JobInv, JobTypes, OwnInv, Jobs
<1> QED
  BY <1>2, <1>3, <1>4 DEF JobInv

LEMMA JobNextInv == JobInv /\ [Next]_hvars => JobInv'
<1> SUFFICES ASSUME JobInv, [Next]_hvars PROVE JobInv'
  OBVIOUS
<1>1. JobStep
  BY JobSteps
<1>2. CASE UNCHANGED jvars
  BY <1>2 DEF jvars, known, JobInv, JobTypes, Alone, KnownInv, OwnInv, Jobs, Quiet
<1>3. ASSUME NEW c \in Command, Proceed(c) PROVE JobInv'
  BY <1>3, ForkJobInv, NoteJobInv, KillJobInv, RemoveJobInv DEF Proceed
<1> QED
  BY <1>1, <1>2, <1>3, BeginJobInv, OutsideJobInv, WipeJobInv, RebootJobInv DEF JobStep

LEMMA JobInvariant == Spec => []JobInv
  BY JobInitInv, JobNextInv, PTL DEF Spec

\* Where dbupdate alone starts and stops the job, the pidfile names the job that
\* runs (scripts/dbupdate/dbupdate).
THEOREM KnownJob == Spec => []JobIsKnown
<1>1. JobInv => JobIsKnown
  BY DEF JobInv, KnownInv, JobIsKnown
<1> QED
  BY <1>1, JobInvariant, PTL

\* dbupdate stop kills no other program than the job, unless the job or a dbupdate
\* ended without it or two runs of it overlapped.
THEOREM OwnJob == Spec => []KillsOwnJob
<1>1. JobInv => KillsOwnJob
  BY DEF JobInv, JobTypes, OwnInv, KillsOwnJob
<1> QED
  BY <1>1, JobInvariant, PTL
=============================================================================
