-------------------------------- MODULE Host --------------------------------
(***************************************************************************)
(* A host with the daemon, the update job and check_kueued, which starts   *)
(* what does not run: it looks for a process named kueued and for a job,   *)
(* and not at the port or at what the job's requests are answered.         *)
(***************************************************************************)
EXTENDS SingleInstance, UpdateJob

CONSTANTS
  Service,      \* as whom /etc/init.d/kueued starts kueued, and which copy of it
  MaxEvent      \* bound: what befalls the host from outside

ASSUME HostAssumption ==
  /\ Service \in User
  /\ MaxEvent \in Nat
  /\ IsFiniteSet(Pid)
  /\ Cardinality(Pid) > MaxEvent       \* process numbers do not run out

VARIABLES
  check,        \* the line of check_kueued that is next
  events

hvars == <<ivars, jvars, check, events>>

Init ==
  /\ InstanceInit
  /\ JobInit
  /\ check = "start"
  /\ events = 0

-----------------------------------------------------------------------------
(* The init script kueued, check_kueued                                    *)

\* check_daemon: pidof finds a kueued, or nobody.
CheckDaemon ==
  /\ check = "idle"
  /\ check' = IF Running = {} THEN "stop" ELSE "status"
  /\ UNCHANGED <<ivars, jvars, events>>

\* kueued stop: killproc -TERM.
StopDaemon ==
  /\ check = "stop"
  /\ End(Running)
  /\ check' = "start"
  /\ UNCHANGED <<jvars, events>>

\* kueued start: startproc starts kueued.ld unless it runs already (bound: Proc).
StartDaemon ==
  /\ check = "start"
  /\ check' = "status"
  /\ IF Running = Proc \/ \E p \in Running : user[p] = Service
       THEN UNCHANGED ivars
       ELSE \E p \in Proc : Launch(p, Service)
  /\ UNCHANGED <<jvars, events>>

\* check_dbupdate.
CheckJob ==
  /\ check = "status"
  /\ InitStart
  /\ check' = "idle"
  /\ UNCHANGED <<ivars, events>>

Check == CheckDaemon \/ StopDaemon \/ StartDaemon \/ CheckJob

-----------------------------------------------------------------------------
(* What befalls the host                                                   *)

\* Everything ends, /tmp stays, and the init scripts start both programs.
Reboot ==
  /\ End(Running)
  /\ JobReboot
  /\ check' = "start"

Event ==
  /\ events < MaxEvent
  /\ events' = events + 1
  /\ \/ /\ \/ \E p \in Proc : \/ \E u \in User : Launch(p, u)
                              \/ FailToOpen(p)
                              \/ Die(p)
           \/ \E u \in User : CleanTmp(u)
        /\ UNCHANGED <<jvars, check>>
     \/ /\ \/ \E c \in Command : Start(c) \/ Stop(c)
           \/ \E p \in Pid : JobDies(p) \/ OtherProgram(p)
           \/ InitStop
           \/ WipePidfile
        /\ UNCHANGED <<ivars, check>>
     \/ Reboot

Next ==
  \/ Check
  \/ Event
  \/ \E p \in Proc : Main(p) /\ UNCHANGED <<jvars, check, events>>
  \/ \E c \in Command : Proceed(c) /\ UNCHANGED <<ivars, check, events>>

Spec == Init /\ [][Next]_hvars

\* Cron runs check_kueued again and again, and processes get on.
FairSpec ==
  /\ Spec
  /\ WF_hvars(Check)
  /\ \A p \in Proc : WF_hvars(Main(p) /\ UNCHANGED <<jvars, check, events>>)
  /\ \A c \in Command : WF_hvars(Proceed(c) /\ UNCHANGED <<ivars, check, events>>)

-----------------------------------------------------------------------------
(* Properties                                                              *)

\* A job runs and a daemon answers it.
Updating == Jobs # {} /\ port # Nobody

\* Whatever ends on the host, check_kueued brings back the job and the daemon, and
\* neither a pidfile nor a lock file nor a socket's name that was left in /tmp is in
\* the way; but a daemon that lost the port to one that is gone since counts as
\* running, and stays deaf for ever.
UpdatesComeBack == []<>Updating \/ <>[]Deaf
=============================================================================
