------------------------------ MODULE UpdateJob ------------------------------
(***************************************************************************)
(* The update job's two ways to start and stop (scripts/dbupdate):         *)
(*                                                                         *)
(*   dbupdate start|stop   believes /tmp/dbupdate.pid: start refuses while *)
(*                         the file is there, whoever runs, and stop kills *)
(*                         the process whose number it holds, whoever that *)
(*                         is by now;                                      *)
(*   dbupdate-init         asks the process table (startproc, killproc)    *)
(*                         and knows nothing of the file.                  *)
(*                                                                         *)
(* Process numbers are used again: a job or another program may get any    *)
(* number that is free.  Those that no file and no script remembers are    *)
(* alike, so the least of them stands for all.                             *)
(***************************************************************************)
EXTENDS Naturals, FiniteSets

CONSTANTS
  Pid,          \* process numbers
  NoPid,
  Command       \* runs of dbupdate that may overlap

ASSUME JobAssumption == Pid \subseteq Nat /\ NoPid \notin Pid

VARIABLES
  prog,         \* per process number: which program it is
  pidfile,      \* what /tmp/dbupdate.pid holds, NoPid where there is none
  cmd,          \* per run of dbupdate: the line that is next
  child,        \* per run of dbupdate start: the job it forked
  wiped,        \* how often /tmp was cleaned of a pidfile
  inits,        \* the init script has started a job
  ended,        \* a job or a dbupdate ended in another way than by dbupdate stop
  overlapped,   \* two runs of dbupdate overlapped
  astray        \* dbupdate stop killed another program

known == <<wiped, inits, ended, overlapped>>
jvars == <<prog, pidfile, cmd, child, known, astray>>

Jobs  == {p \in Pid : prog[p] = "job"}

\* The numbers that the next process may get.
Free ==
  LET none == {p \in Pid : prog[p] = "none"} IN
  {p \in none : \/ p = pidfile
                \/ \E c \in Command : child[c] = p
                \/ \A q \in none : p <= q}

Quiet == \A c \in Command : cmd[c] = "idle"

JobInit ==
  /\ prog = [p \in Pid |-> "none"]
  /\ pidfile = NoPid
  /\ cmd = [c \in Command |-> "idle"]
  /\ child = [c \in Command |-> NoPid]
  /\ wiped = 0
  /\ inits = FALSE /\ ended = FALSE /\ overlapped = FALSE /\ astray = FALSE

Becomes(p, what) == prog' = [prog EXCEPT ![p] = what]
ThenDo(c, label)  == cmd' = [cmd EXCEPT ![c] = label]

-----------------------------------------------------------------------------
(* dbupdate start                                                          *)

\* A run of dbupdate begins; it overlaps with those that have not ended.
Begin(c, label) ==
  /\ cmd[c] = "idle"
  /\ ThenDo(c, label)
  /\ overlapped' = (overlapped \/ ~Quiet)

\* Faulty variant: start does not look for the pidfile.
StartUntested(c) ==
  /\ Begin(c, "fork")
  /\ UNCHANGED <<prog, pidfile, child, wiped, inits, ended, astray>>

\* start: the test for the pidfile.
Start(c) ==
  /\ pidfile = NoPid
  /\ Begin(c, "fork")
  /\ UNCHANGED <<prog, pidfile, child, wiped, inits, ended, astray>>

\* The job is started in the background,
Fork(c) ==
  /\ cmd[c] = "fork"
  /\ \E p \in Free : Becomes(p, "job") /\ child' = [child EXCEPT ![c] = p]
  /\ ThenDo(c, "note")
  /\ UNCHANGED <<pidfile, known, astray>>

\* and its number is written, over whatever the file holds by now.
Note(c) ==
  /\ cmd[c] = "note"
  /\ pidfile' = child[c]
  /\ child' = [child EXCEPT ![c] = NoPid]
  /\ ThenDo(c, "idle")
  /\ UNCHANGED <<prog, known, astray>>

-----------------------------------------------------------------------------
(* dbupdate stop                                                           *)

Stop(c) ==
  /\ pidfile # NoPid
  /\ Begin(c, "kill")
  /\ UNCHANGED <<prog, pidfile, child, wiped, inits, ended, astray>>

\* Faulty variant: stop leaves the pidfile where it is.
KillAndLeave(c) ==
  /\ cmd[c] = "kill"
  /\ prog' = [p \in Pid |-> IF p = pidfile THEN "none" ELSE prog[p]]
  /\ astray' = (astray \/ pidfile \in {p \in Pid : prog[p] = "other"})
  /\ ThenDo(c, "idle")
  /\ UNCHANGED <<pidfile, child, known>>

\* kill -9 of whatever has the number that the file holds, if it is still there,
Kill(c) ==
  /\ cmd[c] = "kill"
  /\ prog' = [p \in Pid |-> IF p = pidfile THEN "none" ELSE prog[p]]
  /\ astray' = (astray \/ pidfile \in {p \in Pid : prog[p] = "other"})
  /\ ThenDo(c, "remove")
  /\ UNCHANGED <<pidfile, child, known>>

\* and then the file goes.
Remove(c) ==
  /\ cmd[c] = "remove"
  /\ pidfile' = NoPid
  /\ ThenDo(c, "idle")
  /\ UNCHANGED <<prog, child, known, astray>>

Proceed(c) == Fork(c) \/ Note(c) \/ Kill(c) \/ Remove(c)

-----------------------------------------------------------------------------
(* dbupdate-init                                                           *)

\* Faulty variant: the init script goes by the pidfile, too.
InitStartByFile ==
  /\ IF pidfile = NoPid /\ Jobs = {}
       THEN \E p \in Free : Becomes(p, "job") /\ inits' = TRUE
       ELSE UNCHANGED <<prog, inits>>
  /\ UNCHANGED <<pidfile, cmd, child, wiped, ended, overlapped, astray>>

\* start: startproc starts the job unless one runs.
InitStart ==
  /\ IF Jobs = {}
       THEN \E p \in Free : Becomes(p, "job") /\ inits' = TRUE
       ELSE UNCHANGED <<prog, inits>>
  /\ UNCHANGED <<pidfile, cmd, child, wiped, ended, overlapped, astray>>

\* stop: killproc ends every job.
InitStop ==
  /\ Jobs # {}
  /\ prog' = [p \in Pid |-> IF p \in Jobs THEN "none" ELSE prog[p]]
  /\ ended' = TRUE
  /\ UNCHANGED <<pidfile, cmd, child, wiped, inits, overlapped, astray>>

-----------------------------------------------------------------------------
(* The host                                                                *)

JobDies(p) ==
  /\ prog[p] = "job"
  /\ Becomes(p, "none")
  /\ ended' = TRUE
  /\ UNCHANGED <<pidfile, cmd, child, wiped, inits, overlapped, astray>>

\* Another program comes by a free number, and ends.
OtherProgram(p) ==
  /\ \/ p \in Free /\ Becomes(p, "other")
     \/ prog[p] = "other" /\ Becomes(p, "none")
  /\ UNCHANGED <<pidfile, cmd, child, known, astray>>

WipePidfile ==
  /\ pidfile # NoPid
  /\ pidfile' = NoPid
  /\ wiped' = wiped + 1
  /\ UNCHANGED <<prog, cmd, child, inits, ended, overlapped, astray>>

\* The host goes down and comes up: no process is left, and /tmp is as it was.
JobReboot ==
  /\ prog' = [p \in Pid |-> "none"]
  /\ cmd' = [c \in Command |-> "idle"]
  /\ child' = [c \in Command |-> NoPid]
  /\ ended' = (ended \/ Jobs # {} \/ ~Quiet)
  /\ UNCHANGED <<pidfile, wiped, inits, overlapped, astray>>

-----------------------------------------------------------------------------
(* Properties                                                              *)

\* Where dbupdate alone starts and stops the job, one run after the other, and
\* nobody cleans /tmp, the job that runs is one, and the pidfile names it: stop will
\* find it.
JobIsKnown ==
  Quiet /\ ~inits /\ ~overlapped /\ wiped = 0 => \A p \in Jobs : pidfile = p

\* dbupdate stop kills another program only if a job ended without it, or the host
\* went down between stop's kill and its rm, so that the pidfile held a number that
\* was free for others, or if another run had killed the job already.
KillsOwnJob == astray => ended \/ overlapped
=============================================================================
