------------------------------- MODULE CrCache -------------------------------
(***************************************************************************)
(* The cache of what a collaboration request (CR) belongs to: table CRSR   *)
(* and the functions of database.cpp around it.  getSrForCr looks a CR up  *)
(* in CRSR (getSrForCrMysql) and, if it is not there, asks the report      *)
(* database for the CR's SR and Siebel for the SR's title and customer,    *)
(* and stores the answer (getSrForCrReport).                               *)
(*                                                                         *)
(* getSrForCrMysql begins a transaction that neither function commits: the *)
(* INSERT stays uncommitted until the worker's next BEGIN or COMMIT, and   *)
(* is rolled back if its connection is closed first.  /srforcr closes it.  *)
(* The repository does not define CRSR: CR is taken for its key, and its   *)
(* engine for one with transactions.                                       *)
(*                                                                         *)
(* Two lists are read at an index they need not have: srInfo's answer by   *)
(* getSrForCrReport, getSrForCr's by getUserQueue and /srforcr.  What that *)
(* does is undefined: the daemon dies, or goes on with a value that nobody *)
(* gave (Garbage).                                                         *)
(***************************************************************************)
EXTENDS Naturals

CONSTANTS
  Worker,       \* worker threads with a request on CRs
  CR, SR,
  Desc,         \* what Siebel says of an SR, title and customer
  NoRow, Garbage,
  Kinds,        \* the requests, a subset of Requests
  MaxChange, MaxFault

Requests == {"updateDB", "userqueue", "srforcr", "qmon"}

ASSUME ConstantsAssumption ==
  /\ NoRow \notin SR \cup CR \cup Desc
  /\ Garbage \notin Desc /\ Garbage # NoRow
  /\ Kinds \subseteq Requests

ASSUME BoundsAssumption == {MaxChange, MaxFault} \subseteq Nat

VARIABLES
  report,       \* report database: the SR of a CR
  siebel,       \* Siebel: srInfo of an SR
  crsr,         \* table CRSR, its committed rows
  up,           \* the daemon runs
  pc,           \* per worker: the next query
  kind,         \* per worker: its request
  todo,         \* the CRs the request has not reached
  cr, sr, desc, \* the CR at hand, and what was learned of it
  pending,      \* rows inserted in the worker's open transaction
  stored,       \* history: rows that the request inserted
  misled,       \* history: an /updateDB or /userqueue stored Garbage
  changes, faults

world == <<report, siebel, changes>>
hand  == <<cr, sr, desc>>
vars  == <<report, siebel, crsr, up, pc, kind, todo, cr, sr, desc, pending,
           stored, misled, changes, faults>>

Row == [cr: CR, sr: SR, desc: Desc \cup {Garbage}]

TypeOK ==
  /\ report  \in [CR -> SR \cup {NoRow}]
  /\ siebel  \in [SR -> Desc \cup {NoRow}]
  /\ crsr    \in SUBSET Row
  /\ up      \in BOOLEAN
  /\ pc      \in [Worker -> {"idle", "lookup", "report", "siebel", "insert", "done"}]
  /\ kind    \in [Worker -> Kinds \cup {NoRow}]
  /\ todo    \in [Worker -> SUBSET CR]
  /\ cr      \in [Worker -> CR \cup {NoRow}]
  /\ sr      \in [Worker -> SR \cup {NoRow}]
  /\ desc    \in [Worker -> Desc \cup {NoRow, Garbage}]
  /\ pending \in [Worker -> SUBSET Row]
  /\ stored  \in [Worker -> SUBSET Row]
  /\ \A w \in Worker : pc[w] \in {"siebel", "insert"} => sr[w] \in SR
  /\ misled  \in BOOLEAN
  /\ changes \in 0..MaxChange
  /\ faults  \in 0..MaxFault

Each(v) == [w \in Worker |-> v]

Init ==
  /\ report \in [CR -> SR \cup {NoRow}]
  /\ siebel \in [SR -> Desc \cup {NoRow}]
  /\ crsr = {}
  /\ up = TRUE
  /\ misled = FALSE
  /\ changes = 0 /\ faults = 0
  /\ pc = Each("idle") /\ kind = Each(NoRow)
  /\ todo = Each({}) /\ cr = Each(NoRow)
  /\ sr = Each(NoRow) /\ desc = Each(NoRow)
  /\ pending = Each({}) /\ stored = Each({})

-----------------------------------------------------------------------------
(* The world                                                               *)

\* SRs are edited, appear and vanish; CRs are given another SR.
Change ==
  /\ changes < MaxChange
  /\ changes' = changes + 1
  /\ \/ \E s \in SR, d \in Desc \cup {NoRow} :
          siebel' = [siebel EXCEPT ![s] = d] /\ UNCHANGED report
     \/ \E c \in CR, s \in SR \cup {NoRow} :
          report' = [report EXCEPT ![c] = s] /\ UNCHANGED siebel
  /\ UNCHANGED <<crsr, up, pc, kind, todo, hand, pending, stored, misled, faults>>

\* check_kueued finds no daemon and starts one.
Restart ==
  /\ ~up
  /\ up' = TRUE
  /\ UNCHANGED <<world, crsr, pc, kind, todo, hand, pending, stored, misled, faults>>

Fault(fault) ==
  /\ fault => faults < MaxFault
  /\ faults' = IF fault THEN faults + 1 ELSE faults

Goto(w, label) == pc' = [pc EXCEPT ![w] = label]

\* The daemon dies: with it every request, and what was not committed.
Die ==
  /\ up' = FALSE
  /\ pc' = Each("idle") /\ kind' = Each(NoRow)
  /\ todo' = Each({}) /\ cr' = Each(NoRow)
  /\ sr' = Each(NoRow) /\ desc' = Each(NoRow)
  /\ pending' = Each({}) /\ stored' = Each({})
  /\ UNCHANGED <<crsr, misled>>

-----------------------------------------------------------------------------
(* The requests                                                            *)

\* What a request does to the tables is committed, or undone.
Commit(w) ==
  /\ crsr' = crsr \cup pending[w]
  /\ pending' = [pending EXCEPT ![w] = {}]

Rollback(w) ==
  /\ pending' = [pending EXCEPT ![w] = {}]
  /\ UNCHANGED crsr

\* A request comes.  The CRs it meets: the one of /srforcr; those of the fetched
\* list, of the engineer's queue or of QMON_SIEBEL for the others.
Begin(w) ==
  /\ up
  /\ pc[w] = "idle"
  /\ \E k \in Kinds, list \in SUBSET CR :
       /\ k = "srforcr" => \E c \in CR : list = {c}
       /\ kind' = [kind EXCEPT ![w] = k]
       /\ todo' = [todo EXCEPT ![w] = list]
  /\ Goto(w, "lookup")
  /\ UNCHANGED <<world, crsr, up, hand, pending, stored, misled, faults>>

\* The call returns, and with it its locals are gone.
NextCr(w) ==
  /\ Goto(w, "lookup")
  /\ cr'   = [cr EXCEPT ![w] = NoRow]
  /\ sr'   = [sr EXCEPT ![w] = NoRow]
  /\ desc' = [desc EXCEPT ![w] = NoRow]

Found(w, c) == \E row \in crsr \cup pending[w] : row.cr = c

\* Faulty variant: getSrForCrMysql without its BEGIN: the transaction goes on.
LookUpWithoutBegin(w) ==
  /\ pc[w] = "lookup"
  /\ \E c \in todo[w], fault \in BOOLEAN :
       /\ Fault(fault)
       /\ todo' = [todo EXCEPT ![w] = @ \ {c}]
       /\ IF (~fault /\ Found(w, c)) \/ kind[w] = "qmon"
            THEN NextCr(w)
            ELSE Goto(w, "report") /\ cr' = [cr EXCEPT ![w] = c] /\ UNCHANGED <<sr, desc>>
  /\ UNCHANGED <<world, crsr, up, kind, pending, stored, misled>>

\* getSrForCrMysql for the next CR.  Its BEGIN commits what is open.
\* getSrsForQueue asks no further for a CR that is not found.
LookUp(w) ==
  /\ pc[w] = "lookup"
  /\ \E c \in todo[w], fault \in BOOLEAN :
       /\ Fault(fault)
       /\ todo' = [todo EXCEPT ![w] = @ \ {c}]
       /\ IF (~fault /\ Found(w, c)) \/ kind[w] = "qmon"
            THEN NextCr(w)
            ELSE Goto(w, "report") /\ cr' = [cr EXCEPT ![w] = c] /\ UNCHANGED <<sr, desc>>
  /\ Commit(w)
  /\ UNCHANGED <<world, up, kind, stored, misled>>

\* Faulty variant: getSrForCrReport without if ( query.next() ).
AskReportUnchecked(w) ==
  /\ pc[w] = "report"
  /\ \E fault \in BOOLEAN :
       /\ Fault(fault)
       /\ sr' = [sr EXCEPT ![w] = IF fault THEN NoRow ELSE report[cr[w]]]
  /\ Goto(w, "siebel")
  /\ UNCHANGED <<world, crsr, up, kind, todo, cr, desc, pending, stored, misled>>

\* The SELECT of getSrForCrReport.  It finds nothing for a CR without an SR:
\* getQmonSrs looks at isEmpty(), getUserQueue and /srforcr take element 0.
AskReport(w) ==
  /\ pc[w] = "report"
  /\ UNCHANGED world
  /\ \E fault \in BOOLEAN :
       LET s == IF fault THEN NoRow ELSE report[cr[w]] IN
       /\ Fault(fault)
       /\ \/ /\ IF s = NoRow
                  THEN NextCr(w)
                  ELSE Goto(w, "siebel") /\ sr' = [sr EXCEPT ![w] = s] /\ UNCHANGED <<cr, desc>>
             /\ UNCHANGED <<crsr, up, kind, todo, pending, stored, misled>>
          \/ /\ s = NoRow
             /\ kind[w] \in {"userqueue", "srforcr"}
             /\ Die

\* srInfo.  /srforcr has not opened the Siebel connection, so it gets nothing;
\* element 0 of an empty answer is taken all the same.
AskSiebel(w) ==
  /\ pc[w] = "siebel"
  /\ UNCHANGED world
  /\ \E fault \in BOOLEAN :
       LET d == IF fault \/ kind[w] = "srforcr" THEN NoRow ELSE siebel[sr[w]] IN
       /\ Fault(fault)
       /\ \/ /\ desc' = [desc EXCEPT ![w] = IF d = NoRow THEN Garbage ELSE d]
             /\ Goto(w, "insert")
             /\ misled' = (misled \/ (d = NoRow /\ kind[w] # "srforcr"))
             /\ UNCHANGED <<crsr, up, kind, todo, cr, sr, pending, stored>>
          \/ d = NoRow /\ Die

\* The INSERT into CRSR.  It waits for another open transaction that holds the key,
\* and fails if the key is taken.
InsertRow(w) ==
  LET row == [cr |-> cr[w], sr |-> sr[w], desc |-> desc[w]] IN
  /\ pc[w] = "insert"
  /\ \A v \in Worker \ {w} : \A r \in pending[v] : r.cr # cr[w]
  /\ \E fault \in BOOLEAN :
       /\ Fault(fault)
       /\ IF fault \/ Found(w, cr[w])
            THEN UNCHANGED <<pending, stored>>
            ELSE /\ pending' = [pending EXCEPT ![w] = @ \cup {row}]
                 /\ stored' = [stored EXCEPT ![w] = @ \cup {row}]
  /\ NextCr(w)
  /\ UNCHANGED <<world, crsr, up, kind, todo, misled>>

\* Faulty variant: getUserQueue without its commit.
FinishUncommitted(w) ==
  /\ pc[w] = "lookup"
  /\ todo[w] = {}
  /\ IF kind[w] = "updateDB" THEN Commit(w) ELSE Rollback(w)
  /\ Goto(w, "done")
  /\ UNCHANGED <<world, up, kind, todo, hand, stored, misled, faults>>

\* Faulty variant: getSrForCrReport commits what it inserts.
FinishCommitted(w) ==
  /\ pc[w] = "lookup"
  /\ todo[w] = {}
  /\ Commit(w)
  /\ Goto(w, "done")
  /\ UNCHANGED <<world, up, kind, todo, hand, stored, misled, faults>>

\* The list is complete.  The last INSERT is committed by the BEGIN of the call
\* that follows getQmonSrs, by getUserQueue or by getSrsForQueue; /srforcr ends
\* here, and its connection is closed.
Finish(w) ==
  /\ pc[w] = "lookup"
  /\ todo[w] = {}
  /\ IF kind[w] = "srforcr" THEN Rollback(w) ELSE Commit(w)
  /\ Goto(w, "done")
  /\ UNCHANGED <<world, up, kind, todo, hand, stored, misled, faults>>

\* The rest of the request touches no CR.
Reply(w) ==
  /\ pc[w] = "done"
  /\ Goto(w, "idle")
  /\ kind' = [kind EXCEPT ![w] = NoRow]
  /\ stored' = [stored EXCEPT ![w] = {}]
  /\ UNCHANGED <<world, crsr, up, todo, hand, pending, misled, faults>>

Step(w) ==
  \/ Begin(w) \/ LookUp(w) \/ AskReport(w) \/ AskSiebel(w) \/ InsertRow(w)
  \/ Finish(w) \/ Reply(w)

Next == Change \/ Restart \/ \E w \in Worker : Step(w)

Spec == Init /\ [][Next]_vars

\* check_kueued runs again and again, the databases and the operating system let
\* every request get on, and MySQL grants a key to those who wait for it in turn.
FairSpec ==
  /\ Spec
  /\ WF_vars(Restart)
  /\ \A w \in Worker : WF_vars(Step(w)) /\ SF_vars(InsertRow(w))

-----------------------------------------------------------------------------
(* Properties                                                              *)

\* A request that waits for a key of CRSR holds none itself, so requests never
\* wait for each other in a circle: getSrForCrMysql's BEGIN has committed the
\* request's last INSERT before getSrForCrReport comes to the next.
WaitsEmptyHanded == \A w \in Worker : pc[w] = "insert" => pending[w] = {}

\* What an /updateDB or a /userqueue has cached is there for others when it is
\* done, although neither getSrForCrMysql nor getSrForCrReport commits anything.
DoneIsCommitted ==
  \A w \in Worker :
    pc[w] = "done" /\ kind[w] \in {"updateDB", "userqueue"} => stored[w] \subseteq crsr

\* The values that /srforcr reads from srInfo's empty list never reach the cache.
SrForCrLeavesNoTrace == (\E row \in crsr : row.desc = Garbage) => misled

\* From when the daemon no longer dies, every request gets through: none waits for
\* ever for a key that another request has inserted and not committed.
RequestsGetThrough == <>[]up => \A w \in Worker : []<>(pc[w] = "done")

\* "Daemon to keep the Kueued DB in sync": updates come to their end, whatever the
\* report database and Siebel hold.
UpdatesComplete == []<>(\E w \in Worker : pc[w] = "done" /\ kind[w] = "updateDB")
=============================================================================
