----------------------------- MODULE SmallTables -----------------------------
(***************************************************************************)
(* The tables that are no queue: LTSSCUSTOMERS, which /ltssupdate replaces *)
(* by the report database's list, PSEUDOQ, to which /updateDB/full adds    *)
(* the pseudo queues of the Qmon database, and BUG, which keeps what       *)
(* Bugzilla answered for ever.  scripts/create_tables has none of them:    *)
(* the name of a pseudo queue is taken to be a key, the ID of a bug may be *)
(* one or not.                                                             *)
(*                                                                         *)
(* The first two are written in one transaction whose statements nobody    *)
(* checks.  A statement that fails undoes only itself or, on ndbcluster,   *)
(* all of its transaction; what follows is then committed at once.  The    *)
(* INSERT of a key that is there is such a failure.  What a title says is  *)
(* left out: it is that of Bugzilla's first packet, or none.               *)
(***************************************************************************)
EXTENDS Naturals, FiniteSets

CONSTANTS
  Worker, Customer, Name, Bug,
  Nothing,
  MaxChange, MaxFault               \* bounds; a crash is a fault

ASSUME SmallTablesAssumption ==
  /\ IsFiniteSet(Worker)
  /\ {MaxChange, MaxFault} \subseteq Nat
  /\ Nothing \notin Worker \cup Bug \cup Name

VARIABLES
  undoes,       \* the engine: a failure undoes the transaction
  entitled,     \* the report database's customers
  queues,       \* the Qmon database's pseudo queues
  ltss,         \* table LTSSCUSTOMERS
  pseudoQ,      \* table PSEUDOQ
  bugRows,      \* table BUG: per bug the number of its rows
  pc,
  list,         \* per worker: the rows it fetched
  todo,         \* per worker: those it has not inserted
  txn,          \* per worker: it is in a transaction
  gone, new,    \* per worker: rows that its transaction deletes and inserts
  bug,          \* per worker: the bug it is asked for
  disturbed,    \* history, per worker: a failure, or another in the same table
  last,         \* history: the list of the last undisturbed /ltssupdate
  spoiled,      \* history: since then, one was disturbed
  known,        \* history, per worker: PSEUDOQ when it began
  changes, faults

sources == <<undoes, entitled, queues>>
tables  == <<ltss, pseudoQ, bugRows>>
local   == <<pc, list, todo, txn, gone, new, bug>>
history == <<disturbed, last, spoiled, known>>
bounds  == <<changes, faults>>
vars    == <<sources, tables, local, history, bounds>>

Ltss   == {"ltss", "delete", "ltssInsert", "ltssCommit"}
Pseudo == {"pseudo", "pseudoInsert", "pseudoCommit"}

Init ==
  /\ undoes \in BOOLEAN
  /\ entitled = Customer
  /\ queues = Name
  /\ ltss = {} /\ pseudoQ = {}
  /\ bugRows = [b \in Bug |-> 0]
  /\ pc = [w \in Worker |-> "idle"]
  /\ list = [w \in Worker |-> {}] /\ todo = list /\ gone = list /\ new = list
  /\ txn = [w \in Worker |-> FALSE]
  /\ bug = [w \in Worker |-> Nothing]
  /\ disturbed = [w \in Worker |-> FALSE]
  /\ last = {} /\ spoiled = FALSE
  /\ known = list
  /\ changes = 0 /\ faults = 0

-----------------------------------------------------------------------------
(* The world                                                               *)

Change ==
  /\ changes < MaxChange
  /\ changes' = changes + 1
  /\ \/ entitled' \in SUBSET Customer /\ UNCHANGED queues
     \/ queues' \in SUBSET Name /\ UNCHANGED entitled
  /\ UNCHANGED <<undoes, tables, local, history, faults>>

Goto(w, label) == pc' = [pc EXCEPT ![w] = label]

\* A call, whose failure is counted.
Count(fault) ==
  /\ fault => faults < MaxFault
  /\ faults' = IF fault THEN faults + 1 ELSE faults
  /\ UNCHANGED <<sources, changes>>

\* A call of w, whose failure is remembered.
Call(w, fault) ==
  /\ Count(fault)
  /\ disturbed' = [disturbed EXCEPT ![w] = @ \/ fault]

\* w begins among the labels of its table; those at work there disturb each other.
BeginAmong(w, labels, fault) ==
  /\ Count(fault)
  /\ LET others == {v \in Worker \ {w} : pc[v] \in labels} IN
     disturbed' = [v \in Worker |-> IF v = w THEN fault \/ others # {}
                                    ELSE disturbed[v] \/ v \in others]

\* A statement that went well: kept for the commit, or committed.
Keep(w, del, ins) ==
  /\ gone' = [gone EXCEPT ![w] = IF txn[w] THEN @ \cup del ELSE @]
  /\ new' = [new EXCEPT ![w] = IF txn[w] THEN @ \cup ins ELSE @]
  /\ UNCHANGED txn

\* A statement that failed: all is undone, or only the statement.
Fail(w) ==
  IF undoes
    THEN /\ gone' = [gone EXCEPT ![w] = {}]
         /\ new' = [new EXCEPT ![w] = {}]
         /\ txn' = [txn EXCEPT ![w] = FALSE]
    ELSE UNCHANGED <<gone, new, txn>>

\* The end of w's part of the request.
Leave(w) ==
  /\ Goto(w, "idle")
  /\ list' = [list EXCEPT ![w] = {}]
  /\ todo' = [todo EXCEPT ![w] = {}]
  /\ gone' = [gone EXCEPT ![w] = {}]
  /\ new' = [new EXCEPT ![w] = {}]
  /\ txn' = [txn EXCEPT ![w] = FALSE]
  /\ bug' = [bug EXCEPT ![w] = Nothing]
  /\ disturbed' = [disturbed EXCEPT ![w] = FALSE]
  /\ known' = [known EXCEPT ![w] = {}]

-----------------------------------------------------------------------------
(* /ltssupdate                                                             *)

\* What disturbs an /ltssupdate spoils the table until the next.
Spoils(w) ==
  /\ spoiled' = (spoiled \/ disturbed'[w])
  /\ last' = IF spoiled' THEN {} ELSE last

\* getLTSScustomersExt: a fetch that fails yields what was read so far.
FetchLtss(w) ==
  /\ pc[w] = "idle"
  /\ \E got \in SUBSET entitled :
       /\ BeginAmong(w, Ltss, got # entitled)
       /\ list' = [list EXCEPT ![w] = got]
  /\ todo' = [todo EXCEPT ![w] = list'[w]]
  /\ txn' = [txn EXCEPT ![w] = TRUE]
  /\ Spoils(w)
  /\ Goto(w, "delete")
  /\ UNCHANGED <<tables, gone, new, bug, known>>

\* DELETE FROM LTSSCUSTOMERS: the rows that are committed, if nobody else deletes
\* them; a row that another inserts is not seen.
DeleteLtss(w) ==
  /\ pc[w] = "delete"
  /\ \E fault \in BOOLEAN :
       /\ Call(w, fault) /\ Spoils(w)
       /\ IF fault THEN Fail(w)
          ELSE /\ \A v \in Worker \ {w} : gone[v] \cap ltss = {}
               /\ Keep(w, ltss, {})
  /\ Goto(w, "ltssInsert")
  /\ UNCHANGED <<tables, list, todo, bug, known>>

\* Faulty variant: the rows are inserted one transaction each.
InsertLtssAlone(w) ==
  /\ pc[w] = "ltssInsert"
  /\ \E row \in todo[w] :
       /\ Call(w, FALSE) /\ Spoils(w)
       /\ ltss' = (ltss \ gone[w]) \cup {row}
       /\ gone' = [gone EXCEPT ![w] = {}]
       /\ todo' = [todo EXCEPT ![w] = @ \ {row}]
  /\ UNCHANGED <<pseudoQ, bugRows, pc, list, new, txn, bug, known>>

\* One INSERT of the loop.
InsertLtss(w) ==
  /\ pc[w] = "ltssInsert"
  /\ \E row \in todo[w], fault \in BOOLEAN :
       /\ Call(w, fault) /\ Spoils(w)
       /\ IF fault THEN Fail(w) ELSE Keep(w, {}, {row})
       /\ ltss' = IF fault \/ txn[w] THEN ltss ELSE ltss \cup {row}
       /\ todo' = [todo EXCEPT ![w] = @ \ {row}]
  /\ UNCHANGED <<pseudoQ, bugRows, pc, list, bug, known>>

\* commit, which may fail like any other call, and "LTSS Customer List updated."
CommitLtss(w) ==
  /\ pc[w] = "ltssInsert"
  /\ todo[w] = {}
  /\ \E fault \in BOOLEAN :
       /\ Count(fault)
       /\ ltss' = IF fault THEN ltss ELSE (ltss \ gone[w]) \cup new[w]
       /\ spoiled' = (fault \/ disturbed[w])
       /\ last' = IF spoiled' THEN {} ELSE list[w]
  /\ Leave(w)
  /\ UNCHANGED <<pseudoQ, bugRows>>

-----------------------------------------------------------------------------
(* updatePseudoQueues, of /updateDB/full                                   *)

FetchPseudo(w) ==
  /\ pc[w] = "idle"
  /\ \E got \in SUBSET queues :
       /\ BeginAmong(w, Pseudo, got # queues)
       /\ list' = [list EXCEPT ![w] = got]
  /\ todo' = [todo EXCEPT ![w] = list'[w]]
  /\ txn' = [txn EXCEPT ![w] = TRUE]
  /\ known' = [known EXCEPT ![w] = pseudoQ]
  /\ Goto(w, "pseudoInsert")
  /\ UNCHANGED <<tables, gone, new, bug, last, spoiled>>

\* Faulty variant: what is not in the list is deleted with the first INSERT.
InsertPseudoReplaces(w) ==
  /\ pc[w] = "pseudoInsert"
  /\ \E name \in todo[w] :
       /\ Call(w, FALSE)
       /\ pseudoQ' = {name}
       /\ todo' = [todo EXCEPT ![w] = @ \ {name}]
  /\ UNCHANGED <<ltss, bugRows, pc, list, txn, gone, new, bug, last,
                 spoiled, known>>

\* One INSERT of the loop, if nobody else inserts the name; a name that is there is
\* a failure that is not even logged.
InsertPseudo(w) ==
  /\ pc[w] = "pseudoInsert"
  /\ \E name \in todo[w], fault \in BOOLEAN :
       LET fails == fault \/ name \in pseudoQ IN
       /\ ~fault => \A v \in Worker \ {w} : name \notin new[v]
       /\ Call(w, fault)
       /\ IF fails THEN Fail(w) ELSE Keep(w, {}, {name})
       /\ pseudoQ' = IF fails \/ txn[w] THEN pseudoQ ELSE pseudoQ \cup {name}
       /\ todo' = [todo EXCEPT ![w] = @ \ {name}]
  /\ UNCHANGED <<ltss, bugRows, pc, list, bug, last, spoiled, known>>

\* Two wait for the name that the other has inserted: the engine undoes all of w's
\* transaction, and v inserts its name.
Deadlock(v, w) ==
  /\ v # w /\ pc[v] = "pseudoInsert" /\ pc[w] = "pseudoInsert"
  /\ \E mine \in todo[v] \cap new[w], its \in todo[w] \cap new[v] :
       /\ todo' = [todo EXCEPT ![v] = @ \ {mine}, ![w] = @ \ {its}]
       /\ new' = [new EXCEPT ![v] = @ \cup {mine}, ![w] = {}]
  /\ txn' = [txn EXCEPT ![w] = FALSE]
  /\ UNCHANGED <<sources, tables, pc, list, gone, bug, history, bounds>>

\* Faulty variant: the commit is missing.
CommitPseudoForgotten(w) ==
  /\ pc[w] = "pseudoInsert"
  /\ todo[w] = {}
  /\ Call(w, FALSE)
  /\ new' = [new EXCEPT ![w] = {}]
  /\ txn' = [txn EXCEPT ![w] = FALSE]
  /\ Goto(w, "pseudoCommit")
  /\ UNCHANGED <<tables, list, todo, gone, bug, last, spoiled, known>>

CommitPseudo(w) ==
  /\ pc[w] = "pseudoInsert"
  /\ todo[w] = {}
  /\ \E fault \in BOOLEAN :
       /\ Call(w, fault)
       /\ pseudoQ' = IF fault THEN pseudoQ ELSE pseudoQ \cup new[w]
  /\ new' = [new EXCEPT ![w] = {}]
  /\ txn' = [txn EXCEPT ![w] = FALSE]
  /\ Goto(w, "pseudoCommit")
  /\ UNCHANGED <<ltss, bugRows, list, todo, gone, bug, last, spoiled, known>>

\* The request goes on to the Bomgar pass.
LeavePseudo(w) ==
  /\ pc[w] = "pseudoCommit"
  /\ Leave(w)
  /\ UNCHANGED <<sources, tables, last, spoiled, bounds>>

-----------------------------------------------------------------------------
(* getBugDesc                                                              *)

\* Faulty variant: the look-up is left out.
LookUpBugNever(w, b) ==
  /\ pc[w] = "idle"
  /\ bug' = [bug EXCEPT ![w] = b]
  /\ Goto(w, "bugFetch")
  /\ UNCHANGED <<sources, tables, list, todo, txn, gone, new, history, bounds>>

\* A row that is there is the answer, and so is the excuse for a look-up that
\* failed; else Bugzilla is asked.
LookUpBug(w, b) ==
  /\ pc[w] = "idle"
  /\ bugRows[b] = 0
  /\ bug' = [bug EXCEPT ![w] = b]
  /\ Goto(w, "bugFetch")
  /\ UNCHANGED <<sources, tables, list, todo, txn, gone, new, history, bounds>>

\* The answer of Bugzilla, up to the first readyRead.
FetchBug(w) ==
  /\ pc[w] = "bugFetch"
  /\ Goto(w, "bugInsert")
  /\ UNCHANGED <<sources, tables, list, todo, txn, gone, new, bug, history, bounds>>

\* INSERT, after the commit of the look-up; if another was faster, it fails where
\* the ID is a key, and adds a row where it is none.
InsertBug(w) ==
  /\ pc[w] = "bugInsert"
  /\ \E fault \in BOOLEAN :
       /\ Count(fault)
       /\ \/ bugRows' = [bugRows EXCEPT ![bug[w]] = IF fault THEN @ ELSE @ + 1]
          \/ bugRows[bug[w]] > 0 /\ UNCHANGED bugRows
  /\ Leave(w)
  /\ UNCHANGED <<ltss, pseudoQ, last, spoiled>>

-----------------------------------------------------------------------------

\* The daemon dies; what is not committed is lost.
Crash ==
  /\ Count(TRUE)
  /\ pc' = [w \in Worker |-> "idle"]
  /\ list' = [w \in Worker |-> {}] /\ todo' = list' /\ gone' = list' /\ new' = list'
  /\ txn' = [w \in Worker |-> FALSE]
  /\ bug' = [w \in Worker |-> Nothing]
  /\ disturbed' = txn' /\ known' = list'
  /\ UNCHANGED <<tables, last, spoiled>>

Step(w) ==
  \/ DeleteLtss(w) \/ InsertLtss(w) \/ CommitLtss(w)
  \/ InsertPseudo(w) \/ CommitPseudo(w) \/ LeavePseudo(w)
  \/ FetchBug(w) \/ InsertBug(w)

Next ==
  \/ Change
  \/ Crash
  \/ \E w \in Worker :
       \/ FetchLtss(w) \/ FetchPseudo(w) \/ Step(w)
       \/ \E v \in Worker : Deadlock(v, w)
       \/ \E b \in Bug : LookUpBug(w, b)

Spec == Init /\ [][Next]_vars

\* Workers go on and a deadlock is found; dbupdate.job asks for a full update every
\* fifteenth time, and a request waits in the pool's queue for a thread that is free.
FairSpec ==
  /\ Spec
  /\ \A w \in Worker : WF_vars(Step(w))
  /\ WF_vars(\E v, w \in Worker : Deadlock(v, w))
  /\ SF_vars(\E w \in Worker : FetchPseudo(w))

-----------------------------------------------------------------------------
(* Properties                                                              *)

\* Who reads LTSSCUSTOMERS finds the list of one fetch, whole, before, during and
\* after an /ltssupdate and also if the daemon dies in it, unless two of them
\* overlapped or a call failed: then rows of two lists may be there, or none.
LtssIsOneList == ~spoiled => ltss = last

\* A full update that ran alone and without a failed call leaves no pseudo queue of
\* its list out; but where a known name undoes the transaction, it may.
FullListsAll ==
  \A w \in Worker :
    pc[w] = "pseudoCommit" /\ ~disturbed[w] =>
      \/ list[w] \subseteq pseudoQ
      \/ undoes /\ list[w] \cap known[w] # {}

\* However often a bug is asked for, and although its look-up is committed long before
\* its INSERT, BUG has no more rows of it than there are workers: only those that were
\* at it before the first row was there still add theirs.
FewRowsPerBug == \A b \in Bug : bugRows[b] <= Cardinality(Worker)

\* On an engine that undoes only what failed, every pseudo queue arrives in PSEUDOQ,
\* although failures are neither looked at nor repeated, and is never lost again.
PseudoQueuesArrive == undoes \/ <>[](queues \subseteq pseudoQ)
=============================================================================
