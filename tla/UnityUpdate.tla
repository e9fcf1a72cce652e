----------------------------- MODULE UnityUpdate -----------------------------
(***************************************************************************)
(* The Unity pass of kueued's /updateDB request (serverthread.cpp 408-448) *)
(* and the functions of database.cpp it calls.                             *)
(*                                                                         *)
(* A pass copies the open service requests (SRs) of pseudo users from      *)
(* Siebel into the MySQL tables QMON_SIEBEL and CUSTOMER, which every      *)
(* other request of the daemon reads.  It fetches the whole list once and  *)
(* then calls one Database:: function after the other; each function is a  *)
(* transaction of its own, so that between two of them Siebel moves on,    *)
(* and another pass - another client, another worker thread, another       *)
(* kueued host on the same database - writes to the same rows.  One action *)
(* below is one such call.                                                 *)
(*                                                                         *)
(* No call looks at the result of a query: a query that fails is logged    *)
(* and the call goes on with no rows.  Faults model that.                  *)
(***************************************************************************)
EXTENDS Integers, FiniteSets

CONSTANTS
  Updater,      \* the /updateDB requests that may be in progress at a time
  SR,           \* SR numbers
  Queue,        \* queues, the logins of pseudo users
  Fields,       \* values of the columns that are neither ID, QUEUE nor INQUEUE
  Branch,       \* the branches of getQmonSrs' UNION ALL that can list an SR
  NoRow,        \* what a lookup in a table yields when there is no row
  UndoesTxn,    \* a statement that fails undoes its whole transaction
                \* (ndbcluster, the engine of scripts/create_tables) or,
                \* when FALSE, only itself
  MaxChange, MaxFault, MaxCrash, MaxClock    \* bounds of the model

Item == [queue: Queue, fields: Fields]

ASSUME ConstantsAssumption ==
  /\ NoRow \notin Item
  /\ NoRow \notin [queue: Queue, fields: Fields, inqueue: Nat]
  /\ NoRow \notin [item: Item, via: SUBSET Branch]
  /\ NoRow \notin Fields
  /\ NoRow \notin SR
  /\ UndoesTxn \in BOOLEAN

ASSUME BoundsAssumption == {MaxChange, MaxFault, MaxCrash, MaxClock} \subseteq Nat

VARIABLES
  siebel,       \* Siebel: per SR its item and the branches that list it
  qmonSiebel,   \* table QMON_SIEBEL, by its primary key
  customer,     \* table CUSTOMER, by its primary key
  clock,        \* QDateTime::currentDateTime(), in seconds
  pc,           \* per updater: the next call of its pass
  snap,         \* ql: per SR the item that getQmonSrs returned
  todo,         \* the elements of ql the loop has not reached
  newList,      \* newList: the IDs of the elements it has
  cur,          \* ql.at( i ).id
  doomed,       \* what the second loop has still to delete
  changes, faults, crashes,   \* how much of each bound is used
  disturbed,    \* history: what disturbed the pass: "overlap", "moved", "fault"
  torn          \* history: a transaction took effect by half

upstream == <<siebel, changes>>
tables   == <<qmonSiebel, customer, torn>>
list     == <<snap, todo, newList>>
vars     == <<siebel, qmonSiebel, customer, clock, pc, snap, todo, newList, cur,
              doomed, changes, faults, crashes, disturbed, torn>>

PC == {"idle", "next", "insert", "queue", "setQueue", "setItem", "sweep", "finished"}

Empty == [s \in SR |-> NoRow]

SiebelRow == [item: Item, via: (SUBSET Branch) \ {{}}]
QmonRow   == [queue: Queue, fields: Fields, inqueue: 0..MaxClock]

TypeOK ==
  /\ siebel     \in [SR -> SiebelRow \cup {NoRow}]
  /\ qmonSiebel \in [SR -> QmonRow \cup {NoRow}]
  /\ customer   \in [SR -> Fields \cup {NoRow}]
  /\ clock      \in 0..MaxClock
  /\ pc         \in [Updater -> PC]
  /\ snap       \in [Updater -> [SR -> Item \cup {NoRow}]]
  /\ todo       \in [Updater -> SUBSET (SR \X Branch)]
  /\ newList    \in [Updater -> SUBSET SR]
  /\ cur        \in [Updater -> SR \cup {NoRow}]
  /\ doomed     \in [Updater -> SUBSET SR]
  /\ changes    \in 0..MaxChange
  /\ faults     \in 0..MaxFault
  /\ crashes    \in 0..MaxCrash
  /\ disturbed  \in [Updater -> SUBSET {"overlap", "moved", "fault"}]
  /\ torn       \in BOOLEAN

\* Any Siebel, and tables no pass has filled yet.
Init ==
  /\ siebel     \in [SR -> SiebelRow \cup {NoRow}]
  /\ qmonSiebel = Empty
  /\ customer   = Empty
  /\ clock      = 0
  /\ pc         = [u \in Updater |-> "idle"]
  /\ snap       = [u \in Updater |-> Empty]
  /\ todo       = [u \in Updater |-> {}]
  /\ newList    = [u \in Updater |-> {}]
  /\ cur        = [u \in Updater |-> NoRow]
  /\ doomed     = [u \in Updater |-> {}]
  /\ changes    = 0
  /\ faults     = 0
  /\ crashes    = 0
  /\ disturbed  = [u \in Updater |-> {}]
  /\ torn       = FALSE

-----------------------------------------------------------------------------
(* The world around the pass                                               *)

Busy == {u \in Updater : pc[u] # "idle"}


\* Siebel's users open, close, move and edit SRs.
Change(s) ==
  /\ changes < MaxChange
  /\ \E row \in (SiebelRow \cup {NoRow}) \ {siebel[s]} :
       siebel' = [siebel EXCEPT ![s] = row]
  /\ changes' = changes + 1
  /\ disturbed' = [u \in Updater |-> IF u \in Busy THEN disturbed[u] \cup {"moved"}
                                                   ELSE disturbed[u]]
  /\ UNCHANGED <<tables, clock, pc, list, cur, doomed, faults, crashes>>

Tick ==
  /\ clock < MaxClock
  /\ clock' = clock + 1
  /\ UNCHANGED <<upstream, tables, pc, list, cur, doomed, faults, crashes, disturbed>>

\* A database call of u's pass: one of its queries fails if fault holds.
Call(u, fault) ==
  /\ fault => faults < MaxFault
  /\ faults' = IF fault THEN faults + 1 ELSE faults
  /\ disturbed' = [disturbed EXCEPT ![u] = IF fault THEN @ \cup {"fault"} ELSE @]
  /\ UNCHANGED <<upstream, clock, crashes>>

Goto(u, label) == pc' = [pc EXCEPT ![u] = label]

\* The tables that a transaction of one statement per table does change: the
\* failure of its second statement, on CUSTOMER, may undo the first.
Effects(ok) == IF UndoesTxn /\ "CUSTOMER" \notin ok THEN {} ELSE ok

Table == {"QMON_SIEBEL", "CUSTOMER"}

-----------------------------------------------------------------------------
(* The pass                                                                *)

Listed(s) == IF siebel[s] = NoRow THEN {} ELSE siebel[s].via

\* Database::getQmonSrs: one UNION ALL, so one consistent snapshot, in no
\* order; an SR that two of its branches select comes twice.  A fetch that
\* fails returns what was read so far, possibly nothing.
Fetch(u) ==
  /\ pc[u] = "idle"
  /\ LET all == {o \in SR \X Branch : o[2] \in Listed(o[1])} IN
     \E got \in SUBSET all :
       /\ got # all => faults < MaxFault
       /\ faults' = IF got # all THEN faults + 1 ELSE faults
       /\ todo' = [todo EXCEPT ![u] = got]
       /\ snap' = [snap EXCEPT ![u] =
             [s \in SR |-> IF \E b \in Branch : <<s, b>> \in got
                           THEN siebel[s].item ELSE NoRow]]
       /\ disturbed' = [v \in Updater |->
             IF v = u THEN (IF got # all THEN {"fault"} ELSE {})
                           \cup (IF Busy # {} THEN {"overlap"} ELSE {})
             ELSE IF v \in Busy THEN disturbed[v] \cup {"overlap"}
             ELSE disturbed[v]]
  /\ Goto(u, "next")
  /\ UNCHANGED <<upstream, tables, clock, newList, cur, doomed, crashes>>

\* Faulty variant: newList is extended in the branch that inserts only.
CheckExistsListsNewOnly(u) ==
  /\ pc[u] = "next"
  /\ \E o \in todo[u], fault \in BOOLEAN :
       LET absent == fault \/ qmonSiebel[o[1]] = NoRow IN
       /\ Call(u, fault)
       /\ todo'    = [todo EXCEPT ![u] = @ \ {o}]
       /\ newList' = IF absent THEN [newList EXCEPT ![u] = @ \cup {o[1]}] ELSE newList
       /\ cur'     = [cur EXCEPT ![u] = o[1]]
       /\ Goto(u, IF absent THEN "insert" ELSE "queue")
  /\ UNCHANGED <<tables, snap, doomed>>

\* newList.append and Database::siebelExistsInDB for the next element: no row,
\* or no answer, leads to an INSERT.
CheckExists(u) ==
  /\ pc[u] = "next"
  /\ \E o \in todo[u], fault \in BOOLEAN :
       /\ Call(u, fault)
       /\ todo'    = [todo EXCEPT ![u] = @ \ {o}]
       /\ newList' = [newList EXCEPT ![u] = @ \cup {o[1]}]
       /\ cur'     = [cur EXCEPT ![u] = o[1]]
       /\ Goto(u, IF fault \/ qmonSiebel[o[1]] = NoRow THEN "insert" ELSE "queue")
  /\ UNCHANGED <<tables, snap, doomed>>

\* Database::insertSiebelItemIntoDB: one INSERT per table, in one transaction.
\* An INSERT of a key that is there fails; nobody looks.
Insert(u) ==
  /\ pc[u] = "insert"
  /\ \E failed \in SUBSET Table :
       LET s   == cur[u]
           ok  == {t \in Table \ failed : IF t = "CUSTOMER" THEN customer[s] = NoRow
                                                           ELSE qmonSiebel[s] = NoRow}
           eff == Effects(ok)
       IN  /\ Call(u, failed # {})
           /\ qmonSiebel' = IF "QMON_SIEBEL" \in eff
                            THEN [qmonSiebel EXCEPT ![s] =
                                    [queue   |-> snap[u][s].queue,
                                     fields  |-> snap[u][s].fields,
                                     inqueue |-> clock]]
                            ELSE qmonSiebel
           /\ customer' = IF "CUSTOMER" \in eff
                          THEN [customer EXCEPT ![s] = snap[u][s].fields]
                          ELSE customer
           /\ torn' = (torn \/ eff \notin {{}, Table})
  /\ Goto(u, "next")
  /\ cur' = [cur EXCEPT ![u] = NoRow]
  /\ UNCHANGED <<list, doomed>>

\* Faulty variants: siebelQueueChanged with its results swapped, and without
\* its comparison.
CheckQueueSwapped(u) ==
  /\ pc[u] = "queue"
  /\ \E fault \in BOOLEAN :
       LET row == qmonSiebel[cur[u]] IN
       /\ Call(u, fault)
       /\ Goto(u, IF fault \/ row = NoRow \/ row.queue # snap[u][cur[u]].queue
                  THEN "setItem" ELSE "setQueue")
  /\ UNCHANGED <<tables, list, cur, doomed>>

CheckQueueAlways(u) ==
  /\ pc[u] = "queue"
  /\ \E fault \in BOOLEAN : Call(u, fault)
  /\ Goto(u, "setQueue")
  /\ UNCHANGED <<tables, list, cur, doomed>>

\* Database::siebelQueueChanged: a row that is gone, or no answer, counts as
\* a change of queue.
CheckQueue(u) ==
  /\ pc[u] = "queue"
  /\ \E fault \in BOOLEAN :
       LET row == qmonSiebel[cur[u]] IN
       /\ Call(u, fault)
       /\ Goto(u, IF fault \/ row = NoRow \/ row.queue # snap[u][cur[u]].queue
                  THEN "setQueue" ELSE "setItem")
  /\ UNCHANGED <<tables, list, cur, doomed>>

\* Faulty variant: REPLACE where the code has UPDATE, so that a row that is
\* gone comes back without its other columns.
SetQueueReplaces(u) ==
  /\ pc[u] = "setQueue"
  /\ \E fault \in BOOLEAN :
       LET s == cur[u] IN
       /\ Call(u, fault)
       /\ qmonSiebel' = IF fault THEN qmonSiebel
                        ELSE IF qmonSiebel[s] = NoRow
                        THEN [qmonSiebel EXCEPT ![s] =
                                [queue |-> snap[u][s].queue, inqueue |-> clock]]
                        ELSE [qmonSiebel EXCEPT ![s] =
                                [queue   |-> snap[u][s].queue,
                                 fields  |-> @.fields,
                                 inqueue |-> clock]]
  /\ Goto(u, "setItem")
  /\ UNCHANGED <<customer, torn, list, cur, doomed>>

\* Database::updateSiebelQueue: QUEUE, and INQUEUE from the clock.
SetQueue(u) ==
  /\ pc[u] = "setQueue"
  /\ \E fault \in BOOLEAN :
       LET s == cur[u] IN
       /\ Call(u, fault)
       /\ qmonSiebel' = IF fault \/ qmonSiebel[s] = NoRow THEN qmonSiebel
                        ELSE [qmonSiebel EXCEPT ![s] =
                                [queue   |-> snap[u][s].queue,
                                 fields  |-> @.fields,
                                 inqueue |-> clock]]
  /\ Goto(u, "setItem")
  /\ UNCHANGED <<customer, torn, list, cur, doomed>>

\* Faulty variant: the customer is written by the INSERT only.
SetItemRowsOnly(u) ==
  /\ pc[u] = "setItem"
  /\ \E fault \in BOOLEAN :
       LET s == cur[u] IN
       /\ Call(u, fault)
       /\ qmonSiebel' = IF fault \/ qmonSiebel[s] = NoRow THEN qmonSiebel
                        ELSE [qmonSiebel EXCEPT ![s].fields = snap[u][s].fields]
  /\ Goto(u, "next")
  /\ cur' = [cur EXCEPT ![u] = NoRow]
  /\ UNCHANGED <<customer, torn, list, doomed>>

\* Database::updateSiebelItem: one UPDATE per table, in one transaction; an
\* UPDATE of a row that is gone does nothing.
SetItem(u) ==
  /\ pc[u] = "setItem"
  /\ \E failed \in SUBSET Table :
       LET s   == cur[u]
           eff == Effects(Table \ failed)
       IN  /\ Call(u, failed # {})
           /\ qmonSiebel' = IF "QMON_SIEBEL" \in eff /\ qmonSiebel[s] # NoRow
                            THEN [qmonSiebel EXCEPT ![s].fields = snap[u][s].fields]
                            ELSE qmonSiebel
           /\ customer' = IF "CUSTOMER" \in eff /\ customer[s] # NoRow
                          THEN [customer EXCEPT ![s] = snap[u][s].fields]
                          ELSE customer
           /\ torn' = (torn \/ eff \notin {{}, Table})
  /\ Goto(u, "next")
  /\ cur' = [cur EXCEPT ![u] = NoRow]
  /\ UNCHANGED <<list, doomed>>

\* Faulty variant: the second loop is left out.
ListRowsNone(u) ==
  /\ pc[u] = "next"
  /\ todo[u] = {}
  /\ \E fault \in BOOLEAN : Call(u, fault)
  /\ Goto(u, "sweep")
  /\ UNCHANGED <<tables, list, cur, doomed>>

\* Database::getQmonSiebelList after the first loop; the second loop deletes
\* what it lists and newList does not contain.
ListRows(u) ==
  /\ pc[u] = "next"
  /\ todo[u] = {}
  /\ \E fault \in BOOLEAN :
       /\ Call(u, fault)
       /\ doomed' = [doomed EXCEPT ![u] =
                       IF fault THEN {}
                       ELSE {s \in SR : qmonSiebel[s] # NoRow} \ newList[u]]
  /\ Goto(u, "sweep")
  /\ UNCHANGED <<tables, list, cur>>

\* Faulty variant: the customer is not deleted.
SweepRowsOnly(u) ==
  /\ pc[u] = "sweep"
  /\ \E s \in doomed[u], fault \in BOOLEAN :
       /\ Call(u, fault)
       /\ qmonSiebel' = IF fault THEN qmonSiebel ELSE [qmonSiebel EXCEPT ![s] = NoRow]
       /\ doomed' = [doomed EXCEPT ![u] = @ \ {s}]
  /\ UNCHANGED <<customer, torn, pc, list, cur>>

\* Database::deleteSiebelItemFromDB: one DELETE per table, in one transaction.
Sweep(u) ==
  /\ pc[u] = "sweep"
  /\ \E s \in doomed[u], failed \in SUBSET Table :
       LET eff == Effects(Table \ failed) IN
       /\ Call(u, failed # {})
       /\ qmonSiebel' = IF "QMON_SIEBEL" \in eff
                        THEN [qmonSiebel EXCEPT ![s] = NoRow] ELSE qmonSiebel
       /\ customer' = IF "CUSTOMER" \in eff
                      THEN [customer EXCEPT ![s] = NoRow] ELSE customer
       /\ torn' = (torn \/ eff \notin {{}, Table})
       /\ doomed' = [doomed EXCEPT ![u] = @ \ {s}]
  /\ UNCHANGED <<pc, list, cur>>

\* "UPDATE FINISHED" is written, whatever happened before.
Finish(u) ==
  /\ pc[u] = "sweep"
  /\ doomed[u] = {}
  /\ Goto(u, "finished")
  /\ UNCHANGED <<upstream, tables, clock, list, cur, doomed, faults, crashes, disturbed>>

\* u's pass is over and its lists are gone.
Forget(u) ==
  /\ Goto(u, "idle")
  /\ snap'    = [snap EXCEPT ![u] = Empty]
  /\ todo'    = [todo EXCEPT ![u] = {}]
  /\ newList' = [newList EXCEPT ![u] = {}]
  /\ cur'     = [cur EXCEPT ![u] = NoRow]
  /\ doomed'  = [doomed EXCEPT ![u] = {}]
  /\ disturbed' = [disturbed EXCEPT ![u] = {}]
  /\ UNCHANGED <<upstream, tables, clock, faults>>

\* socket->close(): the request is answered.
Reply(u) ==
  /\ pc[u] = "finished"
  /\ Forget(u)
  /\ UNCHANGED crashes

\* The daemon that runs u's pass is killed and restarted (scripts/kueued,
\* scripts/check_kueued); MySQL rolls back what was not committed.  A daemon
\* with several passes in progress is several of these steps in a row.
Crash(u) ==
  /\ pc[u] # "idle"
  /\ crashes < MaxCrash
  /\ crashes' = crashes + 1
  /\ Forget(u)

\* The calls of a pass once its list is fetched.
Work(u) ==
  \/ CheckExists(u) \/ Insert(u) \/ CheckQueue(u) \/ SetQueue(u) \/ SetItem(u)
  \/ ListRows(u) \/ Sweep(u) \/ Finish(u)

Next ==
  \/ \E s \in SR : Change(s)
  \/ Tick
  \/ \E u \in Updater : Fetch(u) \/ Work(u) \/ Reply(u) \/ Crash(u)

Spec == Init /\ [][Next]_vars

\* A worker thread does not stop in the middle of a request, and dbupdate.job
\* sends the next /updateDB as soon as the last one is answered.
FairSpec ==
  /\ Spec
  /\ \A u \in Updater : WF_vars(Work(u) \/ Reply(u))
  /\ WF_vars(\E u \in Updater : Fetch(u))

-----------------------------------------------------------------------------
(* Properties                                                              *)

\* u's pass has run alone, with the whole list and without a failed query.
Sound(u) == pc[u] # "idle" /\ disturbed[u] \cap {"overlap", "fault"} = {}

Matches(s, item) ==
  IF item = NoRow
  THEN qmonSiebel[s] = NoRow
  ELSE /\ qmonSiebel[s] # NoRow
       /\ qmonSiebel[s].queue  = item.queue
       /\ qmonSiebel[s].fields = item.fields
       /\ customer[s]          = item.fields

\* What Siebel lists for s now.
Current(s) == IF siebel[s] = NoRow THEN NoRow ELSE siebel[s].item

InSync == \A s \in SR : Matches(s, Current(s))

\* The two tables tell one story of an SR: it is in both or in neither, and its
\* CUSTOMER row comes from the same fetched item as its QMON_SIEBEL row, however
\* many passes insert, update and delete it at the same time or die on the way.
\* The two statements of insertSiebelItemIntoDB, updateSiebelItem and
\* deleteSiebelItemFromDB are one transaction, and only a statement that fails
\* alone (torn) can part them.
PairInv ==
  ~torn => \A s \in SR :
    customer[s] = IF qmonSiebel[s] = NoRow THEN NoRow ELSE qmonSiebel[s].fields

\* "UPDATE FINISHED" (serverthread.cpp 441) at the end of a sound pass: the
\* tables are a copy of the fetched list - every row of it and no other, each
\* with its queue, columns and customer - whatever crashed, failed and
\* overlapping passes left behind before it.
FinishedMatchesList ==
  \A u \in Updater :
    pc[u] = "finished" /\ Sound(u) /\ ~torn => \A s \in SR : Matches(s, snap[u][s])

\* Why a pass that is disturbed in no way ends that way, step by step.  Its list
\* is what it has seen and what it has still to see, and the item at hand is of
\* the list;
ListInv(u) ==
  /\ \A s \in SR :
       snap[u][s] # NoRow <=> s \in newList[u] \/ \E b \in Branch : <<s, b>> \in todo[u]
  /\ pc[u] \in {"insert", "queue", "setQueue", "setItem"}
       => cur[u] \in newList[u]
  /\ pc[u] \in {"idle", "next", "sweep", "finished"} => cur[u] = NoRow
  /\ pc[u] = "idle" => newList[u] = {}
  /\ pc[u] \in {"idle", "sweep", "finished"} => todo[u] = {}
  /\ pc[u] \in {"sweep", "finished"} => doomed[u] \cap newList[u] = {}
  /\ pc[u] \notin {"sweep", "finished"} => doomed[u] = {}

\* no other pass is in progress, what was checked last still holds, what was
\* seen is copied, and the rows that are too many are doomed.
SoundInv(u) ==
  /\ \A v \in Updater : v # u => pc[v] = "idle"
  /\ pc[u] = "insert" => qmonSiebel[cur[u]] = NoRow
  /\ pc[u] \in {"queue", "setQueue", "setItem"} => qmonSiebel[cur[u]] # NoRow
  /\ pc[u] = "setQueue" => qmonSiebel[cur[u]].queue # snap[u][cur[u]].queue
  /\ pc[u] = "setItem"  => qmonSiebel[cur[u]].queue = snap[u][cur[u]].queue
  /\ ~torn => \A s \in newList[u] \ {cur[u]} : Matches(s, snap[u][s])
  /\ pc[u] \in {"sweep", "finished"}
       => \A s \in SR : qmonSiebel[s] # NoRow /\ snap[u][s] = NoRow => s \in doomed[u]
  /\ pc[u] = "finished" => doomed[u] = {}

\* Every pass works through its own list, and a sound pass finds at each call
\* the tables as its previous call left them.
PassInv == \A u \in Updater : ListInv(u) /\ (Sound(u) => SoundInv(u))

\* INQUEUE, from which the time in queue is computed, is stamped anew on a row
\* that stays in its queue only by a pass that overlapped another one or had a
\* query fail between siebelQueueChanged and updateSiebelQueue.
RestampOnlyOnMove ==
  [][\A s \in SR :
       /\ qmonSiebel[s] # NoRow
       /\ qmonSiebel'[s] # NoRow
       /\ qmonSiebel'[s].inqueue # qmonSiebel[s].inqueue
       => \/ qmonSiebel'[s].queue # qmonSiebel[s].queue
          \/ \E u \in Updater : pc[u] = "setQueue" /\ cur[u] = s /\ ~Sound(u)']_vars

\* When Siebel stops changing and queries stop failing, the tables become equal
\* to Siebel and stay so, also with passes that overlap for ever: nothing that
\* went wrong before is left, unless a transaction took effect by half.
ConvergesUnlessTorn == <>[](torn \/ InSync)

\* The pass keeps the promise of Mirror, which knows of a pass only whether it is
\* in progress and whether it has reported its end.
Source == [s \in SR |-> Current(s)]
Phase  == [u \in Updater |-> CASE pc[u] = "idle"     -> "off"
                               [] pc[u] = "finished" -> "done"
                               [] OTHER              -> "on"]
Sounds == {u \in Updater : Sound(u)}

M == INSTANCE Mirror WITH
  source <- Source,
  row    <- qmonSiebel,
  person <- customer,
  now    <- clock,
  list   <- snap,
  phase  <- Phase,
  sound  <- Sounds

MirrorSpec == M!Spec

\* What scripts/dbupdate/dbupdate.job concludes from "UPDATE FINISHED": the
\* update was successful, that is, after a pass that ran alone while Siebel
\* did not change, the tables show what Siebel shows.
FinishedMeansInSync ==
  \A u \in Updater :
    pc[u] = "finished" /\ disturbed[u] \subseteq {"fault"} /\ ~torn => InSync
=============================================================================
