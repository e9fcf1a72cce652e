----------------------------- MODULE ChatUpdate -----------------------------
(***************************************************************************)
(* The Bomgar pass of kueued's /updateDB request (serverthread.cpp 371-406)*)
(* and the functions of database.cpp it calls: it copies the chats that    *)
(* wait in the Bomgar collector into the table QMON_CHAT.                  *)
(*                                                                         *)
(* It has the shape of the Unity pass - fetch, insert or update, list,     *)
(* delete, one transaction per call, no call looks at errors - with one    *)
(* table, and with two columns, SR and NAME, of which only NAME is ever    *)
(* updated.  QueueService extends this module by the rest of the request.  *)
(***************************************************************************)
EXTENDS Integers, FiniteSets

CONSTANTS
  Updater,      \* the /updateDB requests that may be in progress at a time
  Chat,         \* chat IDs (LSID)
  SR,           \* what a chat's EXTERNAL_KEY names
  Name,         \* queues of the chat system (CONFERENCE_NAME)
  NoRow,        \* what a lookup yields when there is no row
  MaxChange, MaxFault, MaxCrash

Item == [sr: SR, name: Name]

ASSUME ConstantsAssumption == NoRow \notin Item /\ NoRow \notin Chat

ASSUME BoundsAssumption == {MaxChange, MaxFault, MaxCrash} \subseteq Nat

VARIABLES
  bomgar,       \* Collector_ODBC_NTSCHAT: per chat its item
  qmonChat,     \* table QMON_CHAT, by its primary key
  cpc,          \* per updater: the next call of its pass
  csnap,        \* list: per chat the item that getChats returned
  ctodo,        \* the chats the loop has not reached
  l,            \* l: the IDs of those it has
  ccur,         \* list.at( i ).id
  cdoomed,      \* what the second loop has still to delete
  changes, faults, crashes,
  cdisturbed    \* history: "overlap" with another pass, "fault" of a query

list == <<csnap, ctodo, l>>
cvars == <<bomgar, qmonChat, cpc, csnap, ctodo, l, ccur, cdoomed, changes, faults,
          crashes, cdisturbed>>

PC == {"idle", "next", "insert", "name", "setName", "sweep", "done"}

Empty == [c \in Chat |-> NoRow]

TypeOK ==
  /\ bomgar     \in [Chat -> Item \cup {NoRow}]
  /\ qmonChat   \in [Chat -> Item \cup {NoRow}]
  /\ cpc        \in [Updater -> PC]
  /\ csnap      \in [Updater -> [Chat -> Item \cup {NoRow}]]
  /\ ctodo      \in [Updater -> SUBSET Chat]
  /\ l          \in [Updater -> SUBSET Chat]
  /\ ccur       \in [Updater -> Chat \cup {NoRow}]
  /\ cdoomed    \in [Updater -> SUBSET Chat]
  /\ changes    \in 0..MaxChange
  /\ faults     \in 0..MaxFault
  /\ crashes    \in 0..MaxCrash
  /\ cdisturbed \in [Updater -> SUBSET {"overlap", "fault"}]

InitPasses ==
  /\ cpc        = [u \in Updater |-> "idle"]
  /\ csnap      = [u \in Updater |-> Empty]
  /\ ctodo      = [u \in Updater |-> {}]
  /\ l          = [u \in Updater |-> {}]
  /\ ccur       = [u \in Updater |-> NoRow]
  /\ cdoomed    = [u \in Updater |-> {}]
  /\ cdisturbed = [u \in Updater |-> {}]

\* Any collector, and a table no pass has filled yet.
ChatInit ==
  /\ bomgar   \in [Chat -> Item \cup {NoRow}]
  /\ qmonChat = Empty
  /\ changes = 0 /\ faults = 0 /\ crashes = 0
  /\ InitPasses

-----------------------------------------------------------------------------

Busy == {u \in Updater : cpc[u] # "idle"}

\* Chats begin, end and are handed to another queue or SR.
Change(c) ==
  /\ changes < MaxChange
  /\ \E item \in (Item \cup {NoRow}) \ {bomgar[c]} :
       bomgar' = [bomgar EXCEPT ![c] = item]
  /\ changes' = changes + 1
  /\ UNCHANGED <<qmonChat, cpc, list, ccur, cdoomed, faults, crashes, cdisturbed>>

\* A database call of u's pass: its query fails if fault holds.
Call(u, fault) ==
  /\ fault => faults < MaxFault
  /\ faults' = IF fault THEN faults + 1 ELSE faults
  /\ cdisturbed' = [cdisturbed EXCEPT ![u] = IF fault THEN @ \cup {"fault"} ELSE @]
  /\ UNCHANGED <<bomgar, changes, crashes>>

Goto(u, label) == cpc' = [cpc EXCEPT ![u] = label]

-----------------------------------------------------------------------------

\* Database::getChats; a fetch that fails returns what was read so far.
Fetch(u) ==
  /\ cpc[u] = "idle"
  /\ LET all == {c \in Chat : bomgar[c] # NoRow} IN
     \E got \in SUBSET all :
       /\ got # all => faults < MaxFault
       /\ faults' = IF got # all THEN faults + 1 ELSE faults
       /\ ctodo' = [ctodo EXCEPT ![u] = got]
       /\ csnap' = [csnap EXCEPT ![u] =
             [c \in Chat |-> IF c \in got THEN bomgar[c] ELSE NoRow]]
       /\ cdisturbed' = [v \in Updater |->
             IF v = u THEN (IF got # all THEN {"fault"} ELSE {})
                           \cup (IF Busy # {} THEN {"overlap"} ELSE {})
             ELSE IF v \in Busy THEN cdisturbed[v] \cup {"overlap"}
             ELSE cdisturbed[v]]
  /\ Goto(u, "next")
  /\ UNCHANGED <<bomgar, qmonChat, l, ccur, cdoomed, changes, crashes>>

\* l.append and Database::bomgarExistsInDB for the next chat: no row, or no
\* answer, leads to an INSERT.
CheckExists(u) ==
  /\ cpc[u] = "next"
  /\ \E c \in ctodo[u], fault \in BOOLEAN :
       /\ Call(u, fault)
       /\ ctodo' = [ctodo EXCEPT ![u] = @ \ {c}]
       /\ l'    = [l EXCEPT ![u] = @ \cup {c}]
       /\ ccur'  = [ccur EXCEPT ![u] = c]
       /\ Goto(u, IF fault \/ qmonChat[c] = NoRow THEN "insert" ELSE "name")
  /\ UNCHANGED <<qmonChat, csnap, cdoomed>>

\* Database::updateBomgarItemInDB: an INSERT, in spite of its name; the INSERT
\* of a key that is there fails.
Insert(u) ==
  /\ cpc[u] = "insert"
  /\ \E fault \in BOOLEAN :
       LET c == ccur[u] IN
       /\ Call(u, fault)
       /\ qmonChat' = IF fault \/ qmonChat[c] # NoRow THEN qmonChat
                      ELSE [qmonChat EXCEPT ![c] = csnap[u][c]]
  /\ Goto(u, "next")
  /\ ccur' = [ccur EXCEPT ![u] = NoRow]
  /\ UNCHANGED <<list, cdoomed>>

\* Faulty variant: the name of a chat that is there is taken to be right.
CheckNameNever(u) ==
  /\ cpc[u] = "name"
  /\ \E fault \in BOOLEAN : Call(u, fault)
  /\ Goto(u, "next")
  /\ ccur' = [ccur EXCEPT ![u] = NoRow]
  /\ UNCHANGED <<qmonChat, list, cdoomed>>

\* Database::getBomgarQueueById: no row, or no answer, reads as "NOCHAT",
\* which is no chat's name.
CheckName(u) ==
  /\ cpc[u] = "name"
  /\ \E fault \in BOOLEAN :
       LET c    == ccur[u]
           same == ~fault /\ qmonChat[c] # NoRow /\ qmonChat[c].name = csnap[u][c].name
       IN  /\ Call(u, fault)
           /\ Goto(u, IF same THEN "next" ELSE "setName")
           /\ ccur' = IF same THEN [ccur EXCEPT ![u] = NoRow] ELSE ccur
  /\ UNCHANGED <<qmonChat, list, cdoomed>>

\* Faulty variant: REPLACE where the code has UPDATE, so that a row that is
\* gone comes back without its other columns.
SetNameReplaces(u) ==
  /\ cpc[u] = "setName"
  /\ \E fault \in BOOLEAN :
       LET c == ccur[u] IN
       /\ Call(u, fault)
       /\ qmonChat' = IF fault THEN qmonChat
                      ELSE IF qmonChat[c] = NoRow
                      THEN [qmonChat EXCEPT ![c] = [name |-> csnap[u][c].name]]
                      ELSE [qmonChat EXCEPT ![c].name = csnap[u][c].name]
  /\ Goto(u, "next")
  /\ ccur' = [ccur EXCEPT ![u] = NoRow]
  /\ UNCHANGED <<list, cdoomed>>

\* Database::updateBomgarQueue: NAME only; the SR stays what it was.
SetName(u) ==
  /\ cpc[u] = "setName"
  /\ \E fault \in BOOLEAN :
       LET c == ccur[u] IN
       /\ Call(u, fault)
       /\ qmonChat' = IF fault \/ qmonChat[c] = NoRow THEN qmonChat
                      ELSE [qmonChat EXCEPT ![c].name = csnap[u][c].name]
  /\ Goto(u, "next")
  /\ ccur' = [ccur EXCEPT ![u] = NoRow]
  /\ UNCHANGED <<list, cdoomed>>

\* Faulty variant: the pass ends with its first loop.
ListRowsNone(u) ==
  /\ cpc[u] = "next"
  /\ ctodo[u] = {}
  /\ \E fault \in BOOLEAN : Call(u, fault)
  /\ Goto(u, "sweep")
  /\ UNCHANGED <<qmonChat, list, ccur, cdoomed>>

\* Database::getQmonBomgarList; the second loop deletes what it lists and l
\* does not contain.
ListRows(u) ==
  /\ cpc[u] = "next"
  /\ ctodo[u] = {}
  /\ \E fault \in BOOLEAN :
       /\ Call(u, fault)
       /\ cdoomed' = [cdoomed EXCEPT ![u] =
                       IF fault THEN {} ELSE {c \in Chat : qmonChat[c] # NoRow} \ l[u]]
  /\ Goto(u, "sweep")
  /\ UNCHANGED <<qmonChat, list, ccur>>

\* Database::deleteBomgarItemFromDB.
Sweep(u) ==
  /\ cpc[u] = "sweep"
  /\ \E c \in cdoomed[u], fault \in BOOLEAN :
       /\ Call(u, fault)
       /\ qmonChat' = IF fault THEN qmonChat ELSE [qmonChat EXCEPT ![c] = NoRow]
       /\ cdoomed'  = [cdoomed EXCEPT ![u] = @ \ {c}]
  /\ UNCHANGED <<cpc, list, ccur>>

\* "Bomgar update finished"; the Unity pass follows.
Finish(u) ==
  /\ cpc[u] = "sweep"
  /\ cdoomed[u] = {}
  /\ Goto(u, "done")
  /\ UNCHANGED <<bomgar, qmonChat, list, ccur, cdoomed, changes, faults, crashes,
                 cdisturbed>>

\* The lists of u's request are gone.
Forget(u) ==
  /\ Goto(u, "idle")
  /\ csnap'   = [csnap EXCEPT ![u] = Empty]
  /\ ctodo'   = [ctodo EXCEPT ![u] = {}]
  /\ l'      = [l EXCEPT ![u] = {}]
  /\ ccur'    = [ccur EXCEPT ![u] = NoRow]
  /\ cdoomed' = [cdoomed EXCEPT ![u] = {}]
  /\ cdisturbed' = [cdisturbed EXCEPT ![u] = {}]
  /\ UNCHANGED <<bomgar, qmonChat, changes, faults>>

\* The request is over.
Reply(u) ==
  /\ cpc[u] = "done"
  /\ Forget(u)
  /\ UNCHANGED crashes

\* The daemon that runs u's pass is killed; each call is a transaction.
Crash(u) ==
  /\ cpc[u] # "idle"
  /\ crashes < MaxCrash
  /\ crashes' = crashes + 1
  /\ Forget(u)

\* The calls of a pass once its list is fetched.
Work(u) ==
  \/ CheckExists(u) \/ Insert(u) \/ CheckName(u) \/ SetName(u)
  \/ ListRows(u) \/ Sweep(u) \/ Finish(u)

ChatNext ==
  \/ \E c \in Chat : Change(c)
  \/ \E u \in Updater : Fetch(u) \/ Work(u) \/ Reply(u) \/ Crash(u)

ChatSpec == ChatInit /\ [][ChatNext]_cvars

\* As for UnityUpdate: the worker goes on, dbupdate.job asks again.
ChatFairSpec ==
  /\ ChatSpec
  /\ \A u \in Updater : WF_cvars(Work(u) \/ Reply(u))
  /\ WF_cvars(\E u \in Updater : Fetch(u))

-----------------------------------------------------------------------------
(* Properties                                                              *)

Sound(u) == cdisturbed[u] = {}

\* Same chats, and each in the queue the list has it in.
SameChats(items) ==
  \A c \in Chat :
    /\ (qmonChat[c] = NoRow) <=> (items[c] = NoRow)
    /\ items[c] # NoRow => qmonChat[c].name = items[c].name

\* At the end of a pass that ran alone and had no failed query, QMON_CHAT holds
\* the chats of the fetched list, each under its queue - but not always under
\* its SR, which only the INSERT writes - whatever earlier passes left behind.
FinishedMatchesList ==
  \A u \in Updater : cpc[u] = "done" /\ Sound(u) => SameChats(csnap[u])

\* When the collector stops changing, QMON_CHAT becomes and stays equal to it in
\* chats and names, also after queries that failed and with overlapping passes:
\* no row is left over, none is missing.
ChatsConverge == <>[]SameChats(bomgar)
=============================================================================
