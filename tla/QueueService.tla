---------------------------- MODULE QueueService ----------------------------
(***************************************************************************)
(* The queue service as its clients see it: /updateDB requests, each of    *)
(* which runs the Bomgar pass (ChatUpdate) and then the Unity pass         *)
(* (UnityUpdate) in its worker thread, while another worker thread answers *)
(* /qmon with Database::getSrsForQueue( "NONE" ).                          *)
(*                                                                         *)
(* getSrsForQueue reads QMON_SIEBEL with one SELECT and then, row by row,  *)
(* asks QMON_CHAT (getBomgarQueue, twice when there is a chat) and         *)
(* CUSTOMER.  getBomgarQueue begins and commits a transaction on the same  *)
(* connection, so nothing holds the answers together: the tables move      *)
(* between any two of the queries.  A reader writes nothing, so one reader *)
(* stands for any number.                                                  *)
(***************************************************************************)
EXTENDS ChatUpdate

CONSTANTS
  Queue, Fields, Branch, UndoesTxn, MaxClock,   \* of UnityUpdate
  NoChat,       \* "NOCHAT", getBomgarQueue's answer for an SR without a chat
  NoCustomer    \* the customer data of an entry that found no CUSTOMER row

ASSUME SentinelsAssumption == NoChat \notin Name /\ NoCustomer \notin Fields

VARIABLES
  siebel, qmonSiebel, customer, clock, torn,
  upc, usnap, utodo, newList, ucur, udoomed, udisturbed,
  rpc,          \* the reader's next query
  rows,         \* the rows of its SELECT that the loop has not reached
  entry,        \* si, the entry under construction
  answer,       \* list, the entries that are complete
  touched,      \* history: SRs whose CUSTOMER row changed since the SELECT
  chatless,     \* history: SRs that had no chat at some time since the SELECT
  missed        \* history: a query of the reader failed

unityVars == <<upc, usnap, utodo, newList, ucur, udoomed, udisturbed>>
chatVars  == <<cpc, csnap, ctodo, l, ccur, cdoomed, cdisturbed>>
stores    == <<siebel, qmonSiebel, customer, clock, torn, bomgar, qmonChat>>
reader    == <<rpc, rows, entry, answer, touched, chatless, missed>>
vars      == <<stores, changes, faults, crashes, unityVars, chatVars, reader>>

\* What has no U! before it is of the Bomgar pass or of the reader.
U == INSTANCE UnityUpdate WITH
  pc <- upc, snap <- usnap, todo <- utodo, cur <- ucur, doomed <- udoomed,
  disturbed <- udisturbed

ASSUME UpdatesAssumption == U!ConstantsAssumption /\ U!BoundsAssumption

Nothing == [s \in SR |-> NoRow]

Entry == [fields: Fields, isChat: BOOLEAN, bomgarQ: Name \cup {NoChat},
          customer: Fields \cup {NoCustomer}]

\* The chats of s, and the queues they wait in.
ChatQueues(s) ==
  {qmonChat[c].name : c \in {d \in Chat : qmonChat[d] # NoRow /\ qmonChat[d].sr = s}}

NoEntry == [sr |-> NoRow]

Init ==
  /\ U!Init
  /\ ChatInit
  /\ rpc = "idle"
  /\ rows = Nothing
  /\ entry = NoEntry
  /\ answer = Nothing
  /\ touched = {}
  /\ chatless = {}
  /\ missed = FALSE

-----------------------------------------------------------------------------
(* /updateDB                                                               *)

\* What the reader's history notes of a step of somebody else.
Watch ==
  /\ touched'  = IF rpc = "idle" THEN {}
                 ELSE touched \cup {s \in SR : customer'[s] # customer[s]}
  /\ chatless' = IF rpc = "idle" THEN {}
                 ELSE chatless \cup {s \in SR : ChatQueues(s)' = {}}
  /\ UNCHANGED <<rpc, rows, entry, answer, missed>>

\* A request arrives and its worker fetches the chats.
ChatFetch(u) ==
  /\ upc[u] = "idle"
  /\ Fetch(u)
  /\ UNCHANGED <<siebel, qmonSiebel, customer, clock, torn, unityVars>>

ChatWork(u) ==
  /\ Work(u)
  /\ UNCHANGED <<siebel, qmonSiebel, customer, clock, torn, unityVars>>

\* The Unity pass follows the Bomgar pass in the same request.
UnityFetch(u) ==
  /\ cpc[u] = "done"
  /\ U!Fetch(u)
  /\ UNCHANGED <<bomgar, qmonChat, chatVars>>

UnityWork(u) ==
  /\ U!Work(u)
  /\ UNCHANGED <<bomgar, qmonChat, chatVars>>

UpdateReply(u) ==
  /\ U!Reply(u)
  /\ Reply(u)

UpdateCrash(u) ==
  /\ cpc[u] # "idle"
  /\ crashes < MaxCrash
  /\ crashes' = crashes + 1
  /\ U!Forget(u)
  /\ Forget(u)

\* The clock stands still: nothing below looks at INQUEUE.
Upstream ==
  \/ \E s \in SR : U!Change(s) /\ UNCHANGED <<bomgar, qmonChat, chatVars>>
  \/ \E c \in Chat : /\ Change(c)
                     /\ UNCHANGED <<siebel, qmonSiebel, customer, clock, torn, unityVars>>

UpdateDB(u) ==
  \/ ChatFetch(u) \/ ChatWork(u) \/ UnityFetch(u) \/ UnityWork(u)
  \/ UpdateReply(u) \/ UpdateCrash(u)

-----------------------------------------------------------------------------
(* /qmon                                                                   *)

\* A query of the reader, which fails if fault holds.
Ask(fault) ==
  /\ fault => faults < MaxFault
  /\ faults' = IF fault THEN faults + 1 ELSE faults
  /\ missed' = (missed \/ fault)
  /\ UNCHANGED <<stores, changes, crashes, unityVars, chatVars>>

\* The SELECT on QMON_SIEBEL.
Select ==
  /\ rpc = "idle"
  /\ \E fault \in BOOLEAN :
       /\ Ask(fault)
       /\ rows' = IF fault THEN Nothing ELSE qmonSiebel
  /\ rpc' = "chat"
  /\ touched' = {}
  /\ chatless' = {s \in SR : ChatQueues(s) = {}}
  /\ UNCHANGED <<entry, answer>>

\* The first getBomgarQueue of the next row: does it have a chat?
AskChat ==
  /\ rpc = "chat"
  /\ \E s \in {t \in SR : rows[t] # NoRow}, fault \in BOOLEAN :
       LET isChat == ~fault /\ ChatQueues(s) # {} IN
       /\ Ask(fault)
       /\ entry' = [sr |-> s, isChat |-> isChat, bomgarQ |-> NoChat]
       /\ rpc' = IF isChat THEN "bomgar" ELSE "customer"
  /\ UNCHANGED <<rows, answer, touched, chatless>>

\* Faulty variant: the second question is for another SR's chat.
AskBomgarAny ==
  /\ rpc = "bomgar"
  /\ \E fault \in BOOLEAN, s \in SR :
       /\ Ask(fault)
       /\ \E q \in IF fault \/ ChatQueues(s) = {} THEN {NoChat} ELSE ChatQueues(s) :
            entry' = [entry EXCEPT !.bomgarQ = q]
  /\ rpc' = "customer"
  /\ UNCHANGED <<rows, answer, touched, chatless>>

\* The second getBomgarQueue: in which queue does the chat wait?  An SR with
\* several chats gets the queue of any of them.
AskBomgar ==
  /\ rpc = "bomgar"
  /\ \E fault \in BOOLEAN :
       /\ Ask(fault)
       /\ \E q \in IF fault \/ ChatQueues(entry.sr) = {} THEN {NoChat}
                   ELSE ChatQueues(entry.sr) :
            entry' = [entry EXCEPT !.bomgarQ = q]
  /\ rpc' = "customer"
  /\ UNCHANGED <<rows, answer, touched, chatless>>

\* The SELECT on CUSTOMER; list.append( si ).
AskCustomer ==
  /\ rpc = "customer"
  /\ \E fault \in BOOLEAN :
       LET s == entry.sr IN
       /\ Ask(fault)
       /\ answer' = [answer EXCEPT ![s] =
            [fields   |-> rows[s].fields,
             isChat   |-> entry.isChat,
             bomgarQ  |-> entry.bomgarQ,
             customer |-> IF fault \/ customer[s] = NoRow THEN NoCustomer ELSE customer[s]]]
       /\ rows' = [rows EXCEPT ![s] = NoRow]
  /\ entry' = NoEntry
  /\ rpc' = "chat"
  /\ UNCHANGED <<touched, chatless>>

\* The answer is written and the reader's lists are gone.
ReadReply ==
  /\ rpc = "chat"
  /\ \A s \in SR : rows[s] = NoRow
  /\ rpc' = "idle"
  /\ answer' = Nothing
  /\ touched' = {}
  /\ chatless' = {}
  /\ missed' = FALSE
  /\ UNCHANGED <<stores, changes, faults, crashes, unityVars, chatVars, rows, entry>>

Qmon == Select \/ AskChat \/ AskBomgar \/ AskCustomer \/ ReadReply

Next ==
  \/ Upstream /\ Watch
  \/ \E u \in Updater : UpdateDB(u) /\ Watch
  \/ Qmon

Spec == Init /\ [][Next]_vars

-----------------------------------------------------------------------------
(* Properties                                                              *)

\* An entry of /qmon shows an SR with its own customer data - of the same update,
\* never without, never of an earlier one - unless the SR's rows were written
\* between the SELECT and the end of the answer.
EntryOfOneVersion ==
  \A s \in SR :
    answer[s] # NoRow /\ s \notin touched /\ ~missed /\ ~torn
      => answer[s].customer = answer[s].fields

\* An SR that has a chat during the whole of a /qmon request is shown as a chat,
\* with the queue it waits in, also when the chat is handed to another queue or
\* replaced by another chat of that SR meanwhile.
ChatShown ==
  \A s \in SR :
    answer[s] # NoRow /\ s \notin chatless /\ ~missed
      => answer[s].isChat /\ answer[s].bomgarQ # NoChat
=============================================================================
