-------------------------- MODULE QueueServiceProofs --------------------------
(***************************************************************************)
(* Proofs about the Bomgar pass and about /qmon, for any number of         *)
(* /updateDB requests at the same time, any sets of chats, SRs and names   *)
(* and any bounds.                                                         *)
(*                                                                         *)
(* FinishedMatchesList of the Bomgar pass (ChatUpdate, which QueueService  *)
(* extends) speaks of its end; ChatIInv follows the pass there:            *)
(*    ChatListInv   the list is what was seen plus what is to be seen, and *)
(*                  the chat at hand was seen;                             *)
(*    ChatSoundInv  a pass that nothing disturbed is alone, the answer of  *)
(*                  its last call still holds, each chat it has dealt with *)
(*                  matches the table, and what should not be there is     *)
(*                  doomed.                                                *)
(*                                                                         *)
(* What is proved of the two passes alone holds of them in the service,    *)
(* too: their invariants carry over from the parts to the whole            *)
(* (UpdatesInv), and the reader needs no more of them than that CUSTOMER   *)
(* goes with QMON_SIEBEL and that a chat has a name.  ReaderInv says what  *)
(* the reader holds, in the middle of its list.                            *)
(***************************************************************************)
EXTENDS QueueService, TLAPS

UP == INSTANCE UnityUpdateProofs WITH
  pc <- upc, snap <- usnap, todo <- utodo, cur <- ucur, doomed <- udoomed,
  disturbed <- udisturbed

-----------------------------------------------------------------------------
(* The Bomgar pass                                                         *)

ChatAtHand == {"insert", "name", "setName"}

ChatListInv(u) ==
  /\ ctodo[u] \cup l[u] = {c \in Chat : csnap[u][c] # NoRow}
  /\ cpc[u] \in ChatAtHand => ccur[u] \in l[u]
  /\ cpc[u] \notin ChatAtHand => ccur[u] = NoRow
  /\ cpc[u] \in {"sweep", "done"} => ctodo[u] = {}
  /\ cpc[u] \in {"idle", "done"} => cdoomed[u] = {}
  /\ cpc[u] = "idle" => l[u] = {}

\* The table has the chat under its name.
ChatMatches(u, c) == qmonChat[c] # NoRow /\ qmonChat[c].name = csnap[u][c].name

ChatSoundInv(u) ==
  /\ \A v \in Updater : cpc[v] # "idle" => v = u
  /\ \A c \in l[u] : c # ccur[u] => ChatMatches(u, c)
  /\ cpc[u] = "insert" => qmonChat[ccur[u]] = NoRow
  /\ cpc[u] \in {"name", "setName"} => qmonChat[ccur[u]] # NoRow
  /\ cpc[u] \in {"sweep", "done"} =>
       cdoomed[u] = {c \in Chat : qmonChat[c] # NoRow} \ l[u]

ChatPassInv ==
  \A u \in Updater :
    /\ ChatListInv(u)
    /\ cpc[u] # "idle" /\ Sound(u) => ChatSoundInv(u)

ChatIInv == TypeOK /\ ChatPassInv

-----------------------------------------------------------------------------
(* Items and calls                                                         *)

LEMMA ChatItemType ==
  ASSUME NEW item \in Item
  PROVE  item # NoRow /\ item.name \in Name
  BY ConstantsAssumption DEF Item

LEMMA ChatRenamedType ==
  ASSUME NEW item \in Item, NEW n \in Name
  PROVE  LET r == [item EXCEPT !.name = n] IN
         r \in Item /\ r # NoRow /\ r.name = n
<1>1. [item EXCEPT !.name = n] \in Item /\ [item EXCEPT !.name = n].name = n
  BY DEF Item
<1> QED
  BY <1>1, ConstantsAssumption

LEMMA ChatCallType ==
  ASSUME TypeOK, NEW u \in Updater, NEW fault \in BOOLEAN, Call(u, fault)
  PROVE  /\ faults' \in 0..MaxFault
         /\ cdisturbed' \in [Updater -> SUBSET {"overlap", "fault"}]
         /\ UNCHANGED <<bomgar, changes, crashes>>
         /\ \A v \in Updater \ {u} : cdisturbed'[v] = cdisturbed[v]
         /\ cdisturbed'[u] = {} => ~fault /\ cdisturbed[u] = {}
<1>1. faults' \in 0..MaxFault /\ UNCHANGED <<bomgar, changes, crashes>>
  BY BoundsAssumption DEF TypeOK, Call
<1>2. CASE fault
  <2>1. cdisturbed' = [cdisturbed EXCEPT ![u] = cdisturbed[u] \cup {"fault"}]
    BY <1>2 DEF Call
  <2> QED
    BY <1>1, <2>1 DEF TypeOK
<1>3. CASE ~fault
  <2>1. cdisturbed' = cdisturbed
    BY <1>3 DEF TypeOK, Call
  <2> QED
    BY <1>1, <1>3, <2>1 DEF TypeOK
<1> QED
  BY <1>2, <1>3

\* While a pass is under way, no other pass is sound; what the step leaves alone of
\* the others keeps their invariant.
LEMMA ChatOtherPass ==
  ASSUME ChatIInv, NEW u \in Updater, NEW v \in Updater \ {u},
         cpc[u] # "idle",
         cpc'[v] = cpc[v], csnap'[v] = csnap[v], ctodo'[v] = ctodo[v], l'[v] = l[v],
         ccur'[v] = ccur[v], cdoomed'[v] = cdoomed[v], cdisturbed'[v] = cdisturbed[v]
  PROVE  /\ ChatListInv(v)'
         /\ ~(cpc'[v] # "idle" /\ Sound(v)')
<1>1. ChatListInv(v)'
  BY DEF ChatIInv, ChatPassInv, ChatListInv, ChatAtHand
<1>2. ~(cpc[v] # "idle" /\ Sound(v))
  BY DEF ChatIInv, ChatPassInv, ChatSoundInv
<1> QED
  BY <1>1, <1>2 DEF Sound

LEMMA ChatInitInv == ChatInit => ChatIInv
<1> SUFFICES ASSUME ChatInit PROVE ChatIInv
  OBVIOUS
<1>1. {0} \subseteq (0..MaxChange) \cap (0..MaxFault) \cap (0..MaxCrash)
  BY BoundsAssumption
<1>2. Empty \in [Chat -> Item \cup {NoRow}]
  BY DEF Empty
<1>3. TypeOK
  BY <1>1, <1>2 DEF ChatInit, InitPasses, TypeOK, PC
<1>4. ChatPassInv
  BY DEF ChatInit, InitPasses, ChatPassInv, ChatListInv, ChatAtHand, Empty
<1> QED
  BY <1>3, <1>4 DEF ChatIInv

LEMMA ChatChangeInv ==
  ASSUME ChatIInv, NEW c \in Chat, Change(c)
  PROVE  ChatIInv'
<1>1. changes' \in 0..MaxChange
  BY BoundsAssumption DEF ChatIInv, TypeOK, Change
<1>2. bomgar' \in [Chat -> Item \cup {NoRow}]
  BY DEF ChatIInv, TypeOK, Change
<1>3. TypeOK'
  BY <1>1, <1>2 DEF ChatIInv, TypeOK, Change, list
<1>4. ChatPassInv'
  BY DEF ChatIInv, ChatPassInv, ChatListInv, ChatSoundInv, ChatMatches,
         Change, list, Sound
<1> QED
  BY <1>3, <1>4 DEF ChatIInv

-----------------------------------------------------------------------------
(* The steps of a pass                                                     *)

\* A pass that starts alone has seen nothing; those under way it disturbs.
LEMMA ChatFetchInv ==
  ASSUME ChatIInv, NEW u \in Updater, Fetch(u)
  PROVE  ChatIInv'
<1> DEFINE all == {c \in Chat : bomgar[c] # NoRow}
<1>1. PICK got \in SUBSET all :
        /\ got # all => faults < MaxFault
        /\ faults' = IF got # all THEN faults + 1 ELSE faults
        /\ ctodo' = [ctodo EXCEPT ![u] = got]
        /\ csnap' = [csnap EXCEPT ![u] =
              [c \in Chat |-> IF c \in got THEN bomgar[c] ELSE NoRow]]
        /\ cdisturbed' = [v \in Updater |->
              IF v = u THEN (IF got # all THEN {"fault"} ELSE {})
                            \cup (IF Busy # {} THEN {"overlap"} ELSE {})
              ELSE IF v \in Busy THEN cdisturbed[v] \cup {"overlap"}
              ELSE cdisturbed[v]]
  BY DEF Fetch
<1>2. /\ cpc[u] = "idle" /\ cpc' = [cpc EXCEPT ![u] = "next"]
      /\ UNCHANGED <<bomgar, qmonChat, l, ccur, cdoomed, changes, crashes>>
  BY DEF Fetch, Goto
<1>3. TypeOK'
  <2>1. [c \in Chat |-> IF c \in got THEN bomgar[c] ELSE NoRow]
          \in [Chat -> Item \cup {NoRow}]
    BY DEF ChatIInv, TypeOK
  <2>2. faults' \in 0..MaxFault
    BY <1>1, BoundsAssumption DEF ChatIInv, TypeOK
  <2>3. cdisturbed' \in [Updater -> SUBSET {"overlap", "fault"}]
    BY <1>1 DEF ChatIInv, TypeOK
  <2> QED
    BY <1>1, <1>2, <2>1, <2>2, <2>3 DEF ChatIInv, TypeOK, PC
<1>4. ASSUME NEW v \in Updater
      PROVE  ChatListInv(v)'
  <2>1. CASE v = u
    <3>1. /\ ctodo'[u] = got
          /\ csnap'[u] = [c \in Chat |-> IF c \in got THEN bomgar[c] ELSE NoRow]
          /\ cpc'[u] = "next" /\ l'[u] = {} /\ ccur'[u] = NoRow
      BY <1>1, <1>2 DEF ChatIInv, TypeOK, ChatPassInv, ChatListInv, ChatAtHand
    <3> QED
      BY <2>1, <3>1 DEF ChatListInv, ChatAtHand
  <2>2. CASE v # u
    BY <1>1, <1>2, <2>2 DEF ChatIInv, TypeOK, ChatPassInv, ChatListInv, ChatAtHand
  <2> QED
    BY <2>1, <2>2
<1>5. ASSUME NEW v \in Updater, cpc'[v] # "idle", Sound(v)'
      PROVE  ChatSoundInv(v)'
  <2>1. v = u
    BY <1>1, <1>2, <1>5 DEF ChatIInv, TypeOK, Sound, Busy
  <2>2. Busy = {}
    BY <1>1, <1>5, <2>1 DEF Sound
  <2> QED
    BY <1>2, <2>1, <2>2 DEF ChatIInv, TypeOK, ChatPassInv, ChatListInv, ChatSoundInv, Busy
<1> QED
  BY <1>3, <1>4, <1>5 DEF ChatIInv, ChatPassInv

LEMMA ChatCheckExistsInv ==
  ASSUME ChatIInv, NEW u \in Updater, CheckExists(u)
  PROVE  ChatIInv'
<1>1. PICK c \in ctodo[u], fault \in BOOLEAN :
        /\ Call(u, fault)
        /\ ctodo' = [ctodo EXCEPT ![u] = @ \ {c}]
        /\ l'    = [l EXCEPT ![u] = @ \cup {c}]
        /\ ccur'  = [ccur EXCEPT ![u] = c]
        /\ cpc'   = [cpc EXCEPT ![u] =
                        IF fault \/ qmonChat[c] = NoRow THEN "insert" ELSE "name"]
  BY DEF CheckExists, Goto
<1>2. cpc[u] = "next" /\ c \in Chat /\ UNCHANGED <<qmonChat, csnap, cdoomed>>
  BY DEF CheckExists, ChatIInv, TypeOK
<1>3. TypeOK'
  BY <1>1, <1>2, ChatCallType DEF ChatIInv, TypeOK, PC
<1>4. ASSUME NEW v \in Updater \ {u}
      PROVE  ChatListInv(v)' /\ ~(cpc'[v] # "idle" /\ Sound(v)')
  BY <1>1, <1>2, ChatCallType, ChatOtherPass DEF ChatIInv, TypeOK
<1>5. ChatListInv(u)'
  BY <1>1, <1>2 DEF ChatIInv, TypeOK, ChatPassInv, ChatListInv, ChatAtHand
<1>6. ASSUME Sound(u)'
      PROVE  ChatSoundInv(u)'
  <2>1. ~fault /\ Sound(u)
    BY <1>1, <1>6, ChatCallType DEF ChatIInv, Sound
  <2>2. ChatSoundInv(u) /\ ccur[u] = NoRow /\ NoRow \notin Chat
    BY <1>2, <2>1, ConstantsAssumption DEF ChatIInv, ChatPassInv, ChatListInv, ChatAtHand
  <2>3. \A d \in l[u] : ChatMatches(u, d)
    BY <2>2 DEF ChatSoundInv, ChatIInv, TypeOK
  <2>4. \A v \in Updater : cpc'[v] # "idle" => v = u
    BY <1>1, <2>2 DEF ChatSoundInv, ChatIInv, TypeOK
  <2>5. /\ l'[u] = l[u] \cup {c} /\ ccur'[u] = c
        /\ cpc'[u] = IF qmonChat[c] = NoRow THEN "insert" ELSE "name"
    BY <1>1, <2>1 DEF ChatIInv, TypeOK
  <2> QED
    BY <1>2, <2>3, <2>4, <2>5 DEF ChatSoundInv, ChatMatches
<1> QED
  BY <1>3, <1>4, <1>5, <1>6 DEF ChatIInv, ChatPassInv

\* What Insert, CheckName and SetName have in common: the chat at hand is done with,
\* or only the next call changes.  A sound pass is there on what it checked before.
LEMMA ChatAtHandInv ==
  ASSUME ChatIInv, NEW u \in Updater, NEW fault \in BOOLEAN, Call(u, fault),
         NEW c \in Chat, c = ccur[u], cpc[u] \in ChatAtHand,
         NEW next \in {"next", "setName"},
         cpc' = [cpc EXCEPT ![u] = next],
         ccur' = IF next = "next" THEN [ccur EXCEPT ![u] = NoRow] ELSE ccur,
         UNCHANGED <<list, cdoomed>>,
         qmonChat' \in [Chat -> Item \cup {NoRow}],
         \A d \in Chat : d # c => qmonChat'[d] = qmonChat[d],
         ~fault /\ ChatSoundInv(u) =>
           IF next = "next" THEN ChatMatches(u, c)' ELSE qmonChat'[c] # NoRow
  PROVE  ChatIInv'
<1>1. UNCHANGED <<csnap, ctodo, l>>
  BY DEF list
<1>2. TypeOK'
  BY <1>1, ChatCallType DEF ChatIInv, TypeOK, PC
<1>3. ASSUME NEW v \in Updater \ {u}
      PROVE  ChatListInv(v)' /\ ~(cpc'[v] # "idle" /\ Sound(v)')
  BY <1>1, ChatCallType, ChatOtherPass DEF ChatIInv, TypeOK, ChatAtHand
<1>4. ChatListInv(u)'
  BY <1>1 DEF ChatIInv, TypeOK, ChatPassInv, ChatListInv, ChatAtHand
<1>5. ASSUME Sound(u)'
      PROVE  ChatSoundInv(u)'
  <2>1. ~fault /\ Sound(u) /\ ChatSoundInv(u)
    BY <1>5, ChatCallType DEF ChatIInv, ChatPassInv, Sound, ChatAtHand
  <2>2. \A v \in Updater : cpc'[v] # "idle" => v = u
    BY <2>1 DEF ChatSoundInv, ChatIInv, TypeOK, ChatAtHand
  <2>3. c \in l[u] /\ l[u] \subseteq Chat
    BY DEF ChatIInv, TypeOK, ChatPassInv, ChatListInv, ChatAtHand
  <2>4. \A d \in l[u] : d # c => ChatMatches(u, d)'
    BY <1>1, <2>1, <2>3 DEF ChatSoundInv, ChatMatches
  <2>5. CASE next = "next"
    BY <1>1, <2>1, <2>2, <2>3, <2>4, <2>5 DEF ChatSoundInv, ChatIInv, TypeOK, ChatMatches
  <2>6. CASE next = "setName"
    BY <1>1, <2>1, <2>2, <2>3, <2>4, <2>6 DEF ChatSoundInv, ChatIInv, TypeOK, ChatMatches
  <2> QED
    BY <2>5, <2>6
<1> QED
  BY <1>2, <1>3, <1>4, <1>5 DEF ChatIInv, ChatPassInv

\* The chat at hand is one of the list.
LEMMA ChatHandItem ==
  ASSUME ChatIInv, NEW u \in Updater, cpc[u] \in ChatAtHand
  PROVE  ccur[u] \in Chat /\ csnap[u][ccur[u]] \in Item
<1>1. ccur[u] \in l[u]
  BY DEF ChatIInv, ChatPassInv, ChatListInv
<1> QED
  BY <1>1 DEF ChatIInv, TypeOK, ChatPassInv, ChatListInv

LEMMA ChatInsertInv ==
  ASSUME ChatIInv, NEW u \in Updater, Insert(u)
  PROVE  ChatIInv'
<1>0. PICK c \in Chat : c = ccur[u] /\ csnap[u][c] \in Item
  BY ChatHandItem DEF Insert, ChatAtHand
<1>1. PICK fault \in BOOLEAN :
        /\ Call(u, fault)
        /\ qmonChat' = IF fault \/ qmonChat[c] # NoRow THEN qmonChat
                       ELSE [qmonChat EXCEPT ![c] = csnap[u][c]]
  BY <1>0 DEF Insert
<1>2. /\ cpc[u] \in ChatAtHand /\ cpc' = [cpc EXCEPT ![u] = "next"]
      /\ ccur' = [ccur EXCEPT ![u] = NoRow] /\ UNCHANGED <<list, cdoomed>>
  BY DEF Insert, Goto, ChatAtHand
<1>3. csnap[u][c] # NoRow
  BY <1>0, ChatItemType
<1>4. /\ qmonChat' \in [Chat -> Item \cup {NoRow}]
      /\ \A d \in Chat : d # c => qmonChat'[d] = qmonChat[d]
  BY <1>0, <1>1, <1>3 DEF ChatIInv, TypeOK
<1>5. ASSUME ~fault, ChatSoundInv(u)
      PROVE  ChatMatches(u, c)'
  <2>1. qmonChat[c] = NoRow
    BY <1>0, <1>5 DEF Insert, ChatSoundInv
  <2>2. qmonChat'[c] = csnap[u][c] /\ csnap' = csnap /\ ccur'[u] = NoRow
    BY <1>1, <1>2, <1>3, <1>5, <2>1 DEF ChatIInv, TypeOK, list
  <2> QED
    BY <1>3, <2>2 DEF ChatMatches
<1> QED
  BY <1>0, <1>1, <1>2, <1>4, <1>5, ChatAtHandInv

LEMMA ChatCheckNameInv ==
  ASSUME ChatIInv, NEW u \in Updater, CheckName(u)
  PROVE  ChatIInv'
<1>0. PICK c \in Chat : c = ccur[u]
  BY ChatHandItem DEF CheckName, ChatAtHand
<1> DEFINE Same(fault) == ~fault /\ qmonChat[c] # NoRow /\ qmonChat[c].name = csnap[u][c].name
<1>1. PICK fault \in BOOLEAN :
        /\ Call(u, fault)
        /\ cpc' = [cpc EXCEPT ![u] = IF Same(fault) THEN "next" ELSE "setName"]
        /\ ccur' = IF Same(fault) THEN [ccur EXCEPT ![u] = NoRow] ELSE ccur
  BY <1>0 DEF CheckName, Goto
<1>2. cpc[u] \in ChatAtHand /\ cpc[u] = "name" /\ UNCHANGED <<qmonChat, list, cdoomed>>
  BY DEF CheckName, ChatAtHand
<1> DEFINE next == IF Same(fault) THEN "next" ELSE "setName"
<1>3. ASSUME ~fault, ChatSoundInv(u)
      PROVE  IF next = "next" THEN ChatMatches(u, c)' ELSE qmonChat'[c] # NoRow
  BY <1>0, <1>2, <1>3 DEF ChatSoundInv, ChatMatches, list
<1>4. qmonChat' \in [Chat -> Item \cup {NoRow}]
  BY <1>2 DEF ChatIInv, TypeOK
<1>5. /\ next \in {"next", "setName"}
      /\ cpc' = [cpc EXCEPT ![u] = next]
      /\ ccur' = IF next = "next" THEN [ccur EXCEPT ![u] = NoRow] ELSE ccur
  BY <1>1
<1> HIDE DEF next, Same
<1> QED
  BY <1>0, <1>1, <1>2, <1>3, <1>4, <1>5, ChatAtHandInv

LEMMA ChatSetNameInv ==
  ASSUME ChatIInv, NEW u \in Updater, SetName(u)
  PROVE  ChatIInv'
<1>0. PICK c \in Chat : c = ccur[u] /\ csnap[u][c] \in Item
  BY ChatHandItem DEF SetName, ChatAtHand
<1>1. PICK fault \in BOOLEAN :
        /\ Call(u, fault)
        /\ qmonChat' = IF fault \/ qmonChat[c] = NoRow THEN qmonChat
                       ELSE [qmonChat EXCEPT ![c].name = csnap[u][c].name]
  BY <1>0 DEF SetName
<1>2. /\ cpc[u] \in ChatAtHand /\ cpc' = [cpc EXCEPT ![u] = "next"]
      /\ ccur' = [ccur EXCEPT ![u] = NoRow] /\ UNCHANGED <<list, cdoomed>>
  BY DEF SetName, Goto, ChatAtHand
<1>3. csnap[u][c].name \in Name
  BY <1>0, ChatItemType
<1>4. /\ qmonChat' \in [Chat -> Item \cup {NoRow}]
      /\ \A d \in Chat : d # c => qmonChat'[d] = qmonChat[d]
      /\ ~fault /\ qmonChat[c] # NoRow =>
           qmonChat'[c] # NoRow /\ qmonChat'[c].name = csnap[u][c].name
  <2>1. CASE fault \/ qmonChat[c] = NoRow
    BY <1>1, <2>1 DEF ChatIInv, TypeOK
  <2>2. CASE ~fault /\ qmonChat[c] # NoRow
    <3>1. qmonChat[c] \in Item
      BY <1>3, <2>2 DEF ChatIInv, TypeOK
    <3>2. /\ [qmonChat[c] EXCEPT !.name = csnap[u][c].name] \in Item
          /\ [qmonChat[c] EXCEPT !.name = csnap[u][c].name] # NoRow
          /\ [qmonChat[c] EXCEPT !.name = csnap[u][c].name].name = csnap[u][c].name
      BY <1>3, <3>1, ChatRenamedType
    <3>3. qmonChat' = [qmonChat EXCEPT ![c] = [qmonChat[c] EXCEPT !.name = csnap[u][c].name]]
      BY <1>1, <2>2
    <3> QED
      BY <1>3, <3>2, <3>3 DEF ChatIInv, TypeOK
  <2> QED
    BY <2>1, <2>2
<1>5. ASSUME ~fault, ChatSoundInv(u)
      PROVE  ChatMatches(u, c)'
  BY <1>0, <1>2, <1>4, <1>5 DEF SetName, ChatSoundInv, ChatMatches, list
<1> QED
  BY <1>0, <1>1, <1>2, <1>4, <1>5, ChatAtHandInv

LEMMA ChatListRowsInv ==
  ASSUME ChatIInv, NEW u \in Updater, ListRows(u)
  PROVE  ChatIInv'
<1>1. PICK fault \in BOOLEAN :
        /\ Call(u, fault)
        /\ cdoomed' = [cdoomed EXCEPT ![u] =
                        IF fault THEN {} ELSE {c \in Chat : qmonChat[c] # NoRow} \ l[u]]
  BY DEF ListRows
<1>2. /\ cpc[u] = "next" /\ ctodo[u] = {}
      /\ cpc' = [cpc EXCEPT ![u] = "sweep"]
      /\ UNCHANGED <<qmonChat, csnap, ctodo, l, ccur>>
  BY DEF ListRows, Goto, list
<1>3. TypeOK'
  BY <1>1, <1>2, ChatCallType DEF ChatIInv, TypeOK, PC
<1>4. ASSUME NEW v \in Updater \ {u}
      PROVE  ChatListInv(v)' /\ ~(cpc'[v] # "idle" /\ Sound(v)')
  BY <1>1, <1>2, ChatCallType, ChatOtherPass DEF ChatIInv, TypeOK
<1>5. ChatListInv(u)'
  BY <1>1, <1>2 DEF ChatIInv, TypeOK, ChatPassInv, ChatListInv, ChatAtHand
<1>6. ASSUME Sound(u)'
      PROVE  ChatSoundInv(u)'
  <2>1. ~fault /\ ChatSoundInv(u)
    BY <1>1, <1>2, <1>6, ChatCallType DEF ChatIInv, ChatPassInv, Sound
  <2> QED
    BY <1>1, <1>2, <2>1 DEF ChatSoundInv, ChatMatches, ChatIInv, TypeOK
<1> QED
  BY <1>3, <1>4, <1>5, <1>6 DEF ChatIInv, ChatPassInv

\* A sound pass deletes only what is not in its list.
LEMMA ChatSweepInv ==
  ASSUME ChatIInv, NEW u \in Updater, Sweep(u)
  PROVE  ChatIInv'
<1>1. PICK c \in cdoomed[u], fault \in BOOLEAN :
        /\ Call(u, fault)
        /\ qmonChat' = IF fault THEN qmonChat ELSE [qmonChat EXCEPT ![c] = NoRow]
        /\ cdoomed'   = [cdoomed EXCEPT ![u] = @ \ {c}]
  BY DEF Sweep
<1>2. cpc[u] = "sweep" /\ c \in Chat /\ UNCHANGED <<cpc, csnap, ctodo, l, ccur>>
  BY DEF Sweep, list, ChatIInv, TypeOK
<1>3. TypeOK'
  BY <1>1, <1>2, ChatCallType DEF ChatIInv, TypeOK, PC
<1>4. ASSUME NEW v \in Updater \ {u}
      PROVE  ChatListInv(v)' /\ ~(cpc'[v] # "idle" /\ Sound(v)')
  BY <1>1, <1>2, ChatCallType, ChatOtherPass DEF ChatIInv, TypeOK
<1>5. ChatListInv(u)'
  BY <1>1, <1>2 DEF ChatIInv, TypeOK, ChatPassInv, ChatListInv, ChatAtHand
<1>6. ASSUME Sound(u)'
      PROVE  ChatSoundInv(u)'
  <2>1. ~fault /\ ChatSoundInv(u)
    BY <1>1, <1>2, <1>6, ChatCallType DEF ChatIInv, ChatPassInv, Sound
  <2>2. c \notin l[u] /\ \A d \in Chat : qmonChat'[d] = IF d = c THEN NoRow ELSE qmonChat[d]
    BY <1>1, <1>2, <2>1 DEF ChatSoundInv, ChatIInv, TypeOK
  <2>3. cdoomed'[u] = {d \in Chat : qmonChat'[d] # NoRow} \ l[u]
    BY <1>1, <1>2, <2>1, <2>2 DEF ChatSoundInv, ChatIInv, TypeOK
  <2>4. \A d \in l[u] : d \in Chat /\ d # c
    BY <2>2 DEF ChatIInv, TypeOK
  <2> QED
    BY <1>2, <2>1, <2>2, <2>3, <2>4 DEF ChatSoundInv, ChatMatches
<1> QED
  BY <1>3, <1>4, <1>5, <1>6 DEF ChatIInv, ChatPassInv

LEMMA ChatFinishInv ==
  ASSUME ChatIInv, NEW u \in Updater, Finish(u)
  PROVE  ChatIInv'
<1>1. /\ cpc[u] = "sweep" /\ cdoomed[u] = {}
      /\ cpc' = [cpc EXCEPT ![u] = "done"]
      /\ UNCHANGED <<bomgar, qmonChat, csnap, ctodo, l, ccur, cdoomed, changes, faults,
                     crashes, cdisturbed>>
  BY DEF Finish, Goto, list
<1>2. TypeOK'
  BY <1>1 DEF ChatIInv, TypeOK, PC
<1>3. ASSUME NEW v \in Updater \ {u}
      PROVE  ChatListInv(v)' /\ ~(cpc'[v] # "idle" /\ Sound(v)')
  BY <1>1, ChatOtherPass DEF ChatIInv, TypeOK
<1>4. ChatListInv(u)'
  BY <1>1 DEF ChatIInv, TypeOK, ChatPassInv, ChatListInv, ChatAtHand
<1>5. ASSUME Sound(u)'
      PROVE  ChatSoundInv(u)'
  <2>1. ChatSoundInv(u)
    BY <1>1, <1>5 DEF ChatIInv, ChatPassInv, Sound
  <2> QED
    BY <1>1, <2>1 DEF ChatSoundInv, ChatMatches, ChatIInv, TypeOK
<1> QED
  BY <1>2, <1>3, <1>4, <1>5 DEF ChatIInv, ChatPassInv

\* A pass that ends, or is killed, leaves nothing behind but the table.
LEMMA ChatForgetInv ==
  ASSUME ChatIInv, NEW u \in Updater, cpc[u] # "idle", Forget(u), crashes' \in 0..MaxCrash
  PROVE  ChatIInv'
<1>1. Empty \in [Chat -> Item \cup {NoRow}]
  BY DEF Empty
<1>2. TypeOK'
  BY <1>1 DEF ChatIInv, TypeOK, Forget, Goto, PC
<1>3. ASSUME NEW v \in Updater \ {u}
      PROVE  ChatListInv(v)' /\ ~(cpc'[v] # "idle" /\ Sound(v)')
  BY ChatOtherPass DEF ChatIInv, TypeOK, Forget, Goto
<1>4. ChatListInv(u)' /\ cpc'[u] = "idle"
  BY DEF ChatIInv, TypeOK, Forget, Goto, ChatListInv, ChatAtHand, Empty
<1> QED
  BY <1>2, <1>3, <1>4 DEF ChatIInv, ChatPassInv

-----------------------------------------------------------------------------
(* The pass as a whole                                                     *)

LEMMA ChatNextInv == ChatIInv /\ [ChatNext]_cvars => ChatIInv'
<1> SUFFICES ASSUME ChatIInv, [ChatNext]_cvars PROVE ChatIInv'
  OBVIOUS
<1>1. ASSUME NEW c \in Chat, Change(c) PROVE ChatIInv'
  BY <1>1, ChatChangeInv
<1>2. ASSUME NEW u \in Updater, Fetch(u) PROVE ChatIInv'
  BY <1>2, ChatFetchInv
<1>3. ASSUME NEW u \in Updater, Work(u) PROVE ChatIInv'
  BY <1>3, ChatCheckExistsInv, ChatInsertInv, ChatCheckNameInv, ChatSetNameInv,
     ChatListRowsInv, ChatSweepInv, ChatFinishInv
     DEF Work
<1>4. ASSUME NEW u \in Updater, Reply(u) PROVE ChatIInv'
  BY <1>4, ChatForgetInv DEF Reply, ChatIInv, TypeOK
<1>5. ASSUME NEW u \in Updater, Crash(u) PROVE ChatIInv'
  <2>1. crashes' \in 0..MaxCrash
    BY <1>5, BoundsAssumption DEF Crash, ChatIInv, TypeOK
  <2> QED
    BY <1>5, <2>1, ChatForgetInv DEF Crash
<1>6. CASE UNCHANGED cvars
  BY <1>6 DEF cvars, list, TypeOK, Sound,
              ChatIInv, ChatPassInv, ChatListInv, ChatSoundInv, ChatMatches
<1> QED
  BY <1>1, <1>2, <1>3, <1>4, <1>5, <1>6 DEF ChatNext

\* Where ChatUpdate is a part of something, the other parts use up the bounds, too.
LEMMA ChatOthersCount ==
  ASSUME ChatIInv,
         UNCHANGED <<bomgar, qmonChat, cpc, list, ccur, cdoomed, cdisturbed>>,
         changes' \in 0..MaxChange, faults' \in 0..MaxFault, crashes' \in 0..MaxCrash
  PROVE  ChatIInv'
<1>1. TypeOK'
  BY DEF ChatIInv, TypeOK, list
<1>2. ChatPassInv'
  BY DEF ChatIInv, ChatPassInv, ChatListInv, Sound, ChatSoundInv, ChatMatches, list
<1> QED
  BY <1>1, <1>2 DEF ChatIInv

LEMMA ChatInvariant == ChatSpec => []ChatIInv
  BY ChatInitInv, ChatNextInv, PTL DEF ChatSpec

\* Types are right, whatever overlaps, fails and is killed.
THEOREM ChatTypeCorrect == ChatSpec => []TypeOK
<1>1. ChatIInv => TypeOK
  BY DEF ChatIInv
<1> QED
  BY <1>1, ChatInvariant, PTL

\* At the end of a sound pass its own list is all, and all of it is copied.
LEMMA ChatCopies == ChatIInv => FinishedMatchesList
<1>1. ASSUME ChatIInv, NEW u \in Updater, cpc[u] = "done", Sound(u)
      PROVE  SameChats(csnap[u])
  <2>1. ChatListInv(u) /\ ChatSoundInv(u)
    BY <1>1 DEF ChatIInv, ChatPassInv
  <2>2. l[u] = {c \in Chat : csnap[u][c] # NoRow} /\ ccur[u] = NoRow /\ cdoomed[u] = {}
    BY <1>1, <2>1 DEF ChatListInv, ChatAtHand
  <2>3. \A c \in l[u] : ChatMatches(u, c)
    BY <2>1, <2>2, ConstantsAssumption DEF ChatSoundInv
  <2>4. \A c \in Chat \ l[u] : qmonChat[c] = NoRow
    BY <1>1, <2>1, <2>2 DEF ChatSoundInv
  <2> QED
    BY <2>2, <2>3, <2>4 DEF SameChats, ChatMatches
<1> QED
  BY <1>1 DEF FinishedMatchesList

\* "Bomgar update finished" of a pass that nothing disturbed means that QMON_CHAT
\* has the chats of the fetched list under their names.
THEOREM ChatFinishedCopies == ChatSpec => []FinishedMatchesList
  BY ChatCopies, ChatInvariant, PTL

-----------------------------------------------------------------------------
(* The two passes together                                                 *)

UpdatesInv == UP!IInv /\ ChatIInv

-----------------------------------------------------------------------------
(* The parts of the whole                                                  *)

LEMMA UnityAssumed == UP!ConstantsAssumption /\ UP!BoundsAssumption
BY UpdatesAssumption
   DEF U!ConstantsAssumption, U!BoundsAssumption, U!Item,
       UP!ConstantsAssumption, UP!BoundsAssumption, UP!Item

\* The steps of the passes are those of the modules that the proofs are about.
LEMMA UnityInit == U!Init => UP!Init
BY DEF U!Init, U!SiebelRow, U!Item, U!Empty, UP!Init, UP!SiebelRow, UP!Item, UP!Empty

LEMMA UnityChange ==
  ASSUME NEW s \in SR, U!Change(s)
  PROVE  UP!Change(s)
BY DEF U!Change, U!SiebelRow, U!Item, U!Busy, U!tables, U!list,
       UP!Change, UP!SiebelRow, UP!Item, UP!Busy, UP!tables, UP!list

LEMMA UnityForget ==
  ASSUME NEW u \in Updater, U!Forget(u)
  PROVE  UP!Forget(u)
BY DEF U!Forget, U!Goto, U!Empty, U!upstream, U!tables,
       UP!Forget, UP!Goto, UP!Empty, UP!upstream, UP!tables

LEMMA UnitySteps ==
  ASSUME NEW u \in Updater, U!Fetch(u) \/ U!Work(u) \/ U!Reply(u)
  PROVE  UP!Next
<1>1. ASSUME U!Fetch(u) PROVE UP!Fetch(u)
  BY <1>1
     DEF U!Fetch, U!Listed, U!Busy, U!Goto, U!upstream, U!tables,
         UP!Fetch, UP!Listed, UP!Busy, UP!Goto, UP!upstream, UP!tables
<1>2. ASSUME U!Work(u) PROVE UP!Work(u)
  <2>1. U!CheckExists(u) => UP!CheckExists(u)
    BY DEF U!CheckExists, U!Call, U!Goto, U!upstream, U!tables,
           UP!CheckExists, UP!Call, UP!Goto, UP!upstream, UP!tables
  <2>2. U!Insert(u) => UP!Insert(u)
    BY DEF U!Insert, U!Table, U!Effects, U!Call, U!Goto, U!upstream, U!list,
           UP!Insert, UP!Table, UP!Effects, UP!Call, UP!Goto, UP!upstream, UP!list
  <2>3. U!CheckQueue(u) => UP!CheckQueue(u)
    BY DEF U!CheckQueue, U!Call, U!Goto, U!upstream, U!tables, U!list,
           UP!CheckQueue, UP!Call, UP!Goto, UP!upstream, UP!tables, UP!list
  <2>4. U!SetQueue(u) => UP!SetQueue(u)
    BY DEF U!SetQueue, U!Call, U!Goto, U!upstream, U!list,
           UP!SetQueue, UP!Call, UP!Goto, UP!upstream, UP!list
  <2>5. U!SetItem(u) => UP!SetItem(u)
    BY DEF U!SetItem, U!Table, U!Effects, U!Call, U!Goto, U!upstream, U!list,
           UP!SetItem, UP!Table, UP!Effects, UP!Call, UP!Goto, UP!upstream, UP!list
  <2>6. U!ListRows(u) => UP!ListRows(u)
    BY DEF U!ListRows, U!Call, U!Goto, U!upstream, U!tables, U!list,
           UP!ListRows, UP!Call, UP!Goto, UP!upstream, UP!tables, UP!list
  <2>7. U!Sweep(u) => UP!Sweep(u)
    BY DEF U!Sweep, U!Table, U!Effects, U!Call, U!upstream, U!list,
           UP!Sweep, UP!Table, UP!Effects, UP!Call, UP!upstream, UP!list
  <2>8. U!Finish(u) => UP!Finish(u)
    BY DEF U!Finish, U!Goto, U!upstream, U!tables, U!list,
           UP!Finish, UP!Goto, UP!upstream, UP!tables, UP!list
  <2> QED
    BY <1>2, <2>1, <2>2, <2>3, <2>4, <2>5, <2>6, <2>7, <2>8 DEF U!Work, UP!Work
<1>3. ASSUME U!Reply(u) PROVE UP!Reply(u)
  BY <1>3, UnityForget DEF U!Reply, UP!Reply
<1> QED
  BY <1>1, <1>2, <1>3 DEF UP!Next

\* What the proofs about the parts say of a step of the whole.
LEMMA UnityKeeps ==
  ASSUME UP!IInv,
         \/ UP!Next
         \/ /\ UNCHANGED <<siebel, qmonSiebel, customer, clock, torn, unityVars>>
            /\ changes' \in 0..MaxChange /\ faults' \in 0..MaxFault
            /\ crashes' \in 0..MaxCrash
  PROVE  UP!IInv'
<1>1. CASE UP!Next
  BY <1>1, UP!NextInv, UnityAssumed
<1>2. CASE ~UP!Next
  BY <1>2, UP!OthersCount, UnityAssumed DEF UP!tables, UP!list, unityVars
<1> QED
  BY <1>1, <1>2

LEMMA ChatKeeps ==
  ASSUME ChatIInv,
         \/ ChatNext
         \/ /\ UNCHANGED <<bomgar, qmonChat, chatVars>>
            /\ changes' \in 0..MaxChange /\ faults' \in 0..MaxFault
            /\ crashes' \in 0..MaxCrash
  PROVE  ChatIInv'
<1>1. CASE ChatNext
  BY <1>1, ChatNextInv
<1>2. CASE ~ChatNext
  BY <1>2, ChatOthersCount DEF list, chatVars
<1> QED
  BY <1>1, <1>2

\* Both parts know the bounds.
Counts ==
  changes \in 0..MaxChange /\ faults \in 0..MaxFault /\ crashes \in 0..MaxCrash

LEMMA Counted == /\ UP!IInv => Counts
                 /\ ChatIInv => Counts
                 /\ UP!IInv' => Counts'
                 /\ ChatIInv' => Counts'
BY DEF UP!IInv, UP!TypeOK, ChatIInv, TypeOK, Counts

LEMMA UpdatesInit == Init => UpdatesInv
<1>1. Init => UP!IInv
  BY UnityInit, UP!InitInv, UnityAssumed DEF Init
<1>2. Init => ChatIInv
  BY ChatInitInv DEF Init
<1> QED
  BY <1>1, <1>2 DEF UpdatesInv

LEMMA UpdatesNext ==
  ASSUME UpdatesInv, [Next]_vars
  PROVE  UpdatesInv'
<1> USE DEF UpdatesInv
<1>1. ASSUME NEW u \in Updater, ChatFetch(u) \/ ChatWork(u)
      PROVE  UpdatesInv'
  <2>1. ChatIInv'
    BY <1>1, ChatKeeps DEF ChatFetch, ChatWork, ChatNext
  <2>2. UP!IInv'
    BY <1>1, <2>1, Counted, UnityKeeps DEF Counts, ChatFetch, ChatWork
  <2> QED
    BY <2>1, <2>2
<1>2. ASSUME NEW u \in Updater, UnityFetch(u) \/ UnityWork(u)
      PROVE  UpdatesInv'
  <2>1. UP!IInv'
    BY <1>2, UnitySteps, UnityKeeps DEF UnityFetch, UnityWork
  <2>2. ChatIInv'
    BY <1>2, <2>1, Counted, ChatKeeps DEF Counts, UnityFetch, UnityWork
  <2> QED
    BY <2>1, <2>2
<1>3. ASSUME NEW u \in Updater, UpdateReply(u)
      PROVE  UpdatesInv'
  BY <1>3, UnitySteps, UnityKeeps, ChatKeeps DEF UpdateReply, ChatNext
<1>4. ASSUME NEW u \in Updater, UpdateCrash(u)
      PROVE  UpdatesInv'
  <2>1. crashes' \in 0..MaxCrash /\ crashes < MaxCrash /\ crashes' = crashes + 1
    BY <1>4, Counted, UnityAssumed DEF Counts, UpdateCrash, UP!BoundsAssumption
  <2>2. UP!Forget(u) /\ Forget(u) /\ cpc[u] # "idle"
    BY <1>4, UnityForget DEF UpdateCrash
  <2>3. ChatIInv'
    BY <2>1, <2>2, ChatForgetInv
  <2>4. CASE upc[u] = "idle"
    BY <2>1, <2>2, <2>3, <2>4, UP!IdleForget, UnityAssumed
  <2>5. CASE upc[u] # "idle"
    <3>1. UP!Crash(u)
      BY <2>1, <2>2, <2>5 DEF UP!Crash
    <3> QED
      BY <2>3, <3>1, UnityKeeps DEF UP!Next
  <2> QED
    BY <2>4, <2>5
<1>5. ASSUME Upstream PROVE UpdatesInv'
  <2>1. ASSUME NEW s \in SR, U!Change(s), UNCHANGED <<bomgar, qmonChat, chatVars>>
        PROVE  UpdatesInv'
    <3>1. UP!IInv'
      BY <2>1, UnityChange, UnityKeeps DEF UP!Next
    <3> QED
      BY <2>1, <3>1, Counted, ChatKeeps DEF Counts
  <2>2. ASSUME NEW c \in Chat, Change(c),
               UNCHANGED <<siebel, qmonSiebel, customer, clock, torn, unityVars>>
        PROVE  UpdatesInv'
    <3>1. ChatIInv'
      BY <2>2, ChatKeeps DEF ChatNext
    <3> QED
      BY <2>2, <3>1, Counted, UnityKeeps DEF Counts
  <2> QED
    BY <1>5, <2>1, <2>2 DEF Upstream
<1>6. ASSUME Qmon \/ UNCHANGED vars PROVE UpdatesInv'
  <2>1. /\ UNCHANGED <<stores, changes, crashes, unityVars, chatVars>>
        /\ \/ faults' = faults
           \/ faults' = faults + 1 /\ faults < MaxFault
    BY <1>6 DEF Qmon, Select, AskChat, AskBomgar, AskCustomer, ReadReply, Ask, vars
  <2>2. faults' \in 0..MaxFault
    BY <2>1, Counted, UnityAssumed DEF Counts, UP!BoundsAssumption
  <2> QED
    BY <2>1, <2>2, Counted, UnityKeeps, ChatKeeps DEF Counts, stores
<1> QED
  BY <1>1, <1>2, <1>3, <1>4, <1>5, <1>6 DEF Next, UpdateDB

LEMMA UpdatesAlways == Spec => []UpdatesInv
BY UpdatesInit, UpdatesNext, PTL DEF Spec

-----------------------------------------------------------------------------
(* The reader                                                              *)

\* What the reader needs of the passes.
Tables ==
  /\ DOMAIN qmonSiebel = SR
  /\ \A s \in SR : qmonSiebel[s] # NoRow /\ ~torn => customer[s] = qmonSiebel[s].fields
  /\ \A s \in SR : qmonSiebel[s] # NoRow => qmonSiebel[s].fields # NoRow
  /\ \A s \in SR : ChatQueues(s) \subseteq Name

LEMMA TablesHold == UpdatesInv => Tables
<1> SUFFICES ASSUME UpdatesInv PROVE Tables
  OBVIOUS
<1>1. /\ qmonSiebel \in [SR -> UP!QmonRow \cup {NoRow}]
      /\ qmonChat \in [Chat -> Item \cup {NoRow}]
      /\ UP!PairInv
  BY DEF UpdatesInv, UP!IInv, UP!TypeOK, ChatIInv, TypeOK
<1>2. \A s \in SR : qmonSiebel[s] # NoRow => qmonSiebel[s].fields \in Fields
  BY <1>1 DEF UP!QmonRow
<1>3. NoRow \notin Fields
  BY UnityAssumed DEF UP!ConstantsAssumption
<1>4. \A c \in Chat : qmonChat[c] # NoRow => qmonChat[c].name \in Name
  BY <1>1 DEF Item
<1>5. \A s \in SR : ChatQueues(s) \subseteq Name
  BY <1>4 DEF ChatQueues
<1> QED
  BY <1>1, <1>2, <1>3, <1>5 DEF Tables, UP!PairInv

\* Half an SR stays half an SR.
LEMMA TornStays ==
  ASSUME torn, [Next]_vars
  PROVE  torn'
<1>1. ASSUME NEW u \in Updater, UpdateDB(u) PROVE torn'
  <2>1. U!Work(u) => torn'
    BY DEF U!Work, U!CheckExists, U!Insert, U!CheckQueue, U!SetQueue, U!SetItem,
           U!ListRows, U!Sweep, U!Finish, U!tables
  <2>2. U!Fetch(u) \/ U!Forget(u) => UNCHANGED torn
    BY DEF U!Fetch, U!Forget, U!tables
  <2> QED
    BY <1>1, <2>1, <2>2
       DEF UpdateDB, ChatFetch, ChatWork, UnityFetch, UnityWork, UpdateReply,
           UpdateCrash, U!Reply
<1>2. ASSUME Upstream PROVE torn'
  BY <1>2 DEF Upstream, U!Change, U!tables
<1>3. ASSUME Qmon \/ UNCHANGED vars PROVE torn'
  BY <1>3, ZenonT(30)
     DEF Qmon, Select, AskChat, AskBomgar, AskCustomer, ReadReply, Ask, stores, vars
<1> QED
  BY <1>1, <1>2, <1>3 DEF Next

Atop == [sr: SR, isChat: BOOLEAN, bomgarQ: Name \cup {NoChat}]

\* An entry is complete; one is under construction; and what the history knows
\* decides what they say.
ReaderInv ==
  /\ rpc \in {"idle", "chat", "bomgar", "customer"}
  /\ DOMAIN rows = SR /\ DOMAIN answer = SR
  /\ missed \in BOOLEAN
  /\ rpc = "idle" => \A s \in SR : answer[s] = NoRow
  /\ rpc \in {"bomgar", "customer"} =>
       /\ entry \in Atop
       /\ rows[entry.sr] # NoRow
       /\ entry.sr \notin chatless /\ ~missed =>
            /\ entry.isChat
            /\ rpc = "customer" => entry.bomgarQ # NoChat
  /\ rpc # "idle" => \A s \in SR :
       /\ s \notin touched /\ ~missed /\ ~torn =>
            /\ rows[s] # NoRow => customer[s] = rows[s].fields /\ customer[s] # NoRow
            /\ answer[s] # NoRow => answer[s].customer = answer[s].fields
       /\ s \notin chatless =>
            /\ ChatQueues(s) # {}
            /\ answer[s] # NoRow /\ ~missed =>
                 answer[s].isChat /\ answer[s].bomgarQ # NoChat

LEMMA ReaderInit == Init => ReaderInv
BY DEF Init, ReaderInv, Nothing

\* A step of somebody else: the history notes what it did.
LEMMA WatchInv ==
  ASSUME ReaderInv, Watch, [Next]_vars
  PROVE  ReaderInv'
<1>1. UNCHANGED <<rpc, rows, entry, answer, missed>>
  BY DEF Watch
<1>2. CASE rpc = "idle"
  BY <1>1, <1>2 DEF ReaderInv
<1>3. CASE rpc # "idle"
  <2>1. ASSUME NEW s \in SR, s \notin touched'
        PROVE  s \notin touched /\ customer'[s] = customer[s]
    BY <1>3, <2>1 DEF Watch
  <2>2. ASSUME NEW s \in SR, s \notin chatless'
        PROVE  s \notin chatless /\ ChatQueues(s)' # {}
    BY <1>3, <2>2 DEF Watch
  <2>3. ~torn' => ~torn
    BY TornStays
  <2>4. rpc \in {"bomgar", "customer"} => entry.sr \in SR
    BY DEF ReaderInv, Atop
  <2> QED
    BY <1>1, <1>3, <2>1, <2>2, <2>3, <2>4 DEF ReaderInv
<1> QED
  BY <1>2, <1>3

\* The reader's own steps leave the tables alone.
LEMMA ReaderAlone ==
  ASSUME Qmon \/ UNCHANGED vars
  PROVE  /\ UNCHANGED <<qmonSiebel, customer, torn, qmonChat>>
         /\ \A s \in SR : ChatQueues(s)' = ChatQueues(s)
<1>1. UNCHANGED stores
  BY DEF Qmon, Select, AskChat, AskBomgar, AskCustomer, ReadReply, Ask, vars
<1> QED
  BY <1>1 DEF stores, ChatQueues

LEMMA SelectInv ==
  ASSUME ReaderInv, Tables, Select
  PROVE  ReaderInv'
<1>1. PICK fault \in BOOLEAN :
        /\ missed' = (missed \/ fault)
        /\ rows' = IF fault THEN Nothing ELSE qmonSiebel
  BY DEF Select, Ask
<1>2. /\ rpc = "idle" /\ rpc' = "chat" /\ touched' = {}
      /\ chatless' = {s \in SR : ChatQueues(s) = {}}
      /\ UNCHANGED answer
  BY DEF Select
<1>3. /\ UNCHANGED <<customer, torn>>
      /\ \A s \in SR : ChatQueues(s)' = ChatQueues(s)
  BY ReaderAlone DEF Qmon
<1>4. /\ DOMAIN rows' = SR /\ missed' \in BOOLEAN
      /\ \A s \in SR : ~missed' => rows'[s] = qmonSiebel[s]
  BY <1>1 DEF ReaderInv, Tables, Nothing
<1> QED
  BY <1>2, <1>3, <1>4 DEF ReaderInv, Tables

LEMMA AskChatInv ==
  ASSUME ReaderInv, AskChat
  PROVE  ReaderInv'
<1>1. PICK s \in {t \in SR : rows[t] # NoRow}, fault \in BOOLEAN :
        LET isChat == ~fault /\ ChatQueues(s) # {} IN
        /\ Ask(fault)
        /\ entry' = [sr |-> s, isChat |-> isChat, bomgarQ |-> NoChat]
        /\ rpc' = IF isChat THEN "bomgar" ELSE "customer"
  BY DEF AskChat
<1> DEFINE isChat == ~fault /\ ChatQueues(s) # {}
<1>2. /\ rpc = "chat" /\ missed' = (missed \/ fault)
      /\ UNCHANGED <<rows, answer, touched, chatless>>
  BY <1>1 DEF AskChat, Ask
<1>3. /\ UNCHANGED <<customer, torn>>
      /\ \A t \in SR : ChatQueues(t)' = ChatQueues(t)
  BY ReaderAlone DEF Qmon
<1>4. /\ entry' \in Atop /\ entry'.sr = s /\ entry'.isChat = isChat
      /\ rpc' = IF isChat THEN "bomgar" ELSE "customer"
  BY <1>1 DEF Atop
<1>5. s \notin chatless => ChatQueues(s) # {}
  BY <1>2 DEF ReaderInv
<1> QED
  BY <1>2, <1>3, <1>4, <1>5 DEF ReaderInv

LEMMA AskBomgarInv ==
  ASSUME ReaderInv, Tables, AskBomgar
  PROVE  ReaderInv'
<1>1. PICK fault \in BOOLEAN :
        /\ Ask(fault)
        /\ \E q \in IF fault \/ ChatQueues(entry.sr) = {} THEN {NoChat}
                    ELSE ChatQueues(entry.sr) :
             entry' = [entry EXCEPT !.bomgarQ = q]
  BY DEF AskBomgar
<1>2. PICK q \in IF fault \/ ChatQueues(entry.sr) = {} THEN {NoChat}
                 ELSE ChatQueues(entry.sr) :
        entry' = [entry EXCEPT !.bomgarQ = q]
  BY <1>1
<1>3. /\ rpc = "bomgar" /\ rpc' = "customer" /\ missed' = (missed \/ fault)
      /\ UNCHANGED <<rows, answer, touched, chatless>>
  BY <1>1 DEF AskBomgar, Ask
<1>4. /\ UNCHANGED <<customer, torn>>
      /\ \A t \in SR : ChatQueues(t)' = ChatQueues(t)
  BY ReaderAlone DEF Qmon
<1>5. entry \in Atop /\ entry.sr \in SR
  BY <1>3 DEF ReaderInv, Atop
<1>6. q \in Name \cup {NoChat}
  BY <1>5 DEF Tables
<1>7. /\ entry' \in Atop /\ entry'.sr = entry.sr
      /\ entry'.isChat = entry.isChat /\ entry'.bomgarQ = q
  BY <1>2, <1>5, <1>6 DEF Atop
<1>8. ~fault /\ entry.sr \notin chatless => q # NoChat
  <2>1. ~fault /\ entry.sr \notin chatless => q \in ChatQueues(entry.sr)
    BY <1>3, <1>5 DEF ReaderInv
  <2> QED
    BY <2>1, <1>5, SentinelsAssumption DEF Tables
<1> QED
  BY <1>3, <1>4, <1>7, <1>8 DEF ReaderInv

LEMMA AskCustomerInv ==
  ASSUME ReaderInv, AskCustomer
  PROVE  ReaderInv'
<1> DEFINE s == entry.sr
<1>1. PICK fault \in BOOLEAN :
        /\ Ask(fault)
        /\ answer' = [answer EXCEPT ![s] =
             [fields   |-> rows[s].fields,
              isChat   |-> entry.isChat,
              bomgarQ  |-> entry.bomgarQ,
              customer |-> IF fault \/ customer[s] = NoRow THEN NoCustomer
                           ELSE customer[s]]]
        /\ rows' = [rows EXCEPT ![s] = NoRow]
  BY DEF AskCustomer
<1>2. /\ rpc = "customer" /\ rpc' = "chat" /\ missed' = (missed \/ fault)
      /\ UNCHANGED <<touched, chatless>>
  BY <1>1 DEF AskCustomer, Ask
<1>3. /\ UNCHANGED <<customer, torn>>
      /\ \A t \in SR : ChatQueues(t)' = ChatQueues(t)
  BY ReaderAlone DEF Qmon
<1>4. s \in SR /\ rows[s] # NoRow
  BY <1>2 DEF ReaderInv, Atop
<1>5. /\ answer'[s].fields = rows[s].fields
      /\ answer'[s].isChat = entry.isChat
      /\ answer'[s].bomgarQ = entry.bomgarQ
      /\ ~fault /\ customer[s] # NoRow => answer'[s].customer = customer[s]
      /\ rows'[s] = NoRow
  BY <1>1, <1>4 DEF ReaderInv
<1>6. \A t \in SR \ {s} : answer'[t] = answer[t] /\ rows'[t] = rows[t]
  BY <1>1 DEF ReaderInv
<1>7. DOMAIN rows' = SR /\ DOMAIN answer' = SR /\ missed' \in BOOLEAN
  BY <1>1, <1>2 DEF ReaderInv
<1>8. ASSUME s \notin touched, ~missed', ~torn
      PROVE  answer'[s].customer = answer'[s].fields
  BY <1>2, <1>4, <1>5, <1>8 DEF ReaderInv
<1>9. ASSUME s \notin chatless, ~missed'
      PROVE  answer'[s].isChat /\ answer'[s].bomgarQ # NoChat
  BY <1>2, <1>5, <1>9 DEF ReaderInv
<1> HIDE DEF s
<1>10. ASSUME NEW t \in SR
       PROVE  /\ t \notin touched' /\ ~missed' /\ ~torn' =>
                   /\ rows'[t] # NoRow => customer'[t] = rows'[t].fields /\ customer'[t] # NoRow
                   /\ answer'[t] # NoRow => answer'[t].customer = answer'[t].fields
              /\ t \notin chatless' =>
                   /\ ChatQueues(t)' # {}
                   /\ answer'[t] # NoRow /\ ~missed' =>
                        answer'[t].isChat /\ answer'[t].bomgarQ # NoChat
  <2>1. CASE t = s
    BY <1>2, <1>3, <1>5, <1>8, <1>9, <2>1 DEF ReaderInv
  <2>2. CASE t # s
    BY <1>2, <1>3, <1>6, <2>2 DEF ReaderInv
  <2> QED
    BY <2>1, <2>2
<1> QED
  BY <1>2, <1>7, <1>10 DEF ReaderInv

LEMMA ReadReplyInv ==
  ASSUME ReaderInv, ReadReply
  PROVE  ReaderInv'
BY DEF ReadReply, ReaderInv, Nothing

LEMMA ReaderNext ==
  ASSUME UpdatesInv, ReaderInv, [Next]_vars
  PROVE  ReaderInv'
<1>1. CASE Upstream /\ Watch
  BY <1>1, WatchInv
<1>2. CASE \E u \in Updater : UpdateDB(u) /\ Watch
  BY <1>2, WatchInv
<1>3. CASE Qmon
  BY <1>3, TablesHold, SelectInv, AskChatInv, AskBomgarInv, AskCustomerInv, ReadReplyInv
     DEF Qmon
<1>4. CASE UNCHANGED vars
  <2>1. UNCHANGED <<rpc, rows, entry, answer, touched, chatless, missed>>
    BY <1>4 DEF vars, reader
  <2> QED
    BY <1>4, <2>1, ReaderAlone DEF ReaderInv
<1> QED
  BY <1>1, <1>2, <1>3, <1>4 DEF Next

LEMMA ReaderAlways == Spec => []ReaderInv
<1>1. UpdatesInv /\ ReaderInv /\ [Next]_vars => ReaderInv'
  BY ReaderNext
<1> QED
  BY <1>1, ReaderInit, UpdatesAlways, PTL DEF Spec

-----------------------------------------------------------------------------
(* The theorems                                                            *)

\* Also in the middle of any number of updates, and with no transaction around its
\* queries, /qmon shows an SR with its own customer data, unless the SR's rows were
\* written meanwhile.
THEOREM OneVersion == Spec => []EntryOfOneVersion
<1>1. ReaderInv => EntryOfOneVersion
  BY DEF ReaderInv, EntryOfOneVersion
<1> QED
  BY <1>1, ReaderAlways, PTL

\* And it shows the chat of an SR that has one all the time, whatever happens to
\* that chat.
THEOREM ChatIsShown == Spec => []ChatShown
<1>1. ReaderInv => ChatShown
  BY DEF ReaderInv, ChatShown
<1> QED
  BY <1>1, ReaderAlways, PTL
-----------------------------------------------------------------------------
(* The service implements Mirror                                           *)

\* What Mirror sees of the Unity pass, and of nothing else.
MirrorSees ==
  <<siebel, qmonSiebel, customer, clock, torn, usnap, upc, udisturbed>>

LEMMA MirrorBlind == UNCHANGED MirrorSees => UNCHANGED UP!M!vars
BY DEF MirrorSees, UP!M!vars, UP!Source, UP!Current, UP!Phase, UP!Sounds, UP!Sound

LEMMA MirrorSteps ==
  ASSUME UpdatesInv, UpdatesInv', [Next]_vars
  PROVE  [UP!M!Next]_(UP!M!vars)
<1>0. UP!IInv /\ UP!IInv'
  BY DEF UpdatesInv
<1>1. ASSUME UP!Next PROVE [UP!M!Next]_(UP!M!vars)
  BY <1>0, <1>1, UP!NextMaps, UnityAssumed
<1>2. ASSUME UNCHANGED MirrorSees PROVE [UP!M!Next]_(UP!M!vars)
  BY <1>2, MirrorBlind
<1>3. ASSUME NEW u \in Updater, UpdateDB(u)
      PROVE  [UP!M!Next]_(UP!M!vars)
  <2>1. CASE ChatFetch(u) \/ ChatWork(u)
    BY <2>1, <1>2 DEF ChatFetch, ChatWork, MirrorSees, unityVars
  <2>2. CASE UnityFetch(u) \/ UnityWork(u) \/ UpdateReply(u)
    BY <2>2, <1>1, UnitySteps DEF UnityFetch, UnityWork, UpdateReply
  <2>3. CASE UpdateCrash(u)
    <3>1. UP!Forget(u)
      BY <2>3, UnityForget DEF UpdateCrash
    <3>2. CASE upc[u] # "idle"
      BY <1>0, <3>1, <3>2, UP!ForgetMaps, UnityAssumed DEF UP!IInv
    <3>3. CASE upc[u] = "idle"
      BY <1>0, <3>1, <3>3, UP!IdleForgetMaps, UnityAssumed
    <3> QED
      BY <3>2, <3>3
  <2> QED
    BY <1>3, <2>1, <2>2, <2>3 DEF UpdateDB
<1>4. ASSUME Upstream
      PROVE  [UP!M!Next]_(UP!M!vars)
  <2>1. ASSUME NEW s \in SR, U!Change(s)
        PROVE  [UP!M!Next]_(UP!M!vars)
    BY <2>1, <1>1, UnityChange DEF UP!Next
  <2>2. ASSUME UNCHANGED <<siebel, qmonSiebel, customer, clock, torn, unityVars>>
        PROVE  [UP!M!Next]_(UP!M!vars)
    BY <2>2, <1>2 DEF MirrorSees, unityVars
  <2> QED
    BY <1>4, <2>1, <2>2 DEF Upstream
<1>5. ASSUME Qmon \/ UNCHANGED vars
      PROVE  [UP!M!Next]_(UP!M!vars)
  <2>1. UNCHANGED <<stores, unityVars>>
    BY <1>5 DEF Qmon, Select, AskChat, AskBomgar, AskCustomer, ReadReply, Ask, vars
  <2> QED
    BY <2>1, <1>2 DEF MirrorSees, stores, unityVars
<1> QED
  BY <1>3, <1>4, <1>5 DEF Next

\* The service as a whole implements Mirror, too: what runs before a Unity pass in the
\* same request, what else /qmon reads and a worker that dies anywhere in a request
\* change nothing of what the Unity pass promises of its tables.
THEOREM ServiceImplementsMirror == Spec => UP!MirrorSpec
<1>1. Init => UP!M!Init
  BY UnityInit, UP!InitMaps, UnityAssumed DEF Init
<1>2. UpdatesInv /\ UpdatesInv' /\ [Next]_vars => [UP!M!Next]_(UP!M!vars)
  BY MirrorSteps
<1> QED
  BY <1>1, <1>2, UpdatesAlways, PTL DEF Spec, UP!MirrorSpec, UP!M!Spec

\* In the service, too, "Bomgar update finished" and "UPDATE FINISHED" of passes that
\* nothing disturbed mean that the tables are a copy of what was fetched, although both
\* passes run in one request, which may die between them.
THEOREM ServiceCopies == Spec => [](UP!FinishedMatchesList /\ FinishedMatchesList)
<1>1. UpdatesInv => UP!FinishedMatchesList /\ FinishedMatchesList
  BY UP!Copies, ChatCopies, UnityAssumed DEF UpdatesInv
<1> QED
  BY <1>1, UpdatesAlways, PTL
=============================================================================
