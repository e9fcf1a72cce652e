-------------------------- MODULE UnityUpdateProofs --------------------------
(***************************************************************************)
(* Proofs about UnityUpdate, for any sets of updaters, SRs, queues and     *)
(* branches, either engine, and any bounds.  The inductive invariant is    *)
(*    TypeOK /\ PairInv /\ PassInv.                                        *)
(* PairInv needs no help but types and the position of a pass in its list; *)
(* FinishedMatchesList is PassInv at the end of the pass.                  *)
(*                                                                         *)
(* The last part proves that UnityUpdate implements Mirror: the initial    *)
(* states map to initial states, and every step maps to a step of Mirror   *)
(* or to none.  What a pass has checked before it writes, which is what    *)
(* the invariant says, is what Mirror allows it to write.                  *)
(***************************************************************************)
EXTENDS UnityUpdate, TLAPS

IInv == TypeOK /\ PairInv /\ PassInv

-----------------------------------------------------------------------------
(* Rows and items                                                          *)

\* A table entry is a row, with its columns, or NoRow.
LEMMA RowType ==
  ASSUME NEW row \in QmonRow \cup {NoRow}
  PROVE  row # NoRow <=> /\ row = [queue |-> row.queue, fields |-> row.fields, inqueue |-> row.inqueue]
                         /\ row.queue \in Queue /\ row.fields \in Fields
                         /\ row.inqueue \in 0..MaxClock
  BY ConstantsAssumption, BoundsAssumption, SMT DEF QmonRow

\* The row an INSERT makes is a row.
LEMMA NewRow ==
  ASSUME NEW item \in Item, NEW t \in 0..MaxClock
  PROVE  /\ [queue |-> item.queue, fields |-> item.fields, inqueue |-> t] \in QmonRow
         /\ [queue |-> item.queue, fields |-> item.fields, inqueue |-> t] # NoRow
  BY ConstantsAssumption, BoundsAssumption, SMT DEF QmonRow, Item

\* What the two UPDATEs of QMON_SIEBEL make of a row.
LEMMA MovedRow ==
  ASSUME NEW row \in QmonRow, NEW q \in Queue, NEW t \in 0..MaxClock
  PROVE  /\ [queue |-> q, fields |-> row.fields, inqueue |-> t] \in QmonRow
         /\ [queue |-> q, fields |-> row.fields, inqueue |-> t] # NoRow
  BY ConstantsAssumption, BoundsAssumption, SMT DEF QmonRow

LEMMA EditedRow ==
  ASSUME NEW row \in QmonRow, NEW f \in Fields
  PROVE  LET r == [row EXCEPT !.fields = f] IN
         /\ r \in QmonRow
         /\ r # NoRow
         /\ r.queue = row.queue
         /\ r.inqueue = row.inqueue
         /\ r.fields = f
  BY ConstantsAssumption, BoundsAssumption, SMT DEF QmonRow

-----------------------------------------------------------------------------
(* Types                                                                   *)

LEMMA CallType ==
  ASSUME TypeOK, NEW u \in Updater, NEW fault \in BOOLEAN, Call(u, fault)
  PROVE  /\ faults' \in 0..MaxFault
         /\ disturbed' \in [Updater -> SUBSET {"overlap", "moved", "fault"}]
         /\ siebel' = siebel /\ changes' = changes /\ clock' = clock /\ crashes' = crashes
  BY BoundsAssumption DEF TypeOK, Call, upstream

LEMMA InitType == Init => TypeOK
<1> SUFFICES ASSUME Init PROVE TypeOK
  OBVIOUS
<1>1. {0} \subseteq (0..MaxClock) \cap (0..MaxChange) \cap (0..MaxFault) \cap (0..MaxCrash)
  BY BoundsAssumption
<1>2. /\ Empty \in [SR -> QmonRow \cup {NoRow}]
      /\ Empty \in [SR -> Fields \cup {NoRow}]
      /\ Empty \in [SR -> Item \cup {NoRow}]
  BY DEF Empty
<1> QED
  BY <1>1, <1>2 DEF Init, TypeOK, PC

LEMMA ChangeType ==
  ASSUME TypeOK, NEW s \in SR, Change(s)
  PROVE  TypeOK'
  BY BoundsAssumption DEF TypeOK, Change, Busy, tables, list

LEMMA TickType ==
  ASSUME TypeOK, Tick
  PROVE  TypeOK'
  BY BoundsAssumption DEF TypeOK, Tick, tables, list, upstream

LEMMA FetchType ==
  ASSUME TypeOK, NEW u \in Updater, Fetch(u)
  PROVE  TypeOK'
<1> DEFINE all == {o \in SR \X Branch : o[2] \in Listed(o[1])}
<1>1. PICK got \in SUBSET all :
        /\ got # all => faults < MaxFault
        /\ faults' = IF got # all THEN faults + 1 ELSE faults
        /\ todo' = [todo EXCEPT ![u] = got]
        /\ snap' = [snap EXCEPT ![u] =
              [s \in SR |-> IF \E b \in Branch : <<s, b>> \in got
                            THEN siebel[s].item ELSE NoRow]]
        /\ disturbed' = [v \in Updater |->
              IF v = u THEN (IF got # all THEN {"fault"} ELSE {})
                            \cup (IF Busy # {} THEN {"overlap"} ELSE {})
              ELSE IF v \in Busy THEN disturbed[v] \cup {"overlap"}
              ELSE disturbed[v]]
  BY DEF Fetch
<1>2. [s \in SR |-> IF \E b \in Branch : <<s, b>> \in got THEN siebel[s].item ELSE NoRow]
        \in [SR -> Item \cup {NoRow}]
  <2> SUFFICES ASSUME NEW s \in SR, NEW b \in Branch, <<s, b>> \in got
               PROVE  siebel[s].item \in Item
    OBVIOUS
  <2>1. b \in Listed(s)
    OBVIOUS
  <2> QED
    BY <2>1 DEF Listed, TypeOK, SiebelRow
<1>3. faults' \in 0..MaxFault
  BY <1>1, BoundsAssumption DEF TypeOK
<1>4. disturbed' \in [Updater -> SUBSET {"overlap", "moved", "fault"}]
  BY <1>1 DEF TypeOK
<1> QED
  BY <1>1, <1>2, <1>3, <1>4 DEF TypeOK, Fetch, Goto, PC, upstream, tables

LEMMA CheckExistsType ==
  ASSUME TypeOK, NEW u \in Updater, CheckExists(u)
  PROVE  TypeOK'
  BY CallType DEF TypeOK, CheckExists, Goto, PC, tables

LEMMA InsertType ==
  ASSUME TypeOK, NEW u \in Updater, Insert(u), cur[u] \in SR, snap[u][cur[u]] # NoRow
  PROVE  TypeOK'
<1> DEFINE item == snap[u][cur[u]]
<1>1. /\ item \in Item
      /\ item.fields \in Fields
  BY DEF TypeOK, Item
<1>2. [queue |-> item.queue, fields |-> item.fields, inqueue |-> clock] \in QmonRow
  BY <1>1, NewRow DEF TypeOK
<1>3. /\ qmonSiebel' \in [SR -> QmonRow \cup {NoRow}]
      /\ customer'   \in [SR -> Fields \cup {NoRow}]
      /\ torn' \in BOOLEAN
  BY <1>1, <1>2 DEF Insert, TypeOK
<1>4. PICK fault \in BOOLEAN : Call(u, fault)
  BY DEF Insert
<1> QED
  BY <1>3, <1>4, CallType DEF TypeOK, Insert, Goto, PC, list

LEMMA CheckQueueType ==
  ASSUME TypeOK, NEW u \in Updater, CheckQueue(u)
  PROVE  TypeOK'
  BY CallType DEF TypeOK, CheckQueue, Goto, PC, tables, list

LEMMA SetQueueType ==
  ASSUME TypeOK, NEW u \in Updater, SetQueue(u), cur[u] \in SR, snap[u][cur[u]] # NoRow
  PROVE  TypeOK'
<1>1. snap[u][cur[u]].queue \in Queue
  BY DEF TypeOK, Item
<1>2. PICK fault \in BOOLEAN :
        /\ Call(u, fault)
        /\ qmonSiebel' = IF fault \/ qmonSiebel[cur[u]] = NoRow THEN qmonSiebel
                         ELSE [qmonSiebel EXCEPT ![cur[u]] =
                                 [queue   |-> snap[u][cur[u]].queue,
                                  fields  |-> @.fields,
                                  inqueue |-> clock]]
  BY DEF SetQueue
<1>3. qmonSiebel' \in [SR -> QmonRow \cup {NoRow}]
  BY <1>1, <1>2 DEF TypeOK, QmonRow
<1>4. /\ faults' \in 0..MaxFault
      /\ disturbed' \in [Updater -> SUBSET {"overlap", "moved", "fault"}]
      /\ siebel' = siebel /\ changes' = changes /\ clock' = clock /\ crashes' = crashes
  BY <1>2, CallType
<1> QED
  BY <1>3, <1>4 DEF TypeOK, SetQueue, Goto, PC, list

LEMMA SetItemType ==
  ASSUME TypeOK, NEW u \in Updater, SetItem(u), cur[u] \in SR, snap[u][cur[u]] # NoRow
  PROVE  TypeOK'
<1>1. snap[u][cur[u]].fields \in Fields
  BY DEF TypeOK, Item
<1>2. PICK fault \in BOOLEAN : Call(u, fault)
  BY DEF SetItem
<1>3. qmonSiebel' \in [SR -> QmonRow \cup {NoRow}]
  <2>1. \/ qmonSiebel' = qmonSiebel
        \/ /\ qmonSiebel[cur[u]] \in QmonRow
           /\ qmonSiebel' = [qmonSiebel EXCEPT ![cur[u]].fields = snap[u][cur[u]].fields]
    BY DEF SetItem, TypeOK
  <2> QED
    BY <1>1, <2>1 DEF TypeOK, QmonRow
<1>4. /\ customer'   \in [SR -> Fields \cup {NoRow}]
      /\ torn' \in BOOLEAN
  BY <1>1 DEF SetItem, TypeOK
<1> QED
  BY <1>2, <1>3, <1>4, CallType DEF TypeOK, SetItem, Goto, PC, list

LEMMA ListRowsType ==
  ASSUME TypeOK, NEW u \in Updater, ListRows(u)
  PROVE  TypeOK'
  BY CallType DEF TypeOK, ListRows, Goto, PC, tables, list

LEMMA SweepType ==
  ASSUME TypeOK, NEW u \in Updater, Sweep(u)
  PROVE  TypeOK'
<1>1. PICK fault \in BOOLEAN : Call(u, fault)
  BY DEF Sweep
<1>2. /\ qmonSiebel' \in [SR -> QmonRow \cup {NoRow}]
      /\ customer'   \in [SR -> Fields \cup {NoRow}]
      /\ torn' \in BOOLEAN
      /\ doomed' \in [Updater -> SUBSET SR]
  BY DEF Sweep, TypeOK
<1> QED
  BY <1>1, <1>2, CallType DEF TypeOK, Sweep, list

LEMMA FinishType ==
  ASSUME TypeOK, NEW u \in Updater, Finish(u)
  PROVE  TypeOK'
  BY DEF TypeOK, Finish, Goto, PC, upstream, tables, list

LEMMA ForgetType ==
  ASSUME TypeOK, NEW u \in Updater, Forget(u), crashes' \in 0..MaxCrash
  PROVE  TypeOK'
  BY DEF TypeOK, Forget, Goto, PC, Empty, upstream, tables

-----------------------------------------------------------------------------
(* The pair of tables                                                      *)

\* A transaction that is not torn changes both tables or none.
LEMMA InsertPair ==
  ASSUME TypeOK, PairInv, NEW u \in Updater, Insert(u), cur[u] \in SR, snap[u][cur[u]] # NoRow
  PROVE  PairInv'
<1> DEFINE s == cur[u]
           new == [queue |-> snap[u][s].queue, fields |-> snap[u][s].fields, inqueue |-> clock]
<1>1. new \in QmonRow /\ new # NoRow
  BY NewRow DEF TypeOK
<1>2. SUFFICES ASSUME ~torn'
               PROVE  \A t \in SR : customer'[t] = IF qmonSiebel'[t] = NoRow THEN NoRow
                                                  ELSE qmonSiebel'[t].fields
  BY DEF PairInv
<1>3. /\ ~torn
      /\ \/ qmonSiebel' = qmonSiebel /\ customer' = customer
         \/ /\ qmonSiebel' = [qmonSiebel EXCEPT ![s] = new]
            /\ customer' = [customer EXCEPT ![s] = snap[u][s].fields]
  BY <1>2 DEF Insert, Table
<1> QED
  BY <1>1, <1>3 DEF PairInv, TypeOK

\* updateSiebelQueue leaves a row alone or moves it; it never makes one.
LEMMA SetQueueRow ==
  ASSUME TypeOK, NEW u \in Updater, SetQueue(u), cur[u] \in SR, snap[u][cur[u]] # NoRow
  PROVE  /\ torn' = torn /\ customer' = customer
         /\ \A t \in SR \ {cur[u]} : qmonSiebel'[t] = qmonSiebel[t]
         /\ qmonSiebel[cur[u]] = NoRow => qmonSiebel'[cur[u]] = NoRow
         /\ qmonSiebel[cur[u]] # NoRow => /\ qmonSiebel'[cur[u]] # NoRow
                                          /\ qmonSiebel'[cur[u]].fields = qmonSiebel[cur[u]].fields
<1> DEFINE s == cur[u]
           q == snap[u][s].queue
<1>1. q \in Queue
  BY DEF TypeOK, Item
<1> DEFINE r == [queue |-> q, fields |-> qmonSiebel[s].fields, inqueue |-> clock]
<1>2. /\ torn' = torn /\ customer' = customer
      /\ \A t \in SR \ {s} : qmonSiebel'[t] = qmonSiebel[t]
      /\ qmonSiebel[s] = NoRow => qmonSiebel'[s] = NoRow
      /\ qmonSiebel'[s] \in {qmonSiebel[s], r}
  BY DEF SetQueue, TypeOK
<1>3. ASSUME qmonSiebel[s] # NoRow
      PROVE  qmonSiebel'[s] # NoRow /\ qmonSiebel'[s].fields = qmonSiebel[s].fields
  <2>1. r # NoRow
    <3>1. qmonSiebel[s] \in QmonRow /\ clock \in 0..MaxClock
      BY <1>3 DEF TypeOK
    <3> HIDE DEF q
    <3> QED
      BY <3>1, <1>1, MovedRow
  <2> QED
    BY <1>2, <1>3, <2>1
<1> QED
  BY <1>2, <1>3

LEMMA SetQueuePair ==
  ASSUME TypeOK, PairInv, NEW u \in Updater, SetQueue(u), cur[u] \in SR, snap[u][cur[u]] # NoRow
  PROVE  PairInv'
<1> HIDE DEF TypeOK, SetQueue
<1> QED
  BY SetQueueRow DEF PairInv

\* updateSiebelItem, when it is not torn, leaves both tables alone or edits the
\* row and the customer of the item at hand, if there are any.
LEMMA SetItemPair ==
  ASSUME TypeOK, PairInv, NEW u \in Updater, SetItem(u), cur[u] \in SR, snap[u][cur[u]] # NoRow
  PROVE  PairInv'
<1> DEFINE s == cur[u]
           f == snap[u][s].fields
<1>1. SUFFICES ASSUME ~torn'
               PROVE  \A t \in SR : customer'[t] = IF qmonSiebel'[t] = NoRow THEN NoRow
                                                  ELSE qmonSiebel'[t].fields
  BY DEF PairInv
<1>2. f \in Fields
  BY DEF TypeOK, Item
<1>3. /\ ~torn
      /\ \/ qmonSiebel' = qmonSiebel /\ customer' = customer
         \/ /\ qmonSiebel' = IF qmonSiebel[s] # NoRow
                             THEN [qmonSiebel EXCEPT ![s].fields = f] ELSE qmonSiebel
            /\ customer' = IF customer[s] # NoRow THEN [customer EXCEPT ![s] = f] ELSE customer
  BY <1>1 DEF SetItem, Table
<1>4. \A t \in SR : customer[t] = IF qmonSiebel[t] = NoRow THEN NoRow ELSE qmonSiebel[t].fields
  BY <1>3 DEF PairInv
<1>5. ASSUME qmonSiebel[s] # NoRow
      PROVE  LET r == [qmonSiebel[s] EXCEPT !.fields = f] IN r # NoRow /\ r.fields = f
  BY <1>2, <1>5, EditedRow DEF TypeOK
<1>6. qmonSiebel[s] # NoRow => customer[s] # NoRow
  BY <1>4, RowType, ConstantsAssumption DEF TypeOK
<1> QED
  BY <1>3, <1>4, <1>5, <1>6 DEF TypeOK

LEMMA SweepPair ==
  ASSUME TypeOK, PairInv, NEW u \in Updater, Sweep(u)
  PROVE  PairInv'
<1>1. SUFFICES ASSUME ~torn'
               PROVE  \A t \in SR : customer'[t] = IF qmonSiebel'[t] = NoRow THEN NoRow
                                                  ELSE qmonSiebel'[t].fields
  BY DEF PairInv
<1>2. PICK s \in SR :
        /\ ~torn
        /\ \/ qmonSiebel' = qmonSiebel /\ customer' = customer
           \/ /\ qmonSiebel' = [qmonSiebel EXCEPT ![s] = NoRow]
              /\ customer' = [customer EXCEPT ![s] = NoRow]
  BY <1>1 DEF Sweep, Table, TypeOK
<1> QED
  BY <1>2 DEF PairInv, TypeOK

-----------------------------------------------------------------------------
(* The passes                                                              *)

\* A step of a pass in progress leaves every other pass where it was, and
\* that one is not sound.
LEMMA OtherPass ==
  ASSUME PassInv, NEW u \in Updater, NEW v \in Updater, v # u, pc[u] # "idle",
         pc'[v] = pc[v], snap'[v] = snap[v], todo'[v] = todo[v], newList'[v] = newList[v],
         cur'[v] = cur[v], doomed'[v] = doomed[v], disturbed'[v] = disturbed[v]
  PROVE  ListInv(v)' /\ ~Sound(v)'
<1>1. ListInv(v)'
  BY DEF PassInv, ListInv
<1>2. ~Sound(v)
  BY DEF PassInv, SoundInv
<1> QED
  BY <1>1, <1>2 DEF Sound

\* A pass that is sound after a call was sound before it, and the call did not
\* fail.
LEMMA CallSound ==
  ASSUME TypeOK, NEW u \in Updater, NEW fault \in BOOLEAN, Call(u, fault),
         pc[u] # "idle", Sound(u)'
  PROVE  ~fault /\ Sound(u)
  BY DEF TypeOK, Call, Sound

\* What a pass has at hand is an SR of its list.
LEMMA AtHand ==
  ASSUME TypeOK, PassInv, NEW u \in Updater,
         pc[u] \in {"insert", "queue", "setQueue", "setItem"}
  PROVE  cur[u] \in SR /\ snap[u][cur[u]] # NoRow
  BY DEF TypeOK, PassInv, ListInv

LEMMA CheckExistsPass ==
  ASSUME TypeOK, PassInv, NEW u \in Updater, CheckExists(u)
  PROVE  PassInv'
<1>1. PICK o \in todo[u], fault \in BOOLEAN :
        /\ Call(u, fault)
        /\ todo'    = [todo EXCEPT ![u] = @ \ {o}]
        /\ newList' = [newList EXCEPT ![u] = @ \cup {o[1]}]
        /\ cur'     = [cur EXCEPT ![u] = o[1]]
        /\ Goto(u, IF fault \/ qmonSiebel[o[1]] = NoRow THEN "insert" ELSE "queue")
  BY DEF CheckExists
<1>2. pc[u] = "next" /\ snap' = snap /\ doomed' = doomed /\ UNCHANGED tables
  BY DEF CheckExists
<1>3. PICK s \in SR, b \in Branch : o = <<s, b>>
  BY DEF TypeOK
<1>4. /\ pc'[u] = IF fault \/ qmonSiebel[s] = NoRow THEN "insert" ELSE "queue"
      /\ todo'[u] = todo[u] \ {<<s, b>>}
      /\ newList'[u] = newList[u] \cup {s}
      /\ cur'[u] = s
  BY <1>1, <1>3 DEF TypeOK, Goto
<1>5. doomed[u] = {}
  BY <1>2 DEF PassInv, ListInv
<1>6. ListInv(u)'
  BY <1>2, <1>3, <1>4, <1>5 DEF PassInv, ListInv
<1>7. ASSUME Sound(u)' PROVE SoundInv(u)'
  <2>1. ~fault /\ Sound(u)
    BY <1>1, <1>2, <1>7, CallSound
  <2>2. SoundInv(u) /\ ListInv(u)
    BY <2>1 DEF PassInv
  <2>3. \A v \in Updater : v # u => pc'[v] = "idle"
    BY <1>1, <2>2 DEF SoundInv, Goto, TypeOK
  <2>4. ASSUME ~torn', NEW t \in newList'[u] \ {s} PROVE Matches(t, snap[u][t])'
    <3>1. t \in newList[u] \ {cur[u]}
      BY <1>2, <1>4, <2>2, ConstantsAssumption DEF ListInv, TypeOK
    <3>2. Matches(t, snap[u][t])
      BY <1>2, <2>2, <2>4, <3>1 DEF SoundInv, tables
    <3> QED
      BY <1>2, <3>2 DEF Matches, tables
  <2> QED
    BY <1>2, <1>4, <2>1, <2>3, <2>4 DEF SoundInv, tables
<1>8. ASSUME NEW v \in Updater, v # u PROVE ListInv(v)' /\ ~Sound(v)'
  BY <1>1, <1>2, <1>8, OtherPass DEF Call, Goto, TypeOK
<1> QED
  BY <1>6, <1>7, <1>8 DEF PassInv

LEMMA InsertPass ==
  ASSUME TypeOK, PairInv, PassInv, NEW u \in Updater, Insert(u)
  PROVE  PassInv'
<1> DEFINE s == cur[u]
           new == [queue |-> snap[u][s].queue, fields |-> snap[u][s].fields, inqueue |-> clock]
<1>1. s \in SR /\ snap[u][s] # NoRow /\ pc[u] = "insert" /\ ListInv(u)
  BY AtHand DEF Insert, PassInv
<1>2. /\ pc' = [pc EXCEPT ![u] = "next"]
      /\ cur' = [cur EXCEPT ![u] = NoRow]
      /\ snap' = snap /\ todo' = todo /\ newList' = newList /\ doomed' = doomed
  BY DEF Insert, Goto, list
<1>3. PICK failed \in SUBSET Table :
        LET ok  == {t \in Table \ failed : IF t = "CUSTOMER" THEN customer[s] = NoRow
                                                             ELSE qmonSiebel[s] = NoRow}
            eff == Effects(ok)
        IN  /\ Call(u, failed # {})
            /\ qmonSiebel' = IF "QMON_SIEBEL" \in eff
                             THEN [qmonSiebel EXCEPT ![s] = new] ELSE qmonSiebel
            /\ customer' = IF "CUSTOMER" \in eff
                           THEN [customer EXCEPT ![s] = snap[u][s].fields] ELSE customer
            /\ torn' = (torn \/ eff \notin {{}, Table})
  BY DEF Insert
<1>4. ListInv(u)'
  BY <1>1, <1>2 DEF ListInv, TypeOK
<1>5. ASSUME Sound(u)' PROVE SoundInv(u)'
  <2>1. failed = {} /\ Sound(u)
    BY <1>1, <1>3, <1>5, CallSound
  <2>2. SoundInv(u)
    BY <2>1 DEF PassInv
  <2>3. \A v \in Updater : v # u => pc'[v] = "idle"
    BY <1>2, <2>2 DEF SoundInv, TypeOK
  <2>4. ASSUME ~torn', NEW t \in newList'[u] \ {cur'[u]} PROVE Matches(t, snap[u][t])'
    <3>1. ~torn
      BY <1>3, <2>4
    <3>2. qmonSiebel[s] = NoRow /\ customer[s] = NoRow
      BY <1>1, <2>2, <3>1 DEF SoundInv, PairInv
    <3>3. /\ qmonSiebel' = [qmonSiebel EXCEPT ![s] = new]
          /\ customer' = [customer EXCEPT ![s] = snap[u][s].fields]
      BY <1>3, <2>1, <3>2 DEF Effects, Table
    <3>4. t \in SR
      BY <1>2 DEF TypeOK
    <3>5. CASE t = s
      <4>1. new # NoRow
        BY <1>1, NewRow DEF TypeOK
      <4> QED
        BY <1>1, <1>2, <3>3, <3>5, <4>1 DEF Matches, TypeOK
    <3>6. CASE t # s
      <4>1. Matches(t, snap[u][t])
        BY <1>2, <2>2, <3>1, <3>6 DEF SoundInv
      <4> QED
        BY <1>2, <3>3, <3>4, <3>6, <4>1 DEF Matches, TypeOK
    <3> QED
      BY <3>5, <3>6
  <2>5. pc'[u] = "next"
    BY <1>2 DEF TypeOK
  <2> QED
    BY <2>3, <2>4, <2>5, <1>2 DEF SoundInv
<1>6. ASSUME NEW v \in Updater, v # u PROVE ListInv(v)' /\ ~Sound(v)'
  BY <1>1, <1>2, <1>3, <1>6, OtherPass DEF Call, TypeOK
<1> QED
  BY <1>4, <1>5, <1>6 DEF PassInv

LEMMA CheckQueuePass ==
  ASSUME TypeOK, PassInv, NEW u \in Updater, CheckQueue(u)
  PROVE  PassInv'
<1> DEFINE s == cur[u]
<1>1. s \in SR /\ snap[u][s] # NoRow /\ pc[u] = "queue" /\ ListInv(u)
  BY AtHand DEF CheckQueue, PassInv
<1>2. PICK fault \in BOOLEAN :
        /\ Call(u, fault)
        /\ pc' = [pc EXCEPT ![u] =
             IF fault \/ qmonSiebel[s] = NoRow \/ qmonSiebel[s].queue # snap[u][s].queue
             THEN "setQueue" ELSE "setItem"]
  BY DEF CheckQueue, Goto
<1>3. /\ snap' = snap /\ todo' = todo /\ newList' = newList /\ doomed' = doomed /\ cur' = cur
      /\ UNCHANGED tables
  BY DEF CheckQueue, list
<1>4. /\ pc'[u] \in {"setQueue", "setItem"}
      /\ pc'[u] = "setItem" => qmonSiebel[s].queue = snap[u][s].queue
      /\ pc'[u] = "setQueue" /\ ~fault /\ qmonSiebel[s] # NoRow
           => qmonSiebel[s].queue # snap[u][s].queue
  BY <1>2 DEF TypeOK
<1>5. ListInv(u)'
  BY <1>1, <1>3, <1>4 DEF ListInv
<1>6. ASSUME Sound(u)' PROVE SoundInv(u)'
  <2>1. ~fault /\ Sound(u)
    BY <1>1, <1>2, <1>6, CallSound
  <2>2. SoundInv(u)
    BY <2>1 DEF PassInv
  <2>3. \A v \in Updater : v # u => pc'[v] = "idle"
    BY <1>2, <2>2 DEF SoundInv, TypeOK
  <2> QED
    BY <1>1, <1>3, <1>4, <2>1, <2>2, <2>3 DEF SoundInv, Matches, tables
<1>7. ASSUME NEW v \in Updater, v # u PROVE ListInv(v)' /\ ~Sound(v)'
  BY <1>1, <1>2, <1>3, <1>7, OtherPass DEF Call, TypeOK
<1> QED
  BY <1>5, <1>6, <1>7 DEF PassInv

LEMMA SetQueuePass ==
  ASSUME TypeOK, PassInv, NEW u \in Updater, SetQueue(u)
  PROVE  PassInv'
<1> DEFINE s == cur[u]
           new == [queue |-> snap[u][s].queue, fields |-> qmonSiebel[s].fields, inqueue |-> clock]
<1>1. s \in SR /\ snap[u][s] # NoRow /\ pc[u] = "setQueue" /\ ListInv(u)
  BY AtHand DEF SetQueue, PassInv
<1>2. PICK fault \in BOOLEAN :
        /\ Call(u, fault)
        /\ qmonSiebel' = IF fault \/ qmonSiebel[s] = NoRow THEN qmonSiebel
                         ELSE [qmonSiebel EXCEPT ![s] = [queue   |-> snap[u][s].queue,
                                                         fields  |-> @.fields,
                                                         inqueue |-> clock]]
  BY DEF SetQueue
<1>3. /\ pc' = [pc EXCEPT ![u] = "setItem"]
      /\ snap' = snap /\ todo' = todo /\ newList' = newList /\ doomed' = doomed /\ cur' = cur
      /\ customer' = customer /\ torn' = torn
  BY DEF SetQueue, Goto, list
<1>4. pc'[u] = "setItem"
  BY <1>3 DEF TypeOK
<1>5. ListInv(u)'
  BY <1>1, <1>3, <1>4 DEF ListInv
<1>6. ASSUME Sound(u)' PROVE SoundInv(u)'
  <2>1. ~fault /\ Sound(u)
    BY <1>1, <1>2, <1>6, CallSound
  <2>2. SoundInv(u)
    BY <2>1 DEF PassInv
  <2>3. \A v \in Updater : v # u => pc'[v] = "idle"
    BY <1>3, <2>2 DEF SoundInv, TypeOK
  <2>4. qmonSiebel[s] # NoRow /\ qmonSiebel[s] \in QmonRow /\ snap[u][s] \in Item
    BY <1>1, <2>2 DEF SoundInv, TypeOK
  <2>5. new # NoRow
    BY <2>4, MovedRow DEF TypeOK, Item
  <2>6. qmonSiebel' = [qmonSiebel EXCEPT ![s] = new]
    BY <1>2, <2>1, <2>4
  <2>7. qmonSiebel'[s] # NoRow /\ qmonSiebel'[s].queue = snap[u][s].queue
    BY <1>1, <2>5, <2>6 DEF TypeOK
  <2>8. ASSUME ~torn', NEW t \in newList'[u] \ {cur'[u]} PROVE Matches(t, snap[u][t])'
    <3>1. Matches(t, snap[u][t]) /\ t # s /\ t \in SR
      BY <1>3, <2>2, <2>8 DEF SoundInv, TypeOK
    <3> QED
      BY <1>3, <2>6, <3>1 DEF Matches, TypeOK
  <2> QED
    BY <1>3, <1>4, <2>3, <2>7, <2>8 DEF SoundInv
<1>7. ASSUME NEW v \in Updater, v # u PROVE ListInv(v)' /\ ~Sound(v)'
  BY <1>1, <1>2, <1>3, <1>7, OtherPass DEF Call, TypeOK
<1> QED
  BY <1>5, <1>6, <1>7 DEF PassInv

LEMMA SetItemPass ==
  ASSUME TypeOK, PairInv, PassInv, NEW u \in Updater, SetItem(u)
  PROVE  PassInv'
<1> DEFINE s == cur[u]
           f == snap[u][s].fields
<1>1. s \in SR /\ snap[u][s] # NoRow /\ pc[u] = "setItem" /\ ListInv(u)
  BY AtHand DEF SetItem, PassInv
<1>2. /\ pc' = [pc EXCEPT ![u] = "next"]
      /\ cur' = [cur EXCEPT ![u] = NoRow]
      /\ snap' = snap /\ todo' = todo /\ newList' = newList /\ doomed' = doomed
  BY DEF SetItem, Goto, list
<1>3. PICK failed \in SUBSET Table :
        LET eff == Effects(Table \ failed) IN
        /\ Call(u, failed # {})
        /\ qmonSiebel' = IF "QMON_SIEBEL" \in eff /\ qmonSiebel[s] # NoRow
                         THEN [qmonSiebel EXCEPT ![s].fields = f] ELSE qmonSiebel
        /\ customer' = IF "CUSTOMER" \in eff /\ customer[s] # NoRow
                       THEN [customer EXCEPT ![s] = f] ELSE customer
        /\ torn' = (torn \/ eff \notin {{}, Table})
  BY DEF SetItem
<1>4. ListInv(u)'
  BY <1>1, <1>2 DEF ListInv, TypeOK
<1>5. ASSUME Sound(u)' PROVE SoundInv(u)'
  <2>1. failed = {} /\ Sound(u)
    BY <1>1, <1>3, <1>5, CallSound
  <2>2. SoundInv(u)
    BY <2>1 DEF PassInv
  <2>3. \A v \in Updater : v # u => pc'[v] = "idle"
    BY <1>2, <2>2 DEF SoundInv, TypeOK
  <2>4. ASSUME ~torn', NEW t \in newList'[u] \ {cur'[u]} PROVE Matches(t, snap[u][t])'
    <3>1. ~torn
      BY <1>3, <2>4
    <3>2. /\ qmonSiebel[s] # NoRow
          /\ qmonSiebel[s] \in QmonRow
          /\ qmonSiebel[s].queue = snap[u][s].queue
          /\ f \in Fields
      BY <1>1, <2>2 DEF SoundInv, TypeOK, Item
    <3>3. customer[s] # NoRow
      BY <1>1, <3>1, <3>2, ConstantsAssumption DEF PairInv, QmonRow
    <3>4. /\ qmonSiebel' = [qmonSiebel EXCEPT ![s].fields = f]
          /\ customer' = [customer EXCEPT ![s] = f]
      BY <1>3, <2>1, <3>2, <3>3 DEF Effects, Table
    <3>5. t \in SR
      BY <1>2 DEF TypeOK
    <3>6. CASE t = s
      <4> DEFINE r == [qmonSiebel[s] EXCEPT !.fields = f]
      <4>1. r # NoRow /\ r.queue = qmonSiebel[s].queue /\ r.fields = f
        <5> HIDE DEF f
        <5> QED
          BY <3>2, EditedRow
      <4>2. qmonSiebel'[s] = r /\ customer'[s] = f
        BY <1>1, <3>4 DEF TypeOK
      <4> QED
        BY <1>1, <1>2, <3>2, <3>6, <4>1, <4>2 DEF Matches
    <3>7. CASE t # s
      <4>1. Matches(t, snap[u][t])
        BY <1>2, <2>2, <3>1, <3>7 DEF SoundInv
      <4> QED
        BY <1>2, <3>4, <3>5, <3>7, <4>1 DEF Matches, TypeOK
    <3> QED
      BY <3>6, <3>7
  <2>5. pc'[u] = "next"
    BY <1>2 DEF TypeOK
  <2> QED
    BY <2>3, <2>4, <2>5, <1>2 DEF SoundInv
<1>6. ASSUME NEW v \in Updater, v # u PROVE ListInv(v)' /\ ~Sound(v)'
  BY <1>1, <1>2, <1>3, <1>6, OtherPass DEF Call, TypeOK
<1> QED
  BY <1>4, <1>5, <1>6 DEF PassInv

LEMMA ListRowsPass ==
  ASSUME TypeOK, PassInv, NEW u \in Updater, ListRows(u)
  PROVE  PassInv'
<1>1. PICK fault \in BOOLEAN :
        /\ Call(u, fault)
        /\ doomed' = [doomed EXCEPT ![u] =
                        IF fault THEN {} ELSE {s \in SR : qmonSiebel[s] # NoRow} \ newList[u]]
  BY DEF ListRows
<1>2. /\ pc[u] = "next" /\ todo[u] = {}
      /\ pc' = [pc EXCEPT ![u] = "sweep"]
      /\ snap' = snap /\ todo' = todo /\ newList' = newList /\ cur' = cur
      /\ UNCHANGED tables
  BY DEF ListRows, Goto, list
<1>3. /\ pc'[u] = "sweep"
      /\ doomed'[u] = IF fault THEN {} ELSE {s \in SR : qmonSiebel[s] # NoRow} \ newList[u]
  BY <1>1, <1>2 DEF TypeOK
<1>4. ListInv(u)
  BY DEF PassInv
<1>5. ListInv(u)'
  BY <1>2, <1>3, <1>4 DEF ListInv
<1>6. ASSUME Sound(u)' PROVE SoundInv(u)'
  <2>1. ~fault /\ Sound(u)
    BY <1>1, <1>2, <1>6, CallSound
  <2>2. SoundInv(u)
    BY <2>1 DEF PassInv
  <2>3. \A v \in Updater : v # u => pc'[v] = "idle"
    BY <1>2, <2>2 DEF SoundInv, TypeOK
  <2>4. \A s \in SR : qmonSiebel[s] # NoRow /\ snap[u][s] = NoRow => s \in doomed'[u]
    BY <1>2, <1>3, <1>4, <2>1 DEF ListInv
  <2> QED
    BY <1>2, <1>3, <2>2, <2>3, <2>4 DEF SoundInv, Matches, tables
<1>7. ASSUME NEW v \in Updater, v # u PROVE ListInv(v)' /\ ~Sound(v)'
  BY <1>1, <1>2, <1>7, OtherPass DEF Call, TypeOK
<1> QED
  BY <1>5, <1>6, <1>7 DEF PassInv

LEMMA SweepPass ==
  ASSUME TypeOK, PassInv, NEW u \in Updater, Sweep(u)
  PROVE  PassInv'
<1>1. PICK s \in doomed[u], failed \in SUBSET Table :
        LET eff == Effects(Table \ failed) IN
        /\ Call(u, failed # {})
        /\ qmonSiebel' = IF "QMON_SIEBEL" \in eff
                         THEN [qmonSiebel EXCEPT ![s] = NoRow] ELSE qmonSiebel
        /\ customer' = IF "CUSTOMER" \in eff
                       THEN [customer EXCEPT ![s] = NoRow] ELSE customer
        /\ torn' = (torn \/ eff \notin {{}, Table})
        /\ doomed' = [doomed EXCEPT ![u] = @ \ {s}]
  BY DEF Sweep
<1>2. /\ pc[u] = "sweep" /\ pc' = pc
      /\ snap' = snap /\ todo' = todo /\ newList' = newList /\ cur' = cur
  BY DEF Sweep, list
<1>3. doomed'[u] = doomed[u] \ {s} /\ s \in SR
  BY <1>1 DEF TypeOK
<1>4. ListInv(u)
  BY DEF PassInv
<1>5. ListInv(u)'
  BY <1>2, <1>3, <1>4 DEF ListInv
<1>6. ASSUME Sound(u)' PROVE SoundInv(u)'
  <2>1. failed = {} /\ Sound(u)
    BY <1>1, <1>2, <1>6, CallSound
  <2>2. SoundInv(u)
    BY <2>1 DEF PassInv
  <2>3. /\ qmonSiebel' = [qmonSiebel EXCEPT ![s] = NoRow]
        /\ customer' = [customer EXCEPT ![s] = NoRow]
        /\ torn' = torn
    BY <1>1, <2>1 DEF Effects, Table, TypeOK
  <2>4. ASSUME ~torn', NEW t \in newList'[u] \ {cur'[u]} PROVE Matches(t, snap[u][t])'
    <3>1. t # s /\ t \in SR
      BY <1>2, <1>4 DEF ListInv, TypeOK
    <3>2. Matches(t, snap[u][t])
      BY <1>2, <2>2, <2>3, <2>4 DEF SoundInv
    <3> QED
      BY <1>2, <2>3, <3>1, <3>2 DEF Matches, TypeOK
  <2>5. ASSUME NEW t \in SR, qmonSiebel'[t] # NoRow, snap[u][t] = NoRow PROVE t \in doomed'[u]
    BY <1>2, <1>3, <2>2, <2>3, <2>5 DEF SoundInv, TypeOK
  <2> QED
    BY <1>2, <2>2, <2>4, <2>5 DEF SoundInv
<1>7. ASSUME NEW v \in Updater, v # u PROVE ListInv(v)' /\ ~Sound(v)'
  BY <1>1, <1>2, <1>7, OtherPass DEF Call, TypeOK
<1> QED
  BY <1>5, <1>6, <1>7 DEF PassInv

LEMMA FinishPass ==
  ASSUME TypeOK, PassInv, NEW u \in Updater, Finish(u)
  PROVE  PassInv'
<1>1. /\ pc[u] = "sweep" /\ doomed[u] = {} /\ pc' = [pc EXCEPT ![u] = "finished"]
      /\ snap' = snap /\ todo' = todo /\ newList' = newList /\ cur' = cur /\ doomed' = doomed
      /\ disturbed' = disturbed /\ UNCHANGED tables
  BY DEF Finish, Goto, list
<1>2. pc'[u] = "finished"
  BY <1>1 DEF TypeOK
<1>3. ListInv(u)'
  BY <1>1, <1>2 DEF PassInv, ListInv
<1>4. ASSUME Sound(u)' PROVE SoundInv(u)'
  <2>1. SoundInv(u)
    BY <1>1, <1>4 DEF PassInv, Sound
  <2>2. \A v \in Updater : v # u => pc'[v] = "idle"
    BY <1>1, <2>1 DEF SoundInv, TypeOK
  <2> QED
    BY <1>1, <1>2, <2>1, <2>2 DEF SoundInv, Matches, tables
<1>5. ASSUME NEW v \in Updater, v # u PROVE ListInv(v)' /\ ~Sound(v)'
  BY <1>1, <1>5, OtherPass DEF TypeOK
<1> QED
  BY <1>3, <1>4, <1>5 DEF PassInv

LEMMA ForgetPass ==
  ASSUME TypeOK, PassInv, NEW u \in Updater, Forget(u), pc[u] # "idle"
  PROVE  PassInv'
<1>1. /\ pc'[u] = "idle" /\ snap'[u] = Empty /\ todo'[u] = {} /\ newList'[u] = {}
      /\ cur'[u] = NoRow /\ doomed'[u] = {}
  BY DEF Forget, Goto, TypeOK
<1>2. ListInv(u)' /\ ~Sound(u)'
  BY <1>1 DEF ListInv, Sound, Empty
<1>3. ASSUME NEW v \in Updater, v # u PROVE ListInv(v)' /\ ~Sound(v)'
  BY <1>3, OtherPass DEF Forget, Goto, TypeOK
<1> QED
  BY <1>2, <1>3 DEF PassInv

\* Fetch starts a sound pass only when no other is in progress, and ends the
\* soundness of any other.
LEMMA FetchPass ==
  ASSUME TypeOK, PassInv, NEW u \in Updater, Fetch(u)
  PROVE  PassInv'
<1> DEFINE all == {o \in SR \X Branch : o[2] \in Listed(o[1])}
<1>1. PICK got \in SUBSET all :
        /\ todo' = [todo EXCEPT ![u] = got]
        /\ snap' = [snap EXCEPT ![u] =
              [s \in SR |-> IF \E b \in Branch : <<s, b>> \in got
                            THEN siebel[s].item ELSE NoRow]]
        /\ disturbed' = [v \in Updater |->
              IF v = u THEN (IF got # all THEN {"fault"} ELSE {})
                            \cup (IF Busy # {} THEN {"overlap"} ELSE {})
              ELSE IF v \in Busy THEN disturbed[v] \cup {"overlap"}
              ELSE disturbed[v]]
  BY DEF Fetch
<1>2. /\ pc[u] = "idle" /\ pc' = [pc EXCEPT ![u] = "next"]
      /\ newList' = newList /\ cur' = cur /\ doomed' = doomed
  BY DEF Fetch, Goto
<1>3. /\ pc'[u] = "next" /\ todo'[u] = got /\ newList'[u] = {} /\ cur'[u] = NoRow
      /\ doomed'[u] = {}
      /\ snap'[u] = [s \in SR |-> IF \E b \in Branch : <<s, b>> \in got
                                  THEN siebel[s].item ELSE NoRow]
  <2>1. newList[u] = {}
    BY <1>2 DEF PassInv, ListInv
  <2> QED
    <3>1. cur[u] = NoRow /\ doomed[u] = {}
      BY <1>2 DEF PassInv, ListInv
    <3>2. pc'[u] = "next" /\ todo'[u] = got /\ newList'[u] = {} /\ cur'[u] = NoRow
          /\ doomed'[u] = {}
      BY <1>1, <1>2, <2>1, <3>1 DEF TypeOK
    <3> QED
      BY <1>1, <3>2 DEF TypeOK
<1>4. \A s \in SR, b \in Branch : <<s, b>> \in got => siebel[s].item # NoRow
  <2> SUFFICES ASSUME NEW s \in SR, NEW b \in Branch, <<s, b>> \in got
               PROVE  siebel[s].item # NoRow
    OBVIOUS
  <2>1. b \in Listed(s)
    OBVIOUS
  <2> QED
    BY <2>1, ConstantsAssumption DEF Listed, TypeOK, SiebelRow
<1>5. ListInv(u)'
  BY <1>3, <1>4 DEF ListInv
<1>6. ASSUME Sound(u)' PROVE SoundInv(u)'
  <2>1. Busy = {}
    BY <1>1, <1>6 DEF Sound
  <2>2. \A v \in Updater : v # u => pc'[v] = "idle"
    BY <1>2, <2>1 DEF Busy, TypeOK
  <2> QED
    BY <1>3, <2>2 DEF SoundInv
<1>7. ASSUME NEW v \in Updater, v # u PROVE ListInv(v)' /\ ~Sound(v)'
  <2>1. ListInv(v)'
    <3>1. /\ pc'[v] = pc[v] /\ snap'[v] = snap[v] /\ todo'[v] = todo[v]
          /\ newList'[v] = newList[v] /\ cur'[v] = cur[v] /\ doomed'[v] = doomed[v]
      BY <1>1, <1>2, <1>7 DEF TypeOK
    <3> QED
      BY <3>1 DEF PassInv, ListInv
  <2>2. ~Sound(v)'
    BY <1>1, <1>2, <1>7 DEF Sound, Busy, TypeOK
  <2> QED
    BY <2>1, <2>2
<1> QED
  BY <1>5, <1>6, <1>7 DEF PassInv

\* What the world around does, no pass notices.
LEMMA WorldPass ==
  ASSUME PassInv, UNCHANGED <<tables, pc, list, cur, doomed>>,
         \A v \in Updater : Sound(v)' => Sound(v)
  PROVE  PassInv'
<1> SUFFICES ASSUME NEW v \in Updater PROVE ListInv(v)' /\ (Sound(v)' => SoundInv(v)')
  BY DEF PassInv
<1>1. ListInv(v)'
  BY DEF PassInv, ListInv, list
<1>2. Sound(v)' => SoundInv(v)'
  BY DEF PassInv, SoundInv, Matches, tables, list
<1> QED
  BY <1>1, <1>2

-----------------------------------------------------------------------------
(* The theorems                                                            *)

LEMMA InitInv == Init => IInv
<1> SUFFICES ASSUME Init PROVE IInv
  OBVIOUS
<1>1. PairInv
  BY DEF Init, PairInv, Empty
<1>2. PassInv
  BY DEF Init, PassInv, ListInv, Sound, Empty
<1> QED
  BY <1>1, <1>2, InitType DEF IInv

LEMMA NextInv == IInv /\ [Next]_vars => IInv'
<1> SUFFICES ASSUME TypeOK, PairInv, PassInv, [Next]_vars
             PROVE  TypeOK' /\ PairInv' /\ PassInv'
  BY DEF IInv
<1> USE DEF Work
<1>1. ASSUME NEW s \in SR, Change(s) PROVE TypeOK' /\ PairInv' /\ PassInv'
  <2>1. PairInv'
    BY <1>1 DEF Change, PairInv, tables
  <2>2. \A v \in Updater : Sound(v)' => Sound(v)
    BY <1>1 DEF Change, Sound, Busy
  <2> QED
    BY <1>1, <2>1, <2>2, ChangeType, WorldPass DEF Change
<1>2. ASSUME Tick PROVE TypeOK' /\ PairInv' /\ PassInv'
  <2>1. PairInv'
    BY <1>2 DEF Tick, PairInv, tables
  <2>2. \A v \in Updater : Sound(v)' => Sound(v)
    BY <1>2 DEF Tick, Sound
  <2> QED
    BY <1>2, <2>1, <2>2, TickType, WorldPass DEF Tick
<1>3. ASSUME NEW u \in Updater, Fetch(u) PROVE TypeOK' /\ PairInv' /\ PassInv'
  BY <1>3, FetchType, FetchPass DEF Fetch, PairInv, tables
<1>4. ASSUME NEW u \in Updater, CheckExists(u) PROVE TypeOK' /\ PairInv' /\ PassInv'
  BY <1>4, CheckExistsType, CheckExistsPass DEF CheckExists, PairInv, tables
<1>5. ASSUME NEW u \in Updater, Insert(u) PROVE TypeOK' /\ PairInv' /\ PassInv'
  <2>1. cur[u] \in SR /\ snap[u][cur[u]] # NoRow
    BY <1>5, AtHand DEF Insert
  <2> QED
    BY <1>5, <2>1, InsertType, InsertPair, InsertPass
<1>6. ASSUME NEW u \in Updater, CheckQueue(u) PROVE TypeOK' /\ PairInv' /\ PassInv'
  BY <1>6, CheckQueueType, CheckQueuePass DEF CheckQueue, PairInv, tables
<1>7. ASSUME NEW u \in Updater, SetQueue(u) PROVE TypeOK' /\ PairInv' /\ PassInv'
  <2>1. cur[u] \in SR /\ snap[u][cur[u]] # NoRow
    BY <1>7, AtHand DEF SetQueue
  <2> QED
    BY <1>7, <2>1, SetQueueType, SetQueuePair, SetQueuePass
<1>8. ASSUME NEW u \in Updater, SetItem(u) PROVE TypeOK' /\ PairInv' /\ PassInv'
  <2>1. cur[u] \in SR /\ snap[u][cur[u]] # NoRow
    BY <1>8, AtHand DEF SetItem
  <2> QED
    BY <1>8, <2>1, SetItemType, SetItemPair, SetItemPass
<1>9. ASSUME NEW u \in Updater, ListRows(u) PROVE TypeOK' /\ PairInv' /\ PassInv'
  BY <1>9, ListRowsType, ListRowsPass DEF ListRows, PairInv, tables
<1>10. ASSUME NEW u \in Updater, Sweep(u) PROVE TypeOK' /\ PairInv' /\ PassInv'
  BY <1>10, SweepType, SweepPair, SweepPass
<1>11. ASSUME NEW u \in Updater, Finish(u) PROVE TypeOK' /\ PairInv' /\ PassInv'
  BY <1>11, FinishType, FinishPass DEF Finish, PairInv, tables
<1>12. ASSUME NEW u \in Updater, Reply(u) \/ Crash(u) PROVE TypeOK' /\ PairInv' /\ PassInv'
  <2>1. Forget(u) /\ pc[u] # "idle"
    BY <1>12 DEF Reply, Crash
  <2>2. crashes' \in 0..MaxCrash
    BY <1>12, BoundsAssumption DEF Reply, Crash, TypeOK
  <2>3. PairInv'
    BY <2>1 DEF Forget, PairInv, tables
  <2> QED
    BY <2>1, <2>2, <2>3, ForgetType, ForgetPass
<1>13. ASSUME UNCHANGED vars PROVE TypeOK' /\ PairInv' /\ PassInv'
  <2>1. TypeOK' /\ PairInv'
    BY <1>13 DEF vars, TypeOK, PairInv
  <2>2. \A v \in Updater : Sound(v)' => Sound(v)
    BY <1>13 DEF vars, Sound
  <2> QED
    BY <1>13, <2>1, <2>2, WorldPass DEF vars, tables, list
<1> QED
  BY <1>1, <1>2, <1>3, <1>4, <1>5, <1>6, <1>7, <1>8, <1>9, <1>10, <1>11, <1>12, <1>13
     DEF Next

\* Where UnityUpdate is a part of something, the other parts use up the bounds, too,
LEMMA OthersCount ==
  ASSUME IInv,
         UNCHANGED <<siebel, tables, clock, pc, list, cur, doomed, disturbed>>,
         changes' \in 0..MaxChange, faults' \in 0..MaxFault, crashes' \in 0..MaxCrash
  PROVE  IInv'
<1>1. TypeOK' /\ PairInv'
  BY DEF IInv, TypeOK, PairInv, tables, list
<1>2. \A v \in Updater : Sound(v)' => Sound(v)
  BY DEF Sound
<1> QED
  BY <1>1, <1>2, WorldPass DEF IInv

\* and a request may end before its pass has begun.
LEMMA IdleForget ==
  ASSUME IInv, NEW u \in Updater, pc[u] = "idle", Forget(u), crashes' \in 0..MaxCrash
  PROVE  IInv'
<1>1. TypeOK'
  BY ForgetType DEF IInv
<1>2. PairInv'
  BY DEF IInv, PairInv, Forget, tables
<1>3. /\ pc' = pc /\ snap'[u] = Empty /\ todo'[u] = {} /\ newList'[u] = {}
      /\ cur'[u] = NoRow /\ doomed'[u] = {}
      /\ qmonSiebel' = qmonSiebel /\ customer' = customer /\ torn' = torn
      /\ \A v \in Updater \ {u} :
           /\ snap'[v] = snap[v] /\ todo'[v] = todo[v] /\ newList'[v] = newList[v]
           /\ cur'[v] = cur[v] /\ doomed'[v] = doomed[v] /\ disturbed'[v] = disturbed[v]
  BY DEF Forget, Goto, IInv, TypeOK, tables
<1>4. ListInv(u)' /\ ~Sound(u)'
  BY <1>3 DEF ListInv, Sound, Empty
<1>5. ASSUME NEW v \in Updater \ {u}
      PROVE  ListInv(v)' /\ (Sound(v)' => SoundInv(v)')
  <2>1. ListInv(v)'
    BY <1>3 DEF IInv, PassInv, ListInv
  <2>2. Sound(v)' => SoundInv(v)'
    BY <1>3 DEF IInv, PassInv, Sound, SoundInv, Matches
  <2> QED
    BY <2>1, <2>2
<1> QED
  BY <1>1, <1>2, <1>4, <1>5 DEF IInv, PassInv

LEMMA Invariance == Spec => []IInv
  BY InitInv, NextInv, PTL DEF Spec

\* Whatever passes run, fail, overlap and crash, each variable keeps to its
\* values; in particular no table gets a row with columns missing.
THEOREM TypeCorrect == Spec => []TypeOK
<1>1. IInv => TypeOK
  BY DEF IInv
<1> QED
  BY <1>1, Invariance, PTL

\* QMON_SIEBEL and CUSTOMER tell one story of every SR for any number of
\* concurrent passes, on either engine, unless a transaction was torn.
THEOREM TablesPaired == Spec => []PairInv
<1>1. IInv => PairInv
  BY DEF IInv
<1> QED
  BY <1>1, Invariance, PTL

\* A sound pass finds at each call the tables as its previous call left them.
THEOREM PassesOnCourse == Spec => []PassInv
<1>1. IInv => PassInv
  BY DEF IInv
<1> QED
  BY <1>1, Invariance, PTL

\* At the end of a sound pass its own list is all, and all of it is copied.
LEMMA Copies == IInv => FinishedMatchesList
<1> SUFFICES ASSUME TypeOK, PassInv, NEW u \in Updater, NEW s \in SR,
                    pc[u] = "finished", Sound(u), ~torn
             PROVE  Matches(s, snap[u][s])
  BY DEF IInv, FinishedMatchesList
<1>1. ListInv(u) /\ SoundInv(u)
  BY DEF PassInv
<1>2. CASE snap[u][s] = NoRow
  BY <1>1, <1>2 DEF SoundInv, Matches
<1>3. CASE snap[u][s] # NoRow
  BY <1>1, <1>3, ConstantsAssumption DEF ListInv, SoundInv
<1> QED
  BY <1>2, <1>3

\* What "UPDATE FINISHED" guarantees: at the end of a sound pass the tables are
\* a copy of the fetched list.
THEOREM FinishedCopies == Spec => []FinishedMatchesList
  BY Copies, Invariance, PTL

\* INQUEUE of a row that stays is stamped anew only on a change of queue, or by
\* a pass that overlapped another one or had a query fail.
THEOREM RestampsOnlyMoves == Spec => RestampOnlyOnMove
<1> DEFINE Restamped(s) == /\ qmonSiebel[s] # NoRow
                           /\ qmonSiebel'[s] # NoRow
                           /\ qmonSiebel'[s].inqueue # qmonSiebel[s].inqueue
           Excused(s) == \/ qmonSiebel'[s].queue # qmonSiebel[s].queue
                         \/ \E u \in Updater : pc[u] = "setQueue" /\ cur[u] = s /\ ~Sound(u)'
<1>1. IInv /\ [Next]_vars => [\A s \in SR : Restamped(s) => Excused(s)]_vars
  <2> SUFFICES ASSUME TypeOK, PassInv, Next, NEW s \in SR, Restamped(s)
               PROVE  Excused(s)
    BY DEF IInv
  <2>1. PICK u \in Updater : Insert(u) \/ SetQueue(u) \/ SetItem(u) \/ Sweep(u)
    BY DEF Next, Work, Change, Tick, Fetch, CheckExists, CheckQueue, ListRows, Finish,
           Reply, Crash, Forget, tables
  <2>2. CASE Insert(u)
    <3>1. qmonSiebel[cur[u]] # NoRow => qmonSiebel' = qmonSiebel
      BY <2>2 DEF Insert, Effects
    <3> QED
      BY <2>2, <3>1 DEF Insert, TypeOK
  <2>3. CASE SetItem(u)
    <3>1. cur[u] \in SR /\ snap[u][cur[u]].fields \in Fields
      BY <2>3, AtHand DEF SetItem, TypeOK, Item
    <3>2. CASE s = cur[u]
      <4> DEFINE f == snap[u][s].fields
                 r == [qmonSiebel[s] EXCEPT !.fields = f]
      <4>1. qmonSiebel'[s] \in {qmonSiebel[s], r}
        BY <2>3, <3>2 DEF SetItem, TypeOK
      <4>2. r.inqueue = qmonSiebel[s].inqueue
        <5>1. f \in Fields /\ qmonSiebel[s] \in QmonRow
          BY <3>1, <3>2 DEF TypeOK
        <5> HIDE DEF f
        <5> QED
          BY <5>1, EditedRow
      <4> QED
        BY <4>1, <4>2
    <3>3. CASE s # cur[u]
      BY <2>3, <3>3 DEF SetItem, TypeOK
    <3> QED
      BY <3>2, <3>3
  <2>4. CASE Sweep(u)
    BY <2>4 DEF Sweep, TypeOK
  <2>5. CASE SetQueue(u)
    <3>1. cur[u] \in SR /\ snap[u][cur[u]] # NoRow /\ pc[u] = "setQueue"
      BY <2>5, AtHand DEF SetQueue
    <3>2. s = cur[u]
      BY <2>5, <3>1, SetQueueRow
    <3>3. CASE ~Sound(u)'
      BY <3>1, <3>2, <3>3
    <3>4. CASE Sound(u)'
      <4>1. PICK fault \in BOOLEAN :
              /\ Call(u, fault)
              /\ qmonSiebel' = IF fault \/ qmonSiebel[s] = NoRow THEN qmonSiebel
                               ELSE [qmonSiebel EXCEPT ![s] = [queue   |-> snap[u][s].queue,
                                                               fields  |-> @.fields,
                                                               inqueue |-> clock]]
        BY <2>5, <3>2 DEF SetQueue
      <4>2. ~fault /\ Sound(u)
        BY <3>1, <3>4, <4>1, CallSound
      <4>3. qmonSiebel[s].queue # snap[u][s].queue
        BY <3>1, <3>2, <4>2 DEF PassInv, SoundInv
      <4>4. qmonSiebel'[s].queue = snap[u][s].queue
        BY <4>1, <4>2 DEF TypeOK
      <4> QED
        BY <4>3, <4>4
    <3> QED
      BY <3>3, <3>4
  <2> QED
    BY <2>1, <2>2, <2>3, <2>4, <2>5
<1> QED
  BY <1>1, Invariance, PTL DEF Spec, RestampOnlyOnMove

-----------------------------------------------------------------------------
(* UnityUpdate implements Mirror: the mapping                              *)

On == {"next", "insert", "queue", "setQueue", "setItem", "sweep"}

\* What a step makes of the phases: one pass moves.
LEMMA PhaseStep ==
  ASSUME TypeOK, NEW u \in Updater, NEW label \in PC, pc' = [pc EXCEPT ![u] = label]
  PROVE  Phase' = [Phase EXCEPT ![u] = IF label = "idle" THEN "off"
                                       ELSE IF label = "finished" THEN "done" ELSE "on"]
<1> DEFINE new == IF label = "idle" THEN "off" ELSE IF label = "finished" THEN "done" ELSE "on"
<1>1. ASSUME NEW v \in Updater
      PROVE  Phase'[v] = [Phase EXCEPT ![u] = new][v]
  <2>1. CASE v = u
    BY <2>1 DEF Phase, PC, TypeOK
  <2>2. CASE v # u
    BY <2>2 DEF Phase, PC, TypeOK
  <2> QED
    BY <2>1, <2>2
<1>2. /\ Phase' = [v \in Updater |-> Phase'[v]]
      /\ [Phase EXCEPT ![u] = new] = [v \in Updater |-> [Phase EXCEPT ![u] = new][v]]
  BY DEF Phase
<1> QED
  BY <1>1, <1>2

LEMMA PhaseOf ==
  ASSUME NEW u \in Updater
  PROVE  /\ pc[u] = "idle" => Phase[u] = "off"
         /\ pc[u] = "finished" => Phase[u] = "done"
         /\ pc[u] \notin {"idle", "finished"} => Phase[u] = "on"
  BY DEF Phase

\* A call leaves the world alone and makes nobody sound.
LEMMA CallMaps ==
  ASSUME TypeOK, NEW u \in Updater, NEW fault \in BOOLEAN, Call(u, fault),
         pc[u] \in On, NEW label \in On, pc' = [pc EXCEPT ![u] = label]
  PROVE  /\ Source' = Source /\ clock' = clock
         /\ Phase[u] = "on" /\ Phase' = Phase
         /\ Sounds' \in {Sounds, Sounds \ {u}}
         /\ u \in Sounds' => ~fault /\ u \in Sounds
<1>1. Source' = Source /\ clock' = clock
  BY DEF Call, upstream, Source, Current
<1>2. Phase[u] = "on"
  BY PhaseOf DEF On
<1>3. Phase' = Phase
  <2>1. Phase' = [Phase EXCEPT ![u] = "on"]
    BY PhaseStep DEF On, PC
  <2>2. Phase = [v \in Updater |-> Phase[v]]
    BY DEF Phase
  <2> QED
    BY <1>2, <2>1, <2>2
<1>4. /\ \A v \in Updater \ {u} : Sound(v)' <=> Sound(v)
      /\ Sound(u)' => ~fault /\ Sound(u)
  BY DEF TypeOK, Call, Sound, On
<1>5. u \in Sounds' => ~fault /\ u \in Sounds
  BY <1>4 DEF Sounds
<1>6. Sounds' \in {Sounds, Sounds \ {u}}
  BY <1>4 DEF Sounds
<1> QED
  BY <1>1, <1>2, <1>3, <1>5, <1>6

\* A call that writes nothing is no step of Mirror, or a failure.
LEMMA QuietMaps ==
  ASSUME TypeOK, NEW u \in Updater, NEW fault \in BOOLEAN, Call(u, fault),
         pc[u] \in On, NEW label \in On, pc' = [pc EXCEPT ![u] = label],
         UNCHANGED <<qmonSiebel, customer, torn, snap>>
  PROVE  [M!Next]_(M!vars)
<1>1. /\ Source' = Source /\ clock' = clock
      /\ Phase[u] = "on" /\ Phase' = Phase
      /\ Sounds' \in {Sounds, Sounds \ {u}}
  BY CallMaps
<1>2. CASE Sounds' = Sounds
  BY <1>1, <1>2 DEF M!vars
<1>3. CASE Sounds' = Sounds \ {u}
  <2>1. M!Fail(u)
    BY <1>1, <1>3 DEF M!Fail
  <2> QED
    BY <2>1 DEF M!Next
<1> QED
  BY <1>1, <1>2, <1>3

\* A call that writes the rows of one SR is a Write of Mirror if what it writes is
\* allowed there.
LEMMA WriteMaps ==
  ASSUME TypeOK, PairInv', TypeOK',
         NEW u \in Updater, NEW fault \in BOOLEAN, Call(u, fault),
         pc[u] \in On, NEW label \in On, pc' = [pc EXCEPT ![u] = label],
         snap' = snap,
         NEW s \in SR,
         qmonSiebel' = [qmonSiebel EXCEPT ![s] = qmonSiebel'[s]],
         customer' = [customer EXCEPT ![s] = customer'[s]],
         torn \/ u \in Sounds' => torn' = torn,
         \/ M!Add(u, s, qmonSiebel'[s], customer'[s])
         \/ M!Move(u, s, qmonSiebel'[s], customer'[s])
         \/ M!Edit(u, s, qmonSiebel'[s], customer'[s])
         \/ M!Drop(u, s, qmonSiebel'[s], customer'[s])
  PROVE  [M!Next]_(M!vars)
<1>1. /\ Source' = Source /\ clock' = clock
      /\ Phase[u] = "on" /\ Phase' = Phase
      /\ Sounds' \in {Sounds, Sounds \ {u}}
  BY CallMaps
<1>2. ~torn' => M!Paired(s)'
  <2>1. ASSUME ~torn', qmonSiebel'[s] # NoRow PROVE customer'[s] # NoRow
    <3>1. qmonSiebel'[s].fields \in Fields
      BY <2>1 DEF TypeOK, QmonRow
    <3> QED
      BY <2>1, <3>1, ConstantsAssumption DEF PairInv
  <2>2. ASSUME ~torn', qmonSiebel'[s] = NoRow PROVE customer'[s] = NoRow
    BY <2>2 DEF PairInv
  <2> QED
    BY <2>1, <2>2 DEF M!Paired
<1>3. M!Write(u)
  BY <1>1, <1>2 DEF M!Write
<1> QED
  BY <1>3 DEF M!Next

-----------------------------------------------------------------------------
(* The steps                                                               *)

LEMMA InitMaps == Init => M!Init
<1> SUFFICES ASSUME Init PROVE M!Init
  OBVIOUS
<1>1. Source \in [SR -> Item \cup {NoRow}]
  BY DEF Init, Source, Current, SiebelRow
<1>2. Phase = [u \in Updater |-> "off"]
  BY DEF Init, Phase
<1>3. Sounds = {}
  BY DEF Init, Sounds, Sound
<1> QED
  BY <1>1, <1>2, <1>3 DEF Init, M!Init, M!Empty, Empty, M!Item, Item

LEMMA ChangeMaps ==
  ASSUME TypeOK, TypeOK', NEW s \in SR, Change(s)
  PROVE  [M!Next]_(M!vars)
<1>1. Source' \in [SR -> Item \cup {NoRow}]
  BY DEF TypeOK, Source, Current, SiebelRow
<1>2. Phase' = Phase
  BY DEF Change, Phase
<1>3. Sounds' = Sounds
  <2>1. ASSUME NEW v \in Updater PROVE Sound(v)' <=> Sound(v)
    BY DEF TypeOK, Change, Sound, Busy
  <2> QED
    BY <2>1 DEF Sounds
<1>4. M!Upstream
  BY <1>1, <1>2, <1>3 DEF Change, tables, list, M!Upstream, M!Item, Item
<1> QED
  BY <1>4 DEF M!Next

LEMMA TickMaps ==
  ASSUME Tick
  PROVE  [M!Next]_(M!vars)
<1>1. /\ Source' = Source /\ Phase' = Phase /\ Sounds' = Sounds
      /\ clock' = clock + 1 /\ UNCHANGED <<qmonSiebel, customer, torn, snap>>
  BY DEF Tick, Source, Current, Phase, Sounds, Sound, upstream, tables, list
<1>2. M!Tick
  BY <1>1 DEF M!Tick
<1> QED
  BY <1>2 DEF M!Next

\* A pass is sound from its start if it has the whole list and is alone.
LEMMA FetchMaps ==
  ASSUME TypeOK, TypeOK', NEW u \in Updater, Fetch(u)
  PROVE  [M!Next]_(M!vars)
<1> DEFINE all == {o \in SR \X Branch : o[2] \in Listed(o[1])}
<1>1. PICK got \in SUBSET all :
        /\ snap' = [snap EXCEPT ![u] =
              [s \in SR |-> IF \E b \in Branch : <<s, b>> \in got
                            THEN siebel[s].item ELSE NoRow]]
        /\ disturbed' = [v \in Updater |->
              IF v = u THEN (IF got # all THEN {"fault"} ELSE {})
                            \cup (IF Busy # {} THEN {"overlap"} ELSE {})
              ELSE IF v \in Busy THEN disturbed[v] \cup {"overlap"}
              ELSE disturbed[v]]
  BY DEF Fetch
<1> DEFINE fetched == [s \in SR |-> IF \E b \in Branch : <<s, b>> \in got
                                    THEN siebel[s].item ELSE NoRow]
<1>2. /\ pc[u] = "idle" /\ pc' = [pc EXCEPT ![u] = "next"]
      /\ UNCHANGED <<siebel, qmonSiebel, customer, torn, clock>>
  BY DEF Fetch, Goto, upstream, tables
<1>3. Source' = Source
  BY <1>2 DEF Source, Current
<1>4. Phase[u] = "off" /\ Phase' = [Phase EXCEPT ![u] = "on"]
  BY <1>2, PhaseOf, PhaseStep DEF PC
<1>5. fetched \in [SR -> Item \cup {NoRow}]
  <2>1. snap'[u] = fetched
    BY <1>1 DEF TypeOK
  <2>2. snap'[u] \in [SR -> Item \cup {NoRow}]
    BY DEF TypeOK
  <2> HIDE DEF fetched
  <2> QED
    BY <2>1, <2>2
<1>6. ASSUME NEW s \in SR
      PROVE  fetched[s] \in {Source[s], NoRow}
  <2>1. CASE \E b \in Branch : <<s, b>> \in got
    <3>1. siebel[s] # NoRow
      BY <2>1 DEF Listed
    <3> QED
      BY <2>1, <3>1 DEF Source, Current
  <2>2. CASE ~ \E b \in Branch : <<s, b>> \in got
    BY <2>2
  <2> QED
    BY <2>1, <2>2
<1>7. Sounds' \in {{}, {u}}
  <2>1. ASSUME NEW v \in Updater, v # u PROVE ~Sound(v)'
    BY <1>1, <1>2, <2>1 DEF Sound, Busy, TypeOK
  <2> QED
    BY <2>1 DEF Sounds
<1>8. ASSUME u \in Sounds'
      PROVE  fetched = Source /\ \A v \in Updater : Phase[v] = "off"
  <2>1. got = all /\ Busy = {}
    BY <1>1, <1>8 DEF Sounds, Sound
  <2>2. ASSUME NEW s \in SR PROVE fetched[s] = Source[s]
    <3>1. CASE siebel[s] = NoRow
      BY <2>1, <3>1 DEF Source, Current, Listed
    <3>2. CASE siebel[s] # NoRow
      <4>1. siebel[s] \in SiebelRow
        BY <3>2 DEF TypeOK
      <4>2. PICK b \in Branch : b \in siebel[s].via
        BY <4>1 DEF SiebelRow
      <4>3. <<s, b>> \in got
        BY <2>1, <3>2, <4>2 DEF Listed
      <4> QED
        BY <3>2, <4>3 DEF Source, Current
    <3> QED
      BY <3>1, <3>2
  <2>3. fetched = Source
    BY <2>2 DEF Source
  <2> QED
    BY <2>1, <2>3, PhaseOf DEF Busy
<1> HIDE DEF fetched
<1>9. snap' = [snap EXCEPT ![u] = fetched]
  BY <1>1 DEF fetched
<1>10. M!Begin(u)
  BY <1>2, <1>3, <1>4, <1>5, <1>6, <1>7, <1>8, <1>9 DEF M!Begin, M!Item, Item
<1> QED
  BY <1>10 DEF M!Next

LEMMA CheckExistsMaps ==
  ASSUME TypeOK, NEW u \in Updater, CheckExists(u)
  PROVE  [M!Next]_(M!vars)
<1>1. PICK o \in todo[u], fault \in BOOLEAN :
        /\ Call(u, fault)
        /\ Goto(u, IF fault \/ qmonSiebel[o[1]] = NoRow THEN "insert" ELSE "queue")
  BY DEF CheckExists
<1>2. pc[u] \in On /\ UNCHANGED <<qmonSiebel, customer, torn, snap>>
  BY DEF CheckExists, tables, On
<1>3. PICK label \in On : pc' = [pc EXCEPT ![u] = label]
  BY <1>1 DEF Goto, On
<1> QED
  BY <1>1, <1>2, <1>3, QuietMaps

LEMMA CheckQueueMaps ==
  ASSUME TypeOK, NEW u \in Updater, CheckQueue(u)
  PROVE  [M!Next]_(M!vars)
<1>1. PICK fault \in BOOLEAN, label \in On :
        Call(u, fault) /\ pc' = [pc EXCEPT ![u] = label]
  BY DEF CheckQueue, Goto, On
<1>2. pc[u] \in On /\ UNCHANGED <<qmonSiebel, customer, torn, snap>>
  BY DEF CheckQueue, tables, list, On
<1> QED
  BY <1>1, <1>2, QuietMaps

LEMMA ListRowsMaps ==
  ASSUME TypeOK, NEW u \in Updater, ListRows(u)
  PROVE  [M!Next]_(M!vars)
<1>1. PICK fault \in BOOLEAN : Call(u, fault)
  BY DEF ListRows
<1>2. /\ pc[u] \in On /\ "sweep" \in On /\ pc' = [pc EXCEPT ![u] = "sweep"]
      /\ UNCHANGED <<qmonSiebel, customer, torn, snap>>
  BY DEF ListRows, Goto, tables, list, On
<1> QED
  BY <1>1, <1>2, QuietMaps

\* Without a failed statement, and as long as no transaction was torn, the two
\* INSERTs of an SR take effect together.
LEMMA InsertMaps ==
  ASSUME IInv, IInv', NEW u \in Updater, Insert(u)
  PROVE  [M!Next]_(M!vars)
<1>0. TypeOK /\ TypeOK' /\ PairInv /\ PairInv' /\ PassInv /\ pc[u] = "insert"
  BY DEF IInv, Insert
<1>1. PICK s \in SR : s = cur[u] /\ snap[u][s] # NoRow
  BY <1>0, AtHand
<1> DEFINE new == [queue |-> snap[u][s].queue, fields |-> snap[u][s].fields, inqueue |-> clock]
<1>2. PICK failed \in SUBSET Table :
        LET ok  == {t \in Table \ failed : IF t = "CUSTOMER" THEN customer[s] = NoRow
                                                            ELSE qmonSiebel[s] = NoRow}
            eff == Effects(ok)
        IN  /\ Call(u, failed # {})
            /\ qmonSiebel' = IF "QMON_SIEBEL" \in eff
                             THEN [qmonSiebel EXCEPT ![s] = new] ELSE qmonSiebel
            /\ customer' = IF "CUSTOMER" \in eff
                           THEN [customer EXCEPT ![s] = snap[u][s].fields] ELSE customer
            /\ torn' = (torn \/ eff \notin {{}, Table})
  BY <1>1 DEF Insert
<1> DEFINE ok  == {t \in Table \ failed : IF t = "CUSTOMER" THEN customer[s] = NoRow
                                                            ELSE qmonSiebel[s] = NoRow}
           eff == Effects(ok)
<1>3. eff \subseteq ok /\ ok \subseteq Table
  BY DEF Effects
<1>4. /\ "QMON_SIEBEL" \in eff => qmonSiebel[s] = NoRow
      /\ "CUSTOMER" \in eff => customer[s] = NoRow
  BY <1>3
<1>5. \/ qmonSiebel' = [qmonSiebel EXCEPT ![s] = new] /\ qmonSiebel[s] = NoRow
      \/ qmonSiebel' = qmonSiebel
  BY <1>2, <1>4
<1>6. \/ customer' = [customer EXCEPT ![s] = snap[u][s].fields] /\ customer[s] = NoRow
      \/ customer' = customer
  BY <1>2, <1>4
<1>7. /\ pc[u] \in On /\ "next" \in On /\ pc' = [pc EXCEPT ![u] = "next"]
      /\ snap' = snap
  BY DEF Insert, Goto, list, On
<1>8. ASSUME torn \/ u \in Sounds'
      PROVE  torn' = torn
  <2>1. CASE torn
    BY <1>2, <2>1
  <2>2. CASE ~torn
    <3>1. failed = {}
      <4>1. (failed # {}) \in BOOLEAN /\ Call(u, failed # {})
        BY <1>2
      <4> QED
        BY <1>0, <1>7, <1>8, <2>2, <4>1, CallMaps
    <3>2. customer[s] = NoRow <=> qmonSiebel[s] = NoRow
      <4>1. qmonSiebel[s] # NoRow => qmonSiebel[s].fields \in Fields
        BY <1>0 DEF TypeOK, QmonRow
      <4> QED
        BY <1>0, <2>2, <4>1, ConstantsAssumption DEF PairInv
    <3>3. ok \in {{}, Table}
      BY <3>1, <3>2 DEF Table
    <3>4. eff \in {{}, Table}
      BY <3>3 DEF Effects, Table
    <3> QED
      BY <1>0, <1>2, <3>4, <2>2 DEF TypeOK
  <2> QED
    BY <2>1, <2>2
<1>9. M!Add(u, s, qmonSiebel'[s], customer'[s])
  BY <1>0, <1>1, <1>5, <1>6 DEF M!Add, TypeOK
<1>10. /\ qmonSiebel' = [qmonSiebel EXCEPT ![s] = qmonSiebel'[s]]
       /\ customer' = [customer EXCEPT ![s] = customer'[s]]
  BY <1>0, <1>5, <1>6 DEF TypeOK
<1>11. (failed # {}) \in BOOLEAN /\ Call(u, failed # {})
  BY <1>2
<1> QED
  BY <1>0, <1>7, <1>8, <1>9, <1>10, <1>11, WriteMaps

\* A sound pass moves only a row whose queue differs.
LEMMA SetQueueMaps ==
  ASSUME IInv, IInv', NEW u \in Updater, SetQueue(u)
  PROVE  [M!Next]_(M!vars)
<1>0. TypeOK /\ TypeOK' /\ PairInv' /\ PassInv /\ pc[u] = "setQueue"
  BY DEF IInv, SetQueue
<1>1. PICK s \in SR : s = cur[u] /\ snap[u][s] # NoRow
  BY <1>0, AtHand
<1>2. PICK fault \in BOOLEAN :
        /\ Call(u, fault)
        /\ qmonSiebel' = IF fault \/ qmonSiebel[s] = NoRow THEN qmonSiebel
                         ELSE [qmonSiebel EXCEPT ![s] =
                                 [queue   |-> snap[u][s].queue,
                                  fields  |-> @.fields,
                                  inqueue |-> clock]]
  BY <1>1 DEF SetQueue
<1>3. /\ pc[u] \in On /\ "setItem" \in On /\ pc' = [pc EXCEPT ![u] = "setItem"]
      /\ UNCHANGED <<customer, torn, snap>>
  BY DEF SetQueue, Goto, list, On
<1>4. CASE fault \/ qmonSiebel[s] = NoRow
  BY <1>0, <1>2, <1>3, <1>4, QuietMaps
<1>5. CASE ~fault /\ qmonSiebel[s] # NoRow
  <2> DEFINE r == [queue |-> snap[u][s].queue, fields |-> qmonSiebel[s].fields, inqueue |-> clock]
  <2>1. qmonSiebel' = [qmonSiebel EXCEPT ![s] = r] /\ qmonSiebel'[s] = r
    BY <1>0, <1>2, <1>5 DEF TypeOK
  <2>3. u \in Sounds' => qmonSiebel[s].queue # snap[u][s].queue
    <3> SUFFICES ASSUME u \in Sounds' PROVE qmonSiebel[s].queue # snap[u][s].queue
      OBVIOUS
    <3>1. Sound(u)
      BY <1>0, <1>2, <1>3, CallMaps DEF Sounds
    <3> QED
      BY <1>0, <1>1, <3>1 DEF PassInv, SoundInv
  <2>4. customer'[s] = customer[s]
    BY <1>3
  <2>5. M!Move(u, s, qmonSiebel'[s], customer'[s])
    BY <1>1, <1>5, <2>1, <2>3, <2>4 DEF M!Move
  <2>6. /\ qmonSiebel' = [qmonSiebel EXCEPT ![s] = qmonSiebel'[s]]
        /\ customer' = [customer EXCEPT ![s] = customer'[s]]
    BY <1>0, <1>3, <2>1 DEF TypeOK
  <2> QED
    BY <1>0, <1>2, <1>3, <2>5, <2>6, WriteMaps
<1> QED
  BY <1>4, <1>5

LEMMA SetItemMaps ==
  ASSUME IInv, IInv', NEW u \in Updater, SetItem(u)
  PROVE  [M!Next]_(M!vars)
<1>0. TypeOK /\ TypeOK' /\ PairInv' /\ PassInv /\ pc[u] = "setItem"
  BY DEF IInv, SetItem
<1>1. PICK s \in SR : s = cur[u] /\ snap[u][s] # NoRow
  BY <1>0, AtHand
<1>2. PICK failed \in SUBSET Table :
        LET eff == Effects(Table \ failed) IN
        /\ Call(u, failed # {})
        /\ qmonSiebel' = IF "QMON_SIEBEL" \in eff /\ qmonSiebel[s] # NoRow
                         THEN [qmonSiebel EXCEPT ![s].fields = snap[u][s].fields]
                         ELSE qmonSiebel
        /\ customer' = IF "CUSTOMER" \in eff /\ customer[s] # NoRow
                       THEN [customer EXCEPT ![s] = snap[u][s].fields]
                       ELSE customer
        /\ torn' = (torn \/ eff \notin {{}, Table})
  BY <1>1 DEF SetItem
<1>3. /\ pc[u] \in On /\ "next" \in On /\ pc' = [pc EXCEPT ![u] = "next"]
      /\ snap' = snap
  BY DEF SetItem, Goto, list, On
<1>4. (failed # {}) \in BOOLEAN /\ Call(u, failed # {})
  BY <1>2
<1>5. ASSUME torn \/ u \in Sounds'
      PROVE  torn' = torn
  <2>1. CASE torn
    BY <1>2, <2>1
  <2>2. CASE ~torn
    <3>1. failed = {}
      BY <1>0, <1>3, <1>4, <1>5, <2>2, CallMaps
    <3>2. Effects(Table \ failed) = Table
      BY <3>1 DEF Effects, Table
    <3> QED
      BY <1>0, <1>2, <2>2, <3>2 DEF TypeOK
  <2> QED
    BY <2>1, <2>2
<1>6. \/ /\ qmonSiebel[s] # NoRow
         /\ qmonSiebel' = [qmonSiebel EXCEPT ![s] =
                             [qmonSiebel[s] EXCEPT !.fields = snap[u][s].fields]]
      \/ qmonSiebel' = qmonSiebel
  BY <1>2
<1>7. \/ customer' = [customer EXCEPT ![s] = snap[u][s].fields] /\ customer[s] # NoRow
      \/ customer' = customer
  BY <1>2
<1>8. \/ /\ qmonSiebel[s] # NoRow
         /\ qmonSiebel'[s] = [qmonSiebel[s] EXCEPT !.fields = snap[u][s].fields]
      \/ qmonSiebel'[s] = qmonSiebel[s]
  BY <1>0, <1>6 DEF TypeOK
<1>9. M!Edit(u, s, qmonSiebel'[s], customer'[s])
  BY <1>0, <1>1, <1>7, <1>8 DEF M!Edit, TypeOK
<1>10. /\ qmonSiebel' = [qmonSiebel EXCEPT ![s] = qmonSiebel'[s]]
       /\ customer' = [customer EXCEPT ![s] = customer'[s]]
  BY <1>0, <1>6, <1>7 DEF TypeOK
<1> QED
  BY <1>0, <1>3, <1>4, <1>5, <1>9, <1>10, WriteMaps

\* What is doomed is not of the list.
LEMMA SweepMaps ==
  ASSUME IInv, IInv', NEW u \in Updater, Sweep(u)
  PROVE  [M!Next]_(M!vars)
<1>0. TypeOK /\ TypeOK' /\ PairInv' /\ PassInv /\ pc[u] = "sweep"
  BY DEF IInv, Sweep
<1>1. PICK s \in doomed[u], failed \in SUBSET Table :
        LET eff == Effects(Table \ failed) IN
        /\ Call(u, failed # {})
        /\ qmonSiebel' = IF "QMON_SIEBEL" \in eff
                         THEN [qmonSiebel EXCEPT ![s] = NoRow] ELSE qmonSiebel
        /\ customer' = IF "CUSTOMER" \in eff
                       THEN [customer EXCEPT ![s] = NoRow] ELSE customer
        /\ torn' = (torn \/ eff \notin {{}, Table})
  BY DEF Sweep
<1>2. s \in SR /\ snap[u][s] = NoRow
  BY <1>0 DEF TypeOK, PassInv, ListInv
<1>3. /\ pc[u] \in On /\ pc' = [pc EXCEPT ![u] = "sweep"] /\ "sweep" \in On
      /\ snap' = snap
  BY <1>0 DEF Sweep, list, On, TypeOK
<1>4. (failed # {}) \in BOOLEAN /\ Call(u, failed # {})
  BY <1>1
<1>5. ASSUME torn \/ u \in Sounds'
      PROVE  torn' = torn
  <2>1. CASE torn
    BY <1>1, <2>1
  <2>2. CASE ~torn
    <3>1. failed = {}
      BY <1>0, <1>3, <1>4, <1>5, <2>2, CallMaps
    <3>2. Effects(Table \ failed) = Table
      BY <3>1 DEF Effects, Table
    <3> QED
      BY <1>0, <1>1, <2>2, <3>2 DEF TypeOK
  <2> QED
    BY <2>1, <2>2
<1>6. /\ qmonSiebel' \in {qmonSiebel, [qmonSiebel EXCEPT ![s] = NoRow]}
      /\ customer' \in {customer, [customer EXCEPT ![s] = NoRow]}
  BY <1>1
<1>7. M!Drop(u, s, qmonSiebel'[s], customer'[s])
  BY <1>0, <1>2, <1>6 DEF M!Drop, TypeOK
<1>8. /\ qmonSiebel' = [qmonSiebel EXCEPT ![s] = qmonSiebel'[s]]
      /\ customer' = [customer EXCEPT ![s] = customer'[s]]
  BY <1>0, <1>2, <1>6 DEF TypeOK
<1> QED
  BY <1>0, <1>2, <1>3, <1>4, <1>5, <1>7, <1>8, WriteMaps

\* FinishedMatchesList, at the moment it is reported.
LEMMA FinishMaps ==
  ASSUME IInv, IInv', NEW u \in Updater, Finish(u)
  PROVE  [M!Next]_(M!vars)
<1>0. TypeOK /\ PassInv /\ PassInv' /\ TypeOK'
  BY DEF IInv
<1>1. /\ pc[u] = "sweep" /\ pc' = [pc EXCEPT ![u] = "finished"]
      /\ UNCHANGED <<siebel, qmonSiebel, customer, torn, clock, snap, disturbed>>
  BY DEF Finish, Goto, upstream, tables, list
<1>2. Phase[u] = "on" /\ Phase' = [Phase EXCEPT ![u] = "done"]
  BY <1>0, <1>1, PhaseOf, PhaseStep DEF PC
<1>3. Source' = Source /\ Sounds' = Sounds
  BY <1>0, <1>1 DEF Source, Current, Sounds, Sound, TypeOK
<1>4. ASSUME u \in Sounds, ~torn, NEW s \in SR
      PROVE  M!Copied(u, s)
  <2>1. /\ ListInv(u)' /\ SoundInv(u)' /\ pc'[u] = "finished" /\ ~torn'
    BY <1>0, <1>1, <1>3, <1>4 DEF PassInv, Sounds, TypeOK
  <2>2. CASE snap[u][s] = NoRow
    <3>1. qmonSiebel'[s] = NoRow
      BY <1>1, <2>1, <2>2 DEF SoundInv
    <3> QED
      BY <1>1, <2>2, <3>1 DEF M!Copied
  <2>3. CASE snap[u][s] # NoRow
    <3>1. s \in newList'[u] \ {cur'[u]}
      BY <1>1, <2>1, <2>3, ConstantsAssumption DEF ListInv
    <3>2. Matches(s, snap[u][s])
      BY <1>1, <2>1, <3>1 DEF SoundInv, Matches
    <3> QED
      BY <2>3, <3>2 DEF M!Copied, Matches
  <2> QED
    BY <2>2, <2>3
<1>5. M!Answer(u)
  BY <1>1, <1>2, <1>3, <1>4 DEF M!Answer
<1> QED
  BY <1>5 DEF M!Next

LEMMA ForgetMaps ==
  ASSUME TypeOK, NEW u \in Updater, pc[u] # "idle", Forget(u)
  PROVE  [M!Next]_(M!vars)
<1>1. /\ pc' = [pc EXCEPT ![u] = "idle"] /\ snap' = [snap EXCEPT ![u] = Empty]
      /\ disturbed' = [disturbed EXCEPT ![u] = {}]
      /\ UNCHANGED <<siebel, qmonSiebel, customer, torn, clock>>
  BY DEF Forget, Goto, upstream, tables
<1>2. Phase[u] # "off" /\ Phase' = [Phase EXCEPT ![u] = "off"]
  BY <1>1, PhaseOf, PhaseStep DEF PC
<1>3. Source' = Source /\ Sounds' = Sounds \ {u}
  <2>1. \A v \in Updater \ {u} : Sound(v)' <=> Sound(v)
    BY <1>1 DEF Sound, TypeOK
  <2>2. ~Sound(u)'
    BY <1>1 DEF Sound, TypeOK
  <2>3. Sounds' = Sounds \ {u}
    BY <2>1, <2>2 DEF Sounds
  <2> QED
    BY <1>1, <2>3 DEF Source, Current
<1>4. M!End(u)
  BY <1>1, <1>2, <1>3 DEF M!End, M!Empty, Empty
<1> QED
  BY <1>4 DEF M!Next

\* A request may end before its pass has begun, too.
LEMMA IdleForgetMaps ==
  ASSUME IInv, NEW u \in Updater, pc[u] = "idle", Forget(u)
  PROVE  UNCHANGED M!vars
<1>1. \A s \in SR : snap[u][s] = NoRow
  BY DEF IInv, PassInv, ListInv
<1>2. snap[u] = Empty
  BY <1>1 DEF IInv, TypeOK, Empty
<1>3. pc' = pc /\ snap' = snap /\ UNCHANGED <<siebel, qmonSiebel, customer, torn, clock>>
  BY <1>2 DEF Forget, Goto, upstream, tables, IInv, TypeOK
<1>4. \A v \in Updater : Sound(v)' <=> Sound(v)
  BY <1>3 DEF Forget, Sound, IInv, TypeOK
<1> QED
  BY <1>3, <1>4 DEF M!vars, Source, Current, Phase, Sounds

-----------------------------------------------------------------------------
(* The refinement                                                          *)

LEMMA NextMaps == IInv /\ IInv' /\ [Next]_vars => [M!Next]_(M!vars)
<1> SUFFICES ASSUME IInv, IInv', [Next]_vars PROVE [M!Next]_(M!vars)
  OBVIOUS
<1>0. TypeOK /\ TypeOK'
  BY DEF IInv
<1>1. ASSUME NEW s \in SR, Change(s) PROVE [M!Next]_(M!vars)
  BY <1>0, <1>1, ChangeMaps
<1>2. CASE Tick
  BY <1>2, TickMaps
<1>3. ASSUME NEW u \in Updater, Fetch(u) PROVE [M!Next]_(M!vars)
  BY <1>0, <1>3, FetchMaps
<1>4. ASSUME NEW u \in Updater, Work(u) PROVE [M!Next]_(M!vars)
  BY <1>0, <1>4, CheckExistsMaps, InsertMaps, CheckQueueMaps, SetQueueMaps, SetItemMaps,
     ListRowsMaps, SweepMaps, FinishMaps DEF Work
<1>5. ASSUME NEW u \in Updater, Reply(u) \/ Crash(u) PROVE [M!Next]_(M!vars)
  BY <1>0, <1>5, ForgetMaps DEF Reply, Crash
<1>6. CASE UNCHANGED vars
  <2>1. Source' = Source /\ Phase' = Phase /\ Sounds' = Sounds
    BY <1>6 DEF vars, Source, Current, Phase, Sounds, Sound
  <2> QED
    BY <1>6, <2>1 DEF vars, M!vars
<1> QED
  BY <1>1, <1>2, <1>3, <1>4, <1>5, <1>6 DEF Next

\* /updateDB implements Mirror: whatever passes overlap, fail and die, readers find
\* in the tables what Mirror promises them.
THEOREM ImplementsMirror == Spec => MirrorSpec
  BY InitMaps, NextMaps, Invariance, PTL DEF Spec, MirrorSpec, M!Spec
=============================================================================
