-------------------------------- MODULE Mirror --------------------------------
(***************************************************************************)
(* What the tables that /updateDB fills promise to their readers, with no  *)
(* word on how a pass goes about it:                                       *)
(*   - a row shows what some pass in progress fetched, and is stamped with *)
(*     the time it entered its queue;                                      *)
(*   - only a pass whose list lacks an SR may drop the SR's row;           *)
(*   - a sound pass - alone, with the whole list and no error so far -     *)
(*     stamps only what it moves, leaves no half of an SR behind, and      *)
(*     reports its end only over a faithful copy of its list.              *)
(* UnityUpdate implements this (UnityUpdate!MirrorSpec).                   *)
(***************************************************************************)
EXTENDS Naturals

CONSTANTS Updater, SR, Queue, Fields, NoRow

VARIABLES
  source,   \* the upstream database: per SR its item
  row,      \* the mirrored queue entries
  person,   \* the mirrored customer data
  now,      \* the time
  list,     \* per pass: what it fetched
  phase,    \* per pass: "off", "on", or "done" once it reported its end
  sound,    \* the sound passes
  torn      \* a row and its customer were once parted by a failure

vars == <<source, row, person, now, list, phase, sound, torn>>

Item  == [queue: Queue, fields: Fields]
Empty == [s \in SR |-> NoRow]

Paired(s) == (row[s] = NoRow) <=> (person[s] = NoRow)

\* Row and customer of s are what pass u fetched.
Copied(u, s) ==
  IF list[u][s] = NoRow
  THEN row[s] = NoRow
  ELSE /\ row[s] # NoRow
       /\ row[s].queue  = list[u][s].queue
       /\ row[s].fields = list[u][s].fields
       /\ person[s]     = list[u][s].fields

Init ==
  /\ source \in [SR -> Item \cup {NoRow}]
  /\ row    = Empty
  /\ person = Empty
  /\ now    = 0
  /\ list   = [u \in Updater |-> Empty]
  /\ phase  = [u \in Updater |-> "off"]
  /\ sound  = {}
  /\ torn   = FALSE

Upstream ==
  /\ source' \in [SR -> Item \cup {NoRow}]
  /\ UNCHANGED <<row, person, now, list, phase, sound, torn>>

Tick ==
  /\ now' = now + 1
  /\ UNCHANGED <<source, row, person, list, phase, sound, torn>>

Begin(u) ==
  /\ phase[u] = "off"
  /\ phase' = [phase EXCEPT ![u] = "on"]
  /\ \E l \in [SR -> Item \cup {NoRow}] :
       /\ \A s \in SR : l[s] \in {source[s], NoRow}
       /\ list' = [list EXCEPT ![u] = l]
       /\ sound' \in {{}, {u}}
       /\ u \in sound' => l = source /\ \A v \in Updater : phase[v] = "off"
  /\ UNCHANGED <<source, row, person, now, torn>>

\* What pass u may make of SR s: the new row and the new customer data.
Add(u, s, r, p) ==
  /\ list[u][s] # NoRow
  /\ r \in {row[s]} \cup (IF row[s] # NoRow THEN {}
                          ELSE {[queue   |-> list[u][s].queue,
                                 fields  |-> list[u][s].fields,
                                 inqueue |-> now]})
  /\ p \in {person[s]} \cup (IF person[s] # NoRow THEN {} ELSE {list[u][s].fields})

Move(u, s, r, p) ==
  /\ list[u][s] # NoRow
  /\ row[s] # NoRow
  /\ r = [queue |-> list[u][s].queue, fields |-> row[s].fields, inqueue |-> now]
  /\ u \in sound' => row[s].queue # list[u][s].queue
  /\ p = person[s]

Edit(u, s, r, p) ==
  /\ list[u][s] # NoRow
  /\ r \in {row[s]} \cup (IF row[s] = NoRow THEN {}
                          ELSE {[row[s] EXCEPT !.fields = list[u][s].fields]})
  /\ p \in {person[s]} \cup (IF person[s] = NoRow THEN {} ELSE {list[u][s].fields})

Drop(u, s, r, p) ==
  /\ list[u][s] = NoRow
  /\ r \in {row[s], NoRow}
  /\ p \in {person[s], NoRow}

Write(u) ==
  /\ phase[u] = "on"
  /\ sound' \in {sound, sound \ {u}}
  /\ \E s \in SR, r \in {row'[t] : t \in SR}, p \in {person'[t] : t \in SR} :
       /\ Add(u, s, r, p) \/ Move(u, s, r, p) \/ Edit(u, s, r, p) \/ Drop(u, s, r, p)
       /\ row'    = [row EXCEPT ![s] = r]
       /\ person' = [person EXCEPT ![s] = p]
       /\ torn \/ u \in sound' => torn' = torn
       /\ ~torn' => Paired(s)'
  /\ UNCHANGED <<source, now, list, phase>>

\* A query of pass u failed and nothing else happened.
Fail(u) ==
  /\ phase[u] = "on"
  /\ sound' = sound \ {u}
  /\ UNCHANGED <<source, row, person, now, list, phase, torn>>

Answer(u) ==
  /\ phase[u] = "on"
  /\ u \in sound /\ ~torn => \A s \in SR : Copied(u, s)
  /\ phase' = [phase EXCEPT ![u] = "done"]
  /\ UNCHANGED <<source, row, person, now, list, sound, torn>>

End(u) ==
  /\ phase[u] # "off"
  /\ phase' = [phase EXCEPT ![u] = "off"]
  /\ list'  = [list EXCEPT ![u] = Empty]
  /\ sound' = sound \ {u}
  /\ UNCHANGED <<source, row, person, now, torn>>

Next ==
  \/ Upstream
  \/ Tick
  \/ \E u \in Updater : Begin(u) \/ Write(u) \/ Fail(u) \/ Answer(u) \/ End(u)

Spec == Init /\ [][Next]_vars
=============================================================================
