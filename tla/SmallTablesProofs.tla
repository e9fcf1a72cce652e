--------------------------- MODULE SmallTablesProofs ---------------------------
(***************************************************************************)
(* Proofs about the tables that are no queue, for any workers, customers,  *)
(* pseudo queues and bugs, both kinds of engine, and any number of changes *)
(* and failures.  Two invariants say how far a worker that nothing has     *)
(* disturbed has come, and one counts:                                     *)
(*    LtssInv   in /ltssupdate: alone, in one transaction, which takes out *)
(*              what the table holds and puts in what it has dealt with;   *)
(*    FullInv   in updatePseudoQueues: alone, and what it has dealt with   *)
(*              is in the table or in its transaction, unless a known name *)
(*              undid that;                                                *)
(*    BugInv    a row of BUG has taken the place of a worker that was      *)
(*              asked for the bug.                                         *)
(* What disturbs a worker is seen at once (Spoils), so that the table is   *)
(* not held to a list that it need not have.                               *)
(***************************************************************************)
EXTENDS SmallTables, FiniteSetTheorems, TLAPS

Labels == {"idle", "delete", "ltssInsert", "pseudoInsert", "pseudoCommit",
           "bugFetch", "bugInsert"}

SmallTypes ==
  /\ pc \in [Worker -> Labels]
  /\ {undoes, spoiled} \subseteq BOOLEAN
  /\ txn \in [Worker -> BOOLEAN]
  /\ disturbed \in [Worker -> BOOLEAN]
  /\ DOMAIN list = Worker /\ DOMAIN todo = Worker
  /\ DOMAIN gone = Worker /\ DOMAIN new = Worker
  /\ DOMAIN known = Worker
  /\ \A w \in Worker : pc[w] = "idle" => gone[w] = {} /\ new[w] = {}

LtssInv ==
  /\ ~spoiled => ltss = last
  /\ \A w \in Worker : pc[w] \in Ltss =>
       /\ disturbed[w] => spoiled
       /\ ~disturbed[w] =>
            /\ \A v \in Worker \ {w} : pc[v] \notin Ltss
            /\ txn[w]
            /\ todo[w] \subseteq list[w] /\ new[w] = list[w] \ todo[w]
            /\ gone[w] = IF pc[w] = "delete" THEN {} ELSE ltss

\* The transaction of w is undone by a name that was known when it began.
Undone(w) == undoes /\ list[w] \cap known[w] # {}

FullInv ==
  \A w \in Worker : pc[w] \in Pseudo /\ ~disturbed[w] =>
    /\ \A v \in Worker \ {w} : pc[v] \notin Pseudo
    /\ todo[w] \subseteq list[w]
    /\ \/ Undone(w)
       \/ /\ pc[w] = "pseudoInsert"
          /\ txn[w] /\ known[w] = pseudoQ
          /\ list[w] \ todo[w] \subseteq pseudoQ \cup new[w]
       \/ /\ pc[w] = "pseudoCommit"
          /\ list[w] \subseteq pseudoQ

\* Who is asked for b and has neither found nor inserted a row.
AskedFor(b) == {w \in Worker : bug[w] = b}

BugInv ==
  /\ bugRows \in [Bug -> Nat] /\ DOMAIN bug = Worker
  /\ \A b \in Bug : bugRows[b] + Cardinality(AskedFor(b)) <= Cardinality(Worker)

SmallInv == SmallTypes /\ LtssInv /\ FullInv

-----------------------------------------------------------------------------
(* Steps that do not concern a table                                       *)

\* What a worker has for itself, but for the bug it is asked for.
Own(w) == <<list[w], todo[w], txn[w], gone[w], new[w], disturbed[w], known[w]>>

LEMMA LtssUntouched ==
  ASSUME LtssInv,
         UNCHANGED <<ltss, last, spoiled>>,
         \A v \in Worker : pc'[v] \in Ltss => pc'[v] = pc[v] /\ Own(v)' = Own(v)
  PROVE  LtssInv'
BY DEF LtssInv, Own

LEMMA PseudoUntouched ==
  ASSUME FullInv,
         UNCHANGED <<undoes, pseudoQ>>,
         \A v \in Worker : pc'[v] \in Pseudo => pc'[v] = pc[v] /\ Own(v)' = Own(v)
  PROVE  FullInv'
BY DEF FullInv, Undone, Own

LEMMA SmallInit == Init => SmallInv
<1> SUFFICES ASSUME Init PROVE SmallInv
  OBVIOUS
<1>1. \A w \in Worker : pc[w] = "idle"
  BY DEF Init
<1>2. SmallTypes
  BY DEF Init, SmallTypes, Labels
<1>3. LtssInv
  BY <1>1 DEF Init, LtssInv, Ltss
<1>4. FullInv
  BY <1>1 DEF FullInv, Pseudo
<1> QED
  BY <1>2, <1>3, <1>4 DEF SmallInv

-----------------------------------------------------------------------------
(* /ltssupdate                                                             *)

LEMMA FetchLtssInv ==
  ASSUME SmallInv, NEW w \in Worker, FetchLtss(w)
  PROVE  SmallInv'
<1> DEFINE others == {v \in Worker \ {w} : pc[v] \in Ltss}
<1>1. PICK got \in SUBSET entitled :
        /\ BeginAmong(w, Ltss, got # entitled)
        /\ list' = [list EXCEPT ![w] = got]
  BY DEF FetchLtss
<1>2. /\ pc[w] = "idle" /\ pc' = [pc EXCEPT ![w] = "delete"]
      /\ todo' = [todo EXCEPT ![w] = list'[w]]
      /\ txn' = [txn EXCEPT ![w] = TRUE]
      /\ spoiled' = (spoiled \/ disturbed'[w])
      /\ last' = IF spoiled' THEN {} ELSE last
      /\ UNCHANGED <<undoes, ltss, pseudoQ, bugRows, gone, new, known>>
  BY <1>1 DEF FetchLtss, Goto, Spoils, BeginAmong, Count, sources, tables
<1>3. disturbed' = [v \in Worker |-> IF v = w THEN got # entitled \/ others # {}
                                     ELSE disturbed[v] \/ v \in others]
  BY <1>1 DEF BeginAmong
<1>4. SmallTypes'
  BY <1>1, <1>2, <1>3 DEF SmallInv, SmallTypes, Labels
<1>5. LtssInv'
  <2>1. ~spoiled' => ltss' = last'
    BY <1>2 DEF SmallInv, LtssInv
  <2>2. ASSUME NEW v \in Worker \ {w}, pc'[v] \in Ltss
        PROVE  disturbed'[v] /\ spoiled'
    BY <1>2, <1>3, <2>2 DEF SmallInv, SmallTypes
  <2>3. ~disturbed'[w] => \A v \in Worker \ {w} : pc'[v] \notin Ltss
    BY <1>2, <1>3 DEF SmallInv, SmallTypes
  <2>4. /\ txn'[w] /\ todo'[w] = list'[w]
        /\ gone'[w] = {} /\ new'[w] = {} /\ pc'[w] = "delete"
        /\ disturbed'[w] => spoiled'
    BY <1>1, <1>2 DEF SmallInv, SmallTypes
  <2> QED
    BY <2>1, <2>2, <2>3, <2>4 DEF LtssInv
<1>6. FullInv'
  <2>1. ASSUME NEW v \in Worker, pc'[v] \in Pseudo
        PROVE  pc'[v] = pc[v] /\ Own(v)' = Own(v)
    BY <1>1, <1>2, <1>3, <2>1 DEF SmallInv, SmallTypes, Own, Pseudo, Ltss
  <2> QED
    BY <1>2, <2>1, PseudoUntouched DEF SmallInv
<1> QED
  BY <1>4, <1>5, <1>6 DEF SmallInv

\* A worker in /ltssupdate does one of its statements: it stays there, and what it
\* does is of no concern to PSEUDOQ.
LEMMA LtssStatement ==
  ASSUME SmallInv, NEW w \in Worker, pc[w] \in {"delete", "ltssInsert"},
         pc' = [pc EXCEPT ![w] = "ltssInsert"],
         NEW fault \in BOOLEAN, disturbed' = [disturbed EXCEPT ![w] = @ \/ fault],
         spoiled' = (spoiled \/ disturbed'[w]),
         last' = IF spoiled' THEN {} ELSE last,
         DOMAIN todo' = Worker, DOMAIN gone' = Worker, DOMAIN new' = Worker,
         txn' \in [Worker -> BOOLEAN],
         UNCHANGED <<undoes, pseudoQ, bugRows, list, known>>,
         \A v \in Worker \ {w} : UNCHANGED <<todo[v], txn[v], gone[v], new[v]>>,
         ~spoiled' => ltss' = ltss,
         ~disturbed[w] /\ ~fault =>
           /\ ltss' = ltss /\ txn'[w]
           /\ todo'[w] \subseteq list[w] /\ new'[w] = list[w] \ todo'[w]
           /\ gone'[w] = ltss
  PROVE  SmallInv'
<1>1. SmallTypes'
  BY DEF SmallInv, SmallTypes, Labels
<1>2. LtssInv'
  <2>1. ~spoiled' => ltss' = last'
    BY DEF SmallInv, LtssInv
  <2>2. pc[w] \in Ltss /\ pc'[w] = "ltssInsert" /\ disturbed'[w] = (disturbed[w] \/ fault)
    BY DEF SmallInv, SmallTypes, Ltss
  <2>3. ASSUME NEW v \in Worker \ {w}, pc'[v] \in Ltss
        PROVE  disturbed'[v] /\ spoiled'
    <3>1. pc[v] \in Ltss /\ disturbed'[v] = disturbed[v]
      BY <2>3 DEF SmallInv, SmallTypes
    <3>2. disturbed[v] /\ spoiled
      BY <2>2, <3>1 DEF SmallInv, LtssInv, SmallTypes
    <3> QED
      BY <3>1, <3>2
  <2>4. ASSUME ~disturbed'[w], NEW v \in Worker \ {w}
        PROVE  pc'[v] \notin Ltss
    BY <2>2, <2>4 DEF SmallInv, SmallTypes, LtssInv
  <2>5. disturbed'[w] => spoiled'
    OBVIOUS
  <2> QED
    BY <2>1, <2>2, <2>3, <2>4, <2>5 DEF LtssInv
<1>3. FullInv'
  <2>1. ASSUME NEW v \in Worker, pc'[v] \in Pseudo
        PROVE  pc'[v] = pc[v] /\ Own(v)' = Own(v)
    BY <2>1 DEF SmallInv, SmallTypes, Own, Pseudo
  <2> QED
    BY <2>1, PseudoUntouched DEF SmallInv
<1> QED
  BY <1>1, <1>2, <1>3 DEF SmallInv

LEMMA DeleteLtssInv ==
  ASSUME SmallInv, NEW w \in Worker, DeleteLtss(w)
  PROVE  SmallInv'
<1>1. PICK fault \in BOOLEAN :
        /\ Call(w, fault) /\ Spoils(w)
        /\ IF fault THEN Fail(w) ELSE Keep(w, ltss, {})
  BY DEF DeleteLtss
<1>2. /\ pc[w] = "delete" /\ pc' = [pc EXCEPT ![w] = "ltssInsert"]
      /\ disturbed' = [disturbed EXCEPT ![w] = @ \/ fault]
      /\ spoiled' = (spoiled \/ disturbed'[w])
      /\ last' = IF spoiled' THEN {} ELSE last
      /\ UNCHANGED <<undoes, ltss, pseudoQ, bugRows, list, todo, known>>
  BY <1>1 DEF DeleteLtss, Goto, Call, Count, Spoils, sources, tables
<1>3. /\ DOMAIN gone' = Worker /\ DOMAIN new' = Worker
      /\ txn' \in [Worker -> BOOLEAN]
      /\ \A v \in Worker \ {w} : UNCHANGED <<txn[v], gone[v], new[v]>>
      /\ ~fault /\ txn[w] => /\ gone'[w] = gone[w] \cup ltss
                             /\ new'[w] = new[w] /\ txn'[w]
  <2>1. CASE fault
    BY <1>1, <2>1 DEF Fail, SmallInv, SmallTypes
  <2>2. CASE ~fault
    BY <1>1, <2>2 DEF Keep, SmallInv, SmallTypes
  <2> QED
    BY <2>1, <2>2
<1>4. ~disturbed[w] => /\ txn[w] /\ gone[w] = {}
                       /\ todo[w] \subseteq list[w] /\ new[w] = list[w] \ todo[w]
  BY <1>2 DEF SmallInv, LtssInv, Ltss
<1>5. ASSUME ~disturbed[w], ~fault
      PROVE  /\ ltss' = ltss /\ txn'[w]
             /\ todo'[w] \subseteq list[w] /\ new'[w] = list[w] \ todo'[w]
             /\ gone'[w] = ltss
  BY <1>2, <1>3, <1>4, <1>5
<1>6. DOMAIN todo' = Worker
  BY <1>2 DEF SmallInv, SmallTypes
<1>7. \A v \in Worker \ {w} : UNCHANGED todo[v]
  BY <1>2
<1> QED
  BY <1>2, <1>3, <1>5, <1>6, <1>7, LtssStatement

LEMMA InsertLtssInv ==
  ASSUME SmallInv, NEW w \in Worker, InsertLtss(w)
  PROVE  SmallInv'
<1>1. PICK row \in todo[w], fault \in BOOLEAN :
        /\ Call(w, fault) /\ Spoils(w)
        /\ IF fault THEN Fail(w) ELSE Keep(w, {}, {row})
        /\ ltss' = IF fault \/ txn[w] THEN ltss ELSE ltss \cup {row}
        /\ todo' = [todo EXCEPT ![w] = @ \ {row}]
  BY DEF InsertLtss
<1>2. /\ pc[w] = "ltssInsert" /\ UNCHANGED pc
      /\ disturbed' = [disturbed EXCEPT ![w] = @ \/ fault]
      /\ spoiled' = (spoiled \/ disturbed'[w])
      /\ last' = IF spoiled' THEN {} ELSE last
      /\ UNCHANGED <<undoes, pseudoQ, bugRows, list, known>>
  BY <1>1 DEF InsertLtss, Call, Count, Spoils, sources
<1>3. pc' = [pc EXCEPT ![w] = "ltssInsert"]
  BY <1>2 DEF SmallInv, SmallTypes
<1>4. /\ DOMAIN gone' = Worker /\ DOMAIN new' = Worker
      /\ txn' \in [Worker -> BOOLEAN]
      /\ \A v \in Worker \ {w} : UNCHANGED <<txn[v], gone[v], new[v]>>
      /\ ~fault /\ txn[w] => /\ new'[w] = new[w] \cup {row}
                             /\ gone'[w] = gone[w] /\ txn'[w]
  <2>1. CASE fault
    BY <1>1, <2>1 DEF Fail, SmallInv, SmallTypes
  <2>2. CASE ~fault
    BY <1>1, <2>2 DEF Keep, SmallInv, SmallTypes
  <2> QED
    BY <2>1, <2>2
<1>5. /\ DOMAIN todo' = Worker /\ todo'[w] = todo[w] \ {row}
      /\ \A v \in Worker \ {w} : UNCHANGED todo[v]
  BY <1>1 DEF SmallInv, SmallTypes
<1>6. ~disturbed[w] => /\ txn[w] /\ gone[w] = ltss
                       /\ todo[w] \subseteq list[w] /\ new[w] = list[w] \ todo[w]
  BY <1>2 DEF SmallInv, LtssInv, Ltss
<1>7. ASSUME ~disturbed[w], ~fault
      PROVE  /\ ltss' = ltss /\ txn'[w]
             /\ todo'[w] \subseteq list[w] /\ new'[w] = list[w] \ todo'[w]
             /\ gone'[w] = ltss
  BY <1>1, <1>4, <1>5, <1>6, <1>7
<1>8. ~spoiled' => ltss' = ltss
  BY <1>1, <1>2, <1>6 DEF SmallInv, SmallTypes
<1> QED
  BY <1>2, <1>3, <1>4, <1>5, <1>7, <1>8, LtssStatement

\* What Leave does to the workers.
LEMMA LeaveOne ==
  ASSUME SmallInv, NEW w \in Worker, Leave(w)
  PROVE  /\ pc' = [pc EXCEPT ![w] = "idle"]
         /\ \A v \in Worker \ {w} : pc'[v] = pc[v] /\ Own(v)' = Own(v)
         /\ DOMAIN list' = Worker /\ DOMAIN todo' = Worker
         /\ DOMAIN gone' = Worker /\ DOMAIN new' = Worker /\ DOMAIN known' = Worker
         /\ txn' \in [Worker -> BOOLEAN] /\ disturbed' \in [Worker -> BOOLEAN]
         /\ pc' \in [Worker -> Labels]
         /\ \A v \in Worker : pc'[v] = "idle" => gone'[v] = {} /\ new'[v] = {}
<1>1. pc' = [pc EXCEPT ![w] = "idle"] /\ pc' \in [Worker -> Labels]
  BY DEF Leave, Goto, SmallInv, SmallTypes, Labels
<1>2. /\ DOMAIN list' = Worker /\ DOMAIN todo' = Worker
      /\ DOMAIN gone' = Worker /\ DOMAIN new' = Worker /\ DOMAIN known' = Worker
      /\ txn' \in [Worker -> BOOLEAN] /\ disturbed' \in [Worker -> BOOLEAN]
  BY DEF Leave, SmallInv, SmallTypes
<1>3. \A v \in Worker \ {w} : pc'[v] = pc[v] /\ Own(v)' = Own(v)
  BY <1>1 DEF Leave, SmallInv, SmallTypes, Own
<1>4. gone'[w] = {} /\ new'[w] = {}
  BY DEF Leave, SmallInv, SmallTypes
<1>5. \A v \in Worker : pc'[v] = "idle" => gone'[v] = {} /\ new'[v] = {}
  BY <1>3, <1>4 DEF SmallInv, SmallTypes, Own
<1> QED
  BY <1>1, <1>2, <1>3, <1>5

LEMMA CommitLtssInv ==
  ASSUME SmallInv, NEW w \in Worker, CommitLtss(w)
  PROVE  SmallInv'
<1>1. PICK fault \in BOOLEAN :
        /\ Count(fault)
        /\ ltss' = IF fault THEN ltss ELSE (ltss \ gone[w]) \cup new[w]
        /\ spoiled' = (fault \/ disturbed[w])
        /\ last' = IF spoiled' THEN {} ELSE list[w]
  BY DEF CommitLtss
<1>2. /\ pc[w] = "ltssInsert" /\ todo[w] = {} /\ Leave(w)
      /\ UNCHANGED <<undoes, pseudoQ, bugRows>>
  BY <1>1 DEF CommitLtss, Count, sources
<1>3. /\ pc' = [pc EXCEPT ![w] = "idle"]
      /\ \A v \in Worker \ {w} : pc'[v] = pc[v] /\ Own(v)' = Own(v)
  BY <1>2, LeaveOne
<1>4. pc'[w] = "idle"
  BY <1>3 DEF SmallInv, SmallTypes
<1>5. SmallTypes'
  BY <1>1, <1>2, LeaveOne DEF SmallInv, SmallTypes
<1>6. LtssInv'
  <2>1. ~spoiled' => ltss' = last'
    BY <1>1, <1>2 DEF SmallInv, LtssInv, Ltss
  <2>2. ASSUME NEW v \in Worker, pc'[v] \in Ltss
        PROVE  disturbed'[v] /\ spoiled'
    <3>1. v # w /\ pc[v] \in Ltss /\ disturbed'[v] = disturbed[v]
      BY <1>3, <1>4, <2>2 DEF Ltss, Own
    <3>2. disturbed[v] /\ disturbed[w]
      BY <1>2, <3>1 DEF SmallInv, LtssInv, Ltss
    <3> QED
      BY <1>1, <3>1, <3>2
  <2> QED
    BY <2>1, <2>2 DEF LtssInv
<1>7. FullInv'
  BY <1>2, <1>3, <1>4, PseudoUntouched DEF SmallInv, Pseudo
<1> QED
  BY <1>5, <1>6, <1>7 DEF SmallInv

-----------------------------------------------------------------------------
(* updatePseudoQueues                                                      *)

LEMMA FetchPseudoInv ==
  ASSUME SmallInv, NEW w \in Worker, FetchPseudo(w)
  PROVE  SmallInv'
<1> DEFINE others == {v \in Worker \ {w} : pc[v] \in Pseudo}
<1>1. PICK got \in SUBSET queues :
        /\ BeginAmong(w, Pseudo, got # queues)
        /\ list' = [list EXCEPT ![w] = got]
  BY DEF FetchPseudo
<1>2. /\ pc[w] = "idle" /\ pc' = [pc EXCEPT ![w] = "pseudoInsert"]
      /\ todo' = [todo EXCEPT ![w] = list'[w]]
      /\ txn' = [txn EXCEPT ![w] = TRUE]
      /\ known' = [known EXCEPT ![w] = pseudoQ]
      /\ UNCHANGED <<undoes, ltss, pseudoQ, bugRows, gone, new, last, spoiled>>
  BY <1>1 DEF FetchPseudo, Goto, BeginAmong, Count, sources, tables
<1>3. disturbed' = [v \in Worker |-> IF v = w THEN got # queues \/ others # {}
                                     ELSE disturbed[v] \/ v \in others]
  BY <1>1 DEF BeginAmong
<1>4. SmallTypes'
  BY <1>1, <1>2, <1>3 DEF SmallInv, SmallTypes, Labels
<1>5. LtssInv'
  <2>1. ASSUME NEW v \in Worker, pc'[v] \in Ltss
        PROVE  pc'[v] = pc[v] /\ Own(v)' = Own(v)
    BY <1>1, <1>2, <1>3, <2>1 DEF SmallInv, SmallTypes, Own, Pseudo, Ltss
  <2> QED
    BY <1>2, <2>1, LtssUntouched DEF SmallInv
<1>6. FullInv'
  <2>1. ASSUME NEW v \in Worker \ {w}, pc'[v] \in Pseudo
        PROVE  disturbed'[v]
    BY <1>2, <1>3, <2>1 DEF SmallInv, SmallTypes
  <2>2. ~disturbed'[w] => \A v \in Worker \ {w} : pc'[v] \notin Pseudo
    BY <1>2, <1>3 DEF SmallInv, SmallTypes
  <2>3. /\ txn'[w] /\ todo'[w] = list'[w] /\ known'[w] = pseudoQ'
        /\ pc'[w] = "pseudoInsert"
    BY <1>1, <1>2 DEF SmallInv, SmallTypes
  <2> QED
    BY <2>1, <2>2, <2>3 DEF FullInv
<1> QED
  BY <1>4, <1>5, <1>6 DEF SmallInv

LEMMA InsertPseudoInv ==
  ASSUME SmallInv, NEW w \in Worker, InsertPseudo(w)
  PROVE  SmallInv'
<1>1. PICK name \in todo[w], fault \in BOOLEAN :
        /\ Call(w, fault)
        /\ IF fault \/ name \in pseudoQ THEN Fail(w) ELSE Keep(w, {}, {name})
        /\ pseudoQ' = IF fault \/ name \in pseudoQ \/ txn[w]
                        THEN pseudoQ ELSE pseudoQ \cup {name}
        /\ todo' = [todo EXCEPT ![w] = @ \ {name}]
  BY DEF InsertPseudo
<1>2. /\ pc[w] = "pseudoInsert" /\ UNCHANGED pc
      /\ disturbed' = [disturbed EXCEPT ![w] = @ \/ fault]
      /\ UNCHANGED <<undoes, ltss, bugRows, list, last, spoiled, known>>
  BY <1>1 DEF InsertPseudo, Call, Count, sources
<1>3. /\ DOMAIN gone' = Worker /\ DOMAIN new' = Worker /\ DOMAIN todo' = Worker
      /\ txn' \in [Worker -> BOOLEAN]
      /\ disturbed' \in [Worker -> BOOLEAN]
      /\ \A v \in Worker \ {w} : Own(v)' = Own(v)
  BY <1>1, <1>2 DEF Fail, Keep, SmallInv, SmallTypes, Own
<1>4. SmallTypes'
  BY <1>2, <1>3 DEF SmallInv, SmallTypes, Own
<1>5. LtssInv'
  BY <1>2, <1>3, LtssUntouched DEF SmallInv, Ltss
<1>6. FullInv'
  <2> SUFFICES ASSUME NEW v \in Worker, pc'[v] \in Pseudo, ~disturbed'[v]
               PROVE  /\ \A u \in Worker \ {v} : pc'[u] \notin Pseudo
                      /\ todo'[v] \subseteq list'[v]
                      /\ \/ Undone(v)'
                         \/ /\ pc'[v] = "pseudoInsert"
                            /\ txn'[v] /\ known'[v] = pseudoQ'
                            /\ list'[v] \ todo'[v] \subseteq pseudoQ' \cup new'[v]
                         \/ /\ pc'[v] = "pseudoCommit"
                            /\ list'[v] \subseteq pseudoQ'
    BY DEF FullInv
  <2>1. disturbed[v] => disturbed'[v]
    BY <1>2 DEF SmallInv, SmallTypes
  <2>2. \A u \in Worker \ {v} : pc[u] \notin Pseudo
    BY <1>2, <2>1 DEF SmallInv, FullInv
  <2>3. v = w
    BY <1>2, <2>2 DEF Pseudo
  <2>4. ~disturbed[w] /\ ~fault
    BY <1>2, <2>1, <2>3 DEF SmallInv, SmallTypes
  <2>5. todo'[w] = todo[w] \ {name} /\ todo[w] \subseteq list[w]
    BY <1>1, <1>2, <2>4 DEF SmallInv, SmallTypes, FullInv, Pseudo
  <2>6. CASE Undone(w)
    BY <1>2, <2>2, <2>3, <2>5, <2>6 DEF Undone
  <2>7. CASE ~Undone(w)
    <3>1. /\ txn[w] /\ known[w] = pseudoQ
          /\ list[w] \ todo[w] \subseteq pseudoQ \cup new[w]
      BY <1>2, <2>4, <2>7 DEF SmallInv, FullInv, Pseudo
    <3>2. pseudoQ' = pseudoQ
      BY <1>1, <3>1
    <3>3. CASE name \in pseudoQ
      <4>1. ~undoes
        BY <1>1, <2>5, <2>7, <3>1, <3>3 DEF Undone
      <4>2. UNCHANGED <<new, txn>>
        BY <1>1, <3>3, <4>1 DEF Fail
      <4> QED
        BY <1>2, <2>2, <2>3, <2>5, <3>1, <3>2, <3>3, <4>2
    <3>4. CASE name \notin pseudoQ
      <4>1. new'[w] = new[w] \cup {name} /\ txn'[w]
        BY <1>1, <2>4, <3>1, <3>4 DEF Keep, SmallInv, SmallTypes
      <4> QED
        BY <1>2, <2>2, <2>3, <2>5, <3>1, <3>2, <4>1
    <3> QED
      BY <3>3, <3>4
  <2> QED
    BY <2>6, <2>7
<1> QED
  BY <1>4, <1>5, <1>6 DEF SmallInv

\* Both workers of a deadlock are disturbed, since they overlap.
LEMMA DeadlockInv ==
  ASSUME SmallInv, NEW v \in Worker, NEW w \in Worker, Deadlock(v, w)
  PROVE  SmallInv'
<1>1. /\ v # w /\ pc[v] = "pseudoInsert" /\ pc[w] = "pseudoInsert"
      /\ UNCHANGED <<undoes, ltss, pseudoQ, bugRows, pc, list, gone, disturbed, last,
                     spoiled, known>>
      /\ txn' = [txn EXCEPT ![w] = FALSE]
  BY DEF Deadlock, sources, tables, history
<1>2. PICK mine \in todo[v] \cap new[w], its \in todo[w] \cap new[v] :
        /\ todo' = [todo EXCEPT ![v] = @ \ {mine}, ![w] = @ \ {its}]
        /\ new' = [new EXCEPT ![v] = @ \cup {mine}, ![w] = {}]
  BY DEF Deadlock
<1>3. \A u \in Worker \ {v, w} : Own(u)' = Own(u)
  BY <1>1, <1>2 DEF SmallInv, SmallTypes, Own
<1>4. SmallTypes'
  BY <1>1, <1>2 DEF SmallInv, SmallTypes
<1>5. LtssInv'
  BY <1>1, <1>3, LtssUntouched DEF SmallInv, Ltss
<1>6. \A u \in Worker : pc[u] \in Pseudo => disturbed[u]
  BY <1>1 DEF SmallInv, FullInv, Pseudo
<1>7. FullInv'
  BY <1>1, <1>6 DEF FullInv
<1> QED
  BY <1>4, <1>5, <1>7 DEF SmallInv

LEMMA CommitPseudoInv ==
  ASSUME SmallInv, NEW w \in Worker, CommitPseudo(w)
  PROVE  SmallInv'
<1>1. PICK fault \in BOOLEAN :
        /\ Call(w, fault)
        /\ pseudoQ' = IF fault THEN pseudoQ ELSE pseudoQ \cup new[w]
  BY DEF CommitPseudo
<1>2. /\ pc[w] = "pseudoInsert" /\ todo[w] = {}
      /\ pc' = [pc EXCEPT ![w] = "pseudoCommit"]
      /\ new' = [new EXCEPT ![w] = {}]
      /\ txn' = [txn EXCEPT ![w] = FALSE]
      /\ disturbed' = [disturbed EXCEPT ![w] = @ \/ fault]
      /\ UNCHANGED <<undoes, ltss, bugRows, list, todo, gone, last, spoiled, known>>
  BY <1>1 DEF CommitPseudo, Goto, Call, Count, sources
<1>3. \A v \in Worker \ {w} : pc'[v] = pc[v] /\ Own(v)' = Own(v)
  BY <1>2 DEF SmallInv, SmallTypes, Own
<1>4. pc'[w] = "pseudoCommit" /\ disturbed'[w] = (disturbed[w] \/ fault)
  BY <1>2 DEF SmallInv, SmallTypes
<1>5. SmallTypes'
  BY <1>2 DEF SmallInv, SmallTypes, Labels
<1>6. LtssInv'
  BY <1>2, <1>3, <1>4, LtssUntouched DEF SmallInv, Ltss
<1>7. FullInv'
  <2>1. ASSUME NEW v \in Worker \ {w}, pc'[v] \in Pseudo
        PROVE  disturbed'[v]
    BY <1>2, <1>3, <2>1 DEF SmallInv, FullInv, Pseudo, Own
  <2>2. ASSUME ~disturbed'[w]
        PROVE  /\ \A v \in Worker \ {w} : pc'[v] \notin Pseudo
               /\ todo'[w] \subseteq list'[w]
               /\ Undone(w)' \/ list'[w] \subseteq pseudoQ'
    <3>1. ~disturbed[w] /\ ~fault
      BY <1>4, <2>2
    <3>2. \A v \in Worker \ {w} : pc[v] \notin Pseudo
      BY <1>2, <3>1 DEF SmallInv, FullInv, Pseudo
    <3>3. Undone(w) \/ list[w] \ todo[w] \subseteq pseudoQ \cup new[w]
      BY <1>2, <3>1 DEF SmallInv, FullInv, Pseudo
    <3> QED
      BY <1>1, <1>2, <1>3, <3>1, <3>2, <3>3 DEF Undone
  <2> QED
    BY <1>4, <2>1, <2>2 DEF FullInv
<1> QED
  BY <1>5, <1>6, <1>7 DEF SmallInv

LEMMA LeavePseudoInv ==
  ASSUME SmallInv, NEW w \in Worker, LeavePseudo(w)
  PROVE  SmallInv'
<1>1. Leave(w) /\ UNCHANGED <<undoes, ltss, pseudoQ, bugRows, last, spoiled>>
  BY DEF LeavePseudo, sources, tables
<1>2. SmallTypes'
  BY <1>1, LeaveOne DEF SmallInv, SmallTypes
<1>3. /\ \A v \in Worker \ {w} : pc'[v] = pc[v] /\ Own(v)' = Own(v)
      /\ pc'[w] = "idle"
  BY <1>1, LeaveOne DEF SmallInv, SmallTypes
<1>4. LtssInv'
  BY <1>1, <1>3, LtssUntouched DEF SmallInv, Ltss
<1>5. FullInv'
  BY <1>1, <1>3, PseudoUntouched DEF SmallInv, Pseudo
<1> QED
  BY <1>2, <1>4, <1>5 DEF SmallInv

-----------------------------------------------------------------------------
(* getBugDesc and the world                                                *)

LEMMA BugStepInv ==
  ASSUME SmallInv, NEW w \in Worker,
         FetchBug(w) \/ InsertBug(w) \/ \E b \in Bug : LookUpBug(w, b)
  PROVE  SmallInv'
<1>1. UNCHANGED <<undoes, ltss, pseudoQ, last, spoiled>>
  BY DEF FetchBug, InsertBug, LookUpBug, Count, sources, tables, history
<1>3. CASE FetchBug(w) \/ \E b \in Bug : LookUpBug(w, b)
  <2>1. /\ UNCHANGED <<list, todo, txn, gone, new, disturbed, known>>
        /\ pc' = [pc EXCEPT ![w] = "bugInsert"] \/ pc' = [pc EXCEPT ![w] = "bugFetch"]
    BY <1>3 DEF FetchBug, LookUpBug, Goto, history
  <2>2. \A v \in Worker : /\ pc'[v] = pc[v] \/ pc'[v] \in {"bugInsert", "bugFetch"}
                          /\ Own(v)' = Own(v)
    BY <2>1 DEF SmallInv, SmallTypes, Own
  <2>3. SmallTypes'
    BY <1>1, <2>1, <2>2 DEF SmallInv, SmallTypes, Labels
  <2>4. LtssInv'
    BY <1>1, <2>2, LtssUntouched DEF SmallInv, Ltss
  <2>5. FullInv'
    BY <1>1, <2>2, PseudoUntouched DEF SmallInv, Pseudo
  <2> QED
    BY <2>3, <2>4, <2>5 DEF SmallInv
<1>4. CASE InsertBug(w)
  <2>1. Leave(w)
    BY <1>4 DEF InsertBug
  <2>2. SmallTypes'
    BY <1>1, <2>1, LeaveOne DEF SmallInv, SmallTypes
  <2>3. /\ \A v \in Worker \ {w} : pc'[v] = pc[v] /\ Own(v)' = Own(v)
        /\ pc'[w] = "idle"
    BY <2>1, LeaveOne DEF SmallInv, SmallTypes
  <2>4. LtssInv'
    BY <1>1, <2>3, LtssUntouched DEF SmallInv, Ltss
  <2>5. FullInv'
    BY <1>1, <2>3, PseudoUntouched DEF SmallInv, Pseudo
  <2> QED
    BY <2>2, <2>4, <2>5 DEF SmallInv
<1> QED
  BY <1>3, <1>4

\* The sources change: no worker and no table does.
LEMMA ChangeInv ==
  ASSUME SmallInv, Change
  PROVE  SmallInv'
<1>1. UNCHANGED <<undoes, tables, local, history>>
  BY DEF Change
<1>2. SmallTypes'
  BY <1>1 DEF SmallInv, SmallTypes, tables, local, history
<1>3. LtssInv'
  BY <1>1 DEF SmallInv, LtssInv, tables, local, history
<1>4. FullInv'
  BY <1>1 DEF SmallInv, FullInv, Undone, tables, local, history
<1> QED
  BY <1>2, <1>3, <1>4 DEF SmallInv

LEMMA CrashInv ==
  ASSUME SmallInv, Crash
  PROVE  SmallInv'
<1>1. /\ pc' = [w \in Worker |-> "idle"]
      /\ UNCHANGED <<undoes, ltss, pseudoQ, bugRows, last, spoiled>>
  BY DEF Crash, Count, sources, tables
<1>2. SmallTypes'
  BY <1>1 DEF Crash, SmallInv, SmallTypes, Labels
<1>3. LtssInv'
  BY <1>1 DEF SmallInv, LtssInv, Ltss
<1>4. FullInv'
  BY <1>1 DEF FullInv, Pseudo
<1> QED
  BY <1>2, <1>3, <1>4 DEF SmallInv

-----------------------------------------------------------------------------
(* The theorems                                                            *)

LEMMA SmallNext == SmallInv /\ [Next]_vars => SmallInv'
<1> SUFFICES ASSUME SmallInv, [Next]_vars PROVE SmallInv'
  OBVIOUS
<1>1. CASE UNCHANGED vars
  <2>1. UNCHANGED <<undoes, tables, local, history>>
    BY <1>1 DEF vars, sources
  <2>2. SmallTypes'
    BY <2>1 DEF SmallInv, SmallTypes, tables, local, history
  <2>3. LtssInv'
    BY <2>1 DEF SmallInv, LtssInv, tables, local, history
  <2>4. FullInv'
    BY <2>1 DEF SmallInv, FullInv, Undone, tables, local, history
  <2> QED
    BY <2>2, <2>3, <2>4 DEF SmallInv
<1>2. ASSUME NEW w \in Worker, Step(w) PROVE SmallInv'
  BY <1>2, DeleteLtssInv, InsertLtssInv, CommitLtssInv, InsertPseudoInv,
     CommitPseudoInv, LeavePseudoInv, BugStepInv DEF Step
<1> QED
  BY <1>1, <1>2, ChangeInv, CrashInv, FetchLtssInv, FetchPseudoInv, DeadlockInv, BugStepInv
     DEF Next

LEMMA SmallAlways == Spec => []SmallInv
BY SmallInit, SmallNext, PTL DEF Spec

\* Who reads LTSSCUSTOMERS finds the list of one fetch, unless two /ltssupdate
\* overlapped or a call failed.
THEOREM LtssWhole == Spec => []LtssIsOneList
<1>1. SmallInv => LtssIsOneList
  BY DEF SmallInv, LtssInv, LtssIsOneList
<1> QED
  BY <1>1, SmallAlways, PTL

\* An undisturbed full update has inserted its whole list, but where a known name
\* undid its transaction.
THEOREM FullIsFull == Spec => []FullListsAll
<1>1. SmallInv => FullListsAll
  BY DEF SmallInv, FullInv, Undone, Pseudo, FullListsAll
<1> QED
  BY <1>1, SmallAlways, PTL

LEMMA AskedForIs ==
  ASSUME NEW A \in SUBSET Worker
  PROVE  IsFiniteSet(A) /\ Cardinality(A) \in Nat /\ Cardinality(A) <= Cardinality(Worker)
         /\ Cardinality(Worker) \in Nat
BY FS_Subset, FS_CardinalityType, SmallTablesAssumption

\* What a step does to BUG and to the bugs that workers are asked for.
LEMMA BugSteps ==
  ASSUME [Next]_vars
  PROVE  \/ UNCHANGED <<bug, bugRows>>
         \/ \E w \in Worker, b \in Bug : LookUpBug(w, b)
         \/ \E w \in Worker : InsertBug(w)
         \/ \E w \in Worker : bug' = [bug EXCEPT ![w] = Nothing] /\ UNCHANGED bugRows
         \/ bug' = [w \in Worker |-> Nothing] /\ UNCHANGED bugRows
<1>1. CASE Change \/ UNCHANGED vars
  BY <1>1 DEF Change, vars, tables, local
<1>2. CASE Crash
  BY <1>2 DEF Crash, tables
<1>3. ASSUME NEW w \in Worker, FetchLtss(w) \/ FetchPseudo(w) \/ DeleteLtss(w)
      PROVE  UNCHANGED <<bug, bugRows>>
  BY <1>3 DEF FetchLtss, FetchPseudo, DeleteLtss, tables
<1>4. ASSUME NEW w \in Worker,
             InsertLtss(w) \/ InsertPseudo(w) \/ CommitPseudo(w) \/ FetchBug(w)
      PROVE  UNCHANGED <<bug, bugRows>>
  BY <1>4 DEF InsertLtss, InsertPseudo, CommitPseudo, FetchBug, tables
<1>5. ASSUME NEW w \in Worker, CommitLtss(w) \/ LeavePseudo(w)
      PROVE  bug' = [bug EXCEPT ![w] = Nothing] /\ UNCHANGED bugRows
  BY <1>5 DEF CommitLtss, LeavePseudo, Leave, tables
<1>6. ASSUME NEW v \in Worker, NEW w \in Worker, Deadlock(v, w)
      PROVE  UNCHANGED <<bug, bugRows>>
  BY <1>6 DEF Deadlock, tables
<1> QED
  BY <1>1, <1>2, <1>3, <1>4, <1>5, <1>6 DEF Next, Step

\* Nobody new is asked for a bug that has rows, and a new row is of one who was.
LEMMA BugNext ==
  ASSUME BugInv, [Next]_vars
  PROVE  BugInv'
<1>1. ASSUME UNCHANGED bugRows, DOMAIN bug' = Worker,
             \A w \in Worker : bug'[w] \in {bug[w], Nothing}
      PROVE  BugInv'
  <2> SUFFICES ASSUME NEW b \in Bug
               PROVE  bugRows[b] + Cardinality(AskedFor(b)') <= Cardinality(Worker)
    BY <1>1 DEF BugInv
  <2>1. AskedFor(b)' \subseteq AskedFor(b) /\ AskedFor(b) \in SUBSET Worker
    BY <1>1, SmallTablesAssumption DEF AskedFor
  <2>2. Cardinality(AskedFor(b)') <= Cardinality(AskedFor(b))
    BY <2>1, AskedForIs, FS_Subset
  <2> QED
    BY <2>1, <2>2, AskedForIs DEF BugInv
<1>2. ASSUME NEW w \in Worker, NEW c \in Bug, LookUpBug(w, c)
      PROVE  BugInv'
  <2>1. bugRows[c] = 0 /\ UNCHANGED bugRows /\ bug' = [bug EXCEPT ![w] = c]
    BY <1>2 DEF LookUpBug, tables
  <2> SUFFICES ASSUME NEW b \in Bug
               PROVE  bugRows[b] + Cardinality(AskedFor(b)') <= Cardinality(Worker)
    BY <2>1 DEF BugInv
  <2>2. AskedFor(b) \in SUBSET Worker /\ AskedFor(b)' \in SUBSET Worker
    BY DEF AskedFor
  <2>3. CASE b = c
    BY <2>1, <2>2, <2>3, AskedForIs
  <2>4. CASE b # c
    <3>1. AskedFor(b)' \subseteq AskedFor(b)
      BY <2>1, <2>4 DEF AskedFor, BugInv
    <3>2. Cardinality(AskedFor(b)') <= Cardinality(AskedFor(b))
      BY <2>2, <3>1, AskedForIs, FS_Subset
    <3> QED
      BY <2>2, <3>2, AskedForIs DEF BugInv
  <2> QED
    BY <2>3, <2>4
<1>3. ASSUME NEW w \in Worker, InsertBug(w), bugRows' # bugRows
      PROVE  BugInv'
  <2> DEFINE c == bug[w]
  <2>1. bug' = [bug EXCEPT ![w] = Nothing]
    BY <1>3 DEF InsertBug, Leave
  <2>2. c \in Bug /\ bugRows' = [bugRows EXCEPT ![c] = @ + 1]
    BY <1>3 DEF InsertBug, BugInv
  <2>3. bugRows' \in [Bug -> Nat] /\ DOMAIN bug' = Worker
    BY <2>1, <2>2 DEF BugInv
  <2> SUFFICES ASSUME NEW b \in Bug
               PROVE  bugRows'[b] + Cardinality(AskedFor(b)') <= Cardinality(Worker)
    BY <2>3 DEF BugInv
  <2>4. AskedFor(b) \in SUBSET Worker /\ AskedFor(b)' \in SUBSET Worker
    BY DEF AskedFor
  <2>5. CASE b = c
    <3>1. w \in AskedFor(b) /\ AskedFor(b)' = AskedFor(b) \ {w}
      BY <2>1, <2>5, SmallTablesAssumption DEF AskedFor, BugInv
    <3>2. Cardinality(AskedFor(b)') = Cardinality(AskedFor(b)) - 1
      BY <2>4, <3>1, AskedForIs, FS_RemoveElement
    <3>3. bugRows'[b] = bugRows[b] + 1
      BY <2>2, <2>5 DEF BugInv
    <3> QED
      BY <2>4, <3>2, <3>3, AskedForIs DEF BugInv
  <2>6. CASE b # c
    <3>1. AskedFor(b)' \subseteq AskedFor(b) /\ bugRows'[b] = bugRows[b]
      BY <2>1, <2>2, <2>6, SmallTablesAssumption DEF AskedFor, BugInv
    <3>2. Cardinality(AskedFor(b)') <= Cardinality(AskedFor(b))
      BY <2>4, <3>1, AskedForIs, FS_Subset
    <3> QED
      BY <2>4, <3>1, <3>2, AskedForIs DEF BugInv
  <2> QED
    BY <2>5, <2>6
<1>4. ASSUME NEW w \in Worker, UNCHANGED bugRows, bug' = [bug EXCEPT ![w] = Nothing]
      PROVE  BugInv'
  BY <1>1, <1>4 DEF BugInv
<1>5. CASE bug' = [w \in Worker |-> Nothing] /\ UNCHANGED bugRows
  BY <1>1, <1>5
<1>6. CASE UNCHANGED <<bug, bugRows>>
  BY <1>1, <1>6 DEF BugInv
<1>7. ASSUME NEW w \in Worker, InsertBug(w)
      PROVE  BugInv'
  <2>1. bug' = [bug EXCEPT ![w] = Nothing]
    BY <1>7 DEF InsertBug, Leave
  <2> QED
    BY <1>3, <1>4, <1>7, <2>1
<1> QED
  BY <1>2, <1>4, <1>5, <1>6, <1>7, BugSteps

\* However many requests look a bug up before one of them has stored it, BUG gets no
\* more rows of it than there are workers.
THEOREM FewRows == Spec => []FewRowsPerBug
<1>1. Init => BugInv
  <2> SUFFICES ASSUME Init PROVE BugInv
    OBVIOUS
  <2>1. bugRows \in [Bug -> Nat] /\ DOMAIN bug = Worker
    BY DEF Init
  <2>2. ASSUME NEW b \in Bug
        PROVE  bugRows[b] + Cardinality(AskedFor(b)) <= Cardinality(Worker)
    <3>1. bugRows[b] = 0 /\ AskedFor(b) \in SUBSET Worker
      BY DEF Init, AskedFor
    <3> QED
      BY <3>1, AskedForIs
  <2> QED
    BY <2>1, <2>2 DEF BugInv
<1>2. BugInv => FewRowsPerBug
  <2> SUFFICES ASSUME BugInv, NEW b \in Bug
               PROVE  bugRows[b] <= Cardinality(Worker)
    BY DEF FewRowsPerBug
  <2>1. AskedFor(b) \in SUBSET Worker
    BY DEF AskedFor
  <2> QED
    BY <2>1, AskedForIs DEF BugInv
<1> QED
  BY <1>1, <1>2, BugNext, PTL DEF Spec
=============================================================================
