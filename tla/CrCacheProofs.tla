----------------------------- MODULE CrCacheProofs -----------------------------
(***************************************************************************)
(* Proofs about CrCache, for any number of requests, CRs and SRs and any   *)
(* bounds.  Each property speaks of one point of a request; the inductive  *)
(* invariant says what holds at every point:                               *)
(*    HandInv   which of the locals have been assigned;                    *)
(*    OpenInv   where a transaction may be open, and that what a request   *)
(*              stored is in it or committed;                              *)
(*    TraceInv  who may have values of an empty answer, and that /srforcr  *)
(*              has nothing open while it has still to look up.            *)
(***************************************************************************)
EXTENDS CrCache, TLAPS

HandInv ==
  \A w \in Worker :
    /\ pc[w] \in {"report", "siebel", "insert"} => cr[w] \in CR
    /\ pc[w] = "insert" => desc[w] \in Desc \cup {Garbage}
    /\ pc[w] \in {"idle", "lookup", "done"} => desc[w] = NoRow

OpenInv ==
  \A w \in Worker :
    /\ pc[w] # "lookup" => pending[w] = {}
    /\ pc[w] = "idle" => stored[w] = {}
    /\ kind[w] # "srforcr" => stored[w] \subseteq crsr \cup pending[w]

TraceInv ==
  /\ \A row \in crsr : row.desc = Garbage => misled
  /\ \A w \in Worker :
       /\ pc[w] # "idle" /\ kind[w] # "srforcr" =>
            /\ desc[w] = Garbage => misled
            /\ \A row \in pending[w] : row.desc = Garbage => misled
       /\ pc[w] # "idle" /\ kind[w] = "srforcr" =>
            \/ todo[w] = {}
            \/ pc[w] = "lookup" /\ pending[w] = {} /\ \E c \in CR : todo[w] = {c}

IInv == TypeOK /\ HandInv /\ OpenInv /\ TraceInv

-----------------------------------------------------------------------------
(* Steps of the world                                                      *)

LEMMA FaultType ==
  ASSUME TypeOK, NEW fault \in BOOLEAN, Fault(fault)
  PROVE  faults' \in 0..MaxFault
  BY BoundsAssumption DEF TypeOK, Fault

LEMMA EmptyType ==
  /\ Each("idle") \in [Worker -> {"idle", "lookup", "report", "siebel", "insert", "done"}]
  /\ Each(NoRow)  \in [Worker -> Kinds \cup {NoRow}]
  /\ Each({})     \in [Worker -> SUBSET CR]
  /\ Each(NoRow)  \in [Worker -> CR \cup {NoRow}]
  /\ Each(NoRow)  \in [Worker -> SR \cup {NoRow}]
  /\ Each(NoRow)  \in [Worker -> Desc \cup {NoRow, Garbage}]
  /\ Each({})     \in [Worker -> SUBSET Row]
  BY DEF Each

LEMMA InitInv == Init => IInv
<1> SUFFICES ASSUME Init PROVE IInv
  OBVIOUS
<1>1. 0 \in 0..MaxChange /\ 0 \in 0..MaxFault
  BY BoundsAssumption
<1>2. TypeOK
  BY <1>1, EmptyType DEF Init, TypeOK, Each
<1>3. HandInv /\ OpenInv /\ TraceInv
  BY DEF Init, HandInv, OpenInv, TraceInv, Each
<1> QED
  BY <1>2, <1>3 DEF IInv

LEMMA ChangeInv ==
  ASSUME IInv, Change
  PROVE  IInv'
<1>1. changes' \in 0..MaxChange
  BY BoundsAssumption DEF IInv, TypeOK, Change
<1>2. report' \in [CR -> SR \cup {NoRow}] /\ siebel' \in [SR -> Desc \cup {NoRow}]
  BY DEF IInv, TypeOK, Change
<1>3. TypeOK'
  BY <1>1, <1>2 DEF IInv, TypeOK, Change, hand
<1>4. (HandInv /\ OpenInv /\ TraceInv)'
  BY DEF IInv, Change, hand, HandInv, OpenInv, TraceInv
<1> QED
  BY <1>3, <1>4 DEF IInv

LEMMA RestartInv ==
  ASSUME IInv, Restart
  PROVE  IInv'
<1>1. TypeOK'
  BY DEF IInv, TypeOK, Restart, hand, world
<1>2. (HandInv /\ OpenInv /\ TraceInv)'
  BY DEF IInv, Restart, hand, HandInv, OpenInv, TraceInv
<1> QED
  BY <1>1, <1>2 DEF IInv

\* A death leaves the committed rows, and no request.
LEMMA DieInv ==
  ASSUME IInv, Die, UNCHANGED world, NEW fault \in BOOLEAN, Fault(fault)
  PROVE  IInv'
<1>1. TypeOK'
  BY EmptyType, FaultType DEF IInv, TypeOK, Die, world, Each
<1>2. (HandInv /\ OpenInv /\ TraceInv)'
  BY DEF IInv, Die, HandInv, OpenInv, TraceInv, Each
<1> QED
  BY <1>1, <1>2 DEF IInv

-----------------------------------------------------------------------------
(* Steps of a request                                                      *)

LEMMA BeginInv ==
  ASSUME IInv, NEW w \in Worker, Begin(w)
  PROVE  IInv'
<1>1. PICK k \in Kinds, list \in SUBSET CR :
        /\ k = "srforcr" => \E c \in CR : list = {c}
        /\ kind' = [kind EXCEPT ![w] = k]
        /\ todo' = [todo EXCEPT ![w] = list]
  BY DEF Begin
<1>2. TypeOK'
  BY <1>1 DEF IInv, TypeOK, Begin, Goto, hand, world
<1>3. HandInv'
  BY <1>1 DEF IInv, TypeOK, HandInv, Begin, Goto, hand
<1>4. OpenInv'
  BY <1>1 DEF IInv, TypeOK, OpenInv, Begin, Goto
<1>5. TraceInv'
  <2>1. pc[w] = "idle" /\ pending[w] = {} /\ desc[w] = NoRow
    BY DEF IInv, OpenInv, HandInv, Begin
  <2>2. NoRow # Garbage
    BY ConstantsAssumption
  <2> QED
    BY <1>1, <2>1, <2>2 DEF IInv, TypeOK, TraceInv, Begin, Goto, hand
<1> QED
  BY <1>2, <1>3, <1>4, <1>5 DEF IInv

\* Every way out of LookUp ends with an empty transaction, and /srforcr, whose only
\* CR is the one at hand, commits none.
LEMMA LookUpInv ==
  ASSUME IInv, NEW w \in Worker, LookUp(w)
  PROVE  IInv'
<1>1. PICK c \in todo[w], fault \in BOOLEAN :
        /\ Fault(fault)
        /\ todo' = [todo EXCEPT ![w] = @ \ {c}]
        /\ IF (~fault /\ Found(w, c)) \/ kind[w] = "qmon"
             THEN NextCr(w)
             ELSE Goto(w, "report") /\ cr' = [cr EXCEPT ![w] = c] /\ UNCHANGED <<sr, desc>>
  BY DEF LookUp
<1>2. /\ pc[w] = "lookup" /\ c \in CR /\ desc[w] = NoRow
      /\ crsr' = crsr \cup pending[w]
      /\ pending' = [pending EXCEPT ![w] = {}]
      /\ UNCHANGED <<report, siebel, changes, up, kind, stored, misled>>
  BY DEF LookUp, Commit, IInv, TypeOK, HandInv, world
<1>3. /\ pc' \in [Worker -> {"idle", "lookup", "report", "siebel", "insert", "done"}]
      /\ cr' \in [Worker -> CR \cup {NoRow}]
      /\ sr' \in [Worker -> SR \cup {NoRow}]
      /\ desc' \in [Worker -> Desc \cup {NoRow, Garbage}]
      /\ desc'[w] = NoRow
      /\ \/ pc'[w] = "lookup"
         \/ pc'[w] = "report" /\ cr'[w] = c
      /\ \A v \in Worker \ {w} :
           pc'[v] = pc[v] /\ cr'[v] = cr[v] /\ sr'[v] = sr[v] /\ desc'[v] = desc[v]
  BY <1>1, <1>2 DEF IInv, TypeOK, NextCr, Goto
<1>4. TypeOK'
  BY <1>1, <1>2, <1>3, FaultType DEF IInv, TypeOK
<1>5. HandInv'
  BY <1>2, <1>3 DEF IInv, HandInv
<1>6. OpenInv'
  BY <1>2, <1>3 DEF IInv, TypeOK, OpenInv
<1>7. TraceInv'
  <2>1. kind[w] = "srforcr" => pending[w] = {} /\ todo[w] = {c}
    BY <1>1, <1>2 DEF IInv, TraceInv
  <2>2. \A row \in crsr' : row.desc = Garbage => misled'
    BY <1>2, <2>1 DEF IInv, TraceInv
  <2>3. todo'[w] = todo[w] \ {c} /\ \A v \in Worker \ {w} : todo'[v] = todo[v]
    BY <1>1 DEF IInv, TypeOK
  <2>4. pending'[w] = {} /\ \A v \in Worker \ {w} : pending'[v] = pending[v]
    BY <1>2 DEF IInv, TypeOK
  <2>5. NoRow # Garbage
    BY ConstantsAssumption
  <2> QED
    BY <1>2, <1>3, <2>1, <2>2, <2>3, <2>4, <2>5 DEF IInv, TraceInv
<1> QED
  BY <1>4, <1>5, <1>6, <1>7 DEF IInv

LEMMA AskReportInv ==
  ASSUME IInv, NEW w \in Worker, AskReport(w)
  PROVE  IInv'
<1>0. UNCHANGED world /\ pc[w] = "report"
  BY DEF AskReport
<1>1. PICK fault \in BOOLEAN :
        LET s == IF fault THEN NoRow ELSE report[cr[w]] IN
        /\ Fault(fault)
        /\ \/ /\ IF s = NoRow
                   THEN NextCr(w)
                   ELSE Goto(w, "siebel") /\ sr' = [sr EXCEPT ![w] = s] /\ UNCHANGED <<cr, desc>>
              /\ UNCHANGED <<crsr, up, kind, todo, pending, stored, misled>>
           \/ /\ s = NoRow
              /\ kind[w] \in {"userqueue", "srforcr"}
              /\ Die
  BY DEF AskReport
<1> DEFINE s == IF fault THEN NoRow ELSE report[cr[w]]
<1>2. CASE Die
  BY <1>0, <1>1, <1>2, DieInv
<1>3. CASE /\ IF s = NoRow
                THEN NextCr(w)
                ELSE Goto(w, "siebel") /\ sr' = [sr EXCEPT ![w] = s] /\ UNCHANGED <<cr, desc>>
           /\ UNCHANGED <<crsr, up, kind, todo, pending, stored, misled>>
  <2>1. s \in SR \cup {NoRow} /\ cr[w] \in CR
    BY <1>0 DEF IInv, TypeOK, HandInv
  <2>2. /\ pc' \in [Worker -> {"idle", "lookup", "report", "siebel", "insert", "done"}]
        /\ cr' \in [Worker -> CR \cup {NoRow}]
        /\ sr' \in [Worker -> SR \cup {NoRow}]
        /\ desc' \in [Worker -> Desc \cup {NoRow, Garbage}]
        /\ \/ pc'[w] = "lookup" /\ desc'[w] = NoRow
           \/ pc'[w] = "siebel" /\ cr'[w] = cr[w] /\ sr'[w] \in SR /\ desc'[w] = desc[w]
        /\ \A v \in Worker \ {w} :
             pc'[v] = pc[v] /\ cr'[v] = cr[v] /\ sr'[v] = sr[v] /\ desc'[v] = desc[v]
    BY <1>3, <2>1 DEF IInv, TypeOK, NextCr, Goto
  <2>3. TypeOK'
    BY <1>0, <1>1, <1>3, <2>2, FaultType DEF IInv, TypeOK, world
  <2>4. HandInv' /\ OpenInv'
    BY <1>0, <1>3, <2>1, <2>2 DEF IInv, HandInv, OpenInv
  <2>5. TraceInv'
    <3>1. NoRow # Garbage
      BY ConstantsAssumption
    <3> QED
      BY <1>0, <1>3, <2>2, <3>1 DEF IInv, TraceInv
  <2> QED
    BY <2>3, <2>4, <2>5 DEF IInv
<1> QED
  BY <1>1, <1>2, <1>3

\* An empty answer makes Garbage, which misled records unless it is /srforcr's.
LEMMA AskSiebelInv ==
  ASSUME IInv, NEW w \in Worker, AskSiebel(w)
  PROVE  IInv'
<1>0. UNCHANGED world /\ pc[w] = "siebel"
  BY DEF AskSiebel
<1>1. PICK fault \in BOOLEAN :
        LET d == IF fault \/ kind[w] = "srforcr" THEN NoRow ELSE siebel[sr[w]] IN
        /\ Fault(fault)
        /\ \/ /\ desc' = [desc EXCEPT ![w] = IF d = NoRow THEN Garbage ELSE d]
              /\ Goto(w, "insert")
              /\ misled' = (misled \/ (d = NoRow /\ kind[w] # "srforcr"))
              /\ UNCHANGED <<crsr, up, kind, todo, cr, sr, pending, stored>>
           \/ d = NoRow /\ Die
  BY DEF AskSiebel
<1> DEFINE d == IF fault \/ kind[w] = "srforcr" THEN NoRow ELSE siebel[sr[w]]
<1>2. CASE Die
  BY <1>0, <1>1, <1>2, DieInv
<1>3. CASE /\ desc' = [desc EXCEPT ![w] = IF d = NoRow THEN Garbage ELSE d]
           /\ Goto(w, "insert")
           /\ misled' = (misled \/ (d = NoRow /\ kind[w] # "srforcr"))
           /\ UNCHANGED <<crsr, up, kind, todo, cr, sr, pending, stored>>
  <2>1. d \in Desc \cup {NoRow} /\ cr[w] \in CR /\ sr[w] \in SR
    BY <1>0 DEF IInv, TypeOK, HandInv
  <2>2. /\ desc'[w] \in Desc \cup {Garbage}
        /\ desc'[w] = Garbage => d = NoRow
        /\ desc' \in [Worker -> Desc \cup {NoRow, Garbage}]
        /\ pc' \in [Worker -> {"idle", "lookup", "report", "siebel", "insert", "done"}]
        /\ pc'[w] = "insert"
        /\ \A v \in Worker \ {w} : pc'[v] = pc[v] /\ desc'[v] = desc[v]
    BY <1>3, <2>1, ConstantsAssumption DEF IInv, TypeOK, Goto
  <2>3. misled' \in BOOLEAN
    BY <1>3 DEF IInv, TypeOK
  <2>4. TypeOK'
    BY <1>0, <1>1, <1>3, <2>1, <2>2, <2>3, FaultType DEF IInv, TypeOK, world
  <2>5. HandInv' /\ OpenInv'
    BY <1>0, <1>3, <2>1, <2>2 DEF IInv, HandInv, OpenInv
  <2>6. TraceInv'
    <3>1. misled => misled'
      BY <1>3
    <3>2. kind[w] # "srforcr" /\ desc'[w] = Garbage => misled'
      BY <1>3, <2>2
    <3> QED
      BY <1>0, <1>3, <2>2, <3>1, <3>2 DEF IInv, TraceInv
  <2> QED
    BY <2>4, <2>5, <2>6 DEF IInv
<1> QED
  BY <1>1, <1>2, <1>3

LEMMA InsertRowInv ==
  ASSUME IInv, NEW w \in Worker, InsertRow(w)
  PROVE  IInv'
<1> DEFINE row == [cr |-> cr[w], sr |-> sr[w], desc |-> desc[w]]
<1>0. /\ pc[w] = "insert"
      /\ UNCHANGED <<report, siebel, changes, crsr, up, kind, todo, misled>>
  BY DEF InsertRow, world
<1>1. row \in Row /\ row.desc = desc[w]
  BY <1>0 DEF IInv, TypeOK, HandInv, Row
<1>2. PICK fault \in BOOLEAN :
        /\ Fault(fault)
        /\ IF fault \/ Found(w, cr[w])
             THEN UNCHANGED <<pending, stored>>
             ELSE /\ pending' = [pending EXCEPT ![w] = @ \cup {row}]
                  /\ stored' = [stored EXCEPT ![w] = @ \cup {row}]
  BY DEF InsertRow
<1>3. /\ pending' \in [Worker -> SUBSET Row]
      /\ stored' \in [Worker -> SUBSET Row]
      /\ \/ pending'[w] = pending[w] /\ stored'[w] = stored[w]
         \/ pending'[w] = pending[w] \cup {row} /\ stored'[w] = stored[w] \cup {row}
      /\ \A v \in Worker \ {w} : pending'[v] = pending[v] /\ stored'[v] = stored[v]
  BY <1>1, <1>2 DEF IInv, TypeOK
<1>4. /\ pc' = [pc EXCEPT ![w] = "lookup"]
      /\ cr'   = [cr EXCEPT ![w] = NoRow]
      /\ sr'   = [sr EXCEPT ![w] = NoRow]
      /\ desc' = [desc EXCEPT ![w] = NoRow]
  BY DEF InsertRow, NextCr, Goto
<1>5. TypeOK'
  BY <1>0, <1>2, <1>3, <1>4, FaultType DEF IInv, TypeOK
<1>6. HandInv'
  BY <1>0, <1>4 DEF IInv, TypeOK, HandInv
<1>7. OpenInv'
  BY <1>0, <1>3, <1>4 DEF IInv, TypeOK, OpenInv
<1>8. TraceInv'
  <2>1. NoRow # Garbage
    BY ConstantsAssumption
  <2>2. kind[w] # "srforcr" => \A r \in pending'[w] : r.desc = Garbage => misled
    BY <1>0, <1>1, <1>3 DEF IInv, TraceInv
  <2> QED
    BY <1>0, <1>3, <1>4, <2>1, <2>2 DEF IInv, TypeOK, TraceInv
<1> QED
  BY <1>5, <1>6, <1>7, <1>8 DEF IInv

LEMMA FinishInv ==
  ASSUME IInv, NEW w \in Worker, Finish(w)
  PROVE  IInv'
<1>1. /\ pc[w] = "lookup" /\ todo[w] = {}
      /\ pc' = [pc EXCEPT ![w] = "done"]
      /\ pending' = [pending EXCEPT ![w] = {}]
      /\ \/ kind[w] = "srforcr" /\ crsr' = crsr
         \/ kind[w] # "srforcr" /\ crsr' = crsr \cup pending[w]
      /\ UNCHANGED <<report, siebel, changes, up, kind, todo, cr, sr, desc, stored, misled, faults>>
  BY DEF Finish, Commit, Rollback, Goto, hand, world
<1>2. TypeOK'
  BY <1>1 DEF IInv, TypeOK
<1>3. HandInv'
  BY <1>1 DEF IInv, TypeOK, HandInv
<1>4. OpenInv'
  BY <1>1 DEF IInv, TypeOK, OpenInv
<1>5. TraceInv'
  <2>1. \A r \in crsr' : r.desc = Garbage => misled'
    BY <1>1 DEF IInv, TraceInv
  <2> QED
    BY <1>1, <2>1 DEF IInv, TypeOK, TraceInv
<1> QED
  BY <1>2, <1>3, <1>4, <1>5 DEF IInv

LEMMA ReplyInv ==
  ASSUME IInv, NEW w \in Worker, Reply(w)
  PROVE  IInv'
<1>1. /\ pc[w] = "done"
      /\ pc' = [pc EXCEPT ![w] = "idle"]
      /\ kind' = [kind EXCEPT ![w] = NoRow]
      /\ stored' = [stored EXCEPT ![w] = {}]
      /\ UNCHANGED <<report, siebel, changes, crsr, up, todo, cr, sr, desc, pending, misled, faults>>
  BY DEF Reply, Goto, hand, world
<1>2. TypeOK'
  BY <1>1 DEF IInv, TypeOK
<1>3. HandInv' /\ OpenInv' /\ TraceInv'
  BY <1>1 DEF IInv, TypeOK, HandInv, OpenInv, TraceInv
<1> QED
  BY <1>2, <1>3 DEF IInv

-----------------------------------------------------------------------------
(* The theorems                                                            *)

LEMMA NextInv == IInv /\ [Next]_vars => IInv'
<1> SUFFICES ASSUME IInv, [Next]_vars PROVE IInv'
  OBVIOUS
<1>1. CASE Change
  BY <1>1, ChangeInv
<1>2. CASE Restart
  BY <1>2, RestartInv
<1>3. ASSUME NEW w \in Worker, Step(w) PROVE IInv'
  BY <1>3, BeginInv, LookUpInv, AskReportInv, AskSiebelInv, InsertRowInv, FinishInv, ReplyInv
     DEF Step
<1>4. CASE UNCHANGED vars
  BY <1>4 DEF vars, IInv, TypeOK, HandInv, OpenInv, TraceInv
<1> QED
  BY <1>1, <1>2, <1>3, <1>4 DEF Next

LEMMA Invariant == Spec => []IInv
  BY InitInv, NextInv, PTL DEF Spec

\* Types are right, whatever the databases answer.
THEOREM TypeCorrect == Spec => []TypeOK
<1>1. IInv => TypeOK
  BY DEF IInv
<1> QED
  BY <1>1, Invariant, PTL

\* A request that waits for a key of CRSR holds none, whatever number of requests
\* there are (getSrForCrMysql's BEGIN).
THEOREM WaitersHoldNothing == Spec => []WaitsEmptyHanded
<1>1. IInv => WaitsEmptyHanded
  BY DEF IInv, OpenInv, WaitsEmptyHanded
<1> QED
  BY <1>1, Invariant, PTL

\* What an /updateDB or a /userqueue has stored is committed when it is done.
THEOREM DoneMeansCommitted == Spec => []DoneIsCommitted
<1>1. IInv => DoneIsCommitted
  BY DEF IInv, OpenInv, DoneIsCommitted
<1> QED
  BY <1>1, Invariant, PTL

\* What /srforcr reads from an empty list never gets into CRSR: its connection is
\* closed before its INSERT is committed (~ServerThread).
THEOREM NoTrace == Spec => []SrForCrLeavesNoTrace
<1>1. IInv => SrForCrLeavesNoTrace
  BY DEF IInv, TraceInv, SrForCrLeavesNoTrace
<1> QED
  BY <1>1, Invariant, PTL
=============================================================================
