---------------------------- MODULE RequestsProofs ----------------------------
(***************************************************************************)
(* Proofs about Requests, for any number of threads, any requests that     *)
(* they serve, and however often database servers go away.                 *)
(*                                                                         *)
(* A script is followed without unrolling it.  What its queries splice in  *)
(* (Body) is harmless: it neither closes the socket nor writes a head, and *)
(* is content with the two databases whose connections are open by then.   *)
(* The invariants say of what is left of a script                          *)
(*    ConnInv   that it opens what it asks before it does (Ready);         *)
(*    DocInv    which heads it will write before it closes the socket;     *)
(*    FinishInv how an update's will end.                                  *)
(***************************************************************************)
EXTENDS Requests, FiniteSetTheorems, SequenceTheorems, TLAPS

-----------------------------------------------------------------------------
(* Scripts                                                                 *)

ReportQuery == Query("report", <<Query("siebel", <<>>, <<At>>), Ask("mysql")>>, <<At>>)

\* The operations that a query's answer may bring.
Inner ==
  {Line, At, OpenDb("report"), Ask("mysql"), Ask("siebel"), Ask("report"),
   Query("siebel", <<>>, <<At>>), ReportQuery, Query("mysql", <<Ask("mysql")>>, <<>>)}
    \cup {Query("mysql", <<>>, r) : r \in ForCrReport}

\* Both of an operation's continuations are of this kind.
Quiet(o) == {o.yes, o.no} \subseteq Seq({Line, At})

\* The databases that an operation, or what it brings, asks.
Needs(o) == (IF o.do = "ask" THEN {o.on} ELSE {})
              \cup (IF Quiet(o) THEN {} ELSE {"mysql", "siebel"})

\* A script opens what it needs, but for what is in have.
Ready(s, have) ==
  \A i \in 1..Len(s) : \A db \in Needs(s[i]) :
    db \in have \/ \E j \in 1..(i - 1) : s[j] = OpenDb(db)

Body == {s \in Seq(Inner) : Ready(s, {"mysql", "siebel"})}

\* What is written to a socket, and what else an operation may be on.
Word == {"status", "server", "text", "xml", "empty", "finished", "line"}
Name == Word \cup Db \cup {"main", ""}

Fields == [do : {"open", "ask", "put", "close", "at"}, on : Name, yes : Body, no : Body]

AnyOp ==
  {o \in Fields :
     /\ o.do = "open" => o = OpenDb(o.on) /\ o.on \in Db
     /\ o.do = "ask" => o.on \in Db \cup {"main"}
     /\ o.do = "put" => o.on \in Word}

-----------------------------------------------------------------------------
(* The invariant                                                           *)

TypeInv ==
  /\ request \in [Worker -> Request \cup {None}]
  /\ todo \in [Worker -> Seq(AnyOp)]
  /\ doc \in [Worker -> Seq(Word)]
  /\ open \in [Worker -> BOOLEAN]
  /\ conn \in [Worker -> [Db -> Link]]
  /\ main \in Link
  /\ up \in [Db -> BOOLEAN]
  /\ cut \in [Worker -> SUBSET Db]
  /\ \A w \in Worker : ~Busy(w) => todo[w] = <<>>

\* What a request has opened, or asks without.
Excused(r) == CASE r[1] = "/srforcr" -> {"siebel"}
                [] r[1] = "/chat" -> {"main"}
                [] OTHER -> {}

Have(w) == {db \in Db : conn[w][db] # "none"} \cup Excused(request[w])

ConnInv ==
  \A w \in Worker : Busy(w) =>
    /\ Ready(todo[w], Have(w))
    /\ \A db \in Db : ~up[db] \/ conn[w][db] = "stale" => db \in cut[w]

Content == {"text", "xml"}
Ends    == {"text", "xml", "empty"}

\* The places of a script that write one of these words before the socket is closed.
Marks(s, words) ==
  {i \in 1..Len(s) : /\ s[i].do = "put" /\ s[i].on \in words
                     /\ \A j \in 1..(i - 1) : s[j].do # "close"}

\* What a request has written, and what it will write, make one answer.
Answers(r, s, d, socket) ==
  /\ \A i, j \in 1..Len(d) : d[i] \in Content /\ d[j] \in Content => i = j
  /\ socket => /\ \A i, j \in Marks(s, Content) : i = j
               /\ (\E i \in 1..Len(d) : d[i] \in Content) => Marks(s, Content) = {}
  /\ \/ r \in Headless
     \/ \E i \in 1..Len(d) : d[i] \in Ends
     \/ socket /\ Marks(s, Ends) # {}

DocInv == \A w \in Worker : Busy(w) => Answers(request[w], todo[w], doc[w], open[w])

\* An update ends its head, says that it is finished, and closes.
Closing(s) ==
  LET n == Len(s) IN
  /\ n >= 3
  /\ \A j \in 1..(n - 1) : s[j].do # "close"
  /\ s[n - 2] = Put("empty") /\ s[n - 1] = Put("finished") /\ s[n] = Close

Finishes(s, d, socket) ==
  \/ Closing(s) /\ socket
  \/ /\ s = <<Put("finished"), Close>> /\ socket
     /\ d # <<>> /\ d[Len(d)] = "empty"
  \/ /\ s \in {<<Close>>, <<>>}
     /\ Len(d) >= 2 /\ d[Len(d) - 1] = "empty" /\ d[Len(d)] = "finished"

FinishInv ==
  \A w \in Worker :
    Busy(w) /\ request[w][1] = "/updateDB" => Finishes(todo[w], doc[w], open[w])

IInv == TypeInv /\ IdleHoldsNothing /\ FailuresExplained /\ ConnInv /\ DocInv /\ FinishInv

-----------------------------------------------------------------------------
(* Operations                                                              *)

LEMMA ShortSeq ==
  ASSUME NEW S
  PROVE  /\ <<>> \in Seq(S)
         /\ \A a \in S : <<a>> \in Seq(S)
         /\ \A a, b \in S : <<a, b>> \in Seq(S)
         /\ \A a, b, c \in S : <<a, b, c>> \in Seq(S)
OBVIOUS

\* A sequence is the concatenation of two if it has their elements.
LEMMA JoinIs ==
  ASSUME NEW S, NEW x \in Seq(S), NEW y \in Seq(S), NEW z \in Seq(S),
         Len(z) = Len(x) + Len(y),
         \A i \in 1..Len(x) : z[i] = x[i],
         \A i \in 1..Len(y) : z[Len(x) + i] = y[i]
  PROVE  x \o y = z
<1>1. /\ x \o y \in Seq(S) /\ Len(x \o y) = Len(x) + Len(y)
      /\ \A i \in 1..Len(x) + Len(y) :
           (x \o y)[i] = IF i <= Len(x) THEN x[i] ELSE y[i - Len(x)]
  BY ConcatProperties
<1>2. Len(x) \in Nat /\ Len(y) \in Nat
  BY LenProperties
<1>3. ASSUME NEW i \in 1..Len(z)
      PROVE  (x \o y)[i] = z[i]
  <2>1. CASE i <= Len(x)
    BY <2>1, <1>1, <1>2
  <2>2. CASE i > Len(x)
    <3>1. i - Len(x) \in 1..Len(y) /\ Len(x) + (i - Len(x)) = i
      BY <2>2, <1>2
    <3>2. z[i] = y[i - Len(x)]
      BY <3>1
    <3> QED
      BY <3>2, <2>2, <1>1, <1>2
  <2> QED
    BY <2>1, <2>2, <1>2
<1> QED
  BY <1>1, <1>3, SeqEqual

\* The concatenations that scripts are made of.
LEMMA Join11 ==
  ASSUME NEW a, NEW b
  PROVE  <<a>> \o <<b>> = <<a, b>>
<1> DEFINE S == {a, b}
           x == <<a>>
           y == <<b>>
           z == <<a, b>>
<1>1. x \in Seq(S) /\ y \in Seq(S) /\ z \in Seq(S) /\ Len(z) = Len(x) + Len(y)
  OBVIOUS
<1>2. Len(x) = 1 /\ Len(y) = 1 /\ x[1] = z[1] /\ y[1] = z[2]
  OBVIOUS
<1> HIDE DEF S, x, y, z
<1>3. (\A i \in 1..Len(x) : z[i] = x[i]) /\ (\A i \in 1..Len(y) : z[Len(x) + i] = y[i])
  BY <1>2
<1>4. x \o y = z
  BY <1>1, <1>3, JoinIs
<1> QED
  BY <1>4, Zenon DEF x, y, z

LEMMA Join12 ==
  ASSUME NEW a, NEW b, NEW c
  PROVE  <<a>> \o <<b, c>> = <<a, b, c>>
<1> DEFINE S == {a, b, c}
           x == <<a>>
           y == <<b, c>>
           z == <<a, b, c>>
<1>1. x \in Seq(S) /\ y \in Seq(S) /\ z \in Seq(S) /\ Len(z) = Len(x) + Len(y)
  OBVIOUS
<1>2. (\A i \in 1..Len(x) : z[i] = x[i]) /\ (\A i \in 1..Len(y) : z[Len(x) + i] = y[i])
  OBVIOUS
<1> QED
  BY <1>1, <1>2, JoinIs

LEMMA Join13 ==
  ASSUME NEW a, NEW b, NEW c, NEW d
  PROVE  <<a>> \o <<b, c, d>> = <<a, b, c, d>>
<1> DEFINE S == {a, b, c, d}
           x == <<a>>
           y == <<b, c, d>>
           z == <<a, b, c, d>>
<1>1. x \in Seq(S) /\ y \in Seq(S) /\ z \in Seq(S) /\ Len(z) = Len(x) + Len(y)
  OBVIOUS
<1>2. (\A i \in 1..Len(x) : z[i] = x[i]) /\ (\A i \in 1..Len(y) : z[Len(x) + i] = y[i])
  OBVIOUS
<1> QED
  BY <1>1, <1>2, JoinIs

LEMMA Join14 ==
  ASSUME NEW a, NEW b, NEW c, NEW d, NEW e
  PROVE  <<a>> \o <<b, c, d, e>> = <<a, b, c, d, e>>
<1> DEFINE S == {a, b, c, d, e}
           x == <<a>>
           y == <<b, c, d, e>>
           z == <<a, b, c, d, e>>
<1>1. x \in Seq(S) /\ y \in Seq(S) /\ z \in Seq(S) /\ Len(z) = Len(x) + Len(y)
  OBVIOUS
<1>2. (\A i \in 1..Len(x) : z[i] = x[i]) /\ (\A i \in 1..Len(y) : z[Len(x) + i] = y[i])
  OBVIOUS
<1> QED
  BY <1>1, <1>2, JoinIs

LEMMA Join15 ==
  ASSUME NEW a, NEW b, NEW c, NEW d, NEW e, NEW f
  PROVE  <<a>> \o <<b, c, d, e, f>> = <<a, b, c, d, e, f>>
<1> DEFINE S == {a, b, c, d, e, f}
           x == <<a>>
           y == <<b, c, d, e, f>>
           z == <<a, b, c, d, e, f>>
<1>1. x \in Seq(S) /\ y \in Seq(S) /\ z \in Seq(S) /\ Len(z) = Len(x) + Len(y)
  OBVIOUS
<1>2. (\A i \in 1..Len(x) : z[i] = x[i]) /\ (\A i \in 1..Len(y) : z[Len(x) + i] = y[i])
  OBVIOUS
<1> QED
  BY <1>1, <1>2, JoinIs

LEMMA Join21 ==
  ASSUME NEW a, NEW b, NEW c
  PROVE  <<a, b>> \o <<c>> = <<a, b, c>>
<1> DEFINE S == {a, b, c}
           x == <<a, b>>
           y == <<c>>
           z == <<a, b, c>>
<1>1. x \in Seq(S) /\ y \in Seq(S) /\ z \in Seq(S) /\ Len(z) = Len(x) + Len(y)
  OBVIOUS
<1>2. (\A i \in 1..Len(x) : z[i] = x[i]) /\ (\A i \in 1..Len(y) : z[Len(x) + i] = y[i])
  OBVIOUS
<1> QED
  BY <1>1, <1>2, JoinIs

LEMMA Join22 ==
  ASSUME NEW a, NEW b, NEW c, NEW d
  PROVE  <<a, b>> \o <<c, d>> = <<a, b, c, d>>
<1> DEFINE S == {a, b, c, d}
           x == <<a, b>>
           y == <<c, d>>
           z == <<a, b, c, d>>
<1>1. x \in Seq(S) /\ y \in Seq(S) /\ z \in Seq(S) /\ Len(z) = Len(x) + Len(y)
  OBVIOUS
<1>2. (\A i \in 1..Len(x) : z[i] = x[i]) /\ (\A i \in 1..Len(y) : z[Len(x) + i] = y[i])
  OBVIOUS
<1> QED
  BY <1>1, <1>2, JoinIs

LEMMA Join23 ==
  ASSUME NEW a, NEW b, NEW c, NEW d, NEW e
  PROVE  <<a, b>> \o <<c, d, e>> = <<a, b, c, d, e>>
<1> DEFINE S == {a, b, c, d, e}
           x == <<a, b>>
           y == <<c, d, e>>
           z == <<a, b, c, d, e>>
<1>1. x \in Seq(S) /\ y \in Seq(S) /\ z \in Seq(S) /\ Len(z) = Len(x) + Len(y)
  OBVIOUS
<1>2. (\A i \in 1..Len(x) : z[i] = x[i]) /\ (\A i \in 1..Len(y) : z[Len(x) + i] = y[i])
  OBVIOUS
<1> QED
  BY <1>1, <1>2, JoinIs

LEMMA Join41 ==
  ASSUME NEW a, NEW b, NEW c, NEW d, NEW e
  PROVE  <<a, b, c, d>> \o <<e>> = <<a, b, c, d, e>>
<1> DEFINE S == {a, b, c, d, e}
           x == <<a, b, c, d>>
           y == <<e>>
           z == <<a, b, c, d, e>>
<1>1. x \in Seq(S) /\ y \in Seq(S) /\ z \in Seq(S) /\ Len(z) = Len(x) + Len(y)
  OBVIOUS
<1>2. (\A i \in 1..Len(x) : z[i] = x[i]) /\ (\A i \in 1..Len(y) : z[Len(x) + i] = y[i])
  OBVIOUS
<1> QED
  BY <1>1, <1>2, JoinIs

LEMMA Join51 ==
  ASSUME NEW a, NEW b, NEW c, NEW d, NEW e, NEW f
  PROVE  <<a, b, c, d, e>> \o <<f>> = <<a, b, c, d, e, f>>
<1> DEFINE S == {a, b, c, d, e, f}
           x == <<a, b, c, d, e>>
           y == <<f>>
           z == <<a, b, c, d, e, f>>
<1>1. x \in Seq(S) /\ y \in Seq(S) /\ z \in Seq(S) /\ Len(z) = Len(x) + Len(y)
  OBVIOUS
<1>2. (\A i \in 1..Len(x) : z[i] = x[i]) /\ (\A i \in 1..Len(y) : z[Len(x) + i] = y[i])
  OBVIOUS
<1> QED
  BY <1>1, <1>2, JoinIs

\* What is quiet needs nothing but what it asks itself.
LEMMA QuietBody ==
  ASSUME NEW s \in Seq({Line, At}), NEW h
  PROVE  Ready(s, h) /\ s \in Body
<1>1. \A i \in 1..Len(s) : s[i] \in {Line, At}
  BY ElementOfSeq
<1>2. Needs(Line) = {} /\ Needs(At) = {}
  BY EmptySeq DEF Needs, Quiet, Line, At, Put, Op
<1>3. Ready(s, h) /\ Ready(s, {"mysql", "siebel"})
  BY <1>1, <1>2 DEF Ready
<1>4. s \in Seq(Inner)
  BY {Line, At} \subseteq Inner, SeqMonotonic DEF Inner
<1> QED
  BY <1>3, <1>4 DEF Body

LEMMA Bodies ==
  /\ <<>> \in Body /\ <<At>> \in Body /\ <<Line>> \in Body
  /\ <<Ask("mysql")>> \in Body
  /\ <<Query("siebel", <<>>, <<At>>), Ask("mysql")>> \in Body
  /\ ForCrReport \subseteq Body
<1>1. <<>> \in Seq({Line, At}) /\ <<At>> \in Seq({Line, At}) /\ <<Line>> \in Seq({Line, At})
  OBVIOUS
<1>2. Quiet(Query("siebel", <<>>, <<At>>))
  BY <1>1 DEF Quiet, Query, Op
<1>3. \A db : Quiet(Ask(db)) /\ Quiet(OpenDb(db))
  BY <1>1 DEF Quiet, Ask, Query, OpenDb, Op
<1>4. <<Ask("mysql")>> \in Body
  <2>1. <<Ask("mysql")>> \in Seq(Inner)
    BY DEF Inner
  <2>2. Needs(Ask("mysql")) = {"mysql"}
    BY <1>3 DEF Needs, Ask, Query, Op
  <2>3. Ready(<<Ask("mysql")>>, {"mysql", "siebel"})
    BY <2>2 DEF Ready
  <2> QED
    BY <2>1, <2>3 DEF Body
<1>5. <<Query("siebel", <<>>, <<At>>), Ask("mysql")>> \in Body
  <2> DEFINE q == Query("siebel", <<>>, <<At>>)
  <2>1. <<q, Ask("mysql")>> \in Seq(Inner)
    BY DEF Inner
  <2>2. Needs(q) = {"siebel"} /\ Needs(Ask("mysql")) = {"mysql"}
    BY <1>2, <1>3 DEF Needs, Ask, Query, Op
  <2>3. Ready(<<q, Ask("mysql")>>, {"mysql", "siebel"})
    BY <2>2 DEF Ready
  <2> QED
    BY <2>1, <2>3 DEF Body
<1>6. <<OpenDb("report"), ReportQuery>> \in Body
  <2>1. <<OpenDb("report"), ReportQuery>> \in Seq(Inner)
    BY DEF Inner
  <2>2. Needs(OpenDb("report")) = {}
    BY <1>3 DEF Needs, OpenDb, Op
  <2>3. Needs(ReportQuery) \subseteq {"report", "mysql", "siebel"}
    BY DEF Needs, ReportQuery, Query, Op
  <2>4. Ready(<<OpenDb("report"), ReportQuery>>, {"mysql", "siebel"})
    BY <2>2, <2>3 DEF Ready
  <2> QED
    BY <2>1, <2>4 DEF Body
<1>7. <<OpenDb("report"), Ask("report"), At>> \in Body
  <2>1. <<OpenDb("report"), Ask("report"), At>> \in Seq(Inner)
    BY DEF Inner
  <2>2. Needs(OpenDb("report")) = {} /\ Needs(Ask("report")) = {"report"} /\ Needs(At) = {}
    BY <1>1, <1>3 DEF Needs, Quiet, At, Ask, Query, OpenDb, Op
  <2>3. Ready(<<OpenDb("report"), Ask("report"), At>>, {"mysql", "siebel"})
    BY <2>2 DEF Ready
  <2> QED
    BY <2>1, <2>3 DEF Body
<1> QED
  BY <1>1, <1>4, <1>5, <1>6, <1>7, QuietBody DEF ForCrReport, ReportQuery

\* Operations of each kind are operations.
LEMMA MakeOp ==
  ASSUME NEW do \in {"open", "ask", "put", "close", "at"}, NEW on \in Name,
         NEW yes \in Body, NEW no \in Body
  PROVE  /\ Op(do, on, yes, no) \in Fields
         /\ Op(do, on, yes, no).do = do /\ Op(do, on, yes, no).on = on
         /\ Op(do, on, yes, no).yes = yes /\ Op(do, on, yes, no).no = no
BY DEF Op, Fields

LEMMA SimpleOps ==
  /\ \A what \in Word : Put(what) \in AnyOp
  /\ Close \in AnyOp /\ At \in AnyOp
<1>1. ASSUME NEW do \in {"put", "close", "at"}, NEW on \in Name,
             do = "put" => on \in Word
      PROVE  Op(do, on, <<>>, <<>>) \in AnyOp
  <2>1. /\ Op(do, on, <<>>, <<>>) \in Fields
        /\ Op(do, on, <<>>, <<>>).do = do
        /\ Op(do, on, <<>>, <<>>).on = on
    BY MakeOp, Bodies
  <2> QED
    BY <1>1, <2>1 DEF AnyOp, Fields
<1>2. "" \in Name /\ Word \subseteq Name
  BY DEF Name
<1> QED
  BY <1>1, <1>2 DEF Put, Close, At

LEMMA OpenOps ==
  ASSUME NEW db \in Db
  PROVE  OpenDb(db) \in AnyOp
<1> DEFINE o == OpenDb(db)
<1>1. db \in Name
  BY DEF Name
<1>2. /\ o \in Fields
      /\ o.do = "open" /\ o.on = db
  BY <1>1, MakeOp, Bodies DEF OpenDb
<1> QED
  BY <1>2 DEF AnyOp, Fields

LEMMA QueryOps ==
  ASSUME NEW yes \in Body, NEW no \in Body, NEW db \in Db \cup {"main"}
  PROVE  Query(db, yes, no) \in AnyOp
<1> DEFINE o == Query(db, yes, no)
<1>1. db \in Name
  BY DEF Name
<1>2. /\ o \in Fields
      /\ o.do = "ask" /\ o.on = db
  BY <1>1, MakeOp DEF Query
<1> QED
  BY <1>2 DEF AnyOp, Fields

LEMMA InnerOps == Inner \subseteq AnyOp
<1>1. Line \in AnyOp /\ At \in AnyOp
  BY SimpleOps, "line" \in Word DEF Line, Word
<1>2. OpenDb("report") \in AnyOp
  BY OpenOps DEF Db
<1>3. "mysql" \in Db \cup {"main"} /\ "siebel" \in Db \cup {"main"}
        /\ "report" \in Db \cup {"main"}
  BY DEF Db
<1>4. Ask("mysql") \in AnyOp /\ Ask("siebel") \in AnyOp /\ Ask("report") \in AnyOp
  BY <1>3, Bodies, QueryOps DEF Ask
<1>5. Query("siebel", <<>>, <<At>>) \in AnyOp /\ ReportQuery \in AnyOp
        /\ Query("mysql", <<Ask("mysql")>>, <<>>) \in AnyOp
  BY <1>3, Bodies, QueryOps DEF ReportQuery
<1>6. \A r \in ForCrReport : Query("mysql", <<>>, r) \in AnyOp
  BY <1>3, Bodies, QueryOps
<1> QED
  BY <1>1, <1>2, <1>4, <1>5, <1>6, Zenon DEF Inner

-----------------------------------------------------------------------------
(* What is left of a script after its first operation, with what that brings in front *)

LEMMA SpliceOps ==
  ASSUME NEW s \in Seq(AnyOp), s # <<>>, NEW b \in Body
  PROVE  LET t == b \o Tail(s) IN
         /\ b \in Seq(AnyOp)
         /\ t \in Seq(AnyOp)
         /\ Len(b) \in Nat /\ Len(s) \in Nat \ {0} /\ Len(t) = Len(b) + Len(s) - 1
         /\ \A i \in 1..Len(b) : t[i] = b[i] /\ b[i] \in Inner /\ t[i] \in AnyOp
         /\ \A i \in 1..Len(t) : i > Len(b) =>
              i - Len(b) + 1 \in 2..Len(s) /\ t[i] = s[i - Len(b) + 1]
<1> DEFINE t == b \o Tail(s)
<1>1. b \in Seq(Inner)
  BY DEF Body
<1>2. b \in Seq(AnyOp)
  BY <1>1, InnerOps, SeqMonotonic, Zenon
<1>3. Tail(s) \in Seq(AnyOp) /\ Len(Tail(s)) = Len(s) - 1 /\ Len(s) \in Nat \ {0}
      /\ \A i \in 1..Len(Tail(s)) : Tail(s)[i] = s[i + 1]
  BY HeadTailProperties, EmptySeq, LenProperties
<1>4. /\ t \in Seq(AnyOp) /\ Len(t) = Len(b) + Len(Tail(s)) /\ Len(b) \in Nat
      /\ \A i \in 1..Len(t) : t[i] = IF i <= Len(b) THEN b[i] ELSE Tail(s)[i - Len(b)]
  BY <1>2, <1>3, ConcatProperties, LenProperties
<1>5. \A i \in 1..Len(b) : t[i] = b[i] /\ b[i] \in Inner /\ t[i] \in AnyOp
  BY <1>1, <1>3, <1>4, InnerOps, ElementOfSeq
<1>6. ASSUME NEW i \in 1..Len(t), i > Len(b)
      PROVE  i - Len(b) + 1 \in 2..Len(s) /\ t[i] = s[i - Len(b) + 1]
  <2>1. i - Len(b) \in 1..Len(Tail(s)) /\ t[i] = Tail(s)[i - Len(b)]
    BY <1>3, <1>4, <1>6
  <2> QED
    BY <2>1, <1>3
<1> QED
  BY <1>2, <1>3, <1>4, <1>5, <1>6

\* An operation that is done leaves a script ready, with what it opened at hand.
LEMMA SpliceReady ==
  ASSUME NEW s \in Seq(AnyOp), s # <<>>,
         NEW b \in {<<>>, s[1].yes, s[1].no},
         NEW h, NEW h2, Ready(s, h), h \subseteq h2,
         \A db : s[1] = OpenDb(db) => db \in h2
  PROVE  b \in Body /\ Ready(b \o Tail(s), h2)
<1> DEFINE t == b \o Tail(s)
<1>1. s[1] \in AnyOp /\ Len(s) \in Nat \ {0}
  BY ElementOfSeq, EmptySeq, LenProperties
<1>2. b \in Body
  BY <1>1, Bodies DEF AnyOp, Fields
<1>3. /\ Len(t) = Len(b) + Len(s) - 1 /\ Len(b) \in Nat
      /\ \A i \in 1..Len(b) : t[i] = b[i]
      /\ \A i \in 1..Len(t) : i > Len(b) =>
           i - Len(b) + 1 \in 2..Len(s) /\ t[i] = s[i - Len(b) + 1]
  BY <1>2, SpliceOps
<1>4. ASSUME NEW i \in 1..Len(t), i <= Len(b), NEW db \in Needs(t[i])
      PROVE  db \in h2 \/ \E j \in 1..(i - 1) : t[j] = OpenDb(db)
  <2>1. b \in Body /\ i \in 1..Len(b) /\ t[i] = b[i]
    BY <1>2, <1>3, <1>4
  <2>2. db \in {"mysql", "siebel"} \/ \E j \in 1..(i - 1) : b[j] = OpenDb(db)
    BY <2>1, <1>4 DEF Body, Ready
  <2>3. ASSUME NEW j \in 1..(i - 1), b[j] = OpenDb(db)
        PROVE  t[j] = OpenDb(db)
    BY <1>3, <1>4, <2>3
  <2>4. CASE Quiet(s[1])
    <3>1. b \in Seq({Line, At})
      BY <2>4, <1>2, b = <<>> => b \in Seq({Line, At}) DEF Quiet
    <3>2. Ready(b, {})
      BY <3>1, QuietBody
    <3> QED
      BY <3>2, <2>1, <2>3, <1>4 DEF Ready
  <2>5. CASE ~Quiet(s[1])
    <3>1. {"mysql", "siebel"} \subseteq Needs(s[1])
      BY <2>5 DEF Needs
    <3>2. {"mysql", "siebel"} \subseteq h
      BY <3>1, <1>1 DEF Ready
    <3> QED
      BY <3>2, <2>2, <2>3
  <2> QED
    BY <2>4, <2>5
<1>5. ASSUME NEW i \in 1..Len(t), i > Len(b), NEW db \in Needs(t[i])
      PROVE  db \in h2 \/ \E j \in 1..(i - 1) : t[j] = OpenDb(db)
  <2> DEFINE k == i - Len(b) + 1
  <2>1. k \in 2..Len(s) /\ t[i] = s[k]
    BY <1>3, <1>5
  <2>2. db \in h \/ \E j \in 1..(k - 1) : s[j] = OpenDb(db)
    BY <2>1, <1>1, <1>5 DEF Ready
  <2>3. ASSUME NEW j \in 1..(k - 1), s[j] = OpenDb(db)
        PROVE  db \in h2 \/ \E m \in 1..(i - 1) : t[m] = OpenDb(db)
    <3>1. CASE j = 1
      BY <3>1, <2>3
    <3>2. CASE j > 1
      <4>1. j + Len(b) - 1 \in 1..(i - 1) /\ j + Len(b) - 1 > Len(b)
        BY <3>2, <2>1, <1>3
      <4>2. t[j + Len(b) - 1] = s[j]
        BY <4>1, <1>3
      <4> QED
        BY <4>1, <4>2, <2>3
    <3> QED
      BY <3>1, <3>2, <2>1
  <2> QED
    BY <2>2, <2>3
<1> QED
  <2>1. \A i \in 1..Len(t) : i <= Len(b) \/ i > Len(b)
    BY <1>1, <1>3
  <2> QED
    BY <1>2, <1>4, <1>5, <2>1 DEF Ready

\* The kinds of operations, and what each needs.
LEMMA Kinds ==
  /\ \A x : /\ Put(x).do = "put" /\ Put(x).on = x
            /\ Needs(Put(x)) = {}
            /\ \A db : Put(x) # OpenDb(db)
  /\ Close.do = "close" /\ Needs(Close) = {}
  /\ At.do = "at" /\ Needs(At) = {}
  /\ \A db : /\ OpenDb(db).do = "open" /\ OpenDb(db).on = db
             /\ Needs(OpenDb(db)) = {}
  /\ \A db : Ask(db).do = "ask" /\ Needs(Ask(db)) = {db}
  /\ \A db, yes, no :
       /\ Query(db, yes, no).do = "ask" /\ Query(db, yes, no).on = db
       /\ Needs(Query(db, yes, no)) \subseteq {db, "mysql", "siebel"}
       /\ {yes, no} \subseteq {<<>>, <<At>>, <<Line>>} => Needs(Query(db, yes, no)) = {db}
<1> DEFINE Simple == {<<>>, <<At>>, <<Line>>}
<1>1. Simple \subseteq Seq({Line, At})
  OBVIOUS
<1>2. \A do, on, yes, no :
        /\ Op(do, on, yes, no).do = do /\ Op(do, on, yes, no).on = on
        /\ Op(do, on, yes, no).yes = yes /\ Op(do, on, yes, no).no = no
  BY DEF Op
<1>3. ASSUME NEW do, NEW on, NEW yes, NEW no, {yes, no} \subseteq Simple
      PROVE  Needs(Op(do, on, yes, no)) = IF do = "ask" THEN {on} ELSE {}
  <2> DEFINE o == Op(do, on, yes, no)
  <2>1. o.do = do /\ o.on = on /\ o.yes = yes /\ o.no = no
    BY <1>2
  <2>2. yes \in Seq({Line, At}) /\ no \in Seq({Line, At})
    BY <1>1, <1>3
  <2> HIDE DEF o
  <2>3. Quiet(o)
    BY <2>1, <2>2 DEF Quiet
  <2>4. Needs(o) = IF do = "ask" THEN {on} ELSE {}
    BY <2>1, <2>3 DEF Needs
  <2> QED
    BY <2>4 DEF o
<1>4. \A do, on, yes, no :
        Needs(Op(do, on, yes, no)) \subseteq
          (IF do = "ask" THEN {on} ELSE {}) \cup {"mysql", "siebel"}
  BY <1>2 DEF Needs
<1>5. <<>> \in Simple
  OBVIOUS
<1> HIDE DEF Simple
<1>6. \A x : /\ Put(x).do = "put" /\ Put(x).on = x /\ Needs(Put(x)) = {}
  BY <1>2, <1>3, <1>5 DEF Put
<1>7. Close.do = "close" /\ Needs(Close) = {} /\ At.do = "at" /\ Needs(At) = {}
  <2>1. \A do, on : do # "ask" => Needs(Op(do, on, <<>>, <<>>)) = {}
    BY <1>3, <1>5
  <2>2. Close.do = "close" /\ At.do = "at"
    BY DEF Close, At, Op
  <2>3. Needs(Op("close", "", <<>>, <<>>)) = {} /\ Needs(Op("at", "", <<>>, <<>>)) = {}
    BY <2>1
  <2> QED
    BY <2>2, <2>3, Zenon DEF Close, At
<1>8. \A db : OpenDb(db).do = "open" /\ OpenDb(db).on = db /\ Needs(OpenDb(db)) = {}
  BY <1>2, <1>3, <1>5 DEF OpenDb
<1>9. \A db, yes, no :
        /\ Query(db, yes, no).do = "ask" /\ Query(db, yes, no).on = db
        /\ Needs(Query(db, yes, no)) \subseteq {db, "mysql", "siebel"}
        /\ {yes, no} \subseteq Simple => Needs(Query(db, yes, no)) = {db}
  BY <1>2, <1>3, <1>4 DEF Query
<1>10. \A db : Ask(db).do = "ask" /\ Ask(db).on = db /\ Needs(Ask(db)) = {db}
  BY <1>5, <1>9 DEF Ask
<1> QED
  BY <1>6, <1>7, <1>8, <1>9, <1>10 DEF Simple

\* What a query brings neither closes the socket nor ends a head.
LEMMA InnerKinds ==
  ASSUME NEW o \in Inner
  PROVE  /\ o.do # "close"
         /\ o.do = "put" => o.on = "line"
BY Kinds DEF Inner, ReportQuery, Line

LEMMA SpliceMarks ==
  ASSUME NEW s \in Seq(AnyOp), s # <<>>, NEW b \in Body, NEW words, "line" \notin words
  PROVE  LET t == b \o Tail(s) IN
         /\ s[1].do # "close" =>
              \A k \in Nat : k \in Marks(t, words) =>
                k > Len(b) /\ k - Len(b) + 1 \in Marks(s, words)
         /\ \A k \in Marks(s, words) : k # 1 => k + Len(b) - 1 \in Marks(t, words)
<1> DEFINE t == b \o Tail(s)
<1>1. /\ Len(b) \in Nat /\ Len(s) \in Nat \ {0}
      /\ Len(t) = Len(b) + Len(s) - 1
      /\ \A i \in 1..Len(b) : t[i] = b[i] /\ b[i] \in Inner
      /\ \A i \in 1..Len(t) : i > Len(b) =>
           i - Len(b) + 1 \in 2..Len(s) /\ t[i] = s[i - Len(b) + 1]
  BY SpliceOps
<1>2. \A i \in 1..Len(b) : t[i].do # "close" /\ ~(t[i].do = "put" /\ t[i].on \in words)
  BY <1>1, InnerKinds
<1>3. ASSUME s[1].do # "close", NEW k \in Nat, k \in Marks(t, words)
      PROVE  k > Len(b) /\ k - Len(b) + 1 \in Marks(s, words)
  <2>1. k \in 1..Len(t) /\ t[k].do = "put" /\ t[k].on \in words
          /\ \A j \in 1..(k - 1) : t[j].do # "close"
    BY <1>3 DEF Marks
  <2>2. k > Len(b)
    BY <2>1, <1>1, <1>2
  <2>3. k - Len(b) + 1 \in 1..Len(s) /\ t[k] = s[k - Len(b) + 1]
    BY <2>1, <2>2, <1>1
  <2>4. ASSUME NEW j \in 1..(k - Len(b))
        PROVE  s[j].do # "close"
    <3>1. CASE j = 1
      BY <3>1, <1>3
    <3>2. CASE j > 1
      <4>1. j + Len(b) - 1 \in 1..(k - 1) /\ j + Len(b) - 1 > Len(b)
              /\ j + Len(b) - 1 \in 1..Len(t)
        BY <3>2, <2>1, <2>2, <1>1
      <4>2. t[j + Len(b) - 1] = s[j]
        BY <4>1, <1>1
      <4> QED
        BY <4>1, <4>2, <2>1
    <3> QED
      BY <3>1, <3>2
  <2> QED
    BY <2>1, <2>2, <2>3, <2>4, <1>1 DEF Marks
<1>4. ASSUME NEW k \in Marks(s, words), k # 1
      PROVE  k + Len(b) - 1 \in Marks(t, words)
  <2>1. k \in 2..Len(s) /\ s[k].do = "put" /\ s[k].on \in words
          /\ \A j \in 1..(k - 1) : s[j].do # "close"
    BY <1>4, <1>1 DEF Marks
  <2>2. k + Len(b) - 1 \in 1..Len(t) /\ k + Len(b) - 1 > Len(b)
    BY <2>1, <1>1
  <2>3. t[k + Len(b) - 1] = s[k]
    BY <2>1, <2>2, <1>1
  <2>4. ASSUME NEW j \in 1..(k + Len(b) - 2)
        PROVE  t[j].do # "close"
    <3>1. CASE j <= Len(b)
      BY <3>1, <1>1, <1>2
    <3>2. CASE j > Len(b)
      <4>1. j \in 1..Len(t) /\ j - Len(b) + 1 \in 1..(k - 1)
        BY <3>2, <2>1, <1>1
      <4>2. t[j] = s[j - Len(b) + 1]
        BY <4>1, <3>2, <1>1
      <4> QED
        BY <4>1, <4>2, <2>1
    <3> QED
      BY <3>1, <3>2, <1>1, <2>1
  <2> QED
    BY <2>1, <2>2, <2>3, <2>4, <1>1 DEF Marks
<1> QED
  BY <1>3, <1>4

\* Operations that stand in scripts.
LEMMA Standing ==
  /\ text \in AnyOp /\ xml \in AnyOp /\ Line \in AnyOp /\ Close \in AnyOp /\ At \in AnyOp
  /\ Put("empty") \in AnyOp /\ Put("finished") \in AnyOp
  /\ OpenDb("mysql") \in AnyOp /\ OpenDb("siebel") \in AnyOp
  /\ OpenDb("report") \in AnyOp /\ OpenDb("qmon") \in AnyOp
  /\ Ask("mysql") \in AnyOp /\ Ask("siebel") \in AnyOp /\ Ask("report") \in AnyOp
  /\ Ask("qmon") \in AnyOp /\ Ask("main") \in AnyOp
  /\ getSrnumsForQueue \in AnyOp /\ getPseudoQueues \in AnyOp /\ getDetDesc \in AnyOp
  /\ getSrStatus \in AnyOp /\ getCreator \in AnyOp /\ ReportQuery \in AnyOp
<1>1. /\ text \in AnyOp /\ xml \in AnyOp /\ Line \in AnyOp /\ Close \in AnyOp /\ At \in AnyOp
      /\ Put("empty") \in AnyOp /\ Put("finished") \in AnyOp
  BY SimpleOps DEF text, xml, Line, Word
<1>2. /\ OpenDb("mysql") \in AnyOp /\ OpenDb("siebel") \in AnyOp
      /\ OpenDb("report") \in AnyOp /\ OpenDb("qmon") \in AnyOp
  BY OpenOps DEF Db
<1>3. \A db \in Db \cup {"main"} : Ask(db) \in AnyOp
  BY Bodies, QueryOps DEF Ask
<1>4. /\ Ask("mysql") \in AnyOp /\ Ask("siebel") \in AnyOp /\ Ask("report") \in AnyOp
      /\ Ask("qmon") \in AnyOp /\ Ask("main") \in AnyOp
  BY <1>3 DEF Db
<1>5. getSrnumsForQueue \in AnyOp
  BY Bodies, QueryOps DEF Db, getSrnumsForQueue
<1>6. ReportQuery \in AnyOp
  BY InnerOps DEF Inner
<1> QED
  BY <1>1, <1>2, <1>4, <1>5, <1>6 DEF getPseudoQueues, getDetDesc, getSrStatus, getCreator

-----------------------------------------------------------------------------
(* The routes                                                              *)

Sound(r, s) ==
  /\ s \in Seq(AnyOp)
  /\ Ready(s, Excused(r))
  /\ \A i, j \in Marks(s, Content) : i = j
  /\ r \in Headless \/ Marks(s, Ends) # {}
  /\ r[1] = "/updateDB" => Closing(s)

LEMMA FirstIs ==
  ASSUME NEW a, NEW B, NEW s \in First(a, B)
  PROVE  \E b \in B : s = a \o b
BY DEF First, Then

LEMMA QmonRoutes ==
  ASSUME NEW r \in Request, r[1] \in {"/qmon_date", "/qmon"},
         NEW s \in Branch(r[1], r[2])
  PROVE  Sound(r, s)
<1>1. CASE r[1] = "/qmon"
  <2>1. s = <<OpenDb("mysql"), Ask("mysql"), xml, Line, Close>>
    BY <1>1 DEF Branch, Qmon
  <2>2. s \in Seq(AnyOp)
    BY <2>1, Standing
  <2>3. Ready(s, {})
    BY <2>1, Kinds DEF Ready, xml, Line
  <2> QED
    BY <2>1, <2>2, <2>3, <1>1, Kinds, SMTT(30) DEF Sound, Marks, Content, Ends, Excused, xml, Line
<1>2. CASE r[1] = "/qmon_date"
  <2>1. s = <<OpenDb("mysql"), Ask("mysql"), xml, Line, Close,
              OpenDb("mysql"), Ask("mysql"), xml, Line, Close>>
    BY <1>2 DEF Branch, Qmon, QmonDate, Then
  <2>2. s \in Seq(AnyOp)
    BY <2>1, Standing
  <2>3. Ready(s, {})
    BY <2>1, Kinds DEF Ready, xml, Line
  <2> QED
    BY <2>1, <2>2, <2>3, <1>2, Kinds, SMTT(30) DEF Sound, Marks, Content, Ends, Excused, xml, Line
<1> QED
  BY <1>1, <1>2

\* The ways of getSrForCr, alone and as the loop over CRs brings them.
LEMMA CrForms ==
  ASSUME NEW c \in ForCr
  PROVE  \/ \E r \in ForCrReport : c = <<Query("mysql", <<>>, r)>>
         \/ c = <<Ask("mysql"), OpenDb("report"), ReportQuery>>
         \/ c = <<Ask("mysql"), OpenDb("report"), Ask("report"), At>>
<1>1. \/ \E r \in ForCrReport : c = <<Query("mysql", <<>>, r)>>
      \/ \E r \in ForCrReport : c = <<Ask("mysql")>> \o r
  BY DEF ForCr
<1>2. /\ <<Ask("mysql")>> \o <<OpenDb("report"), ReportQuery>>
           = <<Ask("mysql"), OpenDb("report"), ReportQuery>>
      /\ <<Ask("mysql")>> \o <<OpenDb("report"), Ask("report"), At>>
           = <<Ask("mysql"), OpenDb("report"), Ask("report"), At>>
  BY Join12, Join13, Zenon
<1> QED
  BY <1>1, <1>2, Zenon DEF ForCrReport, ReportQuery

LEMMA CrBodies ==
  \A c \in ForCr : <<getCreator>> \o c \in Body
<1> SUFFICES ASSUME NEW c \in ForCr
             PROVE  <<getCreator>> \o c \in Body
  OBVIOUS
<1> DEFINE s == <<getCreator>> \o c
<1>2. CASE \E r \in ForCrReport : c = <<Query("mysql", <<>>, r)>>
  <2> PICK r \in ForCrReport : c = <<Query("mysql", <<>>, r)>>
    BY <1>2
  <2>1. s = <<Ask("siebel"), Query("mysql", <<>>, r)>>
    <3>1. <<getCreator>> \o <<Query("mysql", <<>>, r)>> = <<getCreator, Query("mysql", <<>>, r)>>
      BY Join11, Zenon
    <3> QED
      BY <3>1, Zenon DEF getCreator
  <2> HIDE DEF s
  <2>2. s \in Seq(Inner)
    BY <2>1 DEF Inner
  <2>3. Ready(s, {"mysql", "siebel"})
    BY <2>1, Kinds DEF Ready
  <2> QED
    BY <2>2, <2>3 DEF Body, s
<1>3. CASE c = <<Ask("mysql"), OpenDb("report"), ReportQuery>>
  <2>1. s = <<Ask("siebel"), Ask("mysql"), OpenDb("report"), ReportQuery>>
    <3>1. <<getCreator>> \o <<Ask("mysql"), OpenDb("report"), ReportQuery>>
            = <<getCreator, Ask("mysql"), OpenDb("report"), ReportQuery>>
      BY Join13, Zenon
    <3> QED
      BY <3>1, <1>3, Zenon DEF getCreator
  <2> HIDE DEF s
  <2>2. s \in Seq(Inner)
    BY <2>1 DEF Inner
  <2>3. Ready(s, {"mysql", "siebel"})
    BY <2>1, Kinds DEF Ready, ReportQuery
  <2> QED
    BY <2>2, <2>3 DEF Body, s
<1>4. CASE c = <<Ask("mysql"), OpenDb("report"), Ask("report"), At>>
  <2>1. s = <<Ask("siebel"), Ask("mysql"), OpenDb("report"), Ask("report"), At>>
    <3>1. <<getCreator>> \o <<Ask("mysql"), OpenDb("report"), Ask("report"), At>>
            = <<getCreator, Ask("mysql"), OpenDb("report"), Ask("report"), At>>
      BY Join14, Zenon
    <3> QED
      BY <3>1, <1>4, Zenon DEF getCreator
  <2> HIDE DEF s
  <2>2. s \in Seq(Inner)
    BY <2>1 DEF Inner
  <2>3. Ready(s, {"mysql", "siebel"})
    BY <2>1, Kinds DEF Ready
  <2> QED
    BY <2>2, <2>3 DEF Body, s
<1> QED
  BY <1>2, <1>3, <1>4, CrForms

LEMMA BugBodies == BugDesc \subseteq Body
<1>1. <<Query("mysql", <<Ask("mysql")>>, <<>>)>> \in Body
  <2> DEFINE s == <<Query("mysql", <<Ask("mysql")>>, <<>>)>>
  <2>1. s \in Seq(Inner)
    BY DEF Inner
  <2>2. Ready(s, {"mysql", "siebel"})
    BY Kinds DEF Ready
  <2> QED
    BY <2>1, <2>2 DEF Body
<1> QED
  BY <1>1, Bodies DEF BugDesc

LEMMA CreatorBody == <<getCreator>> \in Body
<1>1. <<getCreator>> \in Seq(Inner)
  BY DEF Inner, getCreator
<1>2. Ready(<<getCreator>>, {"mysql", "siebel"})
  BY Kinds DEF Ready, getCreator
<1> QED
  BY <1>1, <1>2 DEF Body

LEMMA ReportRoutes ==
  ASSUME NEW r \in Request, r[1] \in {"/ltsscustomers", "/ltssupdate"},
         NEW s \in Branch(r[1], r[2])
  PROVE  Sound(r, s)
<1>1. CASE r[1] = "/ltsscustomers"
  <2>1. s = <<OpenDb("report"), Ask("report"), xml, Line, Close, text, Line, Close>>
    BY <1>1 DEF Branch, LtssCustomers, Usage, Then
  <2>2. s \in Seq(AnyOp)
    BY <2>1, Standing
  <2>3. Ready(s, {})
    BY <2>1, Kinds DEF Ready, xml, text, Line
  <2>4. /\ Len(s) = 8 /\ s[1].do = "open" /\ s[2].do = "ask"
        /\ s[3].do = "put" /\ s[3].on = "xml" /\ s[4].do = "put" /\ s[4].on = "line"
        /\ s[5].do = "close"
    BY <2>1, Kinds DEF xml, Line
  <2>6. Marks(s, Content) = {3} /\ Marks(s, Ends) = {3}
    BY <2>4 DEF Marks, Content, Ends
  <2> QED
    BY <2>2, <2>3, <2>4, <2>6, <1>1 DEF Sound, Excused
<1>2. CASE r[1] = "/ltssupdate"
  <2>1. s = <<OpenDb("mysql"), OpenDb("report"), Ask("report"), Ask("mysql"), text, Line,
              Line, Close>>
    BY <1>2 DEF Branch, LtssUpdate
  <2>2. s \in Seq(AnyOp)
    BY <2>1, Standing
  <2>3. Ready(s, {})
    BY <2>1, Kinds DEF Ready, text, Line
  <2> QED
    BY <2>1, <2>2, <2>3, <1>2, Kinds, SMTT(30) DEF Sound, Marks, Content, Ends, Excused, text, Line
<1> QED
  BY <1>1, <1>2

LEMMA SrNrsRoute ==
  ASSUME NEW r \in Request, r[1] = "/srnrs",
         NEW s \in Branch(r[1], r[2])
  PROVE  Sound(r, s)
<1>1. PICK q \in {getSrnumsForQueue, Line} : s = <<OpenDb("mysql"), text>> \o <<q>>
  BY DEF Branch, SrNrs, First, Then
<1>2. s = <<OpenDb("mysql"), text, q>>
  BY <1>1, Join21, Zenon
<1>3. q \in AnyOp /\ Needs(q) \subseteq {"mysql"}
        /\ (q.do = "put" => q.on = "line") /\ q.do # "close"
  BY Standing, Kinds DEF getSrnumsForQueue, Line
<1>4. s \in Seq(AnyOp)
  BY <1>2, <1>3, Standing
<1>5. Ready(s, {})
  BY <1>2, <1>3, Kinds DEF Ready, text
<1> QED
  BY <1>2, <1>3, <1>4, <1>5, Kinds, SMTT(30) DEF Sound, Marks, Content, Ends, Excused, text

LEMMA SrForCrRoute ==
  ASSUME NEW r \in Request, r[1] = "/srforcr",
         NEW s \in Branch(r[1], r[2])
  PROVE  Sound(r, s)
<1>1. CASE s = <<OpenDb("mysql"), text, Line>>
  <2>2. s \in Seq(AnyOp)
    BY <1>1, Standing
  <2>3. Ready(s, {"siebel"})
    BY <1>1, Kinds DEF Ready, text, Line
  <2> QED
    BY <1>1, <2>2, <2>3, Kinds, SMTT(30) DEF Sound, Marks, Content, Ends, Excused, text, Line
<1>2. CASE \E b \in ForCrReport : s = <<OpenDb("mysql"), text, Query("mysql", <<>>, b), Line>>
  <2> PICK b \in ForCrReport : s = <<OpenDb("mysql"), text, Query("mysql", <<>>, b), Line>>
    BY <1>2
  <2>1. Query("mysql", <<>>, b) \in AnyOp
    BY Bodies, QueryOps DEF Db
  <2>2. s \in Seq(AnyOp)
    BY <2>1, Standing
  <2>3. Ready(s, {"siebel"})
    BY Kinds DEF Ready, text, Line
  <2> QED
    BY <2>2, <2>3, Kinds, SMTT(30) DEF Sound, Marks, Content, Ends, Excused, text, Line
<1>3. CASE s = <<OpenDb("mysql"), text, Ask("mysql"), OpenDb("report"), ReportQuery, Line>>
  <2>1. ReportQuery \in AnyOp
    BY InnerOps DEF Inner
  <2>2. s \in Seq(AnyOp)
    BY <1>3, <2>1, Standing
  <2>3. Ready(s, {"siebel"})
    BY <1>3, Kinds DEF Ready, text, Line, ReportQuery
  <2> QED
    BY <1>3, <2>2, <2>3, Kinds, SMTT(30) DEF Sound, Marks, Content, Ends, Excused, text, Line, ReportQuery
<1>4. CASE s = <<OpenDb("mysql"), text, Ask("mysql"), OpenDb("report"), Ask("report"), At, Line>>
  <2>2. s \in Seq(AnyOp)
    BY <1>4, Standing
  <2>3. Ready(s, {"siebel"})
    BY <1>4, Kinds DEF Ready, text, Line
  <2>4. /\ Len(s) = 7 /\ s[1].do = "open" /\ s[2].do = "put" /\ s[2].on = "text"
        /\ s[3].do = "ask" /\ s[4].do = "open" /\ s[5].do = "ask" /\ s[6].do = "at"
        /\ s[7].do = "put" /\ s[7].on = "line"
    BY <1>4, Kinds DEF text, Line
  <2>6. Marks(s, Content) = {2} /\ Marks(s, Ends) = {2}
    BY <2>4 DEF Marks, Content, Ends
  <2> QED
    BY <2>2, <2>3, <2>4, <2>6 DEF Sound, Excused
<1>5. \/ s = <<OpenDb("mysql")>> \o <<text, Line>>
      \/ \E c \in ForCr : s = <<OpenDb("mysql")>> \o (<<text>> \o c \o <<Line>>)
  <2> DEFINE T == IF r[2] = "good" THEN {<<text>> \o c \o <<Line>> : c \in ForCr}
                                   ELSE {<<text, Line>>}
  <2>1. s \in First(<<OpenDb("mysql")>>, T)
    BY DEF Branch, SrForCr
  <2>2. PICK t \in T : s = <<OpenDb("mysql")>> \o t
    <3> HIDE DEF T
    <3> QED
      BY <2>1, FirstIs, Zenon
  <2>3. t = <<text, Line>> \/ \E c \in ForCr : t = <<text>> \o c \o <<Line>>
    BY <2>2, Zenon
  <2> QED
    BY <2>2, <2>3, Zenon
<1>6. CASE s = <<OpenDb("mysql")>> \o <<text, Line>>
  <2>1. s = <<OpenDb("mysql"), text, Line>>
    BY <1>6, Join12, Zenon
  <2> QED
    BY <2>1, <1>1
<1>7. ASSUME NEW c \in ForCr, s = <<OpenDb("mysql")>> \o (<<text>> \o c \o <<Line>>)
      PROVE  Sound(r, s)
  <2>1. CASE \E b \in ForCrReport : c = <<Query("mysql", <<>>, b)>>
    <3> PICK b \in ForCrReport : c = <<Query("mysql", <<>>, b)>>
      BY <2>1
    <3>1. /\ <<text>> \o <<Query("mysql", <<>>, b)>> = <<text, Query("mysql", <<>>, b)>>
          /\ <<text, Query("mysql", <<>>, b)>> \o <<Line>>
               = <<text, Query("mysql", <<>>, b), Line>>
          /\ <<OpenDb("mysql")>> \o <<text, Query("mysql", <<>>, b), Line>>
               = <<OpenDb("mysql"), text, Query("mysql", <<>>, b), Line>>
      BY Join11, Join21, Join13, Zenon
    <3> QED
      BY <3>1, <1>7, <1>2, Zenon
  <2>2. CASE c = <<Ask("mysql"), OpenDb("report"), ReportQuery>>
    <3>1. <<text>> \o <<Ask("mysql"), OpenDb("report"), ReportQuery>>
            = <<text, Ask("mysql"), OpenDb("report"), ReportQuery>>
      BY Join13, Zenon
    <3>2. <<text, Ask("mysql"), OpenDb("report"), ReportQuery>> \o <<Line>>
            = <<text, Ask("mysql"), OpenDb("report"), ReportQuery, Line>>
      BY Join41, Zenon
    <3>3. <<OpenDb("mysql")>> \o <<text, Ask("mysql"), OpenDb("report"), ReportQuery, Line>>
            = <<OpenDb("mysql"), text, Ask("mysql"), OpenDb("report"), ReportQuery, Line>>
      BY Join15, Zenon
    <3> QED
      BY <3>1, <3>2, <3>3, <2>2, <1>7, <1>3, Zenon
  <2>3. CASE c = <<Ask("mysql"), OpenDb("report"), Ask("report"), At>>
    <3>1. <<text>> \o <<Ask("mysql"), OpenDb("report"), Ask("report"), At>>
            = <<text, Ask("mysql"), OpenDb("report"), Ask("report"), At>>
      BY Join14, Zenon
    <3>2. <<text, Ask("mysql"), OpenDb("report"), Ask("report"), At>> \o <<Line>>
            = <<text, Ask("mysql"), OpenDb("report"), Ask("report"), At, Line>>
      BY Join51, Zenon
    <3>3. <<OpenDb("mysql")>> \o <<text, Ask("mysql"), OpenDb("report"), Ask("report"), At, Line>>
            = <<OpenDb("mysql"), text, Ask("mysql"), OpenDb("report"), Ask("report"), At, Line>>
      <4> DEFINE x == <<OpenDb("mysql")>>
                 y == <<text, Ask("mysql"), OpenDb("report"), Ask("report"), At, Line>>
                 z == <<OpenDb("mysql"), text, Ask("mysql"), OpenDb("report"), Ask("report"), At,
                        Line>>
      <4>1. x \in Seq(AnyOp) /\ y \in Seq(AnyOp) /\ z \in Seq(AnyOp) /\ Len(z) = Len(x) + Len(y)
        BY Standing
      <4>2. (\A i \in 1..Len(x) : z[i] = x[i]) /\ (\A i \in 1..Len(y) : z[Len(x) + i] = y[i])
        OBVIOUS
      <4> HIDE DEF x, y, z
      <4>3. x \o y = z
        BY <4>1, <4>2, JoinIs
      <4> QED
        BY <4>3, Zenon DEF x, y, z
    <3> QED
      BY <3>1, <3>2, <3>3, <2>3, <1>7, <1>4, Zenon
  <2> QED
    BY <2>1, <2>2, <2>3, CrForms
<1> QED
  BY <1>5, <1>6, <1>7

LEMMA SrInfoRoute ==
  ASSUME NEW r \in Request, r[1] = "/srinfo",
         NEW s \in Branch(r[1], r[2])
  PROVE  Sound(r, s)
<1> DEFINE B == {<<>>, <<getCreator>>} \cup BugDesc
           T == IF r[2] = "good" THEN {<<xml, Query("siebel", b, <<>>), Line>> : b \in B}
                                 ELSE {<<text, Line>>}
<1>1. s \in First(<<OpenDb("siebel"), OpenDb("mysql")>>, T)
  BY DEF Branch, SrInfo
<1>2. PICK t \in T : s = <<OpenDb("siebel"), OpenDb("mysql")>> \o t
  <2> HIDE DEF T
  <2> QED
    BY <1>1, FirstIs, Zenon
<1>3. t = <<text, Line>> \/ \E b \in B : t = <<xml, Query("siebel", b, <<>>), Line>>
  BY <1>2, Zenon
<1>4. CASE t = <<text, Line>>
  <2>1. s = <<OpenDb("siebel"), OpenDb("mysql"), text, Line>>
    BY <1>2, <1>4, Join22, Zenon
  <2>2. s \in Seq(AnyOp)
    BY <2>1, Standing
  <2>3. Ready(s, {})
    BY <2>1, Kinds DEF Ready, text, Line
  <2> QED
    BY <2>1, <2>2, <2>3, Kinds, SMTT(30) DEF Sound, Marks, Content, Ends, Excused, text, Line
<1>5. ASSUME NEW b \in B, t = <<xml, Query("siebel", b, <<>>), Line>>
      PROVE  Sound(r, s)
  <2>1. s = <<OpenDb("siebel"), OpenDb("mysql"), xml, Query("siebel", b, <<>>), Line>>
    BY <1>2, <1>5, Join23, Zenon
  <2>2. Query("siebel", b, <<>>) \in AnyOp
    BY Bodies, BugBodies, CreatorBody, QueryOps DEF Db
  <2>3. s \in Seq(AnyOp)
    BY <2>1, <2>2, Standing
  <2>4. Ready(s, {})
    BY <2>1, Kinds DEF Ready, xml, Line
  <2> QED
    BY <2>1, <2>3, <2>4, Kinds, SMTT(30) DEF Sound, Marks, Content, Ends, Excused, xml, Line
<1> QED
  BY <1>3, <1>4, <1>5

LEMMA UserQueueRoute ==
  ASSUME NEW r \in Request, r[1] = "/userqueue",
         NEW s \in Branch(r[1], r[2])
  PROVE  Sound(r, s)
<1> DEFINE B == {<<>>} \cup BugDesc \cup First(<<getCreator>>, ForCr)
           T == IF r[2] = "none"
                  THEN {<<Line, Close>>}
                  ELSE {<<xml, Query("siebel", b, <<>>), Line, Close>> : b \in B}
<1>1. s \in First(<<OpenDb("siebel"), OpenDb("mysql")>>, T)
  BY DEF Branch, UserQueue
<1>2. PICK t \in T : s = <<OpenDb("siebel"), OpenDb("mysql")>> \o t
  <2> HIDE DEF T
  <2> QED
    BY <1>1, FirstIs, Zenon
<1>3. \/ r[2] = "none" /\ t = <<Line, Close>>
      \/ \E b \in B : t = <<xml, Query("siebel", b, <<>>), Line, Close>>
  BY <1>2, Zenon
<1>4. CASE r[2] = "none" /\ t = <<Line, Close>>
  <2>1. s = <<OpenDb("siebel"), OpenDb("mysql"), Line, Close>>
    BY <1>2, <1>4, Join22, Zenon
  <2>2. s \in Seq(AnyOp)
    BY <2>1, Standing
  <2>3. Ready(s, {})
    BY <2>1, Kinds DEF Ready, Line
  <2>4. r \in Headless
    BY <1>4 DEF Headless, Request
  <2> QED
    BY <2>1, <2>2, <2>3, <2>4, Kinds, SMTT(30) DEF Sound, Marks, Content, Excused, Line
<1>5. ASSUME NEW b \in B, t = <<xml, Query("siebel", b, <<>>), Line, Close>>
      PROVE  Sound(r, s)
  <2>1. s = <<OpenDb("siebel"), OpenDb("mysql"), xml, Query("siebel", b, <<>>), Line, Close>>
    <3>1. <<OpenDb("siebel"), OpenDb("mysql")>> \o <<xml, Query("siebel", b, <<>>), Line, Close>>
            = <<OpenDb("siebel"), OpenDb("mysql"), xml, Query("siebel", b, <<>>), Line, Close>>
      <4> DEFINE o1 == OpenDb("siebel")
                 o2 == OpenDb("mysql")
                 q == Query("siebel", b, <<>>)
                 y1 == <<o1, o2>>
                 y2 == <<xml, q, Line, Close>>
                 y3 == <<o1, o2, xml, q, Line, Close>>
                 S == {o1, o2, xml, q, Line, Close}
      <4> HIDE DEF o1, o2, q
      <4>1. y1 \in Seq(S) /\ y2 \in Seq(S) /\ y3 \in Seq(S) /\ Len(y3) = Len(y1) + Len(y2)
        OBVIOUS
      <4>2. /\ \A i \in 1..Len(y1) : y3[i] = y1[i]
            /\ \A i \in 1..Len(y2) : y3[Len(y1) + i] = y2[i]
        OBVIOUS
      <4> HIDE DEF y1, y2, y3, S
      <4>3. y1 \o y2 = y3
        BY <4>1, <4>2, JoinIs
      <4> QED
        BY <4>3, Zenon DEF y1, y2, y3, o1, o2, q
    <3> QED
      BY <3>1, <1>2, <1>5, Zenon
  <2>2. b \in Body
    <3>1. CASE b \in First(<<getCreator>>, ForCr)
      <4>1. PICK c \in ForCr : b = <<getCreator>> \o c
        BY <3>1, FirstIs, Zenon
      <4> QED
        BY <4>1, CrBodies, Zenon
    <3> QED
      BY <3>1, Bodies, BugBodies
  <2>3. Query("siebel", b, <<>>) \in AnyOp
    BY <2>2, Bodies, QueryOps DEF Db
  <2>4. s \in Seq(AnyOp)
    BY <2>1, <2>3, Standing
  <2>5. Ready(s, {})
    BY <2>1, Kinds DEF Ready, xml, Line
  <2> QED
    BY <2>1, <2>4, <2>5, Kinds, SMTT(30) DEF Sound, Marks, Content, Ends, Excused, xml, Line
<1> QED
  BY <1>3, <1>4, <1>5

LEMMA SrStatusRoute ==
  ASSUME NEW r \in Request, r[1] = "/srstatus",
         NEW s \in Branch(r[1], r[2])
  PROVE  Sound(r, s)
<1> DEFINE T == {IF r[2] = "good" THEN <<text, getSrStatus, Line>> ELSE <<text, Line>>}
<1>1. s \in First(<<OpenDb("siebel")>>, T)
  BY DEF Branch, SrStatus
<1>2. PICK t \in T : s = <<OpenDb("siebel")>> \o t
  <2> HIDE DEF T
  <2> QED
    BY <1>1, FirstIs, Zenon
<1>3. CASE t = <<text, Line>>
  <2>1. s = <<OpenDb("siebel"), text, Line>>
    BY <1>2, <1>3, Join12, Zenon
  <2>2. s \in Seq(AnyOp)
    BY <2>1, Standing
  <2>3. Ready(s, {})
    BY <2>1, Kinds DEF Ready, text, Line
  <2> QED
    BY <2>1, <2>2, <2>3, Kinds, SMTT(30) DEF Sound, Marks, Content, Ends, Excused, text, Line
<1>4. CASE t = <<text, getSrStatus, Line>>
  <2>1. s = <<OpenDb("siebel"), text, getSrStatus, Line>>
    BY <1>2, <1>4, Join13, Zenon
  <2>2. s \in Seq(AnyOp)
    BY <2>1, Standing
  <2>3. Ready(s, {})
    BY <2>1, Kinds DEF Ready, text, Line, getSrStatus
  <2> QED
    BY <2>1, <2>2, <2>3, Kinds, SMTT(30) DEF Sound, Marks, Content, Ends, Excused, text, Line, getSrStatus
<1> QED
  BY <1>2, <1>3, <1>4

LEMMA DetailedRoute ==
  ASSUME NEW r \in Request, r[1] = "/detailed",
         NEW s \in Branch(r[1], r[2])
  PROVE  Sound(r, s)
<1>1. \/ r[2] = "none" /\ s = <<Line, Close>>
      \/ s = <<OpenDb("siebel"), text, getDetDesc, Line, Close>>
  BY DEF Branch, Detailed
<1>2. CASE r[2] = "none" /\ s = <<Line, Close>>
  <2>1. s \in Seq(AnyOp)
    BY <1>2, Standing
  <2>2. Ready(s, {})
    BY <1>2, Kinds DEF Ready, Line
  <2>3. r \in Headless
    BY <1>2 DEF Headless, Request
  <2> QED
    BY <1>2, <2>1, <2>2, <2>3, Kinds, SMTT(30) DEF Sound, Marks, Content, Excused, Line
<1>3. CASE s = <<OpenDb("siebel"), text, getDetDesc, Line, Close>>
  <2>1. s \in Seq(AnyOp)
    BY <1>3, Standing
  <2>2. Ready(s, {})
    BY <1>3, Kinds DEF Ready, text, Line, getDetDesc
  <2> QED
    BY <1>3, <2>1, <2>2, Kinds, SMTT(30) DEF Sound, Marks, Content, Ends, Excused, text, Line, getDetDesc
<1> QED
  BY <1>1, <1>2, <1>3

LEMMA MySqlRoutes ==
  ASSUME NEW r \in Request, r[1] \in {"/chat", "/pseudoQ"},
         NEW s \in Branch(r[1], r[2])
  PROVE  Sound(r, s)
<1>1. CASE r[1] = "/chat"
  <2>1. s = <<OpenDb("mysql"), Ask("main"), xml, Line, Line, Close>>
    BY <1>1 DEF Branch, Chat
  <2>2. s \in Seq(AnyOp)
    BY <2>1, Standing
  <2>3. Ready(s, {"main"})
    BY <2>1, Kinds DEF Ready, xml, Line
  <2> QED
    BY <2>1, <2>2, <2>3, <1>1, Kinds, SMTT(30) DEF Sound, Marks, Content, Ends, Excused, xml, Line
<1>2. CASE r[1] = "/pseudoQ"
  <2>1. s = <<OpenDb("mysql"), getPseudoQueues, text, Line, Close>>
    BY <1>2 DEF Branch, PseudoQ
  <2>2. s \in Seq(AnyOp)
    BY <2>1, Standing
  <2>3. Ready(s, {})
    BY <2>1, Kinds DEF Ready, text, Line, getPseudoQueues
  <2> QED
    BY <2>1, <2>2, <2>3, <1>2, Kinds, SMTT(30)
       DEF Sound, Marks, Content, Ends, Excused, text, Line, getPseudoQueues
<1> QED
  BY <1>1, <1>2

LEMMA PlainRoutes ==
  ASSUME NEW r \in Request,
         r[1] \notin {"/qmon_date", "/ltsscustomers", "/qmon", "/srnrs", "/srforcr", "/srinfo",
                      "/srstatus", "/detailed", "/ltssupdate", "/updateDB", "/chat", "/pseudoQ",
                      "/userqueue", "/stats"},
         NEW s \in Branch(r[1], r[2])
  PROVE  Sound(r, s)
<1>1. \/ s = <<text, Line, Close>>
      \/ s = <<text, Line>>
      \/ s = <<Line>> /\ r[1] = "/assign" /\ r[2] # "good"
  BY DEF Branch, LatestKueue, UnityUrl, Assign, Usage, Request, Path
<1>2. CASE s = <<text, Line, Close>> \/ s = <<text, Line>>
  <2>1. s \in Seq(AnyOp)
    <3>1. CASE s = <<text, Line, Close>>
      BY <3>1, Standing
    <3>2. CASE s = <<text, Line>>
      BY <3>2, Standing
    <3> QED
      BY <1>2, <3>1, <3>2
  <2>2. Ready(s, {})
    BY <1>2, Kinds DEF Ready, text, Line
  <2> QED
    BY <1>2, <2>1, <2>2, Kinds, SMTT(30) DEF Sound, Marks, Content, Ends, Excused, text, Line
<1>3. CASE s = <<Line>> /\ r[1] = "/assign" /\ r[2] # "good"
  <2>1. s \in Seq(AnyOp)
    BY <1>3, Standing
  <2>2. Ready(s, {})
    BY <1>3, Kinds DEF Ready, Line
  <2>3. r \in Headless
    BY <1>3 DEF Headless, Request
  <2> QED
    BY <1>3, <2>1, <2>2, <2>3, Kinds, SMTT(30) DEF Sound, Marks, Content, Excused, Line
<1> QED
  BY <1>1, <1>2, <1>3

LEMMA StatsRoute ==
  ASSUME NEW r \in Request, r[1] = "/stats",
         NEW s \in Branch(r[1], r[2])
  PROVE  Sound(r, s)
<1> DEFINE q == Query("siebel", <<>>, <<At>>)
<1>1. \/ s = <<text, Line, Close>>
      \/ s = <<Line, Close>> /\ r[2] # "none"
      \/ s = <<OpenDb("siebel"), text, Line, Close>>
      \/ \E sr \in {<<>>, <<q>>, <<Ask("siebel"), At>>} :
           s = <<OpenDb("siebel")>> \o sr \o <<xml, Line, Close>>
  BY DEF Branch, Stats
<1>2. CASE s = <<text, Line, Close>>
  <2>1. s \in Seq(AnyOp)
    BY <1>2, Standing
  <2>2. Ready(s, {})
    BY <1>2, Kinds DEF Ready, text, Line
  <2> QED
    BY <1>2, <2>1, <2>2, Kinds, SMTT(30) DEF Sound, Marks, Content, Ends, Excused, text, Line
<1>3. CASE s = <<Line, Close>> /\ r[2] # "none"
  <2>1. s \in Seq(AnyOp)
    BY <1>3, Standing
  <2>2. Ready(s, {})
    BY <1>3, Kinds DEF Ready, Line
  <2>3. r \in Headless
    BY <1>3 DEF Headless, Request
  <2> QED
    BY <1>3, <2>1, <2>2, <2>3, Kinds, SMTT(30) DEF Sound, Marks, Content, Excused, Line
<1>4. CASE s = <<OpenDb("siebel"), text, Line, Close>>
  <2>1. s \in Seq(AnyOp)
    BY <1>4, Standing
  <2>2. Ready(s, {})
    BY <1>4, Kinds DEF Ready, text, Line
  <2> QED
    BY <1>4, <2>1, <2>2, Kinds, SMTT(30) DEF Sound, Marks, Content, Ends, Excused, text, Line
<1>5. CASE s = <<OpenDb("siebel")>> \o <<>> \o <<xml, Line, Close>>
  <2>1. s = <<OpenDb("siebel"), xml, Line, Close>>
    <3>1. <<OpenDb("siebel")>> \o <<>> = <<OpenDb("siebel")>>
      <4>1. <<OpenDb("siebel")>> \in Seq(AnyOp)
        BY Standing
      <4> QED
        BY <4>1, ConcatEmptySeq
    <3> QED
      BY <1>5, <3>1, Join13, Zenon
  <2>2. s \in Seq(AnyOp)
    BY <2>1, Standing
  <2>3. Ready(s, {})
    BY <2>1, Kinds DEF Ready, xml, Line
  <2> QED
    BY <2>1, <2>2, <2>3, Kinds, SMTT(30) DEF Sound, Marks, Content, Ends, Excused, xml, Line
<1>6. CASE s = <<OpenDb("siebel")>> \o <<q>> \o <<xml, Line, Close>>
  <2> HIDE DEF q
  <2>1. s = <<OpenDb("siebel"), q, xml, Line, Close>>
    <3>1. <<OpenDb("siebel")>> \o <<q>> = <<OpenDb("siebel"), q>>
      BY Join11, Zenon
    <3>2. <<OpenDb("siebel"), q>> \o <<xml, Line, Close>> = <<OpenDb("siebel"), q, xml, Line, Close>>
      BY Join23, Zenon
    <3> QED
      BY <3>1, <3>2, <1>6, Zenon
  <2>2. /\ q \in AnyOp /\ q.do = "ask" /\ Needs(q) = {"siebel"}
    BY Bodies, QueryOps, Kinds DEF q, Db
  <2>3. s \in Seq(AnyOp)
    BY <2>1, <2>2, Standing
  <2>4. Ready(s, {})
    BY <2>1, <2>2, Kinds DEF Ready, xml, Line
  <2> QED
    BY <2>1, <2>2, <2>3, <2>4, Kinds, SMTT(30) DEF Sound, Marks, Content, Ends, Excused, xml, Line
<1>7. CASE s = <<OpenDb("siebel")>> \o <<Ask("siebel"), At>> \o <<xml, Line, Close>>
  <2>1. s = <<OpenDb("siebel"), Ask("siebel"), At, xml, Line, Close>>
    <3>1. <<OpenDb("siebel")>> \o <<Ask("siebel"), At>> = <<OpenDb("siebel"), Ask("siebel"), At>>
      BY Join12, Zenon
    <3>2. <<OpenDb("siebel"), Ask("siebel"), At>> \o <<xml, Line, Close>>
            = <<OpenDb("siebel"), Ask("siebel"), At, xml, Line, Close>>
      <4> DEFINE x == <<OpenDb("siebel"), Ask("siebel"), At>>
                 y == <<xml, Line, Close>>
                 z == <<OpenDb("siebel"), Ask("siebel"), At, xml, Line, Close>>
      <4>1. x \in Seq(AnyOp) /\ y \in Seq(AnyOp) /\ z \in Seq(AnyOp) /\ Len(z) = Len(x) + Len(y)
        BY Standing
      <4>2. (\A i \in 1..Len(x) : z[i] = x[i]) /\ (\A i \in 1..Len(y) : z[Len(x) + i] = y[i])
        OBVIOUS
      <4> HIDE DEF x, y, z
      <4>3. x \o y = z
        BY <4>1, <4>2, JoinIs
      <4> QED
        BY <4>3, Zenon DEF x, y, z
    <3> QED
      BY <3>1, <3>2, <1>7, Zenon
  <2>2. s \in Seq(AnyOp)
    BY <2>1, Standing
  <2>3. Ready(s, {})
    BY <2>1, Kinds DEF Ready, xml, Line
  <2> QED
    BY <2>1, <2>2, <2>3, Kinds, SMTT(30) DEF Sound, Marks, Content, Ends, Excused, xml, Line
<1> QED
  BY <1>1, <1>2, <1>3, <1>4, <1>5, <1>6, <1>7

LEMMA TwoParts ==
  ASSUME NEW c \in Seq(AnyOp), NEW p \in Seq(AnyOp)
  PROVE  /\ c \o p \in Seq(AnyOp) /\ Len(c \o p) = Len(c) + Len(p)
         /\ \A i \in 1..Len(c) : (c \o p)[i] = c[i]
         /\ \A i \in (Len(c) + 1)..(Len(c) + Len(p)) : (c \o p)[i] = p[i - Len(c)]
  BY ConcatProperties

LEMMA UpdateRoute ==
  ASSUME NEW r \in Request, r[1] = "/updateDB",
         NEW s \in Branch(r[1], r[2])
  PROVE  Sound(r, s)
<1> DEFINE c == <<OpenDb("mysql"), OpenDb("siebel"), OpenDb("qmon"), OpenDb("report")>>
           p == IF r[2] = "full" THEN <<Ask("qmon"), Ask("mysql"), text, Line>> ELSE <<>>
           u == <<Ask("qmon"), Ask("mysql"), Line, Ask("siebel"), Ask("mysql"), Line,
                  Put("empty"), Put("finished"), Close>>
<1>1. s = c \o p \o u
  BY DEF Branch, UpdateDb
<1>2. /\ c \in Seq(AnyOp) /\ Len(c) = 4
      /\ p \in Seq(AnyOp) /\ Len(p) \in {0, 4}
      /\ u \in Seq(AnyOp) /\ Len(u) = 9
  BY Standing
<1>3. c[1] = OpenDb("mysql") /\ c[2] = OpenDb("siebel") /\ c[3] = OpenDb("qmon")
  OBVIOUS
<1>4. \A i \in 1..4 : /\ c[i].do = "open" /\ Needs(c[i]) = {}
  BY Kinds
<1>5. \A i \in 1..Len(p) :
        /\ p[i].do # "close" /\ Needs(p[i]) \subseteq {"qmon", "mysql"}
        /\ p[i].do = "put" /\ p[i].on \in Content => i = 3
  BY Kinds DEF text, Line, Content
<1>6. /\ \A i \in 1..9 : /\ Needs(u[i]) \subseteq {"qmon", "mysql", "siebel"}
                         /\ ~(u[i].do = "put" /\ u[i].on \in Content)
      /\ \A i \in 1..8 : u[i].do # "close"
      /\ u[7] = Put("empty") /\ u[8] = Put("finished") /\ u[9] = Close
  BY Kinds DEF Line, Content
<1> HIDE DEF c, p, u
<1>7. PICK n \in {0, 4} : n = Len(p)
  BY <1>2
<1>8. /\ s \in Seq(AnyOp) /\ Len(s) = n + 13
      /\ \A i \in 1..4 : s[i] = c[i]
      /\ \A i \in 5..(n + 4) : s[i] = p[i - 4]
      /\ \A i \in (n + 5)..(n + 13) : s[i] = u[i - (4 + n)]
  <2> DEFINE q == c \o p
  <2>1. Len(c) = 4 /\ Len(p) = n /\ Len(u) = 9 /\ n \in Nat
    BY <1>2, <1>7
  <2>2. /\ q \in Seq(AnyOp) /\ Len(q) = 4 + n
        /\ \A i \in 1..4 : q[i] = c[i]
        /\ \A i \in (4 + 1)..(4 + n) : q[i] = p[i - 4]
    <3>1. /\ q \in Seq(AnyOp) /\ Len(q) = Len(c) + Len(p)
          /\ \A i \in 1..Len(c) : q[i] = c[i]
          /\ \A i \in (Len(c) + 1)..(Len(c) + Len(p)) : q[i] = p[i - Len(c)]
      <4>1. c \in Seq(AnyOp) /\ p \in Seq(AnyOp)
        BY <1>2
      <4> QED
        BY <4>1, TwoParts, Zenon
    <3> HIDE DEF q
    <3> QED
      BY <2>1, <3>1
  <2>3. s = q \o u
    BY <1>1
  <2> HIDE DEF q
  <2>4. /\ s \in Seq(AnyOp) /\ Len(s) = Len(q) + Len(u)
        /\ \A i \in 1..Len(q) : s[i] = q[i]
        /\ \A i \in (Len(q) + 1)..(Len(q) + Len(u)) : s[i] = u[i - Len(q)]
    <3>1. q \in Seq(AnyOp) /\ u \in Seq(AnyOp)
      BY <1>2, <2>2
    <3>2. /\ q \o u \in Seq(AnyOp) /\ Len(q \o u) = Len(q) + Len(u)
          /\ \A i \in 1..Len(q) : (q \o u)[i] = q[i]
          /\ \A i \in (Len(q) + 1)..(Len(q) + Len(u)) : (q \o u)[i] = u[i - Len(q)]
      BY <3>1, TwoParts, Zenon
    <3> QED
      BY <2>3, <3>2, Zenon
  <2> QED
    BY <2>1, <2>2, <2>4
<1>9. ASSUME NEW i \in 1..Len(s)
      PROVE  /\ Needs(s[i]) \subseteq {"qmon", "mysql", "siebel"}
             /\ i \in 1..4 => Needs(s[i]) = {}
             /\ s[i].do = "put" /\ s[i].on \in Content => i = 7
             /\ i # Len(s) => s[i].do # "close"
  <2>1. CASE i \in 1..4
    BY <2>1, <1>4, <1>8
  <2>2. CASE i \in 5..(n + 4)
    <3>1. i - 4 \in 1..n /\ i \in Int /\ n \in Int
      BY <2>2, <1>7, <1>8
    <3>2. s[i] = p[i - 4] /\ i # Len(s)
      BY <2>2, <1>7, <1>8
    <3> DEFINE k == i - 4
    <3>3. /\ p[k].do # "close" /\ Needs(p[k]) \subseteq {"qmon", "mysql"}
          /\ p[k].do = "put" /\ p[k].on \in Content => k = 3
      BY <3>1, <1>5, <1>7
    <3>4. k = 3 => i = 7
      BY <3>1
    <3>5. i \notin 1..4
      BY <2>2, <3>1
    <3> HIDE DEF k
    <3>6. s[i] = p[k]
      BY <3>2 DEF k
    <3> QED
      BY <3>2, <3>3, <3>4, <3>5, <3>6
  <2>3. CASE i \in (n + 5)..(n + 13)
    <3> DEFINE k == i - (4 + n)
    <3>1. k \in 1..9 /\ (i # Len(s) => k \in 1..8) /\ i \notin 1..4
      BY <2>3, <1>7, <1>8
    <3>2. s[i] = u[k]
      BY <2>3, <1>8
    <3> HIDE DEF k
    <3> QED
      BY <3>1, <3>2, <1>6
  <2> QED
    BY <2>1, <2>2, <2>3, <1>8
<1>10. Ready(s, {})
  <2>1. s[1] = OpenDb("mysql") /\ s[2] = OpenDb("siebel") /\ s[3] = OpenDb("qmon")
    BY <1>3, <1>8
  <2> QED
    BY <2>1, <1>8, <1>9 DEF Ready
<1>11. s[Len(s) - 2] = Put("empty") /\ s[Len(s) - 1] = Put("finished") /\ s[Len(s)] = Close
  <2>1. \A i \in (n + 5)..(n + 13) : s[i] = u[i - (4 + n)]
    BY <1>8
  <2>2. s[n + 11] = u[n + 11 - (4 + n)] /\ s[n + 12] = u[n + 12 - (4 + n)]
        /\ s[n + 13] = u[n + 13 - (4 + n)]
    BY <1>7, <2>1
  <2>3. n + 11 - (4 + n) = 7 /\ n + 12 - (4 + n) = 8 /\ n + 13 - (4 + n) = 9
    BY <1>7
  <2>4. Len(s) - 2 = n + 11 /\ Len(s) - 1 = n + 12 /\ Len(s) = n + 13
    BY <1>7, <1>8
  <2> QED
    BY <1>6, <2>2, <2>3, <2>4
<1>12. Len(s) - 2 \in Marks(s, Ends)
  <2>1. s[Len(s) - 2].do = "put" /\ s[Len(s) - 2].on \in Ends
    BY <1>11, Kinds DEF Ends
  <2>2. Len(s) \in Nat /\ Len(s) >= 13
    BY <1>7, <1>8
  <2>3. \A j \in 1..(Len(s) - 3) : s[j].do # "close"
    BY <2>2, <1>9
  <2> QED
    BY <2>1, <2>2, <2>3 DEF Marks
<1>13. \A i, j \in Marks(s, Content) : i = j
  BY <1>9 DEF Marks
<1> QED
  BY <1>8, <1>9, <1>10, <1>11, <1>12, <1>13 DEF Sound, Closing, Excused

\* Every script of every route is sound.
LEMMA Routes ==
  ASSUME NEW r \in Request, NEW s \in Branch(r[1], r[2])
  PROVE  Sound(r, s)
BY QmonRoutes, ReportRoutes, SrNrsRoute, SrForCrRoute, SrInfoRoute, UserQueueRoute,
   SrStatusRoute, DetailedRoute, MySqlRoutes, StatsRoute, UpdateRoute, PlainRoutes

-----------------------------------------------------------------------------
(* Steps                                                                   *)

LEMMA InitInv == Init => IInv
<1> SUFFICES ASSUME Init
             PROVE  IInv
  OBVIOUS
<1>1. \A w \in Worker : ~Busy(w)
  BY DEF Init, Busy
<1>2. TypeInv
  <2>1. request \in [Worker -> Request \cup {None}] /\ open \in [Worker -> BOOLEAN]
    BY DEF Init
  <2>2. todo \in [Worker -> Seq(AnyOp)] /\ doc \in [Worker -> Seq(Word)]
    BY EmptySeq DEF Init
  <2>3. conn \in [Worker -> [Db -> Link]] /\ main \in Link
    BY DEF Init, Link
  <2>4. up \in [Db -> BOOLEAN] /\ cut \in [Worker -> SUBSET Db]
    BY DEF Init
  <2>5. \A w \in Worker : todo[w] = <<>>
    BY DEF Init
  <2> QED
    BY <2>1, <2>2, <2>3, <2>4, <2>5 DEF TypeInv
<1>3. IdleHoldsNothing
  BY DEF Init, IdleHoldsNothing
<1>4. FailuresExplained
  BY DEF Init, FailuresExplained
<1> QED
  BY <1>1, <1>2, <1>3, <1>4 DEF IInv, ConnInv, DocInv, FinishInv

\* A request is accepted with a sound script, an open socket and no head yet.
LEMMA AcceptInv ==
  ASSUME IInv, NEW w \in Worker, Accept(w)
  PROVE  IInv'
<1> USE DEF IInv
<1>1. PICK r \in Serve[w] :
        /\ request' = [request EXCEPT ![w] = r]
        /\ \E script \in Branch(r[1], r[2]) : todo' = [todo EXCEPT ![w] = script]
  BY DEF Accept
<1>2. r \in Request /\ r # None
  BY ServeAssumption
<1>3. PICK s \in Branch(r[1], r[2]) : todo' = [todo EXCEPT ![w] = s]
  BY <1>1
<1>4. Sound(r, s)
  BY <1>2, Routes
<1>5. /\ ~Busy(w)
      /\ doc' = [doc EXCEPT ![w] = <<"status", "server">>]
      /\ open' = [open EXCEPT ![w] = TRUE]
      /\ cut' = [cut EXCEPT ![w] = {db \in Db : ~up[db]}]
      /\ UNCHANGED <<conn, main, up, odd, cuts>>
  BY DEF Accept
<1>6. /\ request'[w] = r /\ todo'[w] = s /\ doc'[w] = <<"status", "server">>
      /\ open'[w] /\ cut'[w] = {db \in Db : ~up[db]} /\ Busy(w)'
  BY <1>1, <1>2, <1>3, <1>5 DEF TypeInv, Busy
<1>7. \A v \in Worker \ {w} :
        /\ request'[v] = request[v] /\ todo'[v] = todo[v] /\ doc'[v] = doc[v]
        /\ open'[v] = open[v] /\ cut'[v] = cut[v] /\ (Busy(v)' <=> Busy(v))
  BY <1>1, <1>3, <1>5 DEF TypeInv, Busy
<1>8. TypeInv'
  <2>1. request' \in [Worker -> Request \cup {None}] /\ open' \in [Worker -> BOOLEAN]
    BY <1>1, <1>2, <1>5 DEF TypeInv
  <2>2. todo' \in [Worker -> Seq(AnyOp)]
    BY <1>3, <1>4 DEF TypeInv, Sound
  <2>3. doc' \in [Worker -> Seq(Word)]
    <3>1. <<"status", "server">> \in Seq(Word)
      BY DEF Word
    <3> QED
      BY <3>1, <1>5 DEF TypeInv
  <2>4. cut' \in [Worker -> SUBSET Db]
    BY <1>5 DEF TypeInv
  <2>5. \A v \in Worker : ~Busy(v)' => todo'[v] = <<>>
    BY <1>6, <1>7 DEF TypeInv
  <2> QED
    BY <2>1, <2>2, <2>3, <2>4, <2>5, <1>5 DEF TypeInv, Busy
<1>9. IdleHoldsNothing'
  BY <1>5, <1>6, <1>7 DEF IdleHoldsNothing
<1>10. FailuresExplained'
  BY <1>5 DEF FailuresExplained
<1>11. ConnInv'
  <2>1. /\ Ready(s, Have(w)')
          <3>1. Excused(r) \subseteq Have(w)'
      BY <1>6 DEF Have
    <3> QED
      BY <3>1, <1>4 DEF Sound, Ready
  <2>2. \A db \in Db : ~up[db] \/ conn[w][db] = "stale" => db \in cut'[w]
    BY <1>5, <1>6 DEF IdleHoldsNothing
  <2>3. \A v \in Worker \ {w} : Have(v)' = Have(v)
    BY <1>5, <1>7 DEF Have
  <2> QED
    BY <2>1, <2>2, <2>3, <1>5, <1>6, <1>7 DEF ConnInv
<1>12. DocInv'
  <2>1. Answers(r, s, <<"status", "server">>, TRUE)
    <3> DEFINE d == <<"status", "server">>
    <3>1. \A i \in 1..Len(d) : d[i] \notin Content /\ d[i] \notin Ends
      BY DEF Content, Ends
    <3> HIDE DEF d
    <3>2. Answers(r, s, d, TRUE)
      BY <3>1, <1>4 DEF Answers, Sound
    <3> QED
      BY <3>2 DEF d
  <2> QED
    BY <2>1, <1>6, <1>7 DEF DocInv
<1>13. FinishInv'
  <2>1. r[1] = "/updateDB" => Finishes(s, <<"status", "server">>, TRUE)
    BY <1>4 DEF Sound, Finishes
  <2> QED
    BY <2>1, <1>6, <1>7 DEF FinishInv
<1> QED
  BY <1>8, <1>9, <1>10, <1>11, <1>12, <1>13

\* What is left of a script after its first operation and what that brings, for a
\* worker that is busy with it.
LEMMA Splice ==
  ASSUME IInv, NEW w \in Worker, todo[w] # <<>>,
         NEW b \in {<<>>, Head(todo[w]).yes, Head(todo[w]).no},
         todo' = [todo EXCEPT ![w] = b \o Tail(@)],
         UNCHANGED request
  PROVE  /\ Busy(w) /\ todo[w] \in Seq(AnyOp) /\ Head(todo[w]) = todo[w][1]
         /\ todo[w][1] \in AnyOp /\ Len(todo[w]) \in Nat \ {0}
         /\ b \in Body
         /\ todo' \in [Worker -> Seq(AnyOp)]
         /\ todo'[w] = b \o Tail(todo[w])
         /\ \A v \in Worker \ {w} : todo'[v] = todo[v]
         /\ \A v \in Worker : Busy(v)' <=> Busy(v)
         /\ \A v \in Worker : ~Busy(v)' => todo'[v] = <<>>
<1>1. todo[w] \in Seq(AnyOp) /\ Busy(w)
  BY DEF IInv, TypeInv
<1>2. Head(todo[w]) = todo[w][1] /\ todo[w][1] \in AnyOp /\ Len(todo[w]) \in Nat \ {0}
  BY <1>1, ElementOfSeq, EmptySeq, LenProperties
<1>3. b \in Body
  BY <1>2, Bodies DEF AnyOp, Fields
<1>4. b \o Tail(todo[w]) \in Seq(AnyOp)
  BY <1>1, <1>3, SpliceOps
<1>5. /\ todo' \in [Worker -> Seq(AnyOp)]
      /\ todo'[w] = b \o Tail(todo[w])
      /\ \A v \in Worker \ {w} : todo'[v] = todo[v]
  BY <1>4 DEF IInv, TypeInv
<1>6. \A v \in Worker : Busy(v)' <=> Busy(v)
  BY DEF Busy
<1>7. \A v \in Worker : ~Busy(v)' => todo'[v] = <<>>
  BY <1>1, <1>5, <1>6 DEF IInv, TypeInv
<1> QED
  BY <1>1, <1>2, <1>3, <1>5, <1>6, <1>7

\* Go is a step that brings nothing.
LEMMA GoOn ==
  ASSUME IInv, NEW w \in Worker, todo[w] # <<>>, Go(w)
  PROVE  todo' = [todo EXCEPT ![w] = <<>> \o Tail(@)]
<1>1. todo[w] \in Seq(AnyOp)
  BY DEF IInv, TypeInv
<1>2. <<>> \o Tail(todo[w]) = Tail(todo[w])
  BY <1>1, HeadTailProperties, ConcatEmptySeq
<1> QED
  BY <1>2, Zenon DEF Go

LEMMA SpliceConn ==
  ASSUME IInv, NEW w \in Worker, todo[w] # <<>>,
         NEW b \in {<<>>, Head(todo[w]).yes, Head(todo[w]).no},
         todo' = [todo EXCEPT ![w] = b \o Tail(@)],
         UNCHANGED <<request, up, cut>>,
         \A v \in Worker \ {w} : conn'[v] = conn[v],
         \A db \in Db : conn[w][db] # "none" => conn'[w][db] # "none",
         \A db \in Db : Head(todo[w]) = OpenDb(db) => conn'[w][db] # "none",
         \A db \in Db : conn'[w][db] = "stale" => conn[w][db] = "stale"
  PROVE  ConnInv'
<1> DEFINE s == todo[w]
<1>1. /\ Busy(w) /\ s \in Seq(AnyOp) /\ Head(s) = s[1] /\ s[1] \in AnyOp
      /\ b \in Body /\ todo'[w] = b \o Tail(s)
      /\ \A v \in Worker \ {w} : todo'[v] = todo[v]
      /\ \A v \in Worker : Busy(v)' <=> Busy(v)
  BY Splice
<1>2. Ready(s, Have(w))
  BY <1>1 DEF IInv, ConnInv
<1>3. Have(w) \subseteq Have(w)'
  BY DEF Have
<1>4. \A db : s[1] = OpenDb(db) => db \in Have(w)'
  BY <1>1, Kinds DEF Have, AnyOp
<1>5. Ready(b \o Tail(s), Have(w)')
  BY <1>1, <1>2, <1>3, <1>4, SpliceReady
<1>6. \A v \in Worker \ {w} : Have(v)' = Have(v)
  BY DEF Have
<1>7. ASSUME NEW v \in Worker, Busy(v)'
      PROVE  Ready(todo'[v], Have(v)')
  <2>1. CASE v = w
    BY <2>1, <1>1, <1>5
  <2>2. CASE v # w
    BY <2>2, <1>1, <1>6, <1>7 DEF IInv, ConnInv
  <2> QED
    BY <2>1, <2>2
<1>8. \A v \in Worker : Busy(v)' =>
        \A db \in Db : ~up'[db] \/ conn'[v][db] = "stale" => db \in cut'[v]
  BY <1>1 DEF IInv, ConnInv
<1> QED
  BY <1>7, <1>8 DEF ConnInv

\* An operation that neither writes nor closes leaves the answer as it will be.
LEMMA SpliceAnswer ==
  ASSUME IInv, NEW w \in Worker, todo[w] # <<>>,
         NEW b \in {<<>>, Head(todo[w]).yes, Head(todo[w]).no},
         todo' = [todo EXCEPT ![w] = b \o Tail(@)],
         UNCHANGED <<request, doc, open>>,
         Head(todo[w]).do \notin {"put", "close"}
  PROVE  DocInv' /\ FinishInv'
<1> DEFINE s == todo[w]
           t == todo'[w]
<1>1. /\ Busy(w) /\ s \in Seq(AnyOp) /\ Head(s) = s[1] /\ Len(s) \in Nat \ {0}
      /\ b \in Body /\ t = b \o Tail(s)
      /\ \A v \in Worker \ {w} : todo'[v] = todo[v]
      /\ \A v \in Worker : Busy(v)' <=> Busy(v)
  BY Splice
<1>2. /\ Len(b) \in Nat /\ Len(t) = Len(b) + Len(s) - 1
      /\ \A i \in 1..Len(b) : t[i] = b[i] /\ b[i] \in Inner
      /\ \A i \in 1..Len(t) : i > Len(b) =>
           i - Len(b) + 1 \in 2..Len(s) /\ t[i] = s[i - Len(b) + 1]
  <2> HIDE DEF s, t
  <2>1. s \in Seq(AnyOp) /\ s # <<>> /\ b \in Body
    BY <1>1, EmptySeq
  <2> DEFINE u == b \o Tail(s)
  <2>2. /\ Len(b) \in Nat /\ Len(u) = Len(b) + Len(s) - 1
        /\ \A i \in 1..Len(b) : u[i] = b[i] /\ b[i] \in Inner
        /\ \A i \in 1..Len(u) : i > Len(b) =>
             i - Len(b) + 1 \in 2..Len(s) /\ u[i] = s[i - Len(b) + 1]
    BY <2>1, SpliceOps, Zenon
  <2> QED
    BY <1>1, <2>2, Zenon
<1>3. ASSUME NEW words \in {Content, Ends}
      PROVE  /\ \A k \in Marks(t, words) :
                  k \in Nat /\ k > Len(b) /\ k - Len(b) + 1 \in Marks(s, words)
             /\ Marks(s, words) # {} => Marks(t, words) # {}
  <2>1. "line" \notin words
    BY DEF Content, Ends
  <2>2. /\ \A k \in Nat : k \in Marks(t, words) =>
             k > Len(b) /\ k - Len(b) + 1 \in Marks(s, words)
        /\ \A k \in Marks(s, words) : k # 1 => k + Len(b) - 1 \in Marks(t, words)
    BY <1>1, <2>1, SpliceMarks
  <2>3. 1 \notin Marks(s, words)
    BY <1>1 DEF Marks
  <2>4. \A k \in Marks(t, words) : k \in Nat
    BY DEF Marks
  <2> QED
    BY <2>2, <2>3, <2>4
<1>4. Answers(request[w], t, doc[w], open[w])
  <2>1. Answers(request[w], s, doc[w], open[w])
    BY <1>1 DEF IInv, DocInv
  <2>2. (\A i, j \in Marks(s, Content) : i = j) => (\A i, j \in Marks(t, Content) : i = j)
    <3> SUFFICES ASSUME \A i, j \in Marks(s, Content) : i = j,
                        NEW i \in Marks(t, Content), NEW j \in Marks(t, Content)
                 PROVE  i = j
      OBVIOUS
    <3>1. i \in Nat /\ j \in Nat /\ i - Len(b) + 1 = j - Len(b) + 1
      BY <1>3
    <3> QED
      BY <3>1, <1>2
  <2>3. Marks(s, Content) = {} => Marks(t, Content) = {}
    BY <1>3
  <2>4. Marks(s, Ends) # {} => Marks(t, Ends) # {}
    BY <1>3
  <2> QED
    BY <2>1, <2>2, <2>3, <2>4 DEF Answers
<1>5. DocInv'
  BY <1>1, <1>4 DEF IInv, DocInv
<1>6. ASSUME request[w][1] = "/updateDB"
      PROVE  Finishes(t, doc[w], open[w])
  <2>1. Finishes(s, doc[w], open[w])
    BY <1>1, <1>6 DEF IInv, FinishInv
  <2>2. s[1] # Put("finished") /\ s[1] # Put("empty") /\ s[1] # Close
    BY <1>1, Kinds
  <2>3. Closing(s) /\ open[w]
    BY <2>1, <2>2, <1>1 DEF Finishes
  <2>4. Len(s) > 3
    BY <2>2, <2>3, <1>1 DEF Closing
  <2>5. t[Len(t) - 2] = Put("empty") /\ t[Len(t) - 1] = Put("finished") /\ t[Len(t)] = Close
    <3>1. /\ Len(t) - 2 \in 1..Len(t) /\ Len(t) - 2 > Len(b)
          /\ (Len(t) - 2) - Len(b) + 1 = Len(s) - 2
          /\ (Len(t) - 1) - Len(b) + 1 = Len(s) - 1
          /\ Len(t) - Len(b) + 1 = Len(s)
      BY <2>4, <1>1, <1>2
    <3>2. Len(t) - 1 \in 1..Len(t) /\ Len(t) - 1 > Len(b) /\ Len(t) \in 1..Len(t) /\ Len(t) > Len(b)
      BY <3>1, <1>1, <1>2
    <3> QED
      BY <3>1, <3>2, <2>3, <1>2 DEF Closing
  <2>6. ASSUME NEW j \in 1..(Len(t) - 1)
        PROVE  t[j].do # "close"
    <3>1. CASE j <= Len(b)
      BY <3>1, <1>2, InnerKinds
    <3>2. CASE j > Len(b)
      <4>1. j - Len(b) + 1 \in 1..(Len(s) - 1) /\ j \in 1..Len(t)
        BY <3>2, <1>1, <1>2
      <4> QED
        BY <4>1, <3>2, <2>3, <1>2 DEF Closing
    <3> QED
      BY <3>1, <3>2, <1>2
  <2>7. Len(t) >= 3
    BY <2>4, <1>1, <1>2
  <2> QED
    BY <2>3, <2>5, <2>6, <2>7 DEF Finishes, Closing
<1>7. FinishInv'
  BY <1>1, <1>6 DEF IInv, FinishInv
<1> QED
  BY <1>5, <1>7

\* A worker at an operation.
LEMMA AtWork ==
  ASSUME IInv, NEW w \in Worker, NEW what, Does(w, what)
  PROVE  /\ Busy(w) /\ todo[w] # <<>> /\ todo[w] \in Seq(AnyOp)
         /\ todo[w][1].do = what /\ On(w) = todo[w][1].on /\ todo[w][1] \in AnyOp
         /\ what = "open" => On(w) \in Db /\ Head(todo[w]) = OpenDb(On(w))
         /\ what = "ask" => On(w) \in Db \cup {"main"}
         /\ what = "put" => On(w) \in Word
<1>1. Busy(w) /\ todo[w] # <<>> /\ todo[w] \in Seq(AnyOp)
  BY DEF Does, IInv, TypeInv
<1>2. Head(todo[w]) = todo[w][1] /\ todo[w][1] \in AnyOp
  BY <1>1, ElementOfSeq, EmptySeq, LenProperties
<1> QED
  BY <1>1, <1>2 DEF Does, On, AnyOp

LEMMA OpenInv ==
  ASSUME IInv, NEW w \in Worker, Open(w)
  PROVE  IInv'
<1> DEFINE db == On(w)
<1>1. Does(w, "open") /\ Go(w) /\ UNCHANGED <<request, doc, open, main, up, cut, odd, cuts>>
  BY DEF Open
<1>2. todo[w] # <<>> /\ Busy(w) /\ db \in Db /\ Head(todo[w]) = OpenDb(db)
  BY <1>1, AtWork
<1>3. todo' = [todo EXCEPT ![w] = <<>> \o Tail(@)]
  BY <1>1, <1>2, GoOn
<1>4. /\ conn' \in [Worker -> [Db -> Link]]
      /\ \A v \in Worker \ {w} : conn'[v] = conn[v]
      /\ \A d \in Db \ {db} : conn'[w][d] = conn[w][d]
      /\ conn'[w][db] # "none"
      /\ conn'[w][db] = "stale" => conn[w][db] = "stale"
  BY <1>2 DEF Open, Look, Link, IInv, TypeInv
<1>5. TypeInv'
  BY <1>1, <1>2, <1>3, <1>4, Splice DEF IInv, TypeInv
<1>6. IdleHoldsNothing'
  BY <1>1, <1>2, <1>4 DEF IInv, IdleHoldsNothing, Busy
<1>7. FailuresExplained'
  BY <1>1 DEF IInv, FailuresExplained
<1>8. ConnInv'
  <2>1. \A d \in Db : Head(todo[w]) = OpenDb(d) => d = db
    BY <1>2, Kinds
  <2> QED
    BY <1>1, <1>2, <1>3, <1>4, <2>1, SpliceConn
<1>9. DocInv' /\ FinishInv'
  BY <1>1, <1>2, <1>3, Kinds, SpliceAnswer
<1> QED
  BY <1>5, <1>6, <1>7, <1>8, <1>9 DEF IInv

\* A query's outcome, when a failure is excused.
LEMMA AnsweredInv ==
  ASSUME IInv, NEW w \in Worker, Does(w, "ask"), NEW well \in BOOLEAN, Answered(w, well),
         UNCHANGED <<request, doc, open, up, cut, cuts>>,
         conn' \in [Worker -> [Db -> Link]], main' \in Link,
         \A v \in Worker \ {w} : conn'[v] = conn[v],
         \A d \in Db : conn[w][d] # "none" => conn'[w][d] # "none",
         \A d \in Db : conn'[w][d] = "stale" => conn[w][d] = "stale",
         \/ well \/ On(w) \in cut[w]
         \/ <<request[w][1], On(w)>> \in {<<"/srforcr", "siebel">>, <<"/chat", "main">>}
  PROVE  IInv'
<1> DEFINE b == IF well THEN Head(todo[w]).yes ELSE Head(todo[w]).no
<1>1. todo[w] # <<>> /\ Busy(w) /\ todo[w] \in Seq(AnyOp) /\ Head(todo[w]).do = "ask"
  BY AtWork DEF Does
<1>2. todo' = [todo EXCEPT ![w] = b \o Tail(@)]
  BY DEF Answered
<1>3. b \in {<<>>, Head(todo[w]).yes, Head(todo[w]).no}
  OBVIOUS
<1> HIDE DEF b
<1>4. TypeInv'
  BY <1>1, <1>2, <1>3, Splice DEF IInv, TypeInv
<1>5. IdleHoldsNothing'
  BY <1>1 DEF IInv, IdleHoldsNothing, Busy
<1>6. FailuresExplained'
  BY DEF IInv, FailuresExplained, Answered
<1>7. ConnInv'
  <2>1. \A d \in Db : Head(todo[w]) # OpenDb(d)
    BY <1>1, Kinds
  <2> QED
    BY <1>1, <1>2, <1>3, <2>1, SpliceConn
<1>8. DocInv' /\ FinishInv'
  BY <1>1, <1>2, <1>3, SpliceAnswer
<1> QED
  BY <1>4, <1>5, <1>6, <1>7, <1>8 DEF IInv

\* What is asked now has been opened, or its route is excused.
LEMMA Asked ==
  ASSUME IInv, NEW w \in Worker, Does(w, "ask")
  PROVE  On(w) \in Have(w)
<1>1. /\ Busy(w) /\ todo[w] # <<>> /\ todo[w] \in Seq(AnyOp)
      /\ todo[w][1].do = "ask" /\ On(w) = todo[w][1].on
  BY AtWork
<1>2. On(w) \in Needs(todo[w][1])
  BY <1>1 DEF Needs
<1>3. Ready(todo[w], Have(w)) /\ 1 \in 1..Len(todo[w])
  BY <1>1, EmptySeq, LenProperties DEF IInv, ConnInv
<1> QED
  BY <1>2, <1>3 DEF Ready

LEMMA AskOwnInv ==
  ASSUME IInv, NEW w \in Worker, AskOwn(w)
  PROVE  IInv'
<1> DEFINE db == On(w)
           well == conn'[w][db] = "open"
<1>1. /\ Does(w, "ask") /\ db # "main" /\ conn' = [conn EXCEPT ![w][db] = Look(@, up[db])]
      /\ Answered(w, well) /\ UNCHANGED <<request, doc, open, main, up, cut, cuts>>
  BY DEF AskOwn
<1>2. db \in Db /\ Busy(w) /\ db \in Have(w)
  BY <1>1, AtWork, Asked
<1>3. /\ conn' \in [Worker -> [Db -> Link]]
      /\ \A v \in Worker \ {w} : conn'[v] = conn[v]
      /\ \A d \in Db \ {db} : conn'[w][d] = conn[w][d]
      /\ conn'[w][db] = Look(conn[w][db], up[db])
  BY <1>1, <1>2 DEF Look, Link, IInv, TypeInv
<1>4. /\ conn[w][db] # "none" => conn'[w][db] # "none"
      /\ conn'[w][db] = "stale" => conn[w][db] = "stale"
  BY <1>3 DEF Look
<1>5. \/ well \/ db \in cut[w]
      \/ <<request[w][1], db>> \in {<<"/srforcr", "siebel">>, <<"/chat", "main">>}
  <2>1. CASE conn[w][db] = "none"
    <3>1. db \in Excused(request[w])
      BY <2>1, <1>2 DEF Have
    <3> QED
      BY <3>1, <1>1 DEF Excused
  <2>2. CASE conn[w][db] = "stale" \/ ~up[db]
    BY <2>2, <1>2 DEF IInv, ConnInv
  <2>3. CASE conn[w][db] \in {"open", "closed"} /\ up[db]
    BY <2>3, <1>3 DEF Look
  <2> QED
    BY <2>1, <2>2, <2>3, <1>2 DEF IInv, TypeInv, Link
<1>6. main' \in Link
  BY <1>1 DEF IInv, TypeInv
<1>7. \A d \in Db : /\ conn[w][d] # "none" => conn'[w][d] # "none"
                    /\ conn'[w][d] = "stale" => conn[w][d] = "stale"
  BY <1>3, <1>4
<1>8. well \in BOOLEAN
  OBVIOUS
<1> HIDE DEF well
<1> QED
  BY <1>1, <1>3, <1>5, <1>6, <1>7, <1>8, AnsweredInv

LEMMA AskMainInv ==
  ASSUME IInv, NEW w \in Worker, AskMain(w)
  PROVE  IInv'
<1>1. /\ Does(w, "ask") /\ On(w) = "main" /\ main' = Look(main, up["mysql"])
      /\ UNCHANGED <<request, doc, open, conn, up, cut, cuts>>
      /\ Answered(w, main' = "open") \/ Answered(w, FALSE)
  BY DEF AskMain
<1>2. "main" \in Have(w)
  BY <1>1, Asked
<1>3. request[w][1] = "/chat"
  BY <1>2 DEF Have, Excused, Db
<1>4. PICK well \in BOOLEAN : Answered(w, well)
  BY <1>1
<1>5. main' \in Link /\ conn' \in [Worker -> [Db -> Link]]
  BY <1>1 DEF Look, Link, IInv, TypeInv
<1> QED
  BY <1>1, <1>3, <1>4, <1>5, AnsweredInv

\* What is left after an operation that brings nothing.
LEMMA Rest ==
  ASSUME NEW s \in Seq(AnyOp), s # <<>>, s[1].do # "close", NEW words \in {Content, Ends}
  PROVE  LET t == <<>> \o Tail(s) IN
         /\ Len(s) \in Nat \ {0} /\ Len(t) = Len(s) - 1
         /\ \A i \in 1..Len(t) : t[i] = s[i + 1]
         /\ \A k \in Marks(t, words) : k \in Nat \ {0} /\ k + 1 \in Marks(s, words)
         /\ \A k \in Marks(s, words) : k # 1 => Marks(t, words) # {}
<1> DEFINE t == <<>> \o Tail(s)
<1>1. "line" \notin words
  BY DEF Content, Ends
<1>2. <<>> \in Body /\ Len(<<>>) = 0
  BY Bodies
<1>3. /\ Len(s) \in Nat \ {0} /\ Len(t) = Len(s) - 1
      /\ \A i \in 1..Len(t) : t[i] = s[i + 1]
  BY <1>2, SpliceOps
<1>4. /\ \A k \in Nat : k \in Marks(t, words) => k > 0 /\ k + 1 \in Marks(s, words)
      /\ \A k \in Marks(s, words) : k # 1 => k - 1 \in Marks(t, words)
  <2>1. /\ \A k \in Nat : k \in Marks(t, words) => k > 0 /\ k - 0 + 1 \in Marks(s, words)
        /\ \A k \in Marks(s, words) : k # 1 => k + 0 - 1 \in Marks(t, words)
    BY <1>1, <1>2, SpliceMarks
  <2>2. \A k \in Marks(s, words) : k \in Nat
    BY <1>3 DEF Marks
  <2> QED
    BY <2>1, <2>2
<1>5. \A k \in Marks(t, words) : k \in Nat
  BY DEF Marks
<1> QED
  BY <1>3, <1>4, <1>5

\* What is written is in the document, unless the socket is closed.
LEMMA WriteInv ==
  ASSUME IInv, NEW w \in Worker, Write(w)
  PROVE  IInv'
<1> DEFINE s == todo[w]
           t == <<>> \o Tail(s)
           x == On(w)
           d == doc[w]
           e == IF open[w] THEN Append(d, x) ELSE d
<1>1. /\ Does(w, "put") /\ Go(w)
      /\ doc' = IF open[w] THEN [doc EXCEPT ![w] = Append(@, x)] ELSE doc
      /\ UNCHANGED <<request, open, conn, main, up, cut, odd, cuts>>
  BY DEF Write
<1>2. /\ Busy(w) /\ s # <<>> /\ s \in Seq(AnyOp) /\ s[1].do = "put" /\ x = s[1].on
      /\ x \in Word /\ Head(s) = s[1]
  BY <1>1, AtWork
<1>3. todo' = [todo EXCEPT ![w] = t]
  BY <1>1, <1>2, GoOn
<1>4. /\ todo' \in [Worker -> Seq(AnyOp)] /\ todo'[w] = t
      /\ \A v \in Worker \ {w} : todo'[v] = todo[v]
      /\ \A v \in Worker : Busy(v)' <=> Busy(v)
      /\ \A v \in Worker : ~Busy(v)' => todo'[v] = <<>>
  BY <1>1, <1>2, <1>3, Splice
<1>5. d \in Seq(Word) /\ e \in Seq(Word)
  BY <1>2, AppendProperties DEF IInv, TypeInv
<1>6. /\ doc' \in [Worker -> Seq(Word)] /\ doc'[w] = e
      /\ \A v \in Worker \ {w} : doc'[v] = doc[v]
  BY <1>1, <1>5 DEF IInv, TypeInv
<1>7. open[w] => /\ Len(e) = Len(d) + 1 /\ Len(d) \in Nat
                 /\ \A i \in 1..Len(d) : e[i] = d[i]
                 /\ e[Len(d) + 1] = x
  BY <1>2, <1>5, AppendProperties, LenProperties
<1>8. TypeInv'
  BY <1>1, <1>4, <1>6 DEF IInv, TypeInv
<1>9. IdleHoldsNothing' /\ FailuresExplained'
  BY <1>1, <1>4 DEF IInv, IdleHoldsNothing, FailuresExplained
<1>10. ConnInv'
  <2>1. \A db \in Db : Head(s) # OpenDb(db)
    BY <1>2, Kinds
  <2> QED
    BY <1>1, <1>2, <1>3, <2>1, SpliceConn
<1>11. Answers(request[w], t, e, open[w])
  <2>1. Answers(request[w], s, d, open[w])
    BY <1>2 DEF IInv, DocInv
  <2>2. CASE ~open[w]
    BY <2>1, <2>2 DEF Answers
  <2>3. CASE open[w]
    <3> HIDE DEF s, t, d, e, x
    <3>1. 1 \in 1..Len(s) /\ \A j \in 1..0 : s[j].do # "close"
      BY <1>2, EmptySeq, LenProperties
    <3>2. /\ x \in Content => 1 \in Marks(s, Content)
          /\ 1 \in Marks(s, Ends) => x \in Ends
      BY <3>1, <1>2 DEF Marks
    <3>3. \A words \in {Content, Ends} :
            /\ \A k \in Marks(t, words) : k \in Nat \ {0} /\ k + 1 \in Marks(s, words)
            /\ \A k \in Marks(s, words) : k # 1 => Marks(t, words) # {}
      BY <1>2, Rest DEF t
    <3>4. \A i, j \in Marks(s, Content) : i = j
      BY <2>1, <2>3 DEF Answers
    <3>5. \A i, j \in Marks(t, Content) : i = j
      <4>1. ASSUME NEW i \in Marks(t, Content), NEW j \in Marks(t, Content)
            PROVE  i = j
        <5>1. i \in Nat /\ j \in Nat /\ i + 1 = j + 1
          BY <3>3, <3>4
        <5> QED
          BY <5>1
      <4> QED
        BY <4>1
    <3>6. \A i, j \in 1..Len(e) : e[i] \in Content /\ e[j] \in Content => i = j
      <4>1. CASE x \in Content
        <5>1. \A i \in 1..Len(d) : d[i] \notin Content
          BY <4>1, <3>2, <2>1, <2>3 DEF Answers
        <5> QED
          BY <5>1, <1>7, <2>3
      <4>2. CASE x \notin Content
        BY <4>2, <1>7, <2>1, <2>3 DEF Answers
      <4> QED
        BY <4>1, <4>2
    <3>7. ASSUME NEW i \in 1..Len(e), e[i] \in Content
          PROVE  Marks(t, Content) = {}
      <4>1. CASE i = Len(d) + 1
        <5>1. 1 \in Marks(s, Content)
          BY <4>1, <3>7, <3>2, <1>7, <2>3
        <5>2. \A k \in Marks(t, Content) : k \in Nat \ {0} /\ k + 1 = 1
          BY <5>1, <3>3, <3>4
        <5> QED
          BY <5>2
      <4>2. CASE i # Len(d) + 1
        <5>1. i \in 1..Len(d) /\ d[i] \in Content
          BY <4>2, <3>7, <1>7, <2>3
        <5>2. Marks(s, Content) = {}
          BY <5>1, <2>1, <2>3 DEF Answers
        <5> QED
          BY <5>2, <3>3
      <4> QED
        BY <4>1, <4>2
    <3>8. \/ request[w] \in Headless
          \/ \E i \in 1..Len(e) : e[i] \in Ends
          \/ Marks(t, Ends) # {}
      <4>1. CASE \E i \in 1..Len(d) : d[i] \in Ends
        BY <4>1, <1>7, <2>3
      <4>2. CASE x \in Ends
        <5>1. Len(d) + 1 \in 1..Len(e) /\ e[Len(d) + 1] \in Ends
          BY <4>2, <1>7, <2>3
        <5> QED
          BY <5>1
      <4>3. CASE Marks(s, Ends) # {} /\ x \notin Ends
        BY <4>3, <3>2, <3>3
      <4> QED
        BY <4>1, <4>2, <4>3, <2>1, <2>3 DEF Answers
    <3> QED
      BY <3>5, <3>6, <3>7, <3>8, <2>3 DEF Answers
  <2> QED
    BY <2>2, <2>3
<1>12. DocInv'
  BY <1>1, <1>4, <1>6, <1>11 DEF IInv, DocInv
<1>13. ASSUME request[w][1] = "/updateDB"
       PROVE  Finishes(t, e, open[w])
  <2>1. Finishes(s, d, open[w])
    BY <1>2, <1>13 DEF IInv, FinishInv
  <2>2. /\ Len(s) \in Nat \ {0} /\ Len(t) = Len(s) - 1 /\ t \in Seq(AnyOp)
        /\ \A i \in 1..Len(t) : t[i] = s[i + 1]
    BY <1>2, <1>4, Kinds, Rest DEF IInv, TypeInv
  <2>3. CASE Closing(s) /\ open[w] /\ Len(s) > 3
    <3> HIDE DEF s, t, d, e, x
    <3>1. Closing(t)
      BY <2>2, <2>3 DEF Closing
    <3> QED
      BY <3>1, <2>3 DEF Finishes
  <2>4. CASE Closing(s) /\ open[w] /\ Len(s) = 3
    <3> HIDE DEF s, t, d, e, x
    <3>1. s[1] = Put("empty") /\ s[2] = Put("finished") /\ s[3] = Close
      BY <2>4 DEF Closing
    <3>2. t = <<Put("finished"), Close>>
      BY <3>1, <2>2, <2>4
    <3>3. x = "empty"
      BY <3>1, <1>2, Kinds
    <3>4. e # <<>> /\ e[Len(e)] = "empty"
      BY <3>3, <1>5, <1>7, <2>4, EmptySeq
    <3> QED
      BY <3>2, <3>4, <2>4 DEF Finishes
  <2>5. CASE /\ s = <<Put("finished"), Close>> /\ open[w]
             /\ d # <<>> /\ d[Len(d)] = "empty"
    <3>1. t = <<Close>>
      BY <2>5, <2>2
    <3>2. x = "finished"
      BY <2>5, <1>2, Kinds
    <3> HIDE DEF s, t, d, e, x
    <3>3. Len(e) >= 2 /\ e[Len(e) - 1] = "empty" /\ e[Len(e)] = "finished"
      BY <3>2, <2>5, <1>5, <1>7, EmptySeq, LenProperties
    <3> QED
      BY <3>1, <3>3 DEF Finishes
  <2>6. s \notin {<<Close>>, <<>>}
    BY <1>2, Kinds
  <2>7. Closing(s) => Len(s) >= 3
    BY DEF Closing
  <2> HIDE DEF s, t, d, e, x
  <2>8. Closing(s) => Len(s) = 3 \/ Len(s) > 3
    BY <2>2, <2>7
  <2> QED
    BY <2>1, <2>3, <2>4, <2>5, <2>6, <2>8 DEF Finishes
<1>14. FinishInv'
  BY <1>1, <1>4, <1>6, <1>13 DEF IInv, FinishInv
<1> QED
  BY <1>8, <1>9, <1>10, <1>12, <1>14 DEF IInv

LEMMA CloseSocketInv ==
  ASSUME IInv, NEW w \in Worker, CloseSocket(w)
  PROVE  IInv'
<1> DEFINE s == todo[w]
           t == <<>> \o Tail(s)
           d == doc[w]
<1>1. /\ Does(w, "close") /\ Go(w) /\ open' = [open EXCEPT ![w] = FALSE]
      /\ UNCHANGED <<request, doc, conn, main, up, cut, odd, cuts>>
  BY DEF CloseSocket
<1>2. /\ Busy(w) /\ s # <<>> /\ s \in Seq(AnyOp) /\ s[1].do = "close" /\ Head(s) = s[1]
  BY <1>1, AtWork
<1>3. todo' = [todo EXCEPT ![w] = t]
  BY <1>1, <1>2, GoOn
<1>4. /\ todo' \in [Worker -> Seq(AnyOp)] /\ todo'[w] = t
      /\ \A v \in Worker \ {w} : todo'[v] = todo[v]
      /\ \A v \in Worker : Busy(v)' <=> Busy(v)
      /\ \A v \in Worker : ~Busy(v)' => todo'[v] = <<>>
  BY <1>1, <1>2, <1>3, Splice
<1>5. /\ open' \in [Worker -> BOOLEAN] /\ open'[w] = FALSE
      /\ \A v \in Worker \ {w} : open'[v] = open[v]
  BY <1>1 DEF IInv, TypeInv
<1>6. TypeInv'
  BY <1>1, <1>4, <1>5 DEF IInv, TypeInv
<1>7. IdleHoldsNothing' /\ FailuresExplained'
  BY <1>1, <1>4 DEF IInv, IdleHoldsNothing, FailuresExplained
<1>8. ConnInv'
  <2>1. \A db \in Db : Head(s) # OpenDb(db)
    BY <1>2, Kinds
  <2> QED
    BY <1>1, <1>2, <1>3, <2>1, SpliceConn
<1>9. Answers(request[w], t, d, FALSE)
  <2>1. Answers(request[w], s, d, open[w])
    BY <1>2 DEF IInv, DocInv
  <2>2. Marks(s, Ends) = {}
    BY <1>2 DEF Marks
  <2> QED
    BY <2>1, <2>2 DEF Answers
<1>10. DocInv'
  BY <1>1, <1>4, <1>5, <1>9 DEF IInv, DocInv
<1>11. ASSUME request[w][1] = "/updateDB"
       PROVE  Finishes(t, d, FALSE)
  <2>1. Finishes(s, d, open[w])
    BY <1>2, <1>11 DEF IInv, FinishInv
  <2>2. ~Closing(s)
    BY <1>2, EmptySeq, LenProperties DEF Closing
  <2>3. s # <<Put("finished"), Close>>
    BY <1>2, Kinds
  <2>4. s = <<Close>> /\ Len(d) >= 2 /\ d[Len(d) - 1] = "empty" /\ d[Len(d)] = "finished"
    BY <2>1, <2>2, <2>3, <1>2 DEF Finishes
  <2>5. t = <<>>
    <3>1. t \in Seq(AnyOp) /\ Len(t) = 0
      BY <2>4, <1>2, <1>4, Bodies, SpliceOps DEF IInv, TypeInv
    <3> QED
      BY <3>1, EmptySeq
  <2> QED
    BY <2>4, <2>5 DEF Finishes
<1>12. FinishInv'
  BY <1>1, <1>4, <1>5, <1>11 DEF IInv, FinishInv
<1> QED
  BY <1>6, <1>7, <1>8, <1>10, <1>12 DEF IInv

\* After at() of an empty list the request goes on, or every request is gone with
\* the daemon.
LEMMA ReadMissingInv ==
  ASSUME IInv, NEW w \in Worker, ReadMissing(w)
  PROVE  IInv'
<1>1. Does(w, "at") /\ UNCHANGED <<up, odd, cuts>>
  BY DEF ReadMissing
<1>2. CASE Go(w) /\ UNCHANGED <<request, doc, open, conn, main, cut>>
  <2>1. Busy(w) /\ todo[w] # <<>> /\ todo[w] \in Seq(AnyOp) /\ Head(todo[w]).do = "at"
    BY <1>1, AtWork DEF Does
  <2>2. todo' = [todo EXCEPT ![w] = <<>> \o Tail(@)]
    BY <1>2, <2>1, GoOn
  <2>3. TypeInv'
    BY <1>1, <1>2, <2>1, <2>2, Splice DEF IInv, TypeInv
  <2>4. IdleHoldsNothing' /\ FailuresExplained'
    BY <1>1, <1>2 DEF IInv, IdleHoldsNothing, FailuresExplained, Busy
  <2>5. ConnInv'
    <3>1. \A db \in Db : Head(todo[w]) # OpenDb(db)
      BY <2>1, Kinds
    <3> QED
      BY <1>1, <1>2, <2>1, <2>2, <3>1, SpliceConn
  <2>6. DocInv' /\ FinishInv'
    BY <1>2, <2>1, <2>2, SpliceAnswer
  <2> QED
    BY <2>3, <2>4, <2>5, <2>6 DEF IInv
<1>3. CASE /\ request' = [v \in Worker |-> None]
           /\ todo' = [v \in Worker |-> <<>>]
           /\ doc' = [v \in Worker |-> <<>>]
           /\ open' = [v \in Worker |-> FALSE]
           /\ conn' = [v \in Worker |-> [db \in Db |-> "none"]]
           /\ main' = IF up["mysql"] THEN "open" ELSE "closed"
           /\ cut' = [v \in Worker |-> {}]
  <2>1. \A v \in Worker : ~Busy(v)' /\ todo'[v] = <<>>
    BY <1>3 DEF Busy
  <2>2. todo' \in [Worker -> Seq(AnyOp)] /\ doc' \in [Worker -> Seq(Word)]
    BY <1>3, EmptySeq
  <2>3. conn' \in [Worker -> [Db -> Link]] /\ main' \in Link
    BY <1>3 DEF Link
  <2>4. /\ request' \in [Worker -> Request \cup {None}] /\ open' \in [Worker -> BOOLEAN]
        /\ cut' \in [Worker -> SUBSET Db]
    BY <1>3
  <2>5. TypeInv'
    BY <1>1, <2>1, <2>2, <2>3, <2>4 DEF IInv, TypeInv
  <2>6. IdleHoldsNothing' /\ FailuresExplained'
    BY <1>1, <1>3 DEF IInv, IdleHoldsNothing, FailuresExplained
  <2> QED
    BY <2>1, <2>5, <2>6 DEF IInv, ConnInv, DocInv, FinishInv
<1> QED
  BY <1>2, <1>3 DEF ReadMissing

\* ~ServerThread leaves nothing open, whether or not the server is there.
LEMMA EndInv ==
  ASSUME IInv, NEW w \in Worker, End(w)
  PROVE  IInv'
<1>1. /\ Busy(w) /\ todo[w] = <<>>
      /\ request' = [request EXCEPT ![w] = None]
      /\ doc' = [doc EXCEPT ![w] = <<>>]
      /\ open' = [open EXCEPT ![w] = FALSE]
      /\ cut' = [cut EXCEPT ![w] = {}]
      /\ UNCHANGED <<todo, main, up, odd, cuts>>
  BY DEF End
<1>2. /\ conn' \in [Worker -> [Db -> Link]]
      /\ \A v \in Worker \ {w} : conn'[v] = conn[v]
      /\ \A db \in Db : conn'[w][db] \in {"none", "closed"}
  <2>1. conn[w] \in [Db -> Link]
    BY DEF IInv, TypeInv
  <2>2. \A db \in Db : ~(Look(conn[w][db], up[db]) \in {"open", "stale"})
                         => conn[w][db] \in {"none", "closed"}
    BY <2>1 DEF Look, Link
  <2> DEFINE left == [db \in Db |-> IF Look(conn[w][db], up[db]) \in {"open", "stale"}
                                      THEN "none" ELSE conn[w][db]]
  <2>3. left \in [Db -> Link] /\ \A db \in Db : left[db] \in {"none", "closed"}
    BY <2>1, <2>2 DEF Link
  <2>4. conn' = [conn EXCEPT ![w] = left]
    BY DEF End
  <2> HIDE DEF left
  <2> QED
    BY <2>3, <2>4 DEF IInv, TypeInv
<1>3. /\ ~Busy(w)'
      /\ \A v \in Worker \ {w} :
           /\ request'[v] = request[v] /\ doc'[v] = doc[v] /\ open'[v] = open[v]
           /\ cut'[v] = cut[v] /\ (Busy(v)' <=> Busy(v))
  BY <1>1 DEF IInv, TypeInv, Busy
<1>4. TypeInv'
  <2>1. doc' \in [Worker -> Seq(Word)]
    BY <1>1, EmptySeq DEF IInv, TypeInv
  <2>2. \A v \in Worker : ~Busy(v)' => todo'[v] = <<>>
    BY <1>1, <1>3 DEF IInv, TypeInv
  <2> QED
    BY <1>1, <1>2, <2>1, <2>2 DEF IInv, TypeInv
<1>5. IdleHoldsNothing'
  BY <1>2, <1>3 DEF IInv, IdleHoldsNothing
<1>6. FailuresExplained'
  BY <1>1 DEF IInv, FailuresExplained
<1>7. ConnInv'
  <2>1. \A v \in Worker \ {w} : Have(v)' = Have(v)
    BY <1>2, <1>3 DEF Have
  <2> QED
    BY <2>1, <1>1, <1>2, <1>3 DEF IInv, ConnInv
<1>8. DocInv' /\ FinishInv'
  BY <1>1, <1>3 DEF IInv, DocInv, FinishInv
<1> QED
  BY <1>4, <1>5, <1>6, <1>7, <1>8 DEF IInv

\* A server that goes away is noted by every request in work.
LEMMA DownInv ==
  ASSUME IInv, NEW db \in Db, Down(db)
  PROVE  IInv'
<1>1. /\ up' = [up EXCEPT ![db] = FALSE]
      /\ main' = IF db = "mysql" /\ main = "open" THEN "stale" ELSE main
      /\ cut' = [w \in Worker |-> IF Busy(w) THEN cut[w] \cup {db} ELSE {}]
      /\ UNCHANGED <<request, todo, doc, open, odd>>
  BY DEF Down
<1>2. /\ conn' \in [Worker -> [Db -> Link]]
      /\ \A w \in Worker : \A d \in Db : d # db => conn'[w][d] = conn[w][d]
      /\ \A w \in Worker :
           conn'[w][db] = IF conn[w][db] = "open" THEN "stale" ELSE conn[w][db]
  BY DEF Down, Link, IInv, TypeInv
<1>3. \A w \in Worker : (Busy(w)' <=> Busy(w)) /\ Have(w)' = Have(w)
  <2>1. \A w \in Worker : Busy(w)' <=> Busy(w)
    BY <1>1 DEF Busy
  <2>2. \A w \in Worker : \A d \in Db : conn'[w][d] = "none" <=> conn[w][d] = "none"
    BY <1>2
  <2> QED
    BY <1>1, <2>1, <2>2 DEF Have
<1>4. TypeInv'
  BY <1>1, <1>2, <1>3 DEF IInv, TypeInv, Link
<1>5. IdleHoldsNothing'
  BY <1>2, <1>3 DEF IInv, IdleHoldsNothing
<1>6. FailuresExplained'
  BY <1>1 DEF IInv, FailuresExplained
<1>7. ConnInv'
  <2>1. ASSUME NEW w \in Worker, Busy(w), NEW d \in Db, ~up'[d] \/ conn'[w][d] = "stale"
        PROVE  d \in cut'[w]
    BY <2>1, <1>1, <1>2 DEF IInv, TypeInv, ConnInv
  <2> QED
    BY <2>1, <1>1, <1>3 DEF IInv, ConnInv
<1>8. DocInv' /\ FinishInv'
  BY <1>1, <1>3 DEF IInv, DocInv, FinishInv
<1> QED
  BY <1>4, <1>5, <1>6, <1>7, <1>8 DEF IInv

LEMMA UpInv ==
  ASSUME IInv, NEW db \in Db, Up(db)
  PROVE  IInv'
<1>1. up' = [up EXCEPT ![db] = TRUE]
      /\ UNCHANGED <<request, todo, doc, open, conn, main, cut, odd, cuts>>
  BY DEF Up
<1>2. TypeInv'
  BY <1>1 DEF IInv, TypeInv, Busy
<1>3. \A d \in Db : ~up'[d] => ~up[d]
  BY <1>1 DEF IInv, TypeInv
<1>4. ConnInv'
  BY <1>1, <1>3 DEF IInv, ConnInv, Busy, Have
<1> QED
  BY <1>1, <1>2, <1>4 DEF IInv, IdleHoldsNothing, FailuresExplained, DocInv, FinishInv, Busy

LEMMA IdleOutInv ==
  ASSUME IInv, IdleOut
  PROVE  IInv'
<1>1. main' = "stale" /\ UNCHANGED <<request, todo, doc, open, conn, up, cut, odd>>
  BY DEF IdleOut
<1> QED
  BY <1>1 DEF IInv, TypeInv, Link, IdleHoldsNothing, FailuresExplained, ConnInv, DocInv,
              FinishInv, Busy, Have

LEMMA NextInv == IInv /\ [Next]_vars => IInv'
<1> SUFFICES ASSUME IInv, [Next]_vars
             PROVE  IInv'
  OBVIOUS
<1>1. ASSUME NEW w \in Worker,
             \/ Accept(w) \/ Open(w) \/ AskOwn(w) \/ AskMain(w) \/ Write(w)
             \/ CloseSocket(w) \/ ReadMissing(w) \/ End(w)
      PROVE  IInv'
  BY <1>1, AcceptInv, OpenInv, AskOwnInv, AskMainInv, WriteInv, CloseSocketInv,
     ReadMissingInv, EndInv
<1>2. ASSUME NEW db \in Db, Down(db) \/ Up(db)
      PROVE  IInv'
  BY <1>2, DownInv, UpInv
<1>3. CASE UNCHANGED vars
  BY <1>3 DEF vars, IInv, TypeInv, IdleHoldsNothing, FailuresExplained, ConnInv, DocInv,
              FinishInv, Busy, Have
<1> QED
  BY <1>1, <1>2, <1>3, IdleOutInv DEF Next

-----------------------------------------------------------------------------
(* Theorems                                                                *)

\* The inductive invariant: what every worker has opened, written and still to do fit
\* together, whatever its routes are and whenever database servers go away.
THEOREM Invariant == Spec => []IInv
<1>1. Init => IInv
  BY InitInv
<1>2. IInv /\ [Next]_vars => IInv'
  BY NextInv
<1> QED
  BY <1>1, <1>2, PTL DEF Spec

\* ~ServerThread lets no connection that is open, or dead, reach the thread's next
\* request.
THEOREM ConnectionsAreReturned == Spec => []IdleHoldsNothing
<1>1. IInv => IdleHoldsNothing
  BY DEF IInv
<1> QED
  BY <1>1, Invariant, PTL

\* Every route opens what it asks: but for Siebel in /srforcr and the main connection
\* in /chat, a query fails only when its server was away during the request.
THEOREM QueriesAreOpened == Spec => []FailuresExplained
<1>1. IInv => FailuresExplained
  BY DEF IInv
<1> QED
  BY <1>1, Invariant, PTL

\* A set whose members are all the same has one at most.
LEMMA OneMember ==
  ASSUME NEW T, \A i, j \in T : i = j
  PROVE  Cardinality(T) <= 1
<1>1. CASE T = {}
  BY <1>1, FS_EmptySet
<1>2. CASE T # {}
  <2>1. PICK i \in T : T = {i}
    BY <1>2
  <2>2. Cardinality({i}) = 1
    BY FS_Singleton
  <2> QED
    BY <2>1, <2>2
<1> QED
  BY <1>1, <1>2

\* The branches of run that a request goes through write one type of content at most,
\* and end the head once, but for the complaints that are written into the head.
THEOREM EveryRequestHasOneAnswer == Spec => []OneAnswer
<1>1. IInv => OneAnswer
  <2> SUFFICES ASSUME IInv, NEW w \in Worker, Done(w)
               PROVE  LET d == doc[w] IN
                      /\ Cardinality({i \in DOMAIN d : d[i] \in {"text", "xml"}}) <= 1
                      /\ HeadEnds(d) = {} => request[w] \in Headless
    BY DEF OneAnswer
  <2> DEFINE d == doc[w]
             T == {i \in DOMAIN d : d[i] \in {"text", "xml"}}
  <2>1. Answers(request[w], <<>>, d, open[w])
    BY DEF IInv, DocInv, Done
  <2>2. d \in Seq(Word) /\ DOMAIN d = 1..Len(d)
    BY DEF IInv, TypeInv
  <2>3. Marks(<<>>, Ends) = {}
    BY DEF Marks
  <2>4. Cardinality(T) <= 1
    <3>1. \A i, j \in T : i = j
      BY <2>1, <2>2 DEF Answers, Content
    <3> HIDE DEF T
    <3> QED
      BY <3>1, OneMember
  <2>5. HeadEnds(d) = {} => request[w] \in Headless
    BY <2>1, <2>2, <2>3 DEF Answers, Ends, HeadEnds
  <2> QED
    BY <2>4, <2>5
<1> QED
  BY <1>1, Invariant, PTL

\* The answer to /updateDB ends with what dbupdate.job waits for, in the body.
THEOREM TheJobSeesFinished == Spec => []JobSeesFinished
<1>1. IInv => JobSeesFinished
  <2> SUFFICES ASSUME IInv, NEW w \in Worker, Done(w), request[w][1] = "/updateDB"
               PROVE  LET d == doc[w] IN
                      /\ Last(d) = "finished"
                      /\ \E i \in HeadEnds(d) : i < Len(d)
    BY DEF JobSeesFinished
  <2> DEFINE d == doc[w]
  <2>1. Finishes(<<>>, d, open[w])
    BY DEF IInv, FinishInv, Done
  <2>2. ~Closing(<<>>) /\ <<>> # <<Put("finished"), Close>>
    BY DEF Closing
  <2>3. Len(d) >= 2 /\ d[Len(d) - 1] = "empty" /\ d[Len(d)] = "finished"
    BY <2>1, <2>2 DEF Finishes
  <2>4. d \in Seq(Word) /\ DOMAIN d = 1..Len(d) /\ Len(d) \in Nat
    BY DEF IInv, TypeInv
  <2>5. Len(d) - 1 \in HeadEnds(d) /\ Len(d) - 1 < Len(d)
    BY <2>3, <2>4 DEF HeadEnds
  <2> QED
    BY <2>3, <2>5 DEF Last
<1> QED
  BY <1>1, Invariant, PTL

=============================================================================
