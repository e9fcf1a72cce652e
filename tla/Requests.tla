------------------------------ MODULE Requests ------------------------------
(***************************************************************************)
(* What ServerThread::run does for each request, as far as the named       *)
(* database connections and the shape of the answer go.                    *)
(*                                                                         *)
(* A worker thread opens the connections that a route needs under names    *)
(* made of its thread's id, and ~ServerThread closes and removes them.     *)
(* QSqlDatabase::database( name ) opens a registered connection that is    *)
(* closed, and is invalid for a name that is not registered; a connection  *)
(* whose server went away counts as open and answers nothing.  /chat alone *)
(* asks the main thread's connection, which lives as long as the daemon.   *)
(*                                                                         *)
(* A route is a set of scripts, one for each way its data may send it.     *)
(* Loops over rows go round once.                                          *)
(***************************************************************************)
EXTENDS Naturals, Sequences, SequencesExt, FiniteSets

CONSTANTS
  Worker,       \* threads of the pool
  Serve,        \* bound: per worker, the requests that this instance sends it
  None,
  MaxCut        \* bound: how often a database server goes away

VARIABLES
  request,      \* per worker: what it serves, None when idle
  todo,         \* per worker: what is left of its script
  doc,          \* per worker: what it has written to the socket
  open,         \* per worker: the socket is open for writing
  conn,         \* per worker and database: its named connection
  main,         \* the main thread's connection "mysqlDB"
  up,           \* per database: its server answers
  cut,          \* history, per worker: servers away at some time of the request
  odd,          \* history: <<path, database>> of queries that failed otherwise
  cuts

vars == <<request, todo, doc, open, conn, main, up, cut, odd, cuts>>

Db == {"mysql", "qmon", "siebel", "report"}

Path == {"/qmon_date", "/ltsscustomers", "/qmon", "/srnrs", "/srforcr", "/srinfo",
         "/srstatus", "/latestkueue", "/detailed", "/ltssupdate", "/updateDB",
         "/chat", "/pseudoQ", "/unityURL", "/assign", "/userqueue", "/stats", "/"}

\* The rest of the URL: missing, malformed, as it should be, or with "full".
Request == Path \X {"none", "bad", "good", "full"}

ASSUME ServeAssumption == Serve \in [Worker -> SUBSET Request] /\ None \notin Request

-----------------------------------------------------------------------------
(* Scripts                                                                 *)

Op(do, on, yes, no) == [do |-> do, on |-> on, yes |-> yes, no |-> no]

OpenDb(db)          == Op("open", db, <<>>, <<>>)
Query(db, yes, no)  == Op("ask", db, yes, no)
Ask(db)             == Query(db, <<>>, <<>>)
Put(what)           == Op("put", what, <<>>, <<>>)
Close               == Op("close", "", <<>>, <<>>)
At                  == Op("at", "", <<>>, <<>>)    \* at() of an empty list
Then(A, B)          == {a \o b : a \in A, b \in B}
First(a, B)         == Then({a}, B)

Line == Put("line")

\* text and xml: the last header and the empty line.
text == Put("text")
xml  == Put("xml")

\* Faulty variant: the answer stays open for the next branch.
QmonDateOpen == {<<OpenDb("mysql"), Ask("mysql"), xml, Line>>}

\* openMysqlDB( mMysqlDB ), and the rest of the branch of /qmon_date.
QmonDate == {<<OpenDb("mysql"), Ask("mysql"), xml, Line, Close>>}

LtssCustomers == {<<OpenDb("report"), Ask("report"), xml, Line, Close>>}

Qmon == {<<OpenDb("mysql"), Ask("mysql"), xml, Line, Close>>}

getSrnumsForQueue == Query("mysql", <<Line>>, <<>>)

SrNrs(arg) ==
  First(<<OpenDb("mysql"), text>>, {IF arg = "good" THEN <<getSrnumsForQueue>> ELSE <<Line>>})

\* getSrForCrReport: the report database names an SR, or none; what Siebel says of
\* the SR is read at fixed places of a list, as is, by two of the callers, the list
\* that is returned.
ForCrReport ==
  {<<OpenDb("report"),
     Query("report", <<Query("siebel", <<>>, <<At>>), Ask("mysql")>>, <<At>>)>>,
   <<OpenDb("report"), Ask("report"), At>>}

\* getSrForCr: what getSrForCrMysql finds is the answer.
ForCr == {<<Query("mysql", <<>>, r)>> : r \in ForCrReport}
           \cup {<<Ask("mysql")>> \o r : r \in ForCrReport}

SrForCr(arg) ==
  First(<<OpenDb("mysql")>>,
        IF arg = "good" THEN {<<text>> \o c \o <<Line>> : c \in ForCr}
                        ELSE {<<text, Line>>})

\* getBugDesc: a title that is not cached is stored.
BugDesc == {<<Ask("mysql")>>, <<Query("mysql", <<Ask("mysql")>>, <<>>)>>}

getCreator  == Ask("siebel")
getSrStatus == Ask("siebel")
getDetDesc  == Ask("siebel")

\* getSrInfo: no row; an SR without or with a bug; a CR, whose creator is asked.
SrInfo(arg) ==
  First(<<OpenDb("siebel"), OpenDb("mysql")>>,
        IF arg = "good"
          THEN {<<xml, Query("siebel", b, <<>>), Line>> :
                  b \in {<<>>, <<getCreator>>} \cup BugDesc}
          ELSE {<<text, Line>>})

SrStatus(arg) ==
  First(<<OpenDb("siebel")>>,
        {IF arg = "good" THEN <<text, getSrStatus, Line>> ELSE <<text, Line>>})

LatestKueue == {<<text, Line>>}

Detailed(arg) ==
  {IF arg = "none" THEN <<Line, Close>>
                   ELSE <<OpenDb("siebel"), text, getDetDesc, Line, Close>>}

\* Faulty variant: only MySQL is opened.
LtssUpdateUnopened ==
  {<<OpenDb("mysql"), Ask("report"), Ask("mysql"), text, Line, Line, Close>>}

LtssUpdate ==
  {<<OpenDb("mysql"), OpenDb("report"), Ask("report"), Ask("mysql"), text, Line,
     Line, Close>>}

\* Faulty variant: one line end after the last duration.
UpdateDbUnbroken(arg) ==
  {<<OpenDb("mysql"), OpenDb("siebel"), OpenDb("qmon"), OpenDb("report")>>
     \o (IF arg = "full" THEN <<Ask("qmon"), Ask("mysql"), text, Line>> ELSE <<>>)
     \o <<Ask("qmon"), Ask("mysql"), Line, Ask("siebel"), Ask("mysql"), Line,
          Put("finished"), Close>>}

\* The pseudo queues, if asked for, the Bomgar pass and the Unity pass.
UpdateDb(arg) ==
  {<<OpenDb("mysql"), OpenDb("siebel"), OpenDb("qmon"), OpenDb("report")>>
     \o (IF arg = "full" THEN <<Ask("qmon"), Ask("mysql"), text, Line>> ELSE <<>>)
     \o <<Ask("qmon"), Ask("mysql"), Line, Ask("siebel"), Ask("mysql"), Line,
          Put("empty"), Put("finished"), Close>>}

\* getCurrentBomgars() without a name.
Chat == {<<OpenDb("mysql"), Ask("main"), xml, Line, Line, Close>>}

getPseudoQueues == Ask("mysql")

PseudoQ == {<<OpenDb("mysql"), getPseudoQueues, text, Line, Close>>}

UnityUrl == {<<text, Line, Close>>}

Assign(arg) == {IF arg = "good" THEN <<text, Line, Close>> ELSE <<Line>>}

\* getUserQueue: the SRs of getSrInfo, and CRs with their SR.
UserQueue(arg) ==
  First(<<OpenDb("siebel"), OpenDb("mysql")>>,
        IF arg = "none"
          THEN {<<Line, Close>>}
          ELSE {<<xml, Query("siebel", rows, <<>>), Line, Close>> :
                  rows \in {<<>>} \cup BugDesc \cup First(<<getCreator>>, ForCr)})

\* An engineer that workforce.asp does not know; pages that fail; no SR, an SR that
\* srInfo finds, and one that it does not.
Stats(arg) ==
  IF arg = "none" THEN {<<text, Line, Close>>}
  ELSE {<<Line, Close>>, <<OpenDb("siebel"), text, Line, Close>>}
         \cup {<<OpenDb("siebel")>> \o sr \o <<xml, Line, Close>> :
                 sr \in {<<>>, <<Query("siebel", <<>>, <<At>>)>>, <<Ask("siebel"), At>>}}

Usage == {<<text, Line, Close>>}

\* The chain of run: two branches with an if of their own, and then one of the
\* others, of which /qmon takes all that starts like it.
Branch(path, arg) ==
  CASE path = "/qmon_date"     -> Then(QmonDate, Qmon)
    [] path = "/ltsscustomers" -> Then(LtssCustomers, Usage)
    [] path = "/qmon"          -> Qmon
    [] path = "/srnrs"         -> SrNrs(arg)
    [] path = "/srforcr"       -> SrForCr(arg)
    [] path = "/srinfo"        -> SrInfo(arg)
    [] path = "/srstatus"      -> SrStatus(arg)
    [] path = "/latestkueue"   -> LatestKueue
    [] path = "/detailed"      -> Detailed(arg)
    [] path = "/ltssupdate"    -> LtssUpdate
    [] path = "/updateDB"      -> UpdateDb(arg)
    [] path = "/chat"          -> Chat
    [] path = "/pseudoQ"       -> PseudoQ
    [] path = "/unityURL"      -> UnityUrl
    [] path = "/assign"        -> Assign(arg)
    [] path = "/userqueue"     -> UserQueue(arg)
    [] path = "/stats"         -> Stats(arg)
    [] OTHER                   -> Usage

-----------------------------------------------------------------------------
(* State                                                                   *)

Link == {"none", "closed", "open", "stale"}

Busy(w) == request[w] # None

\* Database::Database opens its connections; the report database's stays closed
\* until somebody asks it, which nobody does.
Init ==
  /\ request = [w \in Worker |-> None]
  /\ todo = [w \in Worker |-> <<>>]
  /\ doc = [w \in Worker |-> <<>>]
  /\ open = [w \in Worker |-> FALSE]
  /\ conn = [w \in Worker |-> [db \in Db |-> "none"]]
  /\ main = "open"
  /\ up = [db \in Db |-> TRUE]
  /\ cut = [w \in Worker |-> {}]
  /\ odd = {}
  /\ cuts = 0

-----------------------------------------------------------------------------
(* The servers                                                             *)

\* A server goes away, and every connection to it is dead.
Down(db) ==
  /\ up[db]
  /\ cuts < MaxCut
  /\ cuts' = cuts + 1
  /\ up' = [up EXCEPT ![db] = FALSE]
  /\ conn' = [w \in Worker |->
                [conn[w] EXCEPT ![db] = IF @ = "open" THEN "stale" ELSE @]]
  /\ main' = IF db = "mysql" /\ main = "open" THEN "stale" ELSE main
  /\ cut' = [w \in Worker |-> IF Busy(w) THEN cut[w] \cup {db} ELSE {}]
  /\ UNCHANGED <<request, todo, doc, open, odd>>

Up(db) ==
  /\ ~up[db]
  /\ up' = [up EXCEPT ![db] = TRUE]
  /\ UNCHANGED <<request, todo, doc, open, conn, main, cut, odd, cuts>>

\* MySQL drops the main connection, which is asked so rarely, for its idleness.
IdleOut ==
  /\ main = "open"
  /\ cuts < MaxCut
  /\ cuts' = cuts + 1
  /\ main' = "stale"
  /\ UNCHANGED <<request, todo, doc, open, conn, up, cut, odd>>

-----------------------------------------------------------------------------
(* A worker                                                                *)

\* A request is read, and the first two lines of its answer are written.
Accept(w) ==
  /\ ~Busy(w)
  /\ \E r \in Serve[w] :
       /\ request' = [request EXCEPT ![w] = r]
       /\ \E script \in Branch(r[1], r[2]) :
            todo' = [todo EXCEPT ![w] = script]
  /\ doc' = [doc EXCEPT ![w] = <<"status", "server">>]
  /\ open' = [open EXCEPT ![w] = TRUE]
  /\ cut' = [cut EXCEPT ![w] = {db \in Db : ~up[db]}]
  /\ UNCHANGED <<conn, main, up, odd, cuts>>

Does(w, what) == todo[w] # <<>> /\ Head(todo[w]).do = what
On(w)         == Head(todo[w]).on
Go(w)         == todo' = [todo EXCEPT ![w] = Tail(@)]

\* QSqlDatabase::database( name ).isOpen(), which opens what is registered.
Look(link, live) == IF link = "closed" /\ live THEN "open" ELSE link

\* openMysqlDB, openQmonDB, openSiebelDB and openReportDB: unless it is open,
\* addDatabase and open.
Open(w) ==
  LET db == On(w) IN
  /\ Does(w, "open")
  /\ conn' = [conn EXCEPT ![w][db] =
                CASE Look(@, up[db]) \in {"open", "stale"} -> Look(@, up[db])
                  [] OTHER -> IF up[db] THEN "open" ELSE "closed"]
  /\ Go(w)
  /\ UNCHANGED <<request, doc, open, main, up, cut, odd, cuts>>

\* The query was answered, or only logged an error.
Answered(w, well) ==
  /\ todo' = [todo EXCEPT ![w] =
                (IF well THEN Head(@).yes ELSE Head(@).no) \o Tail(@)]
  /\ odd' = IF well \/ On(w) \in cut[w] THEN odd
            ELSE odd \cup {<<request[w][1], On(w)>>}

\* A query on a connection of the thread's own.
AskOwn(w) ==
  LET db == On(w) IN
  /\ Does(w, "ask")
  /\ db # "main"
  /\ conn' = [conn EXCEPT ![w][db] = Look(@, up[db])]
  /\ Answered(w, conn'[w][db] = "open")
  /\ UNCHANGED <<request, doc, open, main, up, cut, cuts>>

\* A query on the main thread's connection, at which another thread may be, too:
\* then anything may come of it.
AskMain(w) ==
  /\ Does(w, "ask")
  /\ On(w) = "main"
  /\ main' = Look(main, up["mysql"])
  /\ \/ Answered(w, main' = "open")
     \/ /\ \E v \in Worker \ {w} : Does(v, "ask") /\ On(v) = "main"
        /\ Answered(w, FALSE)
  /\ UNCHANGED <<request, doc, open, conn, up, cut, cuts>>

\* operator<< of the stream; what comes after close is lost.
Write(w) ==
  /\ Does(w, "put")
  /\ doc' = IF open[w] THEN [doc EXCEPT ![w] = Append(@, On(w))] ELSE doc
  /\ Go(w)
  /\ UNCHANGED <<request, open, conn, main, up, cut, odd, cuts>>

CloseSocket(w) ==
  /\ Does(w, "close")
  /\ open' = [open EXCEPT ![w] = FALSE]
  /\ Go(w)
  /\ UNCHANGED <<request, doc, conn, main, up, cut, odd, cuts>>

\* at( i ) of an empty list reads what is not there: the daemon dies and is
\* started again, or the request goes on with what it read.
ReadMissing(w) ==
  /\ Does(w, "at")
  /\ \/ Go(w) /\ UNCHANGED <<request, doc, open, conn, main, cut>>
     \/ /\ request' = [v \in Worker |-> None]
        /\ todo' = [v \in Worker |-> <<>>]
        /\ doc' = [v \in Worker |-> <<>>]
        /\ open' = [v \in Worker |-> FALSE]
        /\ conn' = [v \in Worker |-> [db \in Db |-> "none"]]
        /\ main' = IF up["mysql"] THEN "open" ELSE "closed"
        /\ cut' = [v \in Worker |-> {}]
  /\ UNCHANGED <<up, odd, cuts>>

\* Faulty variant: MySQL's connection is kept for the thread's next request.
EndKeepsMysql(w) ==
  /\ Busy(w)
  /\ todo[w] = <<>>
  /\ conn' = [conn EXCEPT ![w] =
       [db \in Db |-> IF db # "mysql" /\ Look(@[db], up[db]) \in {"open", "stale"}
                        THEN "none" ELSE @[db]]]
  /\ request' = [request EXCEPT ![w] = None]
  /\ doc' = [doc EXCEPT ![w] = <<>>]
  /\ open' = [open EXCEPT ![w] = FALSE]
  /\ cut' = [cut EXCEPT ![w] = {}]
  /\ UNCHANGED <<todo, main, up, odd, cuts>>

\* ~ServerThread: what is open, or can be opened now, is closed and removed; the
\* name of a connection whose server is away stays registered.
End(w) ==
  /\ Busy(w)
  /\ todo[w] = <<>>
  /\ conn' = [conn EXCEPT ![w] =
       [db \in Db |-> IF Look(@[db], up[db]) \in {"open", "stale"}
                        THEN "none" ELSE @[db]]]
  /\ request' = [request EXCEPT ![w] = None]
  /\ doc' = [doc EXCEPT ![w] = <<>>]
  /\ open' = [open EXCEPT ![w] = FALSE]
  /\ cut' = [cut EXCEPT ![w] = {}]
  /\ UNCHANGED <<todo, main, up, odd, cuts>>

Next ==
  \/ \E w \in Worker :
       \/ Accept(w) \/ Open(w) \/ AskOwn(w) \/ AskMain(w) \/ Write(w)
       \/ CloseSocket(w) \/ ReadMissing(w) \/ End(w)
  \/ \E db \in Db : Down(db) \/ Up(db)
  \/ IdleOut

Spec == Init /\ [][Next]_vars

-----------------------------------------------------------------------------
(* Properties                                                              *)

\* A thread that is idle holds no connection that is open, dead ones included, so
\* that its next request does not inherit one whose server has gone away.
IdleHoldsNothing ==
  \A w \in Worker : ~Busy(w) => \A db \in Db : conn[w][db] \in {"none", "closed"}

\* Every route opens what it asks, and a query fails only where its server was away
\* in the time of the request; but /srforcr asks Siebel without a connection, and
\* /chat a connection that is long dead, or in use by another thread.
FailuresExplained == odd \subseteq {<<"/srforcr", "siebel">>, <<"/chat", "main">>}

Done(w)     == Busy(w) /\ todo[w] = <<>>
HeadEnds(d) == {i \in DOMAIN d : d[i] \in {"text", "xml", "empty"}}

\* The answers that have no end of the head: bad arguments of some routes.
Headless ==
  ({"/detailed", "/userqueue"} \X {"none"})
    \cup ({"/assign"} \X {"none", "bad", "full"})
    \cup ({"/stats"} \X {"bad", "good", "full"})

\* Whatever branches of the chain a request runs through, the client gets one answer:
\* one type of content at most, and a head that ends, but for arguments
\* whose complaint is written into the head.
OneAnswer ==
  \A w \in Worker : Done(w) =>
    LET d == doc[w] IN
    /\ Cardinality({i \in DOMAIN d : d[i] \in {"text", "xml"}}) <= 1
    /\ HeadEnds(d) = {} => request[w] \in Headless

\* dbupdate.job looks at the last line of the body: it is UPDATE FINISHED in either
\* kind of update, although a normal one never ends its head on purpose and leaves
\* it to the empty line after its last duration.
JobSeesFinished ==
  \A w \in Worker : Done(w) /\ request[w][1] = "/updateDB" =>
    LET d == doc[w] IN
    /\ Last(d) = "finished"
    /\ \E i \in HeadEnds(d) : i < Len(d)
=============================================================================
