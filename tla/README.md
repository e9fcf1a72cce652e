# A formal model of kueued

kueued is a small HTTP daemon (Qt 4, C++) that shows the service requests (SRs)
waiting in support queues.  It mirrors two upstream databases into a MySQL
database - Siebel's open SRs into `QMON_SIEBEL` and `CUSTOMER`, the chats of the
Bomgar collector into `QMON_CHAT` - and answers queries from the mirror.  The
mirror is refreshed by `GET /updateDB`, which a shell job requests in an endless
loop.

This directory holds TLA+ modules that model the mirror and its readers, TLC
configurations that check them on small instances, and TLAPS proofs about most
of them for every instance.

    tlc -config UnityUpdate_safety.cfg MCUnityUpdate     # check a run
    tlapm UnityUpdateProofs.tla                          # check the proofs

## Inventory

| Part | Where | State | Operations |
|---|---|---|---|
| Start-up | `main.cpp`, `kueued.cpp` | one process per host | opens the main thread's database connections, listens on port 8080 |
| Server, thread pool | `server.cpp` | accepted sockets, 32 workers of `QThreadPool` | `incomingConnection` starts a `ServerThread` |
| Request dispatch | `serverthread.cpp` 73-832 | the socket, the request line | reads a line, a chain of `startsWith` tests, answers, closes |
| Connection registry | `database.cpp` 34-113, 2433-2548, `serverthread.cpp` 46-71 | named `QSqlDatabase` connections, one set per thread | open on demand, close and remove at the end of the request |
| Unity pass | `serverthread.cpp` 408-448 | `ql`, `newList`; tables `QMON_SIEBEL`, `CUSTOMER` | fetch, exists, insert, queue changed, update queue, update item, list, delete |
| Bomgar pass | `serverthread.cpp` 371-406 | `list`, `l`; table `QMON_CHAT` | fetch, exists, insert, queue by id, update queue, list, delete |
| Pseudo queue and LTSS passes | `database.cpp` 353-461, 1099-1229 | tables `PSEUDOQ`, `LTSSCUSTOMERS` | insert only; delete all and insert |
| Queue reader | `database.cpp` 1578-1704, 1831-1862 | its list | `/qmon`: one SELECT, then per row the chat (twice) and the customer |
| CR cache | `database.cpp` 234-351 | table `CRSR` | look up, else ask the report database and insert |
| Bug cache | `database.cpp` 2343-2416 | table `BUG` | look up, else ask Bugzilla and insert |
| User queue, SR info | `database.cpp` 558-1097 | - | read Siebel directly |
| Statistics | `serverthread.cpp` 580-761, `xml.cpp` 461-580 | - | fetch pages of an intranet service and count |
| Text helpers | `database.cpp` 1045, 1899, 2320, 2418 | - | `isBugID`, `convertTime`, `formatPhone`, `escapeString` |
| XML, settings, logging | `xml.cpp`, `settings.cpp`, `debug.h` | - | formatting, configuration, log lines |
| Update job, init scripts | `scripts/` | a pidfile | the endless `/updateDB` loop, every 15th time `/updateDB/full`; restart of a dead daemon |

The parts share nothing but the databases.  Each worker thread has connections
of its own; each function of `Database` is one transaction; nothing spans two of
them.  So the behaviour that is hard to test lies between two calls: another
pass - of another client (`scripts/kueued-update`), of a second kueued host on
the same database, or of a request whose client gave up while its worker goes on
- writes in between; Siebel changes; the daemon is killed; or a query fails,
which the code only logs before it goes on with an empty result.

What makes each part correct:

- Unity pass: the two tables hold the same SRs, from the same fetched item; a
  pass that runs alone and without error ends over a copy of its list; the time
  in queue is restarted only when an SR moves; whatever goes wrong, later passes
  make up for it.
- Bomgar pass: the same, for one table.
- Queue reader: an entry does not mix two versions of an SR, and a chat that is
  there is shown.
- CR cache: what is cached was once a complete answer.
- Bug cache: a bug is looked up before it is stored, so that `BUG` does not grow with
  the requests.
- LTSS and pseudo queues: the table is a list that was fetched.
- Server: a request that was accepted is answered, a silent client does not take
  a worker from everybody else, no socket is left open.
- Dispatch: one answer per request, with its header, and no query without the
  connection it needs.
- Connections: a connection is used by the thread that opened it only, and none
  outlives its request.
- Start-up: one daemon per user and copy of the binary, and the one that runs is the
  one that listens.
- Update job: at most one runs, one runs again after a restart, and `dbupdate stop`
  kills no other program.
- Documents: a client can parse what it is sent, and finds in it what Siebel has.

`PROJECT.json` lists the hazards with their lines, and the properties that cover
them.

## Modules

| Module | Models | Kind |
|---|---|---|
| `UnityUpdate` | the Unity pass, any number of them at a time | component |
| `Mirror` | what the mirrored tables promise | abstract specification |
| `ChatUpdate` | the Bomgar pass | component |
| `QueueService` | whole `/updateDB` requests (Bomgar pass, then Unity pass) and a `/qmon` request | composition of `UnityUpdate` and `ChatUpdate` with a reader |
| `CrCache` | `getSrForCr` and the table `CRSR`, under the four requests that use them | component |
| `SmallTables` | `/ltssupdate`, `updatePseudoQueues`, `getBugDesc` and their three tables | component |
| `ServerPool` | accepted connections, the thread pool, `ServerThread::run` around its handlers | component |
| `Requests` | every branch of `run`: connections opened, queries asked, parts of the answer | component |
| `SingleInstance` | `main` from the lock file to the port | component |
| `UpdateJob` | `dbupdate`, `dbupdate-init`, the pidfile, the process table | component |
| `Host` | a host that runs both, with `check_kueued` | composition of `SingleInstance` and `UpdateJob` |
| `Text`, `Xml`, `Statistics`, `SimpleCrypt` | the text helpers, documents, averages, the password's cypher | operators |
| `Documents` | a client that calls any of them and reads the answer | composition of the four |
| `UnityUpdateProofs`, `QueueServiceProofs` (of `ChatUpdate`, too), `CrCacheProofs`, `SmallTablesProofs`, `ServerPoolProofs`, `RequestsProofs`, `HostProofs`, `DocumentsProofs` | theorems | proofs |
| `MC...` | symmetry sets and definitions for TLC | instances |

### UnityUpdate

One action is one call of the pass; the program counter `pc[u]` of a pass names
the call that is next.

| Action | Code | |
|---|---|---|
| `Fetch` | `getQmonSrs` | one UNION ALL, hence one snapshot; an SR that two branches select is two elements of `todo`; may be truncated by a fault |
| `CheckExists` | `newList.append`, `siebelExistsInDB` | takes an element out of `todo`; no answer counts as no row |
| `Insert` | `insertSiebelItemIntoDB` | two INSERTs and a commit; a key that exists makes its INSERT fail |
| `CheckQueue` | `siebelQueueChanged` | no row, or no answer, counts as changed |
| `SetQueue` | `updateSiebelQueue` | QUEUE and INQUEUE |
| `SetItem` | `updateSiebelItem` | two UPDATEs and a commit |
| `ListRows` | `getQmonSiebelList` and the test of the second loop | what is listed and not in `newList` is `doomed` |
| `Sweep` | `deleteSiebelItemFromDB` | two DELETEs and a commit |
| `Finish`, `Reply` | `UPDATE FINISHED`, `socket->close()` | |
| `Crash` | daemon killed, restarted by `scripts/check_kueued` | the pass is forgotten, the tables stay |
| `Change`, `Tick` | Siebel's users, the clock | external |

Abstractions.  The order of the list is not modelled: `todo` is a set and any
order is possible.  All columns but ID, QUEUE and INQUEUE are one value of
`Fields`, written by the same statements; the CUSTOMER row of an item is the
same value, so that "from the same item" can be said.  This covers CREATOR and
the CRSR columns of CRs, which are asked for again on the way and are not
followed.  `inqueue` is the clock's value.  A failed statement is a value of the
existentially bound `failed`/`fault`; the bound `MaxFault` limits them.

`UndoesTxn` says what a failed statement does to the transaction it is part of.
On `ndbcluster`, the engine that `scripts/create_tables` asks for, it undoes the
transaction; on InnoDB only itself.  The code does not look, so both are
modelled.  An INSERT or UPDATE of `QMON_SIEBEL` that fails on `ndbcluster` undoes
what came before it, and the statement on CUSTOMER that follows is a transaction
of its own which the commit makes permanent; a failure of the second statement
undoes both.  The model assumes that the tables have the columns that the
statements name; those of `scripts/create_tables` lack `SUBOWNER` and
`ORACLE_ID`.

History variables, which no action reads: `disturbed[u]` records what disturbed
pass `u` (an overlap with another pass, a failed query, a change in Siebel),
`torn` that a transaction once took effect by half.

### Mirror

The abstract specification has the two tables, the list and the phase of each
pass, and no program counter: a pass in progress may add, move, edit or drop SRs
in any order, but only as its list says; a sound pass may not restamp a row that
stays, may not leave half an SR behind, and reports its end only over a copy of
its list.  `UnityUpdate!MirrorSpec` states the refinement, under the mapping
given there.

### ChatUpdate

As `UnityUpdate`, with one table; `cpc`, `csnap` and so on are what `pc`, `snap` are
there, and `ChatInit`, `ChatNext`, `ChatSpec` its specification, since `QueueService`
extends the module.  `updateBomgarItemInDB` is, in spite of its
name, the INSERT.  Only NAME is ever updated: a chat that is handed to another
SR keeps its old SR, and `SameChats` says precisely that.

### QueueService

Extends `ChatUpdate` by the instance `U` of `UnityUpdate`; the two passes share the
updaters and the bounds, and a request's Unity pass starts where its Bomgar pass is
done.  `UpdatesAssumption` states the assumptions of `U`.  The reader takes a copy of
`QMON_SIEBEL` (`Select`), then asks per row (`AskChat`, `AskBomgar`,
`AskCustomer`).  `getBomgarQueue` calls BEGIN and COMMIT on the connection of the
outer query, so no transaction holds the answers together.  A reader writes
nothing, so one stands for any number.  CRs, which have `getSrForCrMysql` in
place of the customer, are in `CrCache`.

### CrCache

A request works through the CRs it meets (`todo`), each in up to four steps.

| Action | Code | |
|---|---|---|
| `LookUp` | `getSrForCrMysql` | its BEGIN commits what the connection has open |
| `AskReport` | the SELECT of `getSrForCrReport` | an empty answer is looked at by `getQmonSrs`, and indexed by `getUserQueue` and `/srforcr` |
| `AskSiebel` | `srInfo` and `info.at( 0 )`, `info.at( 3 )` | always empty for `/srforcr`, which opens no Siebel connection |
| `InsertRow` | the INSERT into `CRSR` | waits for a key that another open transaction holds |
| `Finish` | the next BEGIN of `/updateDB`, the commit of `getUserQueue` and `getSrsForQueue`, `~ServerThread` of `/srforcr` | commit, or rollback |
| `Die`, `Restart` | the process at an index outside a list; `check_kueued` | what is not committed is lost |

An index outside a `QStringList` is undefined: the daemon dies, or goes on with a
value `Garbage`.  The repository does not define `CRSR`; CR is taken for its key and
its engine for one with transactions, like the tables of `scripts/create_tables`.
Without a key two requests could cache a CR twice, and without transactions what
`/srforcr` makes up would be cached.  Creators (`getCreator`) and what
the requests do besides are left out; the lists of CRs are any sets of CRs.
History: `stored`, the rows a request inserted, and `misled`, that an `/updateDB`
or a `/userqueue` has stored `Garbage`.

### SmallTables

Statement by statement, for any number of workers at a time.  `/ltssupdate` is
`FetchLtss`, `DeleteLtss`, one `InsertLtss` per customer and `CommitLtss`, in one
transaction whose errors are only logged: `gone` and `new` are what the
transaction deletes and inserts, and `Fail` what a failed statement leaves of it
(`undoes`, chosen in `Init`, is `UndoesTxn` of `UnityUpdate`).  `updatePseudoQueues`
is `FetchPseudo`, one `InsertPseudo` per name, `CommitPseudo`, and `LeavePseudo` for
an empty list; the INSERT of a name that the table has is a failed statement, two
transactions that insert the same name wait for each other's key, and where they do
so both ways round MySQL ends one of them (`Deadlock`).  `getBugDesc` is `LookUpBug`,
`FetchBug` and `InsertBug`.  `Crash` ends all workers and counts as a fault.  None of
the three tables is in `scripts/create_tables`.  The name of a pseudo queue is taken
for a key, without which every full update would store it again.  Of the ID of a bug
nothing is assumed: the INSERT of one that is there fails, or adds a row, and `bugRows`
counts the rows; titles are left out.
History: `disturbed`, `last`, `spoiled` and `known`.

### ServerPool

`place[c]` says where a connection is: the kernel's `backlog`, `queued` in the
pool, with a worker (`wait`, `handle`, `fetch`, `write`, `hung`), `closed`, `reset`
by a death of the daemon, or `leaked`: `run` returned and the socket is neither
closed nor known to anybody.  `wire[c]` is what the client sent: `part` is a first
packet without end of line, `parts` the whole in two, `other` something that is not
a GET.  `maxOpen`, chosen in `Init`, is how many sockets the host lets the process
have open.  `IncomingConnection` and `Leave` are `QThreadPool`'s start and hand-over,
`ReadRequest` is `waitForReadyRead` and `canReadLine`, `FetchFailed` a fetch that
ends without `readyRead`, `WriteAnswer` the end of `run`.  All branches of `run` are
one step, `Handle`, and differ only in whether they fetch over HTTP.  A connection
carries one request, as in the code.

### Requests

What `Handle` of `ServerPool` hides.  A branch of `run` is a set of scripts, one for
each way its data may send it; a script is a sequence of five kinds of operations:
open a connection, ask a query (with what follows if it is answered and if it is
not), put a part of the answer, close the socket, and read an element that an empty
list does not have.  `Branch` is the chain of `startsWith` tests in its order, with
the two branches that an `if` of their own makes fall through: `/qmon_date` goes on
to `/qmon`, `/ltsscustomers` to the usage text.  Loops over rows go round once.

A connection is `none`, `closed` (its name is registered), `open`, or `stale` (its
server went away, which nobody has noticed).  `Look` is `QSqlDatabase::database`,
which opens what is registered and closed; `Open` is `openMysqlDB` and its like,
`End` is `~ServerThread`.  `/chat` alone asks the main thread's connection
(`AskMain`), and two threads that do so at a time may get anything.  `ReadMissing`
ends the daemon, which is started anew, or goes on with garbage.  `Down`, `Up` and
`IdleOut` are the database servers.  History: `cut`, the servers that were away in
the time of a request, and `odd`, the queries that failed without that.

### SingleInstance, UpdateJob and Host

`SingleInstance` follows a process of kueued from `QtLocalPeer`'s lock file in `/tmp`
(`OpenLockFile`, `AskRunning`), through the local socket (`Listen`), to the port and
the event loop (`Construct`).  The names of lock file and socket hold the user's ID
and a checksum of the binary's path, the port neither.  An element of `User` is
therefore a user with one copy of the binary: somebody who starts a second copy, say
one that was just built, is another element, and what is said of two users holds of
two copies under one.  The lock is the file's and not the name's, so files are
numbered and whoever cleans `/tmp` (`CleanTmp`) lets the next process create another.
Any processes may end at any step (`End`).

`UpdateJob` is `dbupdate start|stop` line by line (`Start`, `Fork`, `Note`; `Stop`,
`Kill`, `Remove`), which go by `/tmp/dbupdate.pid`, and `dbupdate-init`, which goes by
the process table.  Process numbers are used again, by the job and by other
programs.  `JobReboot` forgets all processes and keeps `/tmp`.

`Host` composes them: `check_kueued` is `CheckDaemon`, `StopDaemon`, `StartDaemon`
and `CheckJob`, in turn; `Event`, of which there are `MaxEvent`, is what people, other
programs, faults and reboots do.  `check_kueued` calls
`/etc/init.d/kueued-dbupdate`, which the repository installs under no such name; it
is taken to be `dbupdate-init`.

### Documents

`Text`, `Xml`, `Statistics` and `SimpleCrypt` are operators and read like the
functions they are named after.  `Documents` gives them a caller: a client asks for
any of them with any input of a bounded size (`AskDocument`, `AskPhone`, `AskStats`,
`AskPassword`), and reads the answer.

A text is a sequence of characters that stand for classes (`"<"` for all mark-up,
`"esc"` for the two control characters that the pattern of `escapeString` names,
U+001B and U+0011, `"ctl"` for the others that XML forbids, `"bug"` for six digits,
`"us"` and `"iso"` for dates in the two formats that Siebel's tables have); columns
that all the code treats alike are one.  `last_update` and `actl_resp_ts` are two
columns, `LAST_UPD` and `ACTL_RESP_TS`: `getUserQueue` fills an item's last update
from the second, everything else from the first.  A document is a set of elements,
each with its text and whether it is CDATA, and `Parses` says what a parser needs.
`Garbage` is what `formatPhone` finds in an offset that it never set.  In
`SimpleCrypt` a byte and the key are the sets of their bits, checksum and hash are
parities, and base64 and the compression are left out.  The loops of `escapeString`,
`formatPhone`, the averages and the cypher are recursive functions of the number of
rounds, so that they can be reasoned about.

## Runs

The runs bound upstream changes (`MaxChange`), failed queries (`MaxFault`), kills
(`MaxCrash`), the clock (`MaxClock`), servers that go away (`MaxCut`) and what befalls
a host (`MaxEvent`).  Deadlock is checked in the last four runs.  In the others it is
not: with the bounds used up, a state with nothing left to do is the end of a bounded
behaviour and not one of the program.

| Run | Shows | Bounds |
|---|---|---|
| `UnityUpdate_safety` | `TypeOK`, `PairInv`, `PassInv`, `FinishedMatchesList`, `RestampOnlyOnMove`, `MirrorSpec` | 2 passes, 2 SRs, 2 queues, 1 change, 1 failed query, 1 tick, 2 passes killed, `ndbcluster` |
| `UnityUpdate_live` | `ConvergesUnlessTorn` | 2 passes, 1 SR, 2 branches, 2 queues, 2 values of the columns, 1 change, 1 failed query, 1 kill, InnoDB |
| `UnityUpdate_fetchfault` | `FinishedMeansInSync` is violated | 1 pass, 2 SRs, 1 failed query |
| `ChatUpdate_safety` | `TypeOK`, `FinishedMatchesList`, `ChatsConverge` | 2 passes, 2 chats of 1 SR, 2 names, one of each disturbance |
| `QueueService_read` | `EntryOfOneVersion`, `ChatShown` | 1 `/updateDB`, 2 SRs, 2 chats, 2 values of the columns, 1 change, 1 failed query, 1 kill |
| `CrCache_safety` | `TypeOK`, `WaitsEmptyHanded`, `DoneIsCommitted`, `SrForCrLeavesNoTrace`, `RequestsGetThrough` | 2 requests of 4 kinds, 2 CRs, 1 SR, 1 change, 1 failed query |
| `CrCache_vanished` | `UpdatesComplete` is violated | 1 update, 1 CR, nothing changes or fails |
| `ServerPool_safety` | `PoolInv`, `LeaksAreOfBrokenClients`, `WholeIsAnswered` | 3 connections, 2 threads, 2 or 3 descriptors, 1 death |
| `Host_safety` | `OneInstance`, `RunningServes`, `JobIsKnown`, `KillsOwnJob`, `UpdatesComeBack` | 2 processes, 2 users, 5 process numbers, 2 runs of `dbupdate`, 4 events |
| `Requests_safety` | `IdleHoldsNothing`, `FailuresExplained`, `OneAnswer`, `JobSeesFinished` | a thread with every route and the arguments it tells apart, one with `/chat` and `/srforcr`; 1 loss of a server |
| `SmallTables_safety` | `LtssIsOneList`, `FullListsAll`, `FewRowsPerBug`, `PseudoQueuesArrive` | 2 workers, 2 customers, 2 pseudo queues, 1 bug, 1 change, 1 fault, both engines |
| `Documents_safety` | `OddTextsParse`, `DescriptionArrives`, `SameSr`, `QmonIsReadable`, `PhoneDials`, `AveragesInRange`, `PasswordReadsBack` | texts of 4 characters of 6 kinds, phone formats of 5, pages of 2 surveys with 3 ratings, passwords of 3 bytes of 2 bits, 3 keys of 3 bytes |

Why the bounds suffice.  Passes meet in pairs, on one row: two passes and two SRs give
a row at hand, a row that another pass has at hand, and a row that is in neither.  The
same holds of CRs in `CrCache`: a CR whose row is not committed and a CR that is next
are two, and a circle of waiting needs two requests; of the names in `SmallTables`,
where a deadlock needs two; and of the list that a worker there has inserted in part.
In `ServerPool`, where three descriptors are enough for all, one thread may hang for
ever while two other connections share the second, one that has it and one in the
queue, and only two hung threads jam the server; with two descriptors one may be lost,
so that a connection waits in the backlog for the other one.
Two queues give a move, two values of the columns an edit.  Passes follow each other
without limit, so one change or one fault can meet every pair of calls.  In `Requests`
threads share nothing but the servers, the main connection and the daemon's life, so
that one thread with all routes and one with the two that touch these is enough; one
loss of a server can come at any step. In `Host` two processes of one user race for
the lock, and two of two users for the port; four events reach, for instance, a job
started, killed by number, its number taken by another program, and stopped.  What
takes more events is left to the proofs. In `Documents` four characters hold an end of
CDATA and a control character before, in and after it, and a format of five characters
has positions before, at and behind the end of a number.

Every property of a passing run is also checked against a faulty variant of the
code, defined beside the action it replaces ("Faulty variant" in the modules), under
which TLC finds it violated in the same run.

Fairness (`FairSpec`, `ChatFairSpec`).  In the update models a worker that has begun a
pass goes on with it, weak fairness of its calls; `scripts/dbupdate/dbupdate.job`
sends the next `/updateDB` as soon as one is answered, weak fairness of `Fetch` of
some updater. Nothing is assumed of the order of passes, of the world or of faults.
The bounds on changes and faults make them stop, which is what "once Siebel stops
changing" means. In `CrCache` every request gets on as long as nothing blocks its
INSERT, a blocked INSERT has its turn in the end (strong fairness: MySQL queues those
who wait for a lock), and `check_kueued`, which is meant to be run again and again,
restarts a dead daemon.  In `ServerPool` the main thread accepts while it has
descriptors, and a worker gets on; of `waitForReadyRead` this says that its 30 s end,
of a fetch that it is answered or fails.  Clients and the failures of fetches are
under no fairness.  In `SmallTables` a worker goes on, MySQL finds a deadlock, and
`/updateDB/full`, which the job asks for every fifteenth time, is begun again and
again (strong fairness: its request waits in the pool's queue while the threads are
busy).  In `Host` `check_kueued` goes on, since cron runs it again and again, and so
do each process and each run of `dbupdate`; events are under no fairness.

### What the violations and the weaker properties say

- A truncated fetch is reported as a finished update, and dbupdate.job logs
  "Update successful :)" (`UnityUpdate_fetchfault`).
- A CR that the report database relates to an SR which `srInfo` does not find can
  kill the daemon in every update, for as long as the CR is in a queue
  (`CrCache_vanished`).
- The time in queue of an SR that moved once can be restarted by a second,
  overlapping pass: `RestampOnlyOnMove` is of undisturbed passes.
- One failed INSERT leaves a CUSTOMER row on whose key every later INSERT fails
  and, on `ndbcluster`, is undone, so that the SR never appears again:
  `ConvergesUnlessTorn`.
- An SR whose chat ends at the wrong moment is shown as a chat in the queue
  "NOCHAT": `ChatShown` is of chats that stay.
- Fetches that fail without data hold the pool's threads for ever; an update
  queued behind them is never answered, and `check_kueued` sees a living daemon:
  `WholeIsAnswered`.
- A daemon that two users start, or one user from two paths, can be left with nobody at
  the port, and `check_kueued` takes it for alive (`UpdatesComeBack`).
- `dbupdate stop` kills another program if a job ended without it and its number was
  given away (`KillsOwnJob`).
- A failed or overlapping `/ltssupdate` can leave rows of two lists, or none
  (`LtssIsOneList`); one known pseudo queue undoes, on `ndbcluster`, the new ones
  before it (`FullListsAll`).
- `/srforcr` asks Siebel without a connection and `/chat` asks a connection that
  nobody reopens (`FailuresExplained`).
- `BUG` may get several rows of a bug: requests that look for it while the first one
  still waits for Bugzilla all insert theirs, where ID is no key (`FewRowsPerBug`).
- `escapeString` knows two control characters only, and leaves the second of two of
  them that are next to each other or have one character between them
  (`DescriptionArrives`); any other control character makes `/srinfo` unreadable.  The
  other documents are broken by either kind, since only `/srinfo` calls it.
- Titles and descriptions are protected against an end of CDATA; contacts, names,
  customers and the subowner are quoted and not protected, creators, a CR's SR and the
  chat's name are not even quoted, nor are, in `/qmon_date`, the customer and the title
  of a CR's SR (`OddTextsParse`, `QmonIsReadable`).
- `/srinfo` and `/userqueue` tell different last updates of an SR, and `SameSr` leaves
  them out: the first reads LAST_UPD, the second ACTL_RESP_TS.

## Proofs

The theorems hold for every value of the constants: any sets of updaters, SRs,
chats, CRs, workers, connections, processes and so on, texts of any length, and any
bounds.

| Module | Theorem | |
|---|---|---|
| `UnityUpdateProofs` | `TypeCorrect` | `Spec => []TypeOK` |
| | `TablesPaired` | `Spec => []PairInv` |
| | `PassesOnCourse` | `Spec => []PassInv` |
| | `FinishedCopies` | `Spec => []FinishedMatchesList` |
| | `RestampsOnlyMoves` | `Spec => RestampOnlyOnMove` |
| | `ImplementsMirror` | `Spec => MirrorSpec` |
| `QueueServiceProofs` | `ChatTypeCorrect`, `ChatFinishedCopies` | `TypeOK`, `FinishedMatchesList` of `ChatUpdate` |
| | `OneVersion`, `ChatIsShown` | `EntryOfOneVersion`, `ChatShown` |
| | `ServiceImplementsMirror` | `MirrorSpec` of the whole |
| | `ServiceCopies` | `FinishedMatchesList` of both passes, in the whole |
| `CrCacheProofs` | `TypeCorrect`, `WaitersHoldNothing`, `DoneMeansCommitted`, `NoTrace` | `TypeOK`, `WaitsEmptyHanded`, `DoneIsCommitted`, `SrForCrLeavesNoTrace` |
| `ServerPoolProofs` | `PoolWithinLimits`, `LeaksExplained` | `PoolInv`, `LeaksAreOfBrokenClients` |
| `SmallTablesProofs` | `LtssWhole`, `FullIsFull`, `FewRows` | `LtssIsOneList`, `FullListsAll`, `FewRowsPerBug` |
| `RequestsProofs` | `Invariant` | `Spec => []IInv` |
| | `ConnectionsAreReturned`, `QueriesAreOpened` | `IdleHoldsNothing`, `FailuresExplained` |
| | `EveryRequestHasOneAnswer`, `TheJobSeesFinished` | `OneAnswer`, `JobSeesFinished` |
| `HostProofs` | `InstanceTypeCorrect`, `OneAtATime`, `TheOneServes` | of `SingleInstance` alone |
| | `HostOneAtATime`, `HostTheOneServes` | `OneInstance`, `RunningServes` of the host |
| | `KnownJob`, `OwnJob` | `JobIsKnown`, `KillsOwnJob` |
| `DocumentsProofs` | `Invariant` | `Spec => []IInv` |
| | `OddTextsAreReadable`, `DescriptionsArrive` | `OddTextsParse`, `DescriptionArrives` |
| | `BothTellTheSame`, `QmonStaysReadable` | `SameSr`, `QmonIsReadable` |
| | `PhonesDial`, `AveragesStayInRange`, `PasswordsReadBack` | `PhoneDials`, `AveragesInRange`, `PasswordReadsBack` |

Assumed are the named assumptions of the modules, which TLC evaluates in the runs:
the values that stand for "nothing" are no others, bounds are naturals, the switches
are Booleans, there are more process numbers than events.  `QueueService` states
those of its instance of `UnityUpdate` (`UpdatesAssumption`), so that what is proved of
`UnityUpdate` holds of the instance.

### The arguments

`UnityUpdate`.  `PairInv` alone is not inductive: an INSERT needs to know that the
item it writes is one of the list (`ListInv`).  `FinishedMatchesList` alone is
not either: it speaks of the end of a pass only.  `PassInv` says of each point of
a pass what has been achieved: `ListInv` - the list is what was seen plus what is
still to see, the item at hand was seen, what is doomed was not; and, for a pass
that nothing disturbed, `SoundInv` - no other pass is in progress, the answer of
the last check still holds, every SR seen so far matches the tables, and what
should not be there is doomed.  The inductive invariant is
`IInv == TypeOK /\ PairInv /\ PassInv`; `InitInv` and `NextInv` show that it holds
initially and is preserved, action by action, with lemmas on the three parts of
it (`...Type`, `...Pair`, `...Pass`), and `OtherPass` for the passes that do not
move.  `FinishedMatchesList` follows from `PassInv` at the end of a pass, since
the set of seen SRs is then the whole list; `RestampOnlyOnMove` follows from it at
`SetQueue`, where a sound pass knows that the queue differs.

`Mirror`.  Every call is mapped to a step of `Mirror` or to none (`...Maps`, one
lemma per action).  That a write is one that `Mirror` allows is what `IInv` says of
the pass that writes: the row is of its list, and, if it is sound, its last check
still holds.

`ChatUpdate`.  The same shape with one table: `ChatListInv` and `ChatSoundInv`, both
parts of `ChatIInv`.  It is proved where the pass is used, in `QueueServiceProofs`,
which extends `ChatUpdate`; the theorems are about `ChatSpec`, the pass alone.

`QueueService`.  The proof of `UnityUpdate` is instantiated, not repeated: a step of a
request is a step of one of its passes, and what the passes cannot say of themselves
- when another request is in progress - follows from the number of requests that are
(`OthersCount`, `ChatOthersCount`, `Counts`).  So `UpdatesInv`, both passes'
invariants, holds of the whole, and with it what they imply: `ServiceCopies`, and the
refinement of `Mirror`, whose steps are those of the Unity passes (`MirrorSees`,
`MirrorSteps`) while the Bomgar passes and the reader leave its variables alone
(`MirrorBlind`).  `ReaderInv` then says what the reader has in hand: the row it read
still is of the version it remembers, or was written meanwhile; and a chat that
stayed was found.

`CrCache`.  Each property is about one point of a request; `HandInv`, `OpenInv` and
`TraceInv` say of every point what has been assigned, where a transaction may be
open, and who may have in hand what an empty answer gave.

`SmallTables`.  `LtssInv`: an undisturbed `/ltssupdate` is alone and in one
transaction, which takes out what the table holds and puts in what it has dealt
with.  `FullInv`: an undisturbed `updatePseudoQueues` has what it dealt with in the
table or in its transaction, unless a known name undid it.  `BugInv`: the rows of a bug
and the workers that are asked for it, and have not answered yet, are together no more
than there are workers; it holds because a worker is asked only while there is no row
(`BugSteps`), and a row takes its place (`BugNext`).

`ServerPool`.  `PoolInv` is inductive once it is known that finitely many
connections are with a worker; the cardinalities are those of `FiniteSetTheorems`.

`Requests`.  No script is unrolled: a request's script is a sequence from which its
first operation is taken, and in whose place a query splices what its answer brings.
What can be spliced in, at any depth, is in `Body`: it neither closes the socket nor
writes a head.  The invariants say of what is left of a script, and of what was
written: `ConnInv` - it opens, or has, every database it asks (`Ready`), and a
connection that is dead or missing is one whose server was away during the request;
`DocInv` - the heads that are written and those that will be before the socket is
closed (`Marks`) make one answer; `FinishInv` - an update's script ends with the empty
line, UPDATE FINISHED and the close.  With the type of the variables and the two
properties that are inductive beside it they are `IInv`.  It is established once for
the script of every route (`Routes`), and kept by taking an operation away (`GoOn`) and
by splicing a `Body` in (`Splice`, `SpliceConn`, `SpliceAnswer`).

`Host`.  `InstanceSteps` shows that a host's behaviour is one of `SingleInstance`, as
far as the daemon goes, so that the invariant `LockInv` (all who have the lock file
open have the same file open, whoever has the port is in its event loop) is proved
there alone.  For the job, `KnownInv` says at each line of `dbupdate` who may be a
job, and `OwnInv` that, as long as every job ended by `dbupdate stop`, the number in
the pidfile is the job's, but between `kill` and `rm`.  The proof of `OwnJob` found
what the run cannot reach with four events: a reboot between those two lines leaves
the pidfile behind, with a number that is free for others.

`Documents`.  Every property is about one call and its answer; `IInv` says that the
call is one that can be asked and that the answer is one to it.  What remains are facts
about the functions, each by induction over the rounds of its loop:

- `escapeString` (`EscapeState`, `EscapeStep`, `EscapeIs`): what is removed is U+001B or
  U+0011, so that the other text stays; and, if any two of them are more than two
  places apart, the next one is never behind the place where the search goes on, so
  that in the end there is none.  That distance is the weakest that works: where it is
  two, the second one is skipped.
- `Protect` (`ProtectIs`): after it no end of CDATA is left, and it adds no control
  character; a client that reads `&gt;` gets the text back (`UnprotectProtect`).
- `Parses` and the elements (`ElementsParse`, `ItemParses`): which texts a document can
  stand, column by column, according to what is quoted.  `QmonParses` compares the two
  documents of a queue, `SameTexts` and `SameItems` the two queries for an SR.
- `formatPhone` (`InsertKeeps`, `FormatKeeps`): every insertion, wherever the offset
  sends it, leaves what is dialled as it is.
- averages (`TotalBetween`, `AverageBetween`): the sum of what was rated lies between
  multiples of any bounds of it, and a rounded quotient between the bounds.
- the cypher (`Chained`, `DecryptsBack`): a byte is combined with the key's and with the
  byte that was written before, which the other side has read by then, and what is
  combined twice is undone (`XorTwice`).

The library's induction theorems have an operator for the formula as parameter, which
the provers cannot instantiate.  `LeastNat` derives from its theorem on well-founded
orderings that a set of numbers has a least member, and `NatInd`, `UpTo` and `SeqInd`
are induction for sets; `Iteration` says that a recursive function of the number of
rounds exists, without which `CHOOSE` says nothing about it.

### Model-checked only

Liveness is out of the prover's reach: `ConvergesUnlessTorn`, `ChatsConverge`,
`RequestsGetThrough`, `WholeIsAnswered`, `PseudoQueuesArrive`, `UpdatesComeBack`.  All
other properties of the passing runs are proved, too.

## Not modelled

- Ages and SLA times in the documents, which are arithmetic on the clock, and the
  document of `/ltsscustomers`, all of whose columns are quoted and none protected.
- `scripts/kueued-update`, which deploys a build, and the init scripts' `status`,
  `reload` and the like.
- How `network.cpp` sets up a request and its proxy, `settings.cpp` but for the
  password, `debug.h`.
- `sendMessage` and `receiveConnection` of `QtLocalPeer`, which `main` does not use;
  `qtservice`, whose classes nothing uses; the build files.
- `getLTSScustomers` and `checkLTSSbyId`, the only readers of `LTSSCUSTOMERS` in the
  daemon, which nothing calls.

Seen while modelling, and covered by no property:

- `scripts/create_tables` lacks the columns `SUBOWNER` and `ORACLE_ID` and the tables
  `CRSR`, `BUG`, `PSEUDOQ` and `LTSSCUSTOMERS` that the statements name
  (`database.cpp` 137).
- A CR's SR, customer and description are read from `CRSR` for ever once they were
  stored; the look-up and the INSERT that it decides on are two databases apart
  (`database.cpp` 236).
- `getSrInfo` leaves the flags of an SR that it does not find uninitialised
  (`database.cpp` 886); `Xml` takes any values for them.
- The usage text names `/bug/$SRNR` and `/qmon/$QUEUE`, which no branch honours.
- `decryptToByteArray` reads `at( 0 )` of a text whose length it never looks at
  (`simplecrypt.cpp` 189).
