# TLA+ models of m-modern-corpus

This repository is a collection of snapshots of M programs together with two
tools of its own: a script that fetches the snapshots and a generator of two
discovery artifacts, with a gate in `make` and CI. The snapshots are programs
in their own right. The models here cover the repository's own tools, but for the
two loaders of the table, and the concurrent core of those snapshots that have
one: the M Web Server, YDBOcto and the gateways of EWD.

Everything is plain TLA+, one module per component, one action per step that
another actor, a failure or a crash can fall between. TLC checks each module on
a small instance; TLAPS proves the invariants that matter most for every value
of the constants.

## Inventory

### 1. Snapshot fetcher: `tools/fetch-corpus.sh`

*State.* The directories `ROOT_DIR/<subdir>`, the lock file
`dist/sources.lock.json`, a temporary clone, and per run the list of targets,
`FETCHED_SUBDIRS`/`FETCHED_SHAS` and the exit status.
*Operations.* `fetch` (clone what is missing), `refresh` (replace the named
subdirs or all), `verify` (compare with the upstream HEAD), and the read-only
`status`, `list`, `help`.
*Interactions.* Upstream git repositories that move at any time; users who start
several runs in one tree; the generator, the gate and git, which read the tree.
*Hard.* No lock is taken anywhere. A snapshot is replaced by an `rm -rf` and a
`mv`. errexit is off inside `$(fetch_one ...)`, so of the commands in it only the
clone is checked. The lock file is read, merged, truncated and written.
*Correct when* what a run leaves on disk and in the lock file agree, whatever
failed or was killed before; what is present changes only under a `refresh` that
names it, and under a `fetch` only when another run put it there behind its back;
overlapping runs on different subdirs do not disturb each other's trees; runs end.

### 2. Provenance table: `tools/sources.tsv` and its two readers

*State.* The rows. *Operations.* `load_sources` in bash (parallel arrays) and in
Python (a dict). *Correct when* both readers get the same rows or both refuse.

### 3. Manifest generator and drift gate: `tools/gen-manifest.py`, `Makefile`, CI

*State.* The table, the snapshots, `dist/manifest.json`, `dist/stats.json`, the
commit the tree is based on. *Operations.* `make manifest`,
`make check-manifest`, commits of parts of the tree, CI on each push.
*Hard.* The generator walks directories that a refresh may swap meanwhile, writes
two files one after the other and can die between; a commit may hold any part of
a change. *Correct when* the two files agree after every run that ends and the
gate passes exactly the commits whose artifacts are their own.

### 4. M Web Server: `m-web-server/src/_webreq.m`

*State.* The global `^%webhttp(0,"listener")`, the TCP port, one process per
listener and one per connection, the log counter `^%webhttp("log",DT)` with its
M lock. *Operations.* `job`, `start`, `stop`, the accept loop, the child's
read/serve loop, `INCRLOG`.
*Interactions.* Operator, listeners and children communicate through the one
global, polled; listeners hand sockets to children with JOB; children share the
log counter. *Hard.* A stop is a value that the next start overwrites; polls are
ten seconds apart; a listener may wait 15 seconds for its port; processes are
killed. *Correct when* "running" means that somebody listens, a stop brings
everything down and lets at most the request already being read for in, and log
ids are not shared.

### 5. M Web Server services: `_webutils.m`, `_webrsp.m`

*State.* The service table `^%web(17.6001)` and its "B" index. *Operations.*
`addService`, `deleteService`, URL matching. *Correct when* index and entries
stay in step and a deleted service is not found.

### 6. YDBOcto: `ydbocto-aux/src`

*State.* In the database: three format numbers (`planfmt`, `seeddfnfmt`,
`binfmt`), the definitions loaded from `octo-seed.sql`, the definitions, plans
and dependencies of tables and views, and their oids. The lock
`^%ydboctoocto("ddl")`, exclusive, or shared as its descendant
`^%ydboctoocto("ddl",<pid>)`. Per process: table definitions in memory, the flags
of the upgrade.
*Operations.* At start-up: `is_auto_upgrade_valid`, then for plans, seed and
binary definitions look, lock, look again, do the work, set the number, unlock.
Then statements: each takes the shared lock to parse; SELECT keeps it to the end;
DDL gives it up, takes the exclusive one and looks again.
*Interactions.* Any number of octo and rocto processes on one database; a rocto
listener forks a server for each connection. *Hard.* Work is done in many steps
by processes that can be killed; what was looked at without the lock, or under
the shared one, is used under the exclusive one; definitions are kept in memory;
every lock has a timeout and every error path its own clean-up.
*Correct when* a schema change or an upgrade is alone, a number never says more
than was done, statements see neither half an upgrade nor a table that is gone,
and every statement gives back the locks it took.

### 7. EWD: the m_apache connection pool (`ewd/m_apache`)

*State.* In an Apache child: the table `mgwsi_db_con` of `MGWSIMaxPooledConnections`
slots, each free or in use, connected or not, with the number of its socket, the
kind of server behind it and the target it was made for; the handler's own
structure per request. On the other side one M job per connection, started by
inetd, by a gateway, or by the daemon of `_ZMGWSI.m`, which names a port where
the connection has to be made again.
*Operations.* `mgwsi_handler`: take a slot, connect, shake hands, send, read the
head and the body, try again once, give the slot back; `mgwsi_child_exit`.
*Interactions.* The threads of a child share the table under a mutex, which
covers the scan only; each talks to M jobs that may die. *Hard.* Numbers of
closed sockets stay in the slots while the system hands them out again;
connections die while they are pooled; a request may have been run before its
connection died; requests for several targets share one table, and the threads
that connect share one static address.
*Correct when* a slot has one user and every used slot has one, sockets are not
mixed up, a pooled connection holds nothing of the last answer, a client gets the
answer to its own request, a request that may have run is not sent again
unbounded, requests end.

### 8. EWD: m_apache WebSockets

*State.* A thread that reads from the database beside the one that reads from the
browser, a mutex per socket. *Operations.* Upgrade, framing, close. Not modelled
(below).

### 9. EWD: the Node.js gateways (`ewd/node`)

*State.* `ewdGateway.js`: a queue, a pool of M processes with `isAvailable`, per
process a response object and what came in so far, the table of pre-page scripts.
`mapache.js`: the pool and the response objects. *Operations.* `sendToCachey`,
`addToQueue`, `processQueue`, the handler of a process's output, the timer,
`getJSON`; `sendToGTM`, the handler of its output.
*Interactions.* Web clients; M processes over pipes whose output comes in chunks
that end anywhere. *Hard.* Answers are matched to clients by what the connection
has in hand at that moment. *Correct when* requests are taken in order, none
waits while a process is free, a process has one request at a time, clients get
their own page whole, and every request is answered. This is
`ewdGateway.js`; `mapache.js` keeps of it only that a client gets nothing of
others', and that only with one client at a time.

### 10. mgsql

An SQL compiler in M and an ODBC driver in C. *State* worth a model: the states
of a statement handle (prepared, executed, fetched). Compilation is text
generation.

### 11. EWD: compiler, runtime and libraries

Text generation over DOM trees; sessions in globals, of one process at a time.

### 12. YDBTest

The regression tests of another program, kept as M source. No system of its own.

## Plan

| # | Module | Component | Properties, theorems |
|---|---|---|---|
| 1 | `FetchCorpus`, `FetchCorpusProofs`, `FetchRunProofs` | fetcher | done; next: a refinement of an abstract store of snapshots |
| 2 | `ManifestGate`, `ManifestGateProofs` | generator, gate | done |
| 3 | `WebListener`, `WebListenerProofs` | web server processes | done |
| 4 | `DdlLock`, `SchemaAccess`, `OctoDdl`, `OctoDdlProofs`, `OctoStatementProofs` | Octo start-up and DDL lock | done; next: processes of two builds |
| 5 | `ApachePool`, `ApachePoolProofs` | m_apache connection pool | done; next: how far `OwnAnswer` goes with several targets |
| 6 | `RequestPool`, `NodeGateway`, `NodeGatewayProofs` | Node.js gateways | done |
| 7 | `WebServices` | service table of the web server | index and entries in step; a proof of it |
| 8 | `SourcesTable` | the two loaders | agreement over bounded tables |
| 9 | ODBC statement states | mgsql | call order |

`ManifestGate` contains the two steps of `FetchCorpus` that a reader of the tree
can tell apart (the target is gone, the target is there), so that the two
modules compose through the tree rather than by sharing variables.

## The models

### `FetchCorpus`

| Model | Code (`tools/fetch-corpus.sh`) |
|---|---|
| `disk[s]`: `dir` and a set of items | `ROOT_DIR/s`; an item is a part of the tree of one upstream HEAD, so half removed, mixed and nested directories are visible |
| `lock` | `dist/sources.lock.json`: absent, empty, good or unparseable |
| `upstream[s]` | HEAD of the upstream's default branch; `UpstreamCommit` moves it at any time |
| `pc[p]`, `cmd`, `args`, `todo` | the run of process `p`: next command, subcommand, arguments, subdirs left |
| `payload`, `sha`, `listing` | `$tmp/payload`, `$sha`, what `rm -rf` read of the directory |
| `fetched`, `data` | `FETCHED_*`; the dict of the Python helper |
| `RunFetch`, `RunRefresh`, `RunVerify` | `main` to the start of the loop, with `die` on unknown names |
| `NextSubdir`, `LoopEnds` | the `for` loops of `cmd_fetch`, `cmd_refresh`, `cmd_verify` |
| `CloneUpstream` .. `MvPayload` | the commands of `fetch_one`; `...Fails` is the same command failing |
| `DiffUpstream` | `diff -r` in `cmd_verify` |
| `ReadLock`, `TruncateLock`, `WriteLock` | `update_lock_file` |
| `Kill` | the run is killed between any two commands or inside `rm -rf` |

`rm -rf` removes the items it has listed one by one; `mv` renames onto a free
name and moves into a directory that exists. `fetched_at` and all output are left
out. `Owns[p]` restricts which subdirs the runs of `p` write: with
`Owns[p] = Subdirs` for all `p` the runs are unrestricted. `overtaken[p]` is
history: another run has written the subdir of `p` since `p` looked at it.

*Runs.* `fetch_alone`: one run at a time, three in a row, any command may fail,
any run may be killed, two failures in all: what a run that goes well leaves
behind, which directories a run may change, that runs end. Three runs
are enough for: one that dies, one that fetches what it left, one that verifies
or fetches again. With one run at a time nobody is overtaken, so that of
`FetchLeavesPresentAlone` this run shows only that present directories are
skipped; the overlap of runs on one subdir, where a directory is filled while
another run clones it, is in the theorem `FetchKeepsPresent` (below). `fetch_split`: two processes with a subdir each, one failure,
everything else interleaved: no mixed directory, and a lock file that may lag
behind the tree but is never ahead of it. `rm` itself does not fail there; when
it does, `mv` nests the clone in what is left.

*Bounds.* Two subdirs, two files in an upstream tree (the fewest for which a
directory can be half removed), two HEADs per upstream. Runs, commits and
failures are counted by `MaxRuns`, `MaxHead`, `MaxFaults`.

*Fairness.* `FairSpec` has weak fairness of `Step(p)`: a command of a running
script returns. Nothing is assumed of users, upstreams or failures.

### `ManifestGate`

| Model | Code |
|---|---|
| `work[x]`, `base[x]` for the sites `dev`, `ci` | the working tree and the commit `git diff` compares it with |
| `EditTable`, `RemoveSnapshot`, `InstallSnapshot`, `DeleteFile`, `EditFile`, `Commit` | the maintainer; the two snapshot steps are those of `fetch_one` |
| `StartMake`, `Rows`, `Visit` | `load_sources` and `sorted` of `tools/gen-manifest.py`: the rows, one name after the other |
| `CountSubdir` | one turn of `build_manifest`, the directory looked at now |
| `WriteManifest`, `WriteStats` | the two `write_json`; `build_stats` is a recursive function of the number of entries counted |
| `GitDiff` | `git diff --exit-code dist/` (`Makefile:31`): tracked files only |
| `CheckOut` | CI on a push |
| `Interrupt` | the generator dies, also in the middle of a write |

*Runs.* `gate`: three steps of the maintainer in any order, also while the
generator reads, CI on any commit: a CI verdict says exactly whether the commit's
artifacts are those of its own table and snapshots, and the two files of a
finished generator run agree even if snapshots were swapped under it. The
expected artifacts are computed over sets, a total being the number of the things
counted (`ExpectedStats`), the code's by its loop.
*Bounds.* Two subdirs, two licenses (one bucket or two), three snapshots with
different counts, one of them without routines. Two snapshots with the same counts
are one value: the gate cannot tell them apart, and neither does the model.
*Assumed.* The names of the table differ, they being the keys of a dict, and the
marks for "no row" and "no directory" are not a license or a snapshot.

### `WebListener`

| Model | Code (`m-web-server/src/_webreq.m`) |
|---|---|
| `flag` | `^%webhttp(0,"listener")` |
| `port` | who has the TCP port open |
| `lpc[l]`, `got[l]` | next line of listener `l`; the connection `$KEY` names |
| `cpc[c]`, `nogbl` | a connection, then the next line of its child; children started with NOGBL |
| `logLock`, `logCount`, `id[c]` | the M lock and value of `^%webhttp("log",DT)`; `HTTPLOG("ID")` |
| `served[c]` | requests the child has read |
| `JobStart`, `Stop` | `job`, `stop` |
| `WriteStarting`, `OpenPort`, `WriteRunning` | `start` |
| `LoopTop`, `CloseSocket`, `WriteStopped`, `WaitEnds`, `Dispatch` | `LOOP`; the flag is read at its top, in the ten second wait, and before a connection is handed on |
| `LockLog`, `ReadCount`, `StoreCount` | `INCRLOG` |
| `Wait`, `ReadLine`, `Serve` | `NEXT`, `WAIT` and the error exits |
| `KillListener`, `KillChild` | `mupip stop` of a process; its sockets and locks go |

In `OpenPort` a listener takes the port if it is free; while it is in use the
listener waits, and within that wait takes it when it becomes free, or gives up
after 15 seconds without touching the flag. A timeout is an alternative that is enabled while the awaited
thing has not happened. The variables `starts`, `stops`, `kills`, `atStop`,
`calm` are history: they bound the runs and serve the properties.

*Runs.* `web_life`: two listeners started and stopped over each other, two
connections with two requests each, one kill: what the flag says of the port,
how much is served after a stop, log ids. `web_stop`: liveness of a stop, with a
second listener that uses no globals and must not be affected, and connections
that can land on either.
*Bounds.* Two listeners are the fewest that can contend for the port, two
children the fewest that can contend for the log counter; three starts allow a
stopped listener to come back.
*Fairness.* Weak fairness of each listener's and each child's own steps: OPEN,
`/WAIT`, LOCK and READ all have timeouts. Operators, clients and kills are never
assumed to act. For a listener in its wait this says that the loop leaves the
wait when the flag says so, which it looks at every ten seconds.

### `OctoDdl` with `DdlLock` and `SchemaAccess`

`DdlLock` states what two calls of the engine, `ydb_lock_incr_s` and
`ydb_lock_decr_s`, do as far as Octo uses them: locks count, a decrement of a
lock that is not held does nothing, and nobody gets a node while another process
holds it, an ancestor or a descendant. `OctoDdl` is the start-up and the
statements of Octo over that lock. `SchemaAccess` is what the locking is for,
many readers or one writer, and `AccessSpec` says that `OctoDdl` implements it:
what a process does with the schema is a function of the line it is at (`Modes`).

| Model | Code (`ydbocto-aux/src`) |
|---|---|
| `fmt[k]` | the number `planfmt`, `seeddfnfmt` or `binfmt` against that of the build: absent, from before YDBOcto#929, older, the same, newer |
| `data[k]` | what the number stands for: of an older build, half way, of this one |
| `catalog`, `defn` | oid of the table in its "pg_class" node and in its binary definition |
| `plan` | oid of the table a stored plan was generated for |
| `view`, `named`, `depends` | the definition of a view on the table, its schema node, its "tableviewdependency" nodes |
| `shared`, `excl` | the two uses of the lock |
| `at`, `stage`, `wants`, `octo929` | the line of a process, which upgrade it is at, `full_`/`partial_auto_load_needed`, `is_auto_upgrade_octo929` |
| `stmt`, `used`, `cache` | the statement, the table it was parsed against, the definition in memory |
| `Check` | `is_auto_upgrade_valid` |
| `Look`, `LockDdl`, `LockDdlTimeout` | the `for` loop that the three `..._if_needed` functions share |
| `Work`, `WorkDone` | `_ydboctoDiscardAll`; `auto_load_octo_seed` |
| `Upgrade`, `UpgradeDone`, `MarkBin` | `UPGRADE_BINARY_DEFINITIONS_AND_RETURN_IF_NOT_YDB_OK` |
| `Mark`, `Unlock` | the number, then the lock |
| `Fork` | `rocto.c`: the child has the listener's memory, not its locks |
| `Share` .. `Show` | `run_query` for SELECT, SET and SHOW; `Found` is `find_view_or_table` |
| `Unshare` .. `Undefine`, `DdlFails` | `run_query` for CREATE and DROP of a table or view, `store_table_or_view_in_pg_class`, `_ydboctoDiscard.m` |
| `Peek` | the parse of an interactive octo before it calls `run_query`: the one read without a lock, and meant so (`octo.c:112-119`) |
| `Killed` | a process ends anywhere, by a signal or by an error of its start-up |

A lock timeout is an alternative that is enabled while the lock cannot be had.
There is one table and one view on it, which is what dropping, re-creating and
depending need; a view is any definition that names the table. All processes run
one build; a "newer" database is one another build has been at. A load or an
upgrade is two steps, begun and done: what it does in between is not seen by
anybody who keeps to the lock, and a process that stops there leaves "half".
INSERT, UPDATE and DELETE go the way of SELECT. Left out: functions (their DDL is
locked like that of tables), DISCARD, transactions, the extended protocol, the
statements the seed load runs inside itself (they nest their lock and give it
back), and which objects the upgrade for YDBOcto#929 rewrites in which order.

*Runs.* `octo`: two octo processes and one rocto listener, which can fork either
of them, on a database of each of six ages, with three starts, three statements
and one fault: all of the table above at once. `octo_leak` and `octo_view` show
two statements of the source violated (below).
*Bounds.* Two processes of which one may be killed, with three starts, let a
third start find what the killed one left while the second one is at work; a
DROP, a CREATE and a SELECT are the statements that make a stale definition or
plan; a DROP and a CREATE VIEW race in two.
*Symmetry.* The two octo processes are interchangeable: no definition names one,
and the properties of the run are invariants and action properties.
*Fairness.* None: no liveness is claimed. The lock leak above means that the code
does not guarantee that statements are ever served.

### `ApachePool`

| Model | Code (`ewd/m_apache`) |
|---|---|
| `world` | what a Location points at: an inetd job, the daemon or a gateway; which of them each request is for |
| `con[h]` | `mgwsi_db_con[h]`, or for a request the connection of its own that it gets when the table is full; `NoCon` is a null pointer |
| `pc[r]`, `hold[r]`, `req[r]` | the line of `mgwsi_handler`; `lp_mgwsicon`; the loop counter, `tries`, `sends`, `recvs`, and what the client got |
| `sock[f]` | the descriptors of the Apache child, lowest number first, and what is at the other end: the job, what it has to do, what it wrote |
| `addr`, `filled[r]` | `srv_addr` of `mgwsi_db_connect_ex`, static; how much of it a thread has written for its next `connect()` |
| `listens` | ports of child jobs of a daemon that wait for their one connection |
| `Connect` | `mgwsi_db_connect` to the unlock: the scan (`Scanned`, `Reusable`, `Usable`), both ifs, `con_type` of the last match |
| `Address` | `bzero` and the assignments to `srv_addr`, in two parts |
| `ConnectEx`, `ConnectFails` | `connect()` to where `srv_addr` points then (`Lines`), and the loop around it, two attempts |
| `Hello`, `ConnectChild`, `ChildRefuses`, `ChildGivesUp`, `Rehello` | `mgwsi_db_connect_init`, and the child port of the daemon, four attempts |
| `Send`, `ReadHead`, `Retry`, `ReadBody`, `Release` | `mgwsi_handler` from `retry:`; `mgwsi_db_send`, `mgwsi_db_receive`, `mgwsi_db_disconnect` |
| `Serve`, `DaemonServes` | `_ZMGWSIS.m` and the gateway; `_ZMGWSI.m` |
| `QueueCloses` | a child job halts, and with it who waits in the queue of its port |
| `Die`, `GoDown`, `ComeBack` | an M job dies with part of its answer written; a server does not accept |
| `ChildExit` | Apache replaces a child (`mgwsi_child_exit`, `mgwsi_child_init`) |

What a thread does under the mutex is one step, and so is what touches only its
own connection; everything else is interleaved. The mutex covers the scan only:
that a slot in use is left alone by the other threads is the protocol, not the
lock, and what `OneUserPerSlot` and `RequestOwnsItsSocket` are about. A reply is
a sequence of pieces that say which execution of which request they are from; an
answer is cut between pieces only, not between the size of a chunk and its data
(`m_apache.c:4365-4379`).

On UNIX `MGWSI_IPV6` is commented out (`m_apache.c:575-577`), so the way to
connect is that of lines 4061-4106. Its address is `static` (line 3931) and is
filled without a lock: a thread that connects while another one fills it goes
where the other one is going, or, with the family cleared, nowhere, which
`connect()` reports as success. It may so reach the base port in place of its
child job, or the port of another's child job. A child job accepts one connection;
the next one waits in the queue of its port, in a read without a timeout, until
the job that serves the first one halts. `InQueue(r)` says that a request waits
like this, and `RequestsEnd` excepts it by name. Ports are handed out lowest first
and are free again when the socket of their job is gone; a port that the address
names at the wrong server is refused.

*Runs.* `pool`: two requests, one slot (so that one of them may have a connection
of its own), one target of each kind in turn, a death and an outage, children
that are replaced, and two threads that fill the one address. `pool_reuse`: two
targets and three requests on two slots, the fewest for the scan to meet a slot to
create in before one to reuse (below).
*Bounds.* Three descriptors in `pool`: two requests and a leaked one; who finds
none left is refused. Two ports of child jobs, one for each request. One death and
one outage: each is enough for a retry, a second one only repeats it.
*Fairness.* While threads that have taken up a request can go on, one of them
does, and while servers have work, one of them does it. Either is weaker than
fairness of each thread and each server; it is enough here because no request
goes round for ever. Clients, deaths and outages are not assumed, nor is that a
server that is down comes back. `RequestsEnd` needs the servers': a thread has no
timeout for its `recv`, so an M function that never writes would keep its thread
for ever.

### `NodeGateway` and `RequestPool`

| Model | Code (`ewd/node`) |
|---|---|
| `queue`, `free`, `response` | `requestQueue`, `isAvailable`, the response object of each connection |
| `stdin`, `stdout` | the pipes: requests not read, lines not delivered |
| `content`, `headed`, `got` | `contentStr`, `headerSent`, what each client was sent |
| `SendToCachey` | `sendToCachey` and `addToQueue` of `ewdGateway.js` |
| `ProcessQueue`, `Takers` | the loop of `processQueue` with `getConnection` and `sendRequestToCachey`, as one assignment: the i-th request goes to the i-th free connection |
| `CacheyData` | the output handler: collect, look for the terminator, answer, free, process the queue |
| `Timer`, `MethodsAnswer` | the `setInterval`; `getJSON` of the table of pre-page scripts |
| `SendToGTM`, `GTMData` | `mapache.js` |
| `HeadersEnd` | the search of `mapache.js` for the end of the headers, in one chunk alone |
| `Data` | any non-empty prefix of what is in the pipe arrives as one chunk |
| `Listener` | `mapacheListener` of `_zewdGTMRuntime.m`: reads a request, writes a page and the terminator |

A handler of Node.js runs to its end, and the events it emits are handled in it,
so each is one action. `RequestPool` is what the queue is for: requests are taken
in order, at most `Size` at a time, and none waits while there is room. `PoolSpec`
says that the gateway implements it, with "running" the open requests that a
connection has.

The listener in the repository is that of `mapache.js`: behind the four bytes of
the terminator it writes CR LF (`_zewdGTMRuntime.m:1252`), where `ewdGateway.js:131`
looks for LF. The one of `ewdGateway.js` is not in the repository; what the model
says of it (one page and one terminator per request, maybe a text to refresh the
table of scripts) is what the output handler expects.

*Runs.* `gateway`: both gateways in turn, two processes. Of `ewdGateway.js`, with
four requests of which one has a pre-page script: order, pages that arrive whole,
an answer for everyone. Of `mapache.js`, with three requests and one client at a
time, which is the load it works for: that nobody gets a piece of another's page,
and no more. `EveryoneAnswered`, `WholeAnswer` and `PoolSpec` are about
`ewdGateway.js` alone: they are false of `mapache.js`, which looks at each chunk by
itself (below). `mapache`: two clients at a time (below).
*Bounds.* Four requests on two processes: two wait, so that order shows. `MaxBusy`
is how many clients `mapache.js` has at a time, `Visits` which requests are made
of it. A page is its headers, the blank line in two halves and its body, the
terminator is two halves, and chunks end between any two of these: within the
blank line and within the terminator too. `WholeAnswer` says at which place of
what the client got its page stands: all of its text is there, in one piece and
once.
*Fairness.* While anything is in the pipes, some of it is handled or read: weak
fairness of the disjunction of all `Data` and `Listener`. The timer is not assumed
to run: `EveryoneAnswered` holds without it.
Deadlock is not checked: a gateway with nothing to do waits.

## What the violation runs show

| Run | What is said | What the code does |
|---|---|---|
| `octo_leak` | `auto_load_octo_seed_if_needed.c:226` and its two siblings: return after releasing the lock | the macro releases it on an error only: who waited for the lock and found the work done keeps it for life, and nobody else can read or change the schema |
| `octo_view` | `run_query.c:512`: a DROP TABLE is refused if a view relies on the table | CREATE VIEW looks at its table under the shared lock only: a DROP before it has the exclusive one leaves a view over no table |
| `pool_reuse` | `m_apache.c:3799` "Reuse connection" or `:3804` "Create new connection in pool" | both ifs can run: the reused slot is marked, the request gets the other one and nobody ever frees the first; if the reused slot was connected, the request is sent on the new one, which is not |
| `mapache` | `mapache.js:83` "randomly select a connection from available pool" | any connection is picked, at work or not; its response object is replaced, and one client gets the page of another |

Statements of the documentation that the code contradicts, reachable in the
models, without a run of their own:

- `tools/fetch-corpus.sh:26-27` says that an aborted run leaves the existing
  subdir intact. The `rm` of lines 138-140 comes before the `mv`: a run killed in
  between leaves it half removed or missing.
- `README.md:70-72` says that every fetch is recorded. A later clone that fails
  ends the script before `update_lock_file` (`fetch-corpus.sh:248`, `:280`), and
  the subdirs that were replaced before it are not in the lock file.
- `Makefile:28` says that the gate asserts that the working tree is clean. `git
  diff` (line 31) does not look at untracked files: an artifact that is not in
  the commit is recreated and not reported.
- `m-web-server/doc/start-stop.md:26` and `doc/testing.md:425-427` say that the
  server has stopped after at most ten seconds and can be started again. A start
  within that time (`_webreq.m:77`), or a stop while a listener waits for its
  port (line 47), loses the stop: the flag says "running" before anybody read it.

Seen while modelling and reachable in the models:

- A `mv` that fails is not noticed by `fetch_one`; the sha is recorded although
  nothing was installed. An `rm` that fails half way makes `mv` nest the clone as
  `payload` inside the old directory.
- Two runs that overlap on one subdir can mix or nest snapshots, and a `fetch`
  removes a directory that another run filled while it cloned.
- A refresh that leaves both counts of a subdir unchanged is invisible to the
  gate; so are edits of `dist/repo.meta.json`, which `README.md:72-73` counts
  among the generator's outputs.
- In `_webreq.m` a listener closes its port before it writes "stopped" (line 59),
  so the "running" of one that starts in between is overwritten, and the new one
  then stops. A connection accepted in the same turn as a stop stays attached
  (line 80); if a start overtakes the stop nobody ever serves or closes it.
- `INCRLOG` runs once per connection: the requests of a kept-alive connection
  are logged under one id, against `_webreq.m:151` and `:317`.
- When the LOCK of `INCRLOG` times out, `ID` stays undefined: the argumentless
  DO restores `$TEST`, so line 325 does not set it, and line 326 fails before the
  error trap is set.
- `partial_auto_load_needed` is set by the first look of a start-up and not reset
  by the second: a process that waited while another loaded the seed loads it
  once more. Killed there, it leaves half a seed under a current number.
- `is_auto_upgrade_octo929` is likewise kept by a process that found the upgrade
  done. It then drops tables although views rely on them (`run_query.c:511`) and
  keeps the dropped definition in memory (line 678); the oid makes it notice.
- When the callback of SET or SHOW fails, `run_query.c:1431` uses the clean-up of
  the DDL statements: it decrements the exclusive lock, and the shared one stays.
- A CREATE or DROP that is killed half way leaves a table with a definition and no
  "pg_class" node or the reverse. An upgrade that meets one later fails, and with
  it the start of every process
  (`auto_upgrade_binary_table_or_view_definition_helper.c:197`).
- In m_apache a greeting that is lost (a job that dies, a daemon that could not
  start a child, a reset connection) counts as that of a gateway
  (`m_apache.c:3880`), and `con_type` passes to later connections: requests then
  go to the daemon without a greeting, and their clients get blank pages.
- A connection that is refused, or forgotten for a retry (line 2097), leaves its
  descriptor open.
- Threads of m_apache that connect at the same time share `srv_addr`
  (`m_apache.c:3931`): a request may be connected to nothing and get a blank page,
  to another server if there are two targets, or to the port of a child job that
  serves another request, where it waits as long as that connection is kept.
- A daemon's child port that refuses four times ends the Apache child with all
  its requests: `mgwsi_db_disconnect` has cleared the pointer line 3916 writes
  through.
- `ewdGateway.js:369` reads a variable that does not exist (`requestNo`): a
  request for a page with a pre-page script ends the gateway. The branch of the
  output handler that would serve the second half of such a request is never
  reached.
- A text to refresh the table of scripts that arrives in a later chunk than the
  terminator is put before the next answer of that process.
- `mapache.js` looks for the end of the headers and for the terminator in each
  chunk alone (`mapache.js:210-222`). A chunk that ends before the blank line or
  within it is dropped; if one ends within the terminator, `response.end()` is never
  called and the client waits for ever, even with one request at a time.
- A process that dies is not noticed by either gateway.

## Proofs

TLAPS checks eight proof modules. All results hold for any sets of subdirs, runs,
listeners, connections, requests, targets and processes, any pool sizes and any
bounds, from the named assumptions of the modules.

`FetchCorpusProofs`

- `TypeCorrect`: `TypeOK`. Inductive with `Busy`: inside `fetch_one` there is a
  current subdir.
- `TreeAndLockSafe`: `NeverMixed` and `LockNeverAhead`, if no two processes own
  a common subdir (`SingleWriter`) and `rm` does not fail. `SafeInv` adds to
  them: a run that writes works on its own subdirs only (`WorksOnOwn`); from the
  clone on, the payload is of one HEAD and, if rev-parse succeeded, of the sha it
  will record (`SwapsOneHead`); `rm` has listed everything that is there
  (`RmSeesAll`) and therefore the target is gone when `mv` runs
  (`MvFindsNothing`); and what runs have in hand (`fetched`, `data`) trails the
  tree like the lock file does (`RecordsTrail`). Without `MvFindsNothing` the
  step of `mv` is not inductive: it would nest. `LockTrailsTree` states the part
  about the lock file alone.

`FetchRunProofs`

- `RunRecords`: `RunRecordsWhatItInstalled`. `RunDoesItsJob`:
  `RunDoesWhatItIsAskedTo`. They hold for any number of processes, whatever they
  own, after any history of failures. `RunInv` follows a run in which nothing has
  failed yet and beside which nobody runs: what is fetched is in place and all else
  as the run found it (`TreeAsDone`); the payload is the whole snapshot of the sha
  that will be recorded, `rm` has listed all there is and the target is gone when
  `mv` runs (`SwapsWhole`); the lock file is the old one until it is truncated, and
  what is written then is the old one with the run's entries merged in
  (`LockAsDone`); the subdirs the loop has passed are present, fetched or whole
  (`TargetsDone`).
- `FetchKeepsPresent`: `FetchLeavesPresentAlone`, an action property, for any
  number of runs that overlap on any subdirs, whatever fails: no assumption is
  made of who owns what. Whenever a directory with something in it changes, a run is
  at its `rm` or `mv`, and either it is a `refresh` that was given this name, or it is
  a `fetch` and another run wrote the directory after its test of `is_present`; the
  script takes no lock, so the second case cannot be excluded. `PresentInv` says
  that between that test and the `mv` the target of a fetch has nothing in it or the
  fetch was overtaken (`SwapsWhatIsMissing`), and that a refresh works only on what
  it was given (`NamesWhatItDoes`). It is kept because the only steps that put
  something into a directory are those of a `mv`, after which its own run is past
  the subdir and every other run on it counts as overtaken (`WhatSwapsWrite`,
  `WhoIsOvertaken`).

`ManifestGateProofs`, for any names, licenses and snapshots

- `LoopCounts`: the loop of `build_stats` computes `ExpectedStats`, for every
  manifest whose names differ. The induction is on the length. The library's
  induction theorems cannot be used by these provers, so `UpTo` states it of a
  set: a set of numbers with 0 that has `n` when it has `n - 1` has them all, the
  least number it misses being impossible. A step of the loop adds an entry to a
  set it is not in, which adds one to a cardinality and the entry's count to that
  of a union (`Total`).
- `RowsDeclared`: `Rows` visits each declared row once, by the same induction.
- `GateTypes`: `TypeOK`. `FilesAgree`: `StatsMatchManifest`. `GateIsRight`:
  `GateDecides`. `NamesOnce` says that what is counted and what is to be counted
  have no name in common or twice; without it a list and its set could differ, and
  so the two files. `GateInv` follows the job of CI, whose tree nobody touches: the
  entries are those of the first rows of the commit and `todo` the other rows
  (`CountsRows`); at the second file the first one is the expected one, at `git
  diff` both are.

`WebListenerProofs`

- `WebTypeCorrect`: `TypeOK`.
- `RunningIsTrue`: `RunningMeansListening`. `RunInv` adds that `port` is the
  listener whose line says so (`PortMatches`) and that a listener which reads the
  flag is in its loop while it says "running" (`Announced`): a listener that is
  closing has seen a stop, and nobody but the holder of the port writes
  "running".
- `StopLetsOneRequestIn`: `OneMoreRequestAtMost`. `StopInv` distinguishes the
  children that were past the test of the flag when the stop came (they may read
  one request) from the others (none).
- `LogIdsAreUnique`: `LogIdsDiffer`. `LogInv`: who is between the lock and its
  release holds the lock, its id is one above the counter, ids stored are below
  it and differ, and a child that has served is past `INCRLOG`.

`OctoDdlProofs`

- `TypeCorrect`: `TypeOK`. Inductive by itself; `LessType` says that a decrement
  keeps a count natural.
- `LocksHold`: `LockInv`. `Covered` says that a process at a line that reads or
  changes the schema holds the lock for it, `Alone` that the exclusive lock
  leaves no other lock beside it. Each of the 31 actions is one of four moves
  (`StepMoves`): it stays within its mode and keeps its locks, leaves with fewer
  locks, comes to read with the shared or comes to change with the exclusive
  lock. The invariant and the refinement need only these four. That locks leak,
  or that SHOW gives back the wrong one, does not disturb it: `Covered` demands
  at least one lock, and whoever gives a lock back leaves.
- `AccessImplemented`: `OctoDdl` implements `SchemaAccess`. A move is a step of it
  or a stutter; that `Read` and `Change` are enabled follows from `LockInv`.
- `MarksAreTrue`: `MarksTellTheTruth`. `MarkInv` adds what the process that has
  the lock knows at each line (`PlanInv`, `SeedInv`, `BinInv`): after the second
  look, that the number it saw was not the current one, or that there is nothing
  to upgrade; after the work, that it is done. It also says that a database
  without a number of the definitions has no seed (`Unused`), which is why a
  partial load need not upgrade. Nobody else can be at such a line
  (`OnlyOneChanges`, from `LockInv`), so what the holder knows stays true.

`OctoStatementProofs`

- `ReadersAreUpgraded`: `ReadersSeeUpgraded`. `PassedInv`, on top of `MarkInv`:
  a process that is past a kind of definitions knows that its number was set, and
  numbers that are set stay so. With `MarksTellTheTruth` the work is then done, and
  with `LockInv` nobody is in the middle of doing it again.
- `SelectsAreCurrent`: `SelectsUseCurrentTable`. `TableInv` says that stored plan,
  definition and catalog are of one table or absent, that oids are not used again,
  and that a table nobody has finished creating is in nobody's memory (`OneTable`);
  and what a statement knows of the table under the lock it holds (`KnowsTable`).
  The middle part is what makes the comparison of oids sound: a CREATE that is
  killed between its two nodes leaves an oid that no process has.
- `LocksAreReturned`: `StatementsReturnLocks`, an action property. `HeldInv` counts
  the locks of a process against those it had when its statement began: one shared
  more while it reads, one exclusive more while it changes, the same otherwise.

`ApachePoolProofs`

- `TypeCorrect`: `TypeOK`.
- `NoSharing`: `OneUserPerSlot`, for any number of targets, slots and threads.
- `NoLostSlot`: `UsedSlotsHaveUsers`, if all requests are for one target
  (`OneTarget`). `pool_reuse` shows that the assumption is needed.
- `IInv` is the types and `Holding`: a request in progress has a slot that is
  marked as used, or the connection of its own. Without it a slot that somebody
  has could look free to the scan. With one target it adds that slots are filled
  from the first on (`Filled`), that all bear the target's label (`Labelled`) and
  that every used one has a user (`Used`): a scan that finds a slot to reuse has
  then met none to create in before it, so that only one of the two ifs of
  `mgwsi_db_connect` runs.
- `SocketsAreOwned`: `RequestOwnsItsSocket`. `IdleInStep`:
  `IdleConnectionsInStep`. `AnswersAreOwn`: `OwnAnswer`. `RunsTwiceAtMost`:
  `TwiceOnlyUngreeted`. All four under `OneTarget`, for any number of requests,
  slots, descriptors, deaths and outages.
- `SInv`, inductive on top of `IInv` with one target, relates connections, sockets
  and threads. A connection that is up has an open socket (`Owned`), and no other
  has the same (`Distinct`): closed descriptors are handed out again, so this must
  say that whoever closes one also marks its connection as down. What is on the
  socket of a request fits the line its thread is at (`Talks`): before the send
  nothing, after it at most what one execution has written, in order and up to the
  last piece. A request is asked only on the socket its thread reads (`Pending`),
  and it was sent more often than it ran (`Tally`), with the retry bounded by
  whether it was greeted. An idle connection is then empty because the body was
  read to its last piece or the connection was closed. With two targets `SInv` is
  false, for the reason `pool_reuse` shows.
- `SocketInvariance` states `SInv` with the type of `srv_addr` (`AddrOK`). The race
  of the threads for that address does not disturb `SInv`: wherever it points when
  a thread connects, the new socket has nothing on it but the greeting of this
  thread (`LinesAre`), be it connected to its own server, to the queue of another's
  child job or to nothing.
- They assume that no request is named "hello", the name the model gives to the
  greeting.

`NodeGatewayProofs`, for any set of requests and any pool size

- `TypeCorrect`: `TypeOK`, of both gateways.
- `NoneIdlesInVain`: `NoIdleWhileQueued`. `OneAtATime`: `OneRequestPerConnection`.
  `NothingOfOthers`: `OwnAnswer` of `ewdGateway.js`.
- `PoolImplemented`: `ewdGateway.js` implements `RequestPool`. A request that
  arrives and an answer that is complete are its two steps; the timer finds
  nothing to do, and everything else stutters. A request that crashes the gateway
  never runs.
- First the loop of `processQueue`: ranks number the free connections
  (`RankBijects`), hence as many requests are handed out as there are of the
  fewer, each to a connection of its own (`TakersDealt`, `Deals`).
- `IInv` is the types, `Serves` and, for every client, that it has text of its own
  only (`GotOwn`). `Serves` describes each connection by what is in its pipes. A
  free one is `AtRest`: nothing asked, and no terminator. One that is not free is
  `AtWork` for its request: either the request is still to be read, or its whole
  answer is under way, with exactly one terminator and only silence behind it
  (`Closing`). No request is in two places (`OnePlace`), and the queue is empty or
  no connection is free. The part about terminators is why the invariant cannot be
  had from `OneRequestPerConnection` alone: a second terminator left in the pipe
  would end the answer to the next request.
- `PagesArriveWhole`: `WholeAnswer`. `WorkWhole` and `GotWhole`, on top of `IInv`:
  once a process has read its request, what was collected and what is still in its
  pipe hold the page, whole and once, after any number of texts for nobody; a
  chunk moves the cut between the two and not their order (`ChunkMoves`), nor does
  it matter whether it falls within the terminator: what is told is the page with
  the first half of the terminator behind it (`Told`); and the cut before that half
  gives the client all of the page (`WholeCut`, `Whole`). That
  needs the rest of `IInv`: the answer is cut at its own terminator because there is
  only one.
- Of `mapache.js` only the types are proved: it has no such invariant.

Only model-checked: the liveness properties `RunsEnd`, `StopBringsAllDown`,
`RequestsEnd` and `EveryoneAnswered`, as liveness under fairness is beyond this
prover. Every safety property of a passing run is stated by a theorem, `NeverMixed`
and `LockNeverAhead` of overlapping runs and those of `ApachePool` under the
assumptions named above, `OwnAnswer` of the gateways for `ewdGateway.js` (for `mapache.js` with one
client at a time it is left to the run). What the four violation runs check is
false of the code, and TLC shows it.

## Not modelled

- Web server: TLS, DEBUG and TRACE modes, the Cache branches and xinetd start;
  what a request is answered (URL matching, JSON, files); the service table.
- The prose gate `check-docs-prose` (one `find`), argument parsing and output of
  the tools, the two loaders of the table.
- m_apache: encoding of requests and answers, headers, configuration, TLS
  loading, the functions on `sa`/`sm` arrays, an answer cut between the size of a
  chunk and its data, and the `getaddrinfo` branch of `mgwsi_db_connect_ex`, which
  the UNIX build does not compile. WebSockets: the branch for an answer other than 200
  locks a mutex it already has, and the close paths unlock and destroy one the
  reading thread may hold; the source leaves no outcome to give.
- Node.js gateways: static files, logging, statistics; the decoding of each chunk
  to a string by itself (`ewdGateway.js:121`), which breaks a multibyte character
  that two chunks share; the death of an M process, for which neither gateway has
  a handler. The M side of `ewdGateway.js` is not in the repository.
- Octo: the statements named with `OctoDdl` above, the SQL parser, the plan
  generator, the wire protocol.
- mgsql: the compiler is text generation; its ODBC driver keeps the state of one
  statement handle for one thread.
- EWD's compiler and runtime, JSON, the vendored UI libraries: text.
- YDBTest: the tests of another program.

## Running

    tlc -config fetch_alone.cfg MCFetchCorpus.tla
    tlapm FetchCorpusProofs.tla

The runs and the properties each checks, the mutation of the code's definitions
that each property catches, and the lines each definition stands for are listed
in `PROJECT.json`.
