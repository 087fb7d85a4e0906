---------------------------- MODULE WebListener ----------------------------
(***************************************************************************)
(* m-web-server/src/_webreq.m: starting and stopping the M Web Server, and *)
(* the life of the processes that serve its connections (GT.M/YottaDB).    *)
(*                                                                         *)
(* `job' starts a listener process, `stop' writes a flag, the global       *)
(* ^%webhttp(0,"listener"), that every listener and every child reads now  *)
(* and then and that the listeners write too.  A listener hands each       *)
(* connection to a process of its own, a child, which serves requests one  *)
(* after the other.  All listeners here are asked for the same port.       *)
(*                                                                         *)
(* Of a request only its fate is kept: served, or the connection is lost.  *)
(* Started without TLS, DEBUG and TRACE.                                   *)
(***************************************************************************)
EXTENDS Naturals

CONSTANTS
    Listeners,      \* processes that run start^%webreq
    NoGbl,          \* those started with NOGBL: they use no global
    Conns,          \* connections of clients, each with the child that serves it
    MaxStarts,      \* bound: uses of `job'
    MaxStops,       \* bound: uses of `stop'
    MaxRequests,    \* bound: requests on one connection
    MaxKills        \* bound: processes killed (mupip stop)

Free == "free"
None == "none"

ASSUME ProcessAssumption ==
    /\ NoGbl \subseteq Listeners
    /\ Free \notin Listeners
    /\ None \notin Conns
ASSUME BoundsAssumption ==
    {MaxStarts, MaxStops, MaxRequests, MaxKills} \subseteq Nat

VARIABLES
    flag,       \* ^%webhttp(0,"listener"), None while it has no value
    port,       \* the listener that holds the TCP port
    lpc,        \* lpc[l]: the next line of listener l; "idle" without a process
    got,        \* got[l]: the connection $KEY names after /WAIT
    cpc,        \* cpc[c]: where connection c is, then the next line of its child
    nogbl,      \* the connections whose child uses no global
    logLock,    \* holder of the M lock ^%webhttp("log",DT)
    logCount,   \* ^%webhttp("log",DT)
    id,         \* id[c]: HTTPLOG("ID") of the child, 0 before INCRLOG
    served,     \* served[c]: requests the child of c has read
    \* history, read by guards of the bounds and by properties only
    starts, stops, kills,
    atStop,     \* atStop[c]: served[c] when the flag last became a stop
    calm        \* no `job' since the latest `stop', none half way up at it

listenerVars == <<port, lpc, got>>
childVars == <<nogbl, logLock, logCount, id, served>>
history == <<starts, stops, kills>>
vars == <<flag, port, lpc, got, cpc, nogbl, logLock, logCount, id, served,
          starts, stops, kills, atStop, calm>>

SharedId == 99999       \* the log id of children without globals

Init ==
    /\ flag = None
    /\ port = Free
    /\ lpc = [l \in Listeners |-> "idle"]
    /\ got = [l \in Listeners |-> None]
    /\ cpc = [c \in Conns |-> "none"]
    /\ nogbl = {}
    /\ logLock = None
    /\ logCount = 0
    /\ id = [c \in Conns |-> 0]
    /\ served = [c \in Conns |-> 0]
    /\ starts = 0 /\ stops = 0 /\ kills = 0
    /\ atStop = [c \in Conns |-> 0]
    /\ calm = FALSE

----------------------------------------------------------------------------
LGoto(l, line) == lpc' = [lpc EXCEPT ![l] = line]
CGoto(c, line) == cpc' = [cpc EXCEPT ![c] = line]

SetFlag(value) ==
    /\ flag' = value
    /\ atStop' = IF value = "stopped" /\ flag # "stopped" THEN served ELSE atStop
NoFlag == UNCHANGED <<flag, atStop>>

UsesGbl(l) == l \notin NoGbl
StopSeen == flag = "stopped"

\* Lines 44 to 59: where a listener holds the port.
Holding == {"opened", "loop", "wait", "event", "closing"}
HalfWayUp == {"start", "open", "opened"}

\* The sockets a listener has not handed on close with it.
DropSockets == [c \in Conns |-> IF cpc[c] \in {"backlog", "attached"} THEN "closed" ELSE cpc[c]]

----------------------------------------------------------------------------
(* The operator.                                                           *)

\* job^%webreq: the JOB command returns before the listener has begun.
JobStart(l) ==
    /\ lpc[l] = "idle" /\ starts < MaxStarts
    /\ starts' = starts + 1
    /\ LGoto(l, "start")
    /\ calm' = FALSE
    /\ NoFlag
    /\ UNCHANGED <<port, got, cpc, childVars, stops, kills>>

BareStop == "stop"
StopWord == "stopped"

\* stop^%webreq.
Stop ==
    /\ stops < MaxStops
    /\ stops' = stops + 1
    /\ SetFlag(StopWord)
    /\ calm' = \A l \in Listeners : UsesGbl(l) => lpc[l] \notin HalfWayUp
    /\ UNCHANGED <<listenerVars, cpc, childVars, starts, kills>>

----------------------------------------------------------------------------
(* The listener: start, LOOP.                                              *)

FirstWordRunning == "running"
FirstWord == "starting"

WriteStarting(l) ==
    /\ lpc[l] = "start"
    /\ IF UsesGbl(l) THEN SetFlag(FirstWord) ELSE NoFlag
    /\ LGoto(l, "open")
    /\ UNCHANGED <<port, got, cpc, childVars, history, calm>>

Ends(l) ==
    /\ LGoto(l, "idle")
    /\ got' = [got EXCEPT ![l] = None]

\* OPEN with its 15 seconds: a port in use may become free within them.  The
\* run that gives up leaves the flag as it is.
OpenPort(l) ==
    /\ lpc[l] = "open"
    /\ \/ /\ port = Free
          /\ port' = l
          /\ LGoto(l, "opened")
          /\ UNCHANGED got
       \/ /\ port # Free
          /\ Ends(l)
          /\ UNCHANGED port
    /\ NoFlag
    /\ UNCHANGED <<cpc, childVars, history, calm>>

WriteRunning(l) ==
    /\ lpc[l] = "opened"
    /\ IF UsesGbl(l) THEN SetFlag("running") ELSE NoFlag
    /\ LGoto(l, "loop")
    /\ UNCHANGED <<port, got, cpc, childVars, history, calm>>

\* LOOP, its first line: the flag is read once per turn.
LoopTop(l) ==
    /\ lpc[l] = "loop"
    /\ LGoto(l, IF UsesGbl(l) /\ StopSeen THEN "closing" ELSE "wait")
    /\ NoFlag
    /\ UNCHANGED <<port, got, cpc, childVars, history, calm>>

CloseSocket(l) ==
    /\ lpc[l] = "closing"
    /\ port' = Free
    /\ cpc' = DropSockets
    /\ LGoto(l, "closed")
    /\ NoFlag
    /\ UNCHANGED <<got, childVars, history, calm>>

\* The flag is written after the port is given up.
WriteStopped(l) ==
    /\ lpc[l] = "closed"
    /\ SetFlag("stopped")
    /\ Ends(l)
    /\ UNCHANGED <<port, cpc, childVars, history, calm>>

SleepsOn(l) == ~UsesGbl(l)
LeavesWait(l) == ~UsesGbl(l) \/ StopSeen

\* FOR  W /WAIT(10): ended by a connection, by an event of a socket that was
\* accepted and never handed on, or, every ten seconds, by NOGBL or the flag.
WaitEnds(l) ==
    /\ lpc[l] = "wait"
    /\ \/ \E c \in Conns :
             /\ cpc[c] = "backlog"
             /\ got' = [got EXCEPT ![l] = c]
             /\ CGoto(c, "attached")
       \/ /\ LeavesWait(l) \/ \E c \in Conns : cpc[c] = "attached"
          /\ got' = [got EXCEPT ![l] = None]
          /\ UNCHANGED cpc
    /\ LGoto(l, "event")
    /\ NoFlag
    /\ UNCHANGED <<port, childVars, history, calm>>

\* A stop seen here leaves the new connection where it is, otherwise it is
\* detached and JOBbed off to a child.
Dispatch(l) ==
    /\ lpc[l] = "event"
    /\ IF got[l] = None \/ (UsesGbl(l) /\ StopSeen) THEN UNCHANGED <<cpc, nogbl, id>>
       ELSE /\ CGoto(got[l], IF UsesGbl(l) THEN "lock" ELSE "wait")
            /\ nogbl' = IF UsesGbl(l) THEN nogbl ELSE nogbl \cup {got[l]}
            /\ id' = [id EXCEPT ![got[l]] = IF UsesGbl(l) THEN 0 ELSE SharedId]
    /\ got' = [got EXCEPT ![l] = None]
    /\ LGoto(l, "loop")
    /\ NoFlag
    /\ UNCHANGED <<port, logLock, logCount, served, history, calm>>

ListenerStep(l) ==
    \/ WriteStarting(l) \/ OpenPort(l) \/ WriteRunning(l)
    \/ LoopTop(l) \/ CloseSocket(l) \/ WriteStopped(l)
    \/ WaitEnds(l) \/ Dispatch(l)

----------------------------------------------------------------------------
(* The child: INCRLOG, then NEXT and WAIT for each request.                *)

NoLockTaken(c) == TRUE
LogLockFree(c) == logLock = None

\* L +^%webhttp("log",DT):2.  When it times out ID stays undefined and the
\* SET after the block fails, with no error trap set yet.
LockLog(c) ==
    /\ cpc[c] = "lock"
    /\ \/ /\ LogLockFree(c)
          /\ logLock' = c
          /\ CGoto(c, "count")
       \/ /\ ~LogLockFree(c)
          /\ CGoto(c, "closed")
          /\ UNCHANGED logLock
    /\ NoFlag
    /\ UNCHANGED <<listenerVars, nogbl, logCount, id, served, history, calm>>

ReadCount(c) ==
    /\ cpc[c] = "count"
    /\ id' = [id EXCEPT ![c] = logCount + 1]
    /\ CGoto(c, "store")
    /\ NoFlag
    /\ UNCHANGED <<listenerVars, nogbl, logLock, logCount, served, history, calm>>

StoreCount(c) ==
    /\ cpc[c] = "store"
    /\ logCount' = id[c]
    /\ logLock' = None
    /\ CGoto(c, "wait")
    /\ NoFlag
    /\ UNCHANGED <<listenerVars, nogbl, id, served, history, calm>>

IgnoresStop(c) == FALSE
ChildStops(c) == c \notin nogbl /\ StopSeen

Wait(c) ==
    /\ cpc[c] = "wait"
    /\ CGoto(c, IF ChildStops(c) THEN "closed" ELSE "read")
    /\ NoFlag
    /\ UNCHANGED <<listenerVars, childVars, history, calm>>

\* R TCPX:10.  A line that is no request goes back to NEXT; no line, or an
\* empty one, ends the child.
ReadLine(c) ==
    /\ cpc[c] = "read"
    /\ \/ /\ served[c] < MaxRequests
          /\ served' = [served EXCEPT ![c] = @ + 1]
          /\ CGoto(c, "serve")
       \/ \E line \in {"wait", "closed"} : CGoto(c, line) /\ UNCHANGED served
    /\ NoFlag
    /\ UNCHANGED <<listenerVars, nogbl, logLock, logCount, id, history, calm>>

\* RESPOND and SENDATA.  After a response, or the error response of ETCODE,
\* the child goes to NEXT; a request to close, ETSOCK and ETBAIL end it.
Serve(c) ==
    /\ cpc[c] = "serve"
    /\ \E line \in {"wait", "closed"} : CGoto(c, line)
    /\ NoFlag
    /\ UNCHANGED <<listenerVars, childVars, history, calm>>

ChildStep(c) ==
    LockLog(c) \/ ReadCount(c) \/ StoreCount(c) \/ Wait(c) \/ ReadLine(c) \/ Serve(c)

----------------------------------------------------------------------------
Connect(c) ==
    /\ cpc[c] = "none"
    /\ port # Free
    /\ CGoto(c, "backlog")
    /\ NoFlag
    /\ UNCHANGED <<listenerVars, childVars, history, calm>>

\* mupip stop of a listener: its sockets close, its children live on.
KillListener(l) ==
    /\ lpc[l] # "idle" /\ kills < MaxKills
    /\ kills' = kills + 1
    /\ Ends(l)
    /\ IF port = l THEN port' = Free /\ cpc' = DropSockets ELSE UNCHANGED <<port, cpc>>
    /\ NoFlag
    /\ UNCHANGED <<childVars, starts, stops, calm>>

\* The locks of a process go with it.
KillChild(c) ==
    /\ cpc[c] \in {"lock", "count", "store", "wait", "read", "serve"} /\ kills < MaxKills
    /\ kills' = kills + 1
    /\ CGoto(c, "closed")
    /\ logLock' = IF logLock = c THEN None ELSE logLock
    /\ NoFlag
    /\ UNCHANGED <<listenerVars, nogbl, logCount, id, served, starts, stops, calm>>

Next ==
    \/ Stop
    \/ \E l \in Listeners : JobStart(l) \/ ListenerStep(l) \/ KillListener(l)
    \/ \E c \in Conns : Connect(c) \/ ChildStep(c) \/ KillChild(c)

Spec == Init /\ [][Next]_vars

\* OPEN, /WAIT, LOCK and READ have timeouts, and service routines return:
\* no process stands still.  Nothing is assumed of operators and clients.
FairSpec ==
    /\ Spec
    /\ \A l \in Listeners : WF_vars(ListenerStep(l))
    /\ \A c \in Conns : WF_vars(ChildStep(c))

----------------------------------------------------------------------------
(* Properties.                                                             *)

\* Type invariant of the flag and of the processes.
TypeOK ==
    /\ flag \in {None, "starting", "running", "stopped"}
    /\ port \in Listeners \cup {Free}
    /\ lpc \in [Listeners -> {"idle", "start", "open", "closed"} \cup Holding]
    /\ got \in [Listeners -> Conns \cup {None}]
    /\ cpc \in [Conns -> {"none", "backlog", "attached", "lock", "count", "store",
                          "wait", "read", "serve", "closed"}]
    /\ nogbl \in SUBSET Conns
    /\ logLock \in Conns \cup {None}
    /\ logCount \in Nat
    /\ id \in [Conns -> Nat]
    /\ served \in [Conns -> Nat]
    /\ atStop \in [Conns -> Nat]
    /\ starts \in Nat /\ stops \in Nat /\ kills \in Nat
    /\ calm \in BOOLEAN

\* Nothing but the flag tells a monitor, or the next `job', what is up.  While
\* it says "running" a listener that reads the flag has the port, however
\* starts and stops overlap, unless a process was killed: the only writer of
\* "running" holds the port, and gives it up only after it has seen a stop
\* that nobody but itself could have overwritten with "running".
RunningMeansListening == flag = "running" /\ kills = 0 =>
    \E l \in Listeners : UsesGbl(l) /\ port = l /\ lpc[l] \in Holding

\* While the flag stays at stop a child begins one more request at most: the
\* one whose line it was already reading for when the flag was written.
OneMoreRequestAtMost == flag = "stopped" =>
    \A c \in Conns : c \notin nogbl => served[c] <= atStop[c] + 1

\* Requests of two children are never logged under one id, also when a child
\* dies between the lines of INCRLOG.
LogIdsDiffer == \A c, d \in Conns :
    c # d /\ c \notin nogbl /\ d \notin nogbl /\ served[c] > 0 /\ served[d] > 0 => id[c] # id[d]

Down ==
    /\ \A l \in Listeners : UsesGbl(l) => lpc[l] = "idle"
    /\ \A c \in Conns : c \notin nogbl =>
          cpc[c] \in {"none", "closed"} \cup (IF port \in NoGbl THEN {"backlog", "attached"} ELSE {})

\* A stop at a moment when no listener is half way up, and that no `job'
\* follows, brings every listener and every child down, whatever connections
\* and requests there are and still come.
StopBringsAllDown == calm ~> (Down \/ ~calm)
=============================================================================
