------------------------------ MODULE ApachePool ------------------------------
(***************************************************************************)
(* The connection pool of the m_apache module (src/ewd/m_apache): one      *)
(* Apache child process, whose threads serve requests over pooled TCP      *)
(* connections to M servers, and those servers.                            *)
(*                                                                         *)
(* A thread runs mgwsi_handler for its request: it takes a connection      *)
(* (mgwsi_db_connect), connects and shakes hands where that is needed      *)
(* (mgwsi_db_connect_ex, mgwsi_db_connect_init), sends the request, reads  *)
(* the answer piece by piece, tries once more when a connection taken from *)
(* the pool turns out to be dead, and gives the connection back            *)
(* (mgwsi_db_disconnect).  Two steps of a thread are interleaved with those*)
(* of the other threads and of the servers; what a thread does under       *)
(* mgwsicon_lock, and what it does to fields that no one else reads, is one*)
(* step.                                                                   *)
(*                                                                         *)
(* Requests, replies and servers are model values or short sequences; the  *)
(* text of a request, its encoding and its headers are left out, and so    *)
(* are requests that become a WebSocket.  File descriptors are numbers     *)
(* that the system hands out lowest first, because m_apache keeps the      *)
(* number of a socket it has closed.                                       *)
(***************************************************************************)
EXTENDS Naturals, FiniteSets, Sequences

CONSTANTS
    Requests,    \* the requests the Apache child is sent
    Targets,     \* what the configuration of a Location points at: server, port, UCI
    MaxCon,      \* MGWSIMaxPooledConnections
    Worlds,      \* [kind, want]: what each target is, and what each request is for
    MaxFd,       \* bound: file descriptors of the Apache child
    MaxPort,     \* bound: ports of child jobs that one daemon hands out at a time
    MaxDeaths,   \* bound: how many server jobs die
    MaxOutages   \* bound: how often a server goes down

ASSUME BoundsAssumption == MaxCon \in Nat /\ MaxFd \in Nat /\ MaxPort \in Nat

ASSUME RequestsAssumption == Requests \cap Nat = {} /\ "hello" \notin Requests

ASSUME WorldsAssumption == \A w \in Worlds : w.want \in [Requests -> Targets]

VARIABLES
    world,   \* the kind of each target and the target of each request
    con,     \* MGWSICON: the slots of mgwsi_db_con, and a request's own connection
    pc,      \* where in mgwsi_handler each request is
    hold,    \* MGWSIREQ.lp_mgwsicon: the connection each request has, 0 for none
    req,     \* the rest of MGWSIREQ, and what its client got
    addr,    \* srv_addr of mgwsi_db_connect_ex, static: one for all threads
    filled,  \* how much of srv_addr each thread has written for its next connect()
    sock,    \* the descriptors of the child and what is at the other end
    listens, \* <<target, port>>: child jobs that wait for their one connection
    ran,     \* the targets that ran each request, in order
    down,    \* the targets that accept no connection
    deaths, outages

vars == <<world, con, pc, hold, req, addr, filled, sock, listens, ran, down, deaths, outages>>
serverVars == <<world, ran, down, deaths, outages>>
netVars == <<addr, filled, listens>>

Kinds == {"inetd", "daemon", "gateway"}
Slots == 1 .. MaxCon
Handles == Slots \cup Requests
Fds == 1 .. MaxFd

Types == {"DUNNO", "M", "GATEWAY"}
NoCon == [status |-> "NULL", up |-> FALSE, type |-> "DUNNO", target |-> "none", fd |-> 0]
Con == [status : {"FREE", "INUSE"}, up : BOOLEAN, type : Types,
        target : Targets \cup {"none"}, fd : 0 .. MaxFd]

Closed == [open |-> FALSE, peer |-> "none", port |-> 0, job |-> "none", up |-> FALSE,
           work |-> <<>>, inbox |-> <<>>]

(* Port 0 is the base port of a target, the ports behind it are those of the*)
(* child jobs of its daemon.                                                *)
Start == [port |-> 0, iter |-> 0, tries |-> 0, sends |-> 0, recvs |-> 0,
          greeted |-> FALSE, answer |-> <<>>, end |-> "none"]

(* An address: the server, and a port, which is one of some target.         *)
Blank == [host |-> "none", of |-> "none", port |-> 0]

Init ==
    /\ world \in Worlds
    /\ con = [h \in Handles |-> NoCon]
    /\ pc = [r \in Requests |-> "idle"]
    /\ hold = [r \in Requests |-> 0]
    /\ req = [r \in Requests |-> Start]
    /\ addr = Blank
    /\ filled = [r \in Requests |-> 0]
    /\ sock = [f \in Fds |-> Closed]
    /\ listens = {}
    /\ ran = [r \in Requests |-> <<>>]
    /\ down = {}
    /\ deaths = 0
    /\ outages = 0

Least(S) == CHOOSE n \in S : \A m \in S : n <= m
Most(S) == CHOOSE n \in S : \A m \in S : n >= m

Goes(r, from, to) == pc[r] = from /\ pc' = [pc EXCEPT ![r] = to]

(* The rest of MGWSIREQ ends with the handler.                              *)
Ended(r, how) == [Start EXCEPT !.greeted = req[r].greeted, !.answer = req[r].answer,
                               !.end = how]

Ends(r, from, how) ==
    /\ Goes(r, from, "done")
    /\ hold' = [hold EXCEPT ![r] = 0]
    /\ req' = [req EXCEPT ![r] = Ended(r, how)]

-----------------------------------------------------------------------------
(* mgwsi_db_connect up to the unlock: the scan of the table.                *)

Matches(n, t) == con[n] # NoCon /\ con[n].target = t

ReusableInAnyState(t) == {n \in Slots : Matches(n, t)}

Reusable(t) == {n \in Slots : Matches(n, t) /\ con[n].status = "FREE"}

(* The scan stops at the first slot it can reuse.                           *)
Scanned(t) == {n \in Slots : \A m \in Reusable(t) : n <= m}

Usable(t) ==
    {n \in Scanned(t) \ Reusable(t) :
        con[n] = NoCon \/ (con[n].status = "FREE" /\ ~con[n].up)}

(* con_type is that of the last slot of the same target the scan has seen.  *)
TypeSeen(t) ==
    LET seen == {n \in Scanned(t) : Matches(n, t)}
    IN  IF seen = {} THEN "DUNNO" ELSE con[Most(seen)].type

(* The slot to reuse is marked; a slot to create in, when the scan met one, *)
(* is marked as well and is the one the request gets.  A request that finds *)
(* neither has a connection of its own.  Only a reused slot that is         *)
(* connected is good to send on.                                            *)
Connect(r) ==
    LET t == world.want[r]
        reuse == Reusable(t) # {}
        old == Least(Reusable(t))
        new == IF Usable(t) # {} THEN Least(Usable(t)) ELSE r
        h == IF Usable(t) = {} /\ reuse THEN old ELSE new
        marked == IF reuse THEN [con EXCEPT ![old].status = "INUSE"] ELSE con
        ready == reuse /\ con[old].up
        type == IF ~ready THEN TypeSeen(t) ELSE IF h = old THEN con[h].type ELSE "DUNNO"
        label == IF ready THEN con[h].target ELSE t
    IN  /\ Goes(r, "idle", IF ready THEN "send" ELSE "connect")
        /\ hold' = [hold EXCEPT ![r] = h]
        /\ con' = [marked EXCEPT ![h] = [status |-> "INUSE", up |-> con[h].up, type |-> type,
                                         target |-> label, fd |-> con[h].fd]]
        /\ UNCHANGED <<req, sock, netVars, serverVars>>

-----------------------------------------------------------------------------
(* Giving a connection back: mgwsi_db_disconnect.                           *)

CloseSocket(f) == [sock EXCEPT ![f] = Closed]

DisconnectHardStaysUp(h) ==
    /\ sock' = IF con[h].up THEN CloseSocket(con[h].fd) ELSE sock
    /\ con' = [con EXCEPT ![h] = IF h \in Slots THEN [@ EXCEPT !.status = "FREE"] ELSE NoCon]

(* MGWCON_DSCON_HARD: the socket is closed, when it is connected, and the   *)
(* slot can be connected anew; a connection outside the pool is freed.      *)
DisconnectHard(h) ==
    /\ sock' = IF con[h].up THEN CloseSocket(con[h].fd) ELSE sock
    /\ con' = [con EXCEPT ![h] = IF h \in Slots
                                   THEN [@ EXCEPT !.up = FALSE, !.status = "FREE"]
                                   ELSE NoCon]

(* MGWCON_DSCON_SOFT: the slot keeps its socket.                            *)
DisconnectSoft(h) ==
    IF h \in Slots
      THEN con' = [con EXCEPT ![h].status = "FREE"] /\ UNCHANGED sock
      ELSE DisconnectHard(h)

-----------------------------------------------------------------------------
(* mgwsi_db_connect_ex.  On UNIX it is built without MGWSI_IPV6: the address*)
(* goes to a static structure, which all threads fill without a lock, and   *)
(* connect() goes where the structure points then.                          *)

(* One thread clears it and writes the port, then the family and the server;*)
(* another thread may come in between.                                      *)
Address(r) ==
    /\ pc[r] \in {"connect", "child"}
    /\ \/ /\ filled[r] = 0
          /\ addr' = [host |-> "none", of |-> world.want[r], port |-> req[r].port]
       \/ filled[r] = 1 /\ addr' = [addr EXCEPT !.host = world.want[r]]
    /\ filled' = [filled EXCEPT ![r] = @ + 1]
    /\ UNCHANGED <<con, pc, hold, req, sock, listens, serverVars>>

(* connect() is called, with what is in srv_addr.                           *)
Dials(r) ==
    /\ filled[r] = 2
    /\ filled' = [filled EXCEPT ![r] = 0]
    /\ UNCHANGED addr

FreeFds == {f \in Fds : ~sock[f].open}

(* socket(): the lowest number; a socket that was not made (-1) is 0.       *)
NewFd == IF FreeFds = {} THEN 0 ELSE Least(FreeFds)

LeftOpen == [Closed EXCEPT !.open = TRUE]

Reaches(t, port, job, greeting) ==
    [open |-> TRUE, peer |-> t, port |-> port, job |-> job, up |-> TRUE,
     work |-> greeting, inbox |-> <<>>]

(* The child job of the port has accepted its connection and lives.         *)
HasClient(t, port) ==
    \E f \in Fds : sock[f].up /\ sock[f].job = "child" /\ sock[f].peer = t /\ sock[f].port = port

(* What the new socket is connected to.  Without an address family connect()*)
(* says that all is well and connects to nothing.  A child job accepts one  *)
(* connection; the next one is put in its queue, where no one looks.        *)
Lines(greeting) ==
    LET t == addr.host
    IN  IF t = "none" THEN {LeftOpen}
        ELSE IF addr.of # t \/ t \in down THEN {}
        ELSE IF addr.port = 0 THEN {Reaches(t, 0, "base", greeting)}
        ELSE IF <<t, addr.port>> \in listens THEN {Reaches(t, addr.port, "child", greeting)}
        ELSE IF HasClient(t, addr.port) THEN {Reaches(t, addr.port, "queue", greeting)}
        ELSE {}

Connected(h, greeting) ==
    /\ FreeFds # {}
    /\ \E line \in Lines(greeting) : sock' = [sock EXCEPT ![NewFd] = line]
    /\ con' = [con EXCEPT ![h].up = TRUE, ![h].fd = NewFd]
    /\ listens' = listens \ {<<addr.host, addr.port>>}

RefusedStaysUsed(h, status) ==
    /\ sock' = IF FreeFds = {} THEN sock ELSE [sock EXCEPT ![NewFd] = LeftOpen]
    /\ con' = [con EXCEPT ![h].up = FALSE, ![h].fd = NewFd]
    /\ UNCHANGED listens

RefusedIsNull(h, status) ==
    /\ sock' = IF FreeFds = {} THEN sock ELSE [sock EXCEPT ![NewFd] = LeftOpen]
    /\ con' = [con EXCEPT ![h].up = FALSE, ![h].fd = NewFd,
                          ![h].status = IF status = "FREE" THEN "NULL" ELSE status]
    /\ UNCHANGED listens

(* A connection that is refused leaves its descriptor open, for con_status  *)
(* says that there is nothing to close.  status: what the slot is left in.  *)
Refused(h, status) ==
    /\ sock' = IF FreeFds = {} THEN sock ELSE [sock EXCEPT ![NewFd] = LeftOpen]
    /\ con' = [con EXCEPT ![h].up = FALSE, ![h].status = status, ![h].fd = NewFd]
    /\ UNCHANGED listens

(* The daemon closes its port after every greeting and opens it again, and a*)
(* child job may not listen yet.  The port may be that of another server, or*)
(* 0 while another thread clears it.                                        *)
MayRefuse ==
    \/ FreeFds = {}
    \/ addr.host = "none" \/ addr.of # addr.host \/ \E q \in Requests : filled[q] = 1
    \/ addr.host \in down
    \/ addr.host \in Targets /\ world.kind[addr.host] = "daemon"

(* A connection that is not known to lead to a gateway starts with the      *)
(* greeting of mgwsi_db_connect_init.                                       *)
ConnectEx(r) ==
    /\ pc[r] = "connect"
    /\ Dials(r)
    /\ \/ /\ con[hold[r]].type = "GATEWAY"
          /\ Connected(hold[r], <<>>)
          /\ Goes(r, "connect", "send")
          /\ UNCHANGED req
       \/ /\ con[hold[r]].type # "GATEWAY"
          /\ Connected(hold[r], <<"hello">>)
          /\ Goes(r, "connect", "hello")
          /\ req' = [req EXCEPT ![r].sends = @ + 1,
                                ![r].greeted = @ \/ req[r].tries = 0]
    /\ UNCHANGED <<hold, serverVars>>

ConnectFailsUncounted(r) ==
    /\ Goes(r, "connect", "connect")
    /\ Dials(r) /\ MayRefuse
    /\ Refused(hold[r], "INUSE")
    /\ UNCHANGED <<hold, req, serverVars>>

(* The loop of mgwsi_db_connect makes two attempts; after the second the    *)
(* slot is free again and the client gets the error page.                   *)
ConnectFails(r) ==
    /\ pc[r] = "connect"
    /\ Dials(r) /\ MayRefuse
    /\ \/ /\ req[r].iter = 0
          /\ Refused(hold[r], "INUSE")
          /\ Goes(r, "connect", "connect")
          /\ req' = [req EXCEPT ![r].iter = 1]
          /\ UNCHANGED hold
       \/ /\ req[r].iter = 1
          /\ Refused(hold[r], "FREE")
          /\ Ends(r, "connect", "error")
    /\ UNCHANGED serverVars

-----------------------------------------------------------------------------
(* Reading from a connection: mgwsi_db_receive.                             *)

Fd(r) == con[hold[r]].fd

At(f) == IF f \in Fds THEN sock[f] ELSE Closed

HasInput(f) == At(f).inbox # <<>>

Broken(f) == ~At(f).up /\ At(f).inbox = <<>>

Take(f) == [sock EXCEPT ![f].inbox = Tail(@)]

(* run: the port, in a reply that has one.                                  *)
Reply(part, port) == [part |-> part, of |-> "none", run |-> port]

Counts(r) == req' = [req EXCEPT ![r].recvs = @ + 1]

(* What the greeting brings.  A reply without "pid=", and no reply at all,  *)
(* mean a gateway; one with a child port means that another connection has  *)
(* to be made.                                                              *)
Hello(r) ==
    LET f == Fd(r)
        says(part) == HasInput(f) /\ Head(At(f).inbox).part = part
    IN  /\ pc[r] = "hello"
        /\ \/ /\ says("pid")
              /\ con' = [con EXCEPT ![hold[r]].type = "M"]
              /\ sock' = Take(f)
              /\ Goes(r, "hello", "send")
              /\ Counts(r)
           \/ /\ says("port")
              /\ con' = [con EXCEPT ![hold[r]].type = "M", ![hold[r]].up = FALSE]
              /\ sock' = CloseSocket(f)
              /\ Goes(r, "hello", "child")
              /\ req' = [req EXCEPT ![r].recvs = @ + 1, ![r].iter = 0,
                                    ![r].port = Head(At(f).inbox).run]
           \/ /\ says("nopid") \/ says("refuse") \/ Broken(f)
              /\ con' = [con EXCEPT ![hold[r]].type = "GATEWAY"]
              /\ sock' = IF HasInput(f) THEN Take(f) ELSE sock
              /\ Goes(r, "hello", "send")
              /\ Counts(r)
        /\ UNCHANGED <<hold, netVars, serverVars>>

ConnectChild(r) ==
    /\ Goes(r, "child", "rehello")
    /\ Dials(r)
    /\ Connected(hold[r], <<"hello">>)
    /\ req' = [req EXCEPT ![r].sends = @ + 1]
    /\ UNCHANGED <<hold, serverVars>>

(* There are four attempts.                                                 *)
ChildRefuses(r) ==
    /\ Goes(r, "child", "child")
    /\ Dials(r) /\ MayRefuse
    /\ req[r].iter < 3
    /\ Refused(hold[r], "INUSE")
    /\ req' = [req EXCEPT ![r].iter = @ + 1]
    /\ UNCHANGED <<hold, serverVars>>

NewChild ==
    /\ con' = [h \in Handles |-> NoCon]
    /\ sock' = [f \in Fds |-> Closed]
    /\ addr' = Blank
    /\ filled' = [r \in Requests |-> 0]
    /\ UNCHANGED listens

Busy(r) == pc[r] \notin {"idle", "done"}

(* After the fourth, mgwsi_db_connect disconnects and then marks the slot   *)
(* free through the pointer that mgwsi_db_disconnect has cleared: the       *)
(* Apache child dies with every request it was serving.                     *)
ChildGivesUp(r) ==
    /\ pc[r] = "child"
    /\ req[r].iter = 3 /\ filled[r] = 2 /\ MayRefuse
    /\ NewChild
    /\ pc' = [q \in Requests |-> IF Busy(q) THEN "done" ELSE pc[q]]
    /\ hold' = [q \in Requests |-> 0]
    /\ req' = [q \in Requests |-> IF Busy(q) THEN Ended(q, "lost") ELSE req[q]]
    /\ UNCHANGED serverVars

(* The greeting of the child job: whatever comes, the request is sent.      *)
Rehello(r) ==
    LET f == Fd(r)
    IN  /\ Goes(r, "rehello", "send")
        /\ HasInput(f) \/ Broken(f)
        /\ sock' = IF HasInput(f) THEN Take(f) ELSE sock
        /\ Counts(r)
        /\ UNCHANGED <<con, hold, netVars, serverVars>>

-----------------------------------------------------------------------------
(* mgwsi_handler from the label retry.                                      *)

(* mgwsi_db_send never says that it failed: a request sent into a broken    *)
(* connection is lost.                                                      *)
Send(r) ==
    LET f == Fd(r)
    IN  /\ Goes(r, "send", "head")
        /\ sock' = IF At(f).up THEN [sock EXCEPT ![f].work = Append(@, r)] ELSE sock
        /\ req' = [req EXCEPT ![r].tries = @ + 1, ![r].sends = @ + 1, ![r].answer = <<>>]
        /\ UNCHANGED <<con, hold, netVars, serverVars>>

RetryOnce(r) ==
    \/ /\ req[r].tries > 1
       /\ DisconnectHard(hold[r])
       /\ Ends(r, "head", "none")
    \/ /\ req[r].tries <= 1
       /\ con' = [con EXCEPT ![hold[r]].up = FALSE]
       /\ Goes(r, "head", "connect")
       /\ req' = [req EXCEPT ![r].iter = 0, ![r].recvs = @ + 1]
       /\ UNCHANGED <<hold, sock>>

(* The server is gone before the headers were complete.  Only a request     *)
(* that has sent and received once may try again; the connection it had is  *)
(* forgotten, not closed.                                                   *)
Retry(r) ==
    \/ /\ req[r].tries > 1 \/ req[r].sends > 1 \/ req[r].recvs + 1 > 1
       /\ DisconnectHard(hold[r])
       /\ Ends(r, "head", "none")
    \/ /\ req[r].tries <= 1 /\ req[r].sends <= 1 /\ req[r].recvs + 1 <= 1
       /\ con' = [con EXCEPT ![hold[r]].up = FALSE]
       /\ Goes(r, "head", "connect")
       /\ req' = [req EXCEPT ![r].iter = 0, ![r].recvs = @ + 1]
       /\ UNCHANGED <<hold, sock>>

Reads(r, from, to, item) ==
    /\ sock' = Take(Fd(r))
    /\ Goes(r, from, to)
    /\ req' = [req EXCEPT ![r].answer = Append(@, item), ![r].recvs = @ + 1]
    /\ UNCHANGED <<con, hold>>

(* What comes back, up to the end of the headers.  What the parent of the   *)
(* daemon answers is no answer: it is either taken for an empty one or, when*)
(* the connection is reset behind it, for a broken connection.              *)
ReadHead(r) ==
    LET f == Fd(r)
        item == Head(At(f).inbox)
    IN  /\ pc[r] = "head"
        /\ \/ Broken(f) /\ Retry(r)
           \/ HasInput(f) /\ item.part = "blank" /\ Retry(r)
           \/ /\ HasInput(f) /\ item.part = "blank"
              /\ sock' = Take(f)
              /\ Goes(r, "head", "release")
              /\ Counts(r)
              /\ UNCHANGED <<con, hold>>
           \/ /\ HasInput(f) /\ item.part = "error"
              /\ DisconnectHard(hold[r])
              /\ Ends(r, "head", "error")
           \/ /\ HasInput(f) /\ item.part = "seg"
              /\ \E to \in {"head", "body"} : Reads(r, "head", to, item)
           \/ /\ HasInput(f) /\ item.part = "last"
              /\ Reads(r, "head", "release", item)
        /\ UNCHANGED <<netVars, serverVars>>

ReadBodyOnce(r) ==
    LET f == Fd(r)
        item == Head(At(f).inbox)
    IN  /\ pc[r] = "body"
        /\ \/ Broken(f) /\ DisconnectHard(hold[r]) /\ Ends(r, "body", "cut")
           \/ HasInput(f) /\ Reads(r, "body", "release", item)
        /\ UNCHANGED <<netVars, serverVars>>

ReadBodyEndsAnyhow(r) ==
    LET f == Fd(r)
        item == Head(At(f).inbox)
    IN  /\ pc[r] = "body"
        /\ \/ Broken(f) /\ Goes(r, "body", "release") /\ UNCHANGED <<con, hold, req, sock>>
           \/ HasInput(f) /\ item.part = "seg" /\ Reads(r, "body", "body", item)
           \/ HasInput(f) /\ item.part = "last" /\ Reads(r, "body", "release", item)
        /\ UNCHANGED <<netVars, serverVars>>

(* The rest of the answer goes to the client as it comes.                   *)
ReadBody(r) ==
    LET f == Fd(r)
        item == Head(At(f).inbox)
    IN  /\ pc[r] = "body"
        /\ \/ Broken(f) /\ DisconnectHard(hold[r]) /\ Ends(r, "body", "cut")
           \/ HasInput(f) /\ item.part = "seg" /\ Reads(r, "body", "body", item)
           \/ HasInput(f) /\ item.part = "last" /\ Reads(r, "body", "release", item)
        /\ UNCHANGED <<netVars, serverVars>>

Release(r) ==
    /\ pc[r] = "release"
    /\ DisconnectSoft(hold[r])
    /\ Ends(r, "release", IF req[r].answer = <<>> THEN "blank" ELSE "answered")
    /\ UNCHANGED <<netVars, serverVars>>

-----------------------------------------------------------------------------
(* The servers.  Every connection has a job of its own, except at the port  *)
(* of the daemon.                                                           *)

Puts(f, parts) == [sock EXCEPT ![f].work = Tail(@), ![f].inbox = @ \o parts]

(* CHILD of _ZMGWSIS.m and its DINT and web; a gateway answers likewise,    *)
(* without a "pid=", and may answer that there was an error.                *)
Answers(t) == {<<"last">>, <<"seg", "seg", "last">>} \cup
              (IF world.kind[t] = "gateway" THEN {<<"error">>} ELSE {})

HasWork(f) == sock[f].up /\ sock[f].job # "queue" /\ sock[f].work # <<>>

ByDaemon(f) == world.kind[sock[f].peer] = "daemon" /\ sock[f].job = "base"

Serve(f) ==
    LET t == sock[f].peer
        r == Head(sock[f].work)
    IN  /\ HasWork(f) /\ ~ByDaemon(f)
        /\ \/ /\ r = "hello"
              /\ sock' = Puts(f, <<Reply(IF world.kind[t] = "gateway" THEN "nopid"
                                         ELSE "pid", 0)>>)
              /\ UNCHANGED ran
           \/ /\ r # "hello"
              /\ \E parts \in Answers(t) :
                    sock' = Puts(f, [i \in DOMAIN parts |->
                              [part |-> parts[i], of |-> r, run |-> Len(ran[r]) + 1]])
              /\ ran' = [ran EXCEPT ![r] = Append(@, t)]
        /\ UNCHANGED <<world, con, pc, hold, req, netVars, down, deaths, outages>>

(* DINT takes the first port that no child job has.                         *)
FreePorts(t) ==
    {p \in 1 .. MaxPort :
        /\ <<t, p>> \notin listens
        /\ \A f \in Fds : sock[f].up /\ sock[f].peer = t => sock[f].port # p}

(* What the daemon says, and the child jobs that listen then.               *)
Says(t, x) ==
    (IF x = "hello" THEN {[reply |-> Reply("refuse", 0), listens |-> listens]}
                    ELSE {[reply |-> Reply("blank", 0), listens |-> listens]})
    \cup (IF x = "hello" /\ FreePorts(t) # {}
            THEN LET p == Least(FreePorts(t))
                 IN  {[reply |-> Reply("port", p), listens |-> listens \cup {<<t, p>>}]}
            ELSE {})

(* M of _ZMGWSI.m: one connection at a time, and one command of it.  A      *)
(* greeting starts a child job or fails to; anything else gets an empty     *)
(* head.  Then the device is closed, with this connection, the listening    *)
(* socket and whoever waits to be accepted.                                 *)
DaemonServes(f) ==
    LET waiting == {g \in Fds \ {f} : HasWork(g) /\ ByDaemon(g)
                                       /\ sock[g].peer = sock[f].peer}
    IN  /\ HasWork(f) /\ ByDaemon(f)
        /\ \E say \in Says(sock[f].peer, Head(sock[f].work)), reset \in SUBSET waiting :
              /\ sock' = [g \in Fds |->
                            IF g = f THEN [sock[g] EXCEPT !.inbox = <<say.reply>>, !.up = FALSE]
                            ELSE IF g \in reset THEN [sock[g] EXCEPT !.up = FALSE]
                            ELSE sock[g]]
              /\ listens' = say.listens
        /\ UNCHANGED <<world, con, pc, hold, req, addr, filled, ran, down, deaths, outages>>

(* A child job that halts closes its port, with whoever waits in its queue. *)
QueueCloses(f) ==
    /\ sock[f].up /\ sock[f].job = "queue"
    /\ ~HasClient(sock[f].peer, sock[f].port)
    /\ sock' = [sock EXCEPT ![f].up = FALSE]
    /\ UNCHANGED <<con, pc, hold, req, netVars, serverVars>>

(* A job dies; what it wrote arrives in part.                               *)
Die(f) ==
    /\ sock[f].up /\ sock[f].job # "queue"
    /\ deaths < MaxDeaths
    /\ deaths' = deaths + 1
    /\ \E n \in 0 .. Len(sock[f].inbox) :
          sock' = [sock EXCEPT ![f].up = FALSE, ![f].inbox = SubSeq(@, 1, n)]
    /\ UNCHANGED <<world, con, pc, hold, req, netVars, ran, down, outages>>

(* The daemon refuses connections at any time, so it need not go down.      *)
GoDown(t) ==
    /\ t \notin down
    /\ world.kind[t] # "daemon"
    /\ outages < MaxOutages
    /\ down' = down \cup {t}
    /\ outages' = outages + 1
    /\ UNCHANGED <<world, con, pc, hold, req, sock, netVars, ran, deaths>>

ComeBack(t) ==
    /\ t \in down
    /\ down' = down \ {t}
    /\ UNCHANGED <<world, con, pc, hold, req, sock, netVars, ran, deaths, outages>>

(* mgwsi_child_exit and mgwsi_child_init: Apache replaces a child that      *)
(* serves nothing.                                                          *)
ChildExit ==
    /\ \A r \in Requests : ~Busy(r)
    /\ NewChild
    /\ UNCHANGED <<pc, hold, req, serverVars>>

-----------------------------------------------------------------------------
Thread(r) ==
    \/ Connect(r) \/ Address(r) \/ ConnectEx(r) \/ ConnectFails(r)
    \/ Hello(r) \/ ConnectChild(r) \/ ChildRefuses(r) \/ ChildGivesUp(r) \/ Rehello(r)
    \/ Send(r) \/ ReadHead(r) \/ ReadBody(r) \/ Release(r)

Server(f) == Serve(f) \/ DaemonServes(f) \/ QueueCloses(f)

(* The request waits in the queue of a child job that serves someone else,  *)
(* in a read that has no timeout.                                           *)
InQueue(r) ==
    /\ pc[r] \in {"hello", "rehello", "head"}
    /\ At(Fd(r)).up /\ At(Fd(r)).job = "queue"

Done ==
    /\ \A r \in Requests : pc[r] = "done" \/ InQueue(r)
    /\ UNCHANGED vars

Next ==
    \/ \E r \in Requests : Thread(r)
    \/ \E f \in Fds : Server(f) \/ Die(f)
    \/ \E t \in Targets : GoDown(t) \/ ComeBack(t)
    \/ ChildExit
    \/ Done

(* While a thread that serves a request can go on, one does, and so it is   *)
(* with the jobs that have work.                                            *)
Fairness ==
    /\ WF_vars(\E r \in Requests : pc[r] # "idle" /\ Thread(r))
    /\ WF_vars(\E f \in Fds : Server(f))

Spec == Init /\ [][Next]_vars /\ Fairness

-----------------------------------------------------------------------------
Pcs == {"idle", "connect", "hello", "child", "rehello", "send", "head", "body",
        "release", "done"}

OneTarget == \A r, q \in Requests : world.want[r] = world.want[q]

TypeOK ==
    /\ con \in [Handles -> Con \cup {NoCon}]
    /\ pc \in [Requests -> Pcs]
    /\ hold \in [Requests -> Handles \cup {0}]
    /\ down \subseteq Targets

(* Two requests never have the same connection: the table of                *)
(* mgwsi_db_connect hands a slot to one thread at a time.                   *)
OneUserPerSlot ==
    \A r, q \in Requests : Busy(r) /\ Busy(q) /\ hold[r] = hold[q] => r = q

(* A slot that is in use is in use by a request: no path of mgwsi_db_connect*)
(* or of the exits of mgwsi_handler leaves a slot behind that no request    *)
(* can have again.  It takes a single target to be true.                    *)
UsedSlotsHaveUsers ==
    \A n \in Slots : con[n].status = "INUSE" => \E r \in Requests : Busy(r) /\ hold[r] = n

(* A request that sends or reads does so on a socket that is open and that  *)
(* no other connection of the child has, whatever descriptors were closed,  *)
(* forgotten or used again before.                                          *)
RequestOwnsItsSocket ==
    \A r \in Requests : pc[r] \in {"hello", "rehello", "send", "head", "body", "release"} =>
        /\ con[hold[r]].up
        /\ sock[Fd(r)].open
        /\ \A h \in Handles \ {hold[r]} : con[h].up => con[h].fd # Fd(r)

(* A pooled connection that waits for its next request has nothing under    *)
(* way: no answer is left in it that the next request would take for its    *)
(* own.                                                                     *)
IdleConnectionsInStep ==
    \A n \in Slots : con[n].status = "FREE" /\ con[n].up =>
        LET s == sock[con[n].fd]
        IN  s.open /\ s.inbox = <<>> /\ (s.up => s.work = <<>>)

(* What a client gets is the answer to its own request, from one execution  *)
(* of it, to the last piece when the request counts as answered.            *)
OwnAnswer ==
    \A r \in Requests :
        LET a == req[r].answer
        IN  /\ \A i \in DOMAIN a : a[i].of = r /\ a[i].run = a[1].run
            /\ req[r].end = "answered" => a # <<>> /\ a[Len(a)].part = "last"

(* A request is executed twice at most, and twice only when it was sent     *)
(* first without a greeting: a connection that has just shaken hands is     *)
(* not tried again.                                                         *)
TwiceOnlyUngreeted ==
    \A r \in Requests : Len(ran[r]) <= 2 /\ (Len(ran[r]) = 2 => ~req[r].greeted)

(* A request that a thread has taken up ends, whatever the servers do,      *)
(* unless its connect() went to the port of a child job that another request*)
(* has: then it may wait as long as that one keeps its connection.          *)
RequestsEnd == \A r \in Requests : Busy(r) ~> ~Busy(r) \/ InQueue(r)
=============================================================================
