----------------------------- MODULE NodeGateway -----------------------------
(***************************************************************************)
(* The two Node.js gateways of EWD (src/ewd/node): web requests are handed *)
(* to a pool of M processes over their standard input, and what comes back *)
(* on their standard output goes to the response object that the connection*)
(* has at that moment.                                                     *)
(*                                                                         *)
(* ewdGateway.js keeps a queue and marks connections as free or not.       *)
(* mapache.js picks a connection at random.  A handler of Node.js runs to  *)
(* its end, with everything it emits, so each is one action; the pipes,    *)
(* the M processes and the clients run in between.  Standard output arrives*)
(* in chunks that end anywhere, within the blank line after the headers and*)
(* within the terminator as well.  Static files, logging, the statistics   *)
(* and the decoding of a chunk to a string are left out.                   *)
(***************************************************************************)
EXTENDS Naturals, FiniteSets, Sequences

CONSTANTS
    Requests,   \* the requests of the clients
    PrePages,   \* those for a page that has a pre-page script
    PoolSize,   \* poolSize: the number of M processes
    Gateways,   \* which of the two gateways run
    Visits,     \* bound: those of the requests that are made of mapache.js
    MaxBusy     \* bound: processes at work, the new one included, when a client of
                \* mapache.js asks

ASSUME PoolSizeAssumption == PoolSize \in Nat

VARIABLES
    gateway,
    queue,      \* requestQueue
    free,       \* the connections with isAvailable
    response,   \* the request whose response object each connection has
    stdin, stdout,
    content,    \* contentStr of each connection (ewdGateway.js)
    headed,     \* headerSent of each connection (mapache.js)
    got,        \* what each client was sent
    state,      \* idle, open or ended, for each request
    methods,    \* ewdMap.method names the pre-page scripts
    loading,    \* a getJSON for the table is under way
    crashed     \* an exception has ended the gateway

vars == <<gateway, queue, free, response, stdin, stdout, content, headed, got, state,
          methods, loading, crashed>>

Conns == 1 .. PoolSize
NoRequest == "none"

ASSUME RequestsAssumption == NoRequest \notin Requests

Text(r, part) == [of |-> r, part |-> part]

(* The headers, the two halves of the blank line behind them, the body.     *)
Page(r) == <<Text(r, "headers"), Text(r, "blank1"), Text(r, "blank2"), Text(r, "body")>>

(* The terminator, in two halves.                                           *)
Eor == <<Text(NoRequest, "eor1"), Text(NoRequest, "eor2")>>

Refresh == Text(NoRequest, "refresh")

StartedOneMore == 1 .. PoolSize + 1

(* makeConnections: a process for each number from 1 to the size of the pool*)
Started == 1 .. PoolSize

Init ==
    /\ gateway \in Gateways
    /\ queue = <<>>
    /\ free = Started
    /\ response = [c \in Conns |-> NoRequest]
    /\ stdin = [c \in Conns |-> <<>>]
    /\ stdout = [c \in Conns |-> <<>>]
    /\ content = [c \in Conns |-> <<>>]
    /\ headed = [c \in Conns |-> FALSE]
    /\ got = [r \in Requests |-> <<>>]
    /\ state = [r \in Requests |-> "idle"]
    /\ methods = FALSE
    /\ loading = TRUE
    /\ crashed = FALSE

Open(r) == state[r] = "open"

Runs(which) == gateway = which /\ ~crashed

-----------------------------------------------------------------------------
(* ewdGateway.js: processQueue with sendRequestToCachey and getConnection.  *)
(* The loop gives the first request to the first free connection until it   *)
(* runs out of one or the other.                                            *)

Rank(c, conns) == Cardinality({d \in conns : d <= c})

TakersOneShort(q, conns) == {c \in conns : Rank(c, conns) < Len(q)}

Takers(q, conns) == {c \in conns : Rank(c, conns) <= Len(q)}

ProcessQueueUnmarked(q, conns) ==
    LET takers == Takers(q, conns)
        takes(c) == q[Rank(c, conns)]
    IN  /\ queue' = SubSeq(q, Cardinality(takers) + 1, Len(q))
        /\ free' = conns
        /\ response' = [c \in Conns |-> IF c \in takers THEN takes(c) ELSE response[c]]
        /\ stdin' = [c \in Conns |-> IF c \in takers THEN Append(stdin[c], takes(c))
                                     ELSE stdin[c]]

ProcessQueue(q, conns) ==
    LET takers == Takers(q, conns)
        takes(c) == q[Rank(c, conns)]
    IN  /\ queue' = SubSeq(q, Cardinality(takers) + 1, Len(q))
        /\ free' = conns \ takers
        /\ response' = [c \in Conns |-> IF c \in takers THEN takes(c) ELSE response[c]]
        /\ stdin' = [c \in Conns |-> IF c \in takers THEN Append(stdin[c], takes(c))
                                     ELSE stdin[c]]

AddToFront(r) == <<r>> \o queue

AddToQueue(r) == Append(queue, r)

(* sendToCachey and addToQueue.  For a page with a pre-page script, once the*)
(* table of scripts is there, sendToCachey reads requestNo, which is no     *)
(* variable (this.requestNo is): the exception ends the gateway.            *)
SendToCachey(r) ==
    /\ Runs("ewdGateway")
    /\ state[r] = "idle"
    /\ state' = [state EXCEPT ![r] = "open"]
    /\ \/ /\ r \in PrePages /\ methods
          /\ crashed' = TRUE
          /\ UNCHANGED <<queue, free, response, stdin>>
       \/ /\ ~(r \in PrePages /\ methods)
          /\ ProcessQueue(AddToQueue(r), free)
          /\ UNCHANGED crashed
    /\ UNCHANGED <<gateway, stdout, content, headed, got, methods, loading>>

(* The half that completes the terminator.                                  *)
IsEor(token) == token.part = "eor2"
FirstEor(text) ==
    CHOOSE i \in DOMAIN text : IsEor(text[i]) /\ \A j \in 1 .. (i - 1) : ~IsEor(text[j])

CollectedNewest(c, chunk) == chunk

(* contentStr                                                               *)
Collected(c, chunk) == content[c] \o chunk

(* The data handler of cacheyOutput: chunks are put together until the      *)
(* terminator is in; then the client gets what is before it, the connection *)
(* is free and the queue is processed.  What is behind the terminator counts*)
(* only if it came in the same chunk.                                       *)
CacheyData(c, chunk) ==
    LET text == Collected(c, chunk)
        end == FirstEor(text)
        r == response[c]
    IN  /\ Runs("ewdGateway")
        /\ \/ /\ \A i \in DOMAIN text : ~IsEor(text[i])
              /\ content' = [content EXCEPT ![c] = text]
              /\ UNCHANGED <<queue, free, response, stdin, got, state, loading>>
           \/ /\ \E i \in DOMAIN text : IsEor(text[i])
              /\ content' = [content EXCEPT ![c] = <<>>]
              /\ got' = [got EXCEPT ![r] = SubSeq(text, 1, end - 2)]
              /\ state' = [state EXCEPT ![r] = "ended"]
              /\ ProcessQueue(queue, free \cup {c})
              /\ loading' = (loading \/ Refresh \in {text[i] : i \in (end + 1) .. Len(text)})
        /\ UNCHANGED headed

(* The timer: "Checking queue just in case".                                *)
Timer ==
    /\ Runs("ewdGateway")
    /\ ProcessQueue(queue, free)
    /\ UNCHANGED <<gateway, stdout, content, headed, got, state, methods, loading, crashed>>

(* The answer of getJSON: the table, or an error.                           *)
MethodsAnswer ==
    /\ Runs("ewdGateway")
    /\ loading
    /\ loading' = FALSE
    /\ methods' \in {methods, TRUE}
    /\ UNCHANGED <<gateway, queue, free, response, stdin, stdout, content, headed, got,
                   state, crashed>>

-----------------------------------------------------------------------------
(* mapache.js: sendToGTM takes any connection.                              *)
SendToGTM(r) ==
    /\ Runs("mapache")
    /\ r \in Visits
    /\ state[r] = "idle"
    /\ Cardinality({c \in Conns : stdin[c] # <<>> \/ stdout[c] # <<>>}) < MaxBusy
    /\ state' = [state EXCEPT ![r] = "open"]
    /\ \E c \in Conns :
          /\ response' = [response EXCEPT ![c] = r]
          /\ stdin' = [stdin EXCEPT ![c] = Append(@, r)]
    /\ UNCHANGED <<gateway, queue, free, stdout, content, headed, got, methods, loading,
                   crashed>>

Parts(tokens) == {tokens[i].part : i \in DOMAIN tokens}

(* The end of the headers: the blank line, all of it in this chunk, or else *)
(* a body that looks like it, as it starts with "<" or has a blank line.    *)
HeadersEnd(chunk) ==
    IF {"blank1", "blank2"} \subseteq Parts(chunk) THEN {TRUE}
    ELSE IF "body" \in Parts(chunk) THEN BOOLEAN ELSE {FALSE}

(* The data handler of gtmOutput, which looks at each chunk by itself.  A   *)
(* chunk without the end of the headers is dropped while they are still     *)
(* missing; a chunk with the terminator, from its first half on, ends the   *)
(* response, and what comes behind it in the chunk is dropped too.  A       *)
(* response that has ended takes nothing more.                              *)
GTMData(c, chunk) ==
    \E heads \in HeadersEnd(chunk) :
        LET r == response[c]
            writes == IF headed[c] \/ heads THEN chunk ELSE <<>>
            behind == IF writes = <<>> THEN <<>> ELSE Tail(writes)
            ends == \E i \in DOMAIN behind : IsEor(behind[i])
            body == IF ends THEN SubSeq(writes, 1, FirstEor(behind) - 1) ELSE writes
        IN  /\ Runs("mapache")
            /\ headed' = [headed EXCEPT ![c] = (@ \/ heads) /\ ~ends]
            /\ got' = IF Open(r) THEN [got EXCEPT ![r] = @ \o body] ELSE got
            /\ state' = IF ends THEN [state EXCEPT ![r] = "ended"] ELSE state
            /\ UNCHANGED <<queue, free, response, stdin, content, loading>>

-----------------------------------------------------------------------------
(* The pipes and the M processes.                                           *)

Data(c) ==
    /\ \E n \in 1 .. Len(stdout[c]) :
          /\ stdout' = [stdout EXCEPT ![c] = SubSeq(@, n + 1, Len(@))]
          /\ \/ CacheyData(c, SubSeq(stdout[c], 1, n))
             \/ GTMData(c, SubSeq(stdout[c], 1, n))
    /\ UNCHANGED <<gateway, methods, crashed>>

(* mapacheListener of _zewdGTMRuntime.m.  It ends an answer with the four   *)
(* bytes that mapache.js looks for and CR LF; ewdGateway.js looks for those *)
(* bytes and LF, so its listener is another one, not in the repository,     *)
(* which may also ask for the table of scripts to be read again.            *)
Listener(c) ==
    /\ ~crashed
    /\ stdin[c] # <<>>
    /\ stdin' = [stdin EXCEPT ![c] = Tail(@)]
    /\ \E rest \in IF gateway = "ewdGateway" THEN {<<>>, <<Refresh>>} ELSE {<<>>} :
          stdout' = [stdout EXCEPT ![c] = @ \o Page(Head(stdin[c])) \o Eor \o rest]
    /\ UNCHANGED <<gateway, queue, free, response, content, headed, got, state, methods,
                   loading, crashed>>

Next ==
    \/ \E r \in Requests : SendToCachey(r) \/ SendToGTM(r)
    \/ \E c \in Conns : Data(c) \/ Listener(c)
    \/ Timer
    \/ MethodsAnswer

(* Node.js handles what arrives, and an M process what it reads: while there*)
(* is anything in the pipes, some of it is handled.                         *)
Fairness == WF_vars(\E c \in Conns : Data(c) \/ Listener(c))

Spec == Init /\ [][Next]_vars /\ Fairness

-----------------------------------------------------------------------------
Busy == {c \in Conns : c \notin free}

TypeOK ==
    /\ free \subseteq Conns
    /\ response \in [Conns -> Requests \cup {NoRequest}]
    /\ \A c \in Conns : stdin[c] \in Seq(Requests)
    /\ queue \in Seq(Requests)
    /\ state \in [Requests -> {"idle", "open", "ended"}]

(* No M process idles while a request waits in the queue, although nothing  *)
(* but an answer, a new request or the timer looks at the queue.            *)
NoIdleWhileQueued == gateway = "ewdGateway" => (queue = <<>> \/ free = {})

(* A connection that is not free is working for the one request that its    *)
(* response belongs to, a free one for none.                                *)
OneRequestPerConnection ==
    gateway = "ewdGateway" =>
        \A c \in Conns :
            LET texts == content[c] \o stdout[c]
                under == {texts[i].of : i \in DOMAIN texts} \cup {stdin[c][i] : i \in DOMAIN stdin[c]}
            IN  IF c \in free THEN under \subseteq {NoRequest}
                ELSE Open(response[c]) /\ response[c] \in under
                     /\ under \subseteq {response[c], NoRequest}

(* No client is sent a piece of what another one asked for.                 *)
OwnAnswer ==
    \A r \in Requests : \A i \in DOMAIN got[r] : got[r][i].of \in {r, NoRequest}

(* However the output was cut into chunks, the client of ewdGateway.js gets *)
(* the whole page, once and in one piece.                                   *)
WholeAnswer ==
    \A r \in Requests : gateway = "ewdGateway" /\ state[r] = "ended" =>
        \E before \in 0 .. (Len(got[r]) - Len(Page(r))) :
            /\ SubSeq(got[r], before + 1, before + Len(Page(r))) = Page(r)
            /\ \A i \in DOMAIN got[r] : got[r][i].of = r => i - before \in DOMAIN Page(r)

(* mapache.js says of the connection it picks that it is from the available *)
(* pool: it has no request under way.                                       *)
PicksAvailable ==
    [][\A r \in Requests, c \in Conns :
          stdin'[c] = Append(stdin[c], r) =>
              stdin[c] = <<>> /\ stdout[c] = <<>> /\ ~(response[c] \in Requests /\ Open(response[c]))]_vars

(* However the output was cut into chunks, the terminator included, every   *)
(* request of ewdGateway.js is answered unless the gateway crashes: nobody  *)
(* asks twice, so that nobody waits for ever if there is always a time to   *)
(* come when nobody waits.                                                  *)
EveryoneAnswered ==
    gateway = "ewdGateway" ~> (crashed \/ \A r \in Requests : ~Open(r))

(* ewdGateway.js is a first-in first-out pool; mapache.js has no queue and  *)
(* is left out of it.                                                       *)
Pool == INSTANCE RequestPool WITH
            Size <- PoolSize,
            waiting <- queue,
            running <- {r \in Requests :
                           gateway = "ewdGateway" /\ Open(r) /\ \E c \in Conns : response[c] = r}

PoolSpec == Pool!Spec
=============================================================================
