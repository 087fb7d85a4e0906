------------------------- MODULE WebListenerProofs -------------------------
(***************************************************************************)
(* Theorems about WebListener, for any listeners, connections and bounds.  *)
(***************************************************************************)
EXTENDS WebListener, TLAPS


----------------------------------------------------------------------------
(* Type correctness.                                                       *)

LEMMA TypeInit == Init => TypeOK
<1> SUFFICES ASSUME Init PROVE TypeOK
  OBVIOUS
<1>1. calm \in BOOLEAN /\ nogbl \in SUBSET Conns
  BY DEF Init
<1>2. starts \in Nat /\ stops \in Nat /\ kills \in Nat
  BY DEF Init
<1>3. lpc \in [Listeners -> {"idle", "start", "open", "closed"} \cup Holding]
  BY DEF Init
<1>4. QED
  BY <1>1, <1>2, <1>3 DEF Init, TypeOK

LEMMA TypeNext == TypeOK /\ [Next]_vars => TypeOK'
<1> SUFFICES ASSUME TypeOK, [Next]_vars PROVE TypeOK'
  OBVIOUS
<1> USE ProcessAssumption DEF TypeOK, Holding
<1>1. CASE Stop
  <2> USE <1>1 DEF Stop, SetFlag, StopWord, listenerVars, childVars
  <2>1. calm' \in BOOLEAN
    OBVIOUS
  <2>2. flag' \in {None, "starting", "running", "stopped"} /\ atStop' \in [Conns -> Nat]
    OBVIOUS
  <2>3. stops' \in Nat
    OBVIOUS
  <2>4. QED
    BY <2>1, <2>2, <2>3
<1>2. ASSUME NEW l \in Listeners, JobStart(l) PROVE TypeOK'
  <2> USE <1>2 DEF JobStart, LGoto, NoFlag, childVars
  <2>1. calm' \in BOOLEAN
    OBVIOUS
  <2>2. lpc' \in [Listeners -> {"idle", "start", "open", "closed"} \cup Holding]
    OBVIOUS
  <2>3. starts' \in Nat
    OBVIOUS
  <2>4. QED
    BY <2>1, <2>2, <2>3
<1>3. ASSUME NEW l \in Listeners, ListenerStep(l) PROVE TypeOK'
  <2> USE DEF LGoto, CGoto, NoFlag, SetFlag, childVars, history
  <2>1. CASE WriteStarting(l)
    BY <2>1 DEF WriteStarting, FirstWord
  <2>2. CASE OpenPort(l)
    BY <2>2 DEF OpenPort, Ends
  <2>3. CASE WriteRunning(l)
    BY <2>3 DEF WriteRunning
  <2>4. CASE LoopTop(l)
    BY <2>4 DEF LoopTop
  <2>5. CASE CloseSocket(l)
    BY <2>5 DEF CloseSocket, DropSockets
  <2>6. CASE WriteStopped(l)
    BY <2>6 DEF WriteStopped, Ends
  <2>7. CASE WaitEnds(l)
    BY <2>7 DEF WaitEnds
  <2>8. CASE Dispatch(l)
    <3> USE <2>8 DEF Dispatch, SharedId
    <3>1. nogbl' \in SUBSET Conns
      OBVIOUS
    <3>2. id' \in [Conns -> Nat]
      OBVIOUS
    <3>3. cpc' \in [Conns -> {"none", "backlog", "attached", "lock", "count", "store",
                              "wait", "read", "serve", "closed"}]
      OBVIOUS
    <3>4. QED
      BY <3>1, <3>2, <3>3
  <2>9. QED
    BY <1>3, <2>1, <2>2, <2>3, <2>4, <2>5, <2>6, <2>7, <2>8 DEF ListenerStep
<1>4. ASSUME NEW l \in Listeners, KillListener(l) PROVE TypeOK'
  BY <1>4 DEF KillListener, Ends, LGoto, NoFlag, childVars, DropSockets
<1>5. ASSUME NEW c \in Conns, Connect(c) PROVE TypeOK'
  BY <1>5 DEF Connect, CGoto, NoFlag, listenerVars, childVars, history
<1>6. ASSUME NEW c \in Conns, ChildStep(c) PROVE TypeOK'
  <2> USE DEF CGoto, NoFlag, listenerVars, childVars, history
  <2>1. CASE LockLog(c)
    BY <2>1 DEF LockLog
  <2>2. CASE ReadCount(c)
    BY <2>2 DEF ReadCount
  <2>3. CASE StoreCount(c)
    BY <2>3 DEF StoreCount
  <2>4. CASE Wait(c)
    BY <2>4 DEF Wait
  <2>5. CASE ReadLine(c)
    BY <2>5 DEF ReadLine
  <2>6. CASE Serve(c)
    BY <2>6 DEF Serve
  <2>7. QED
    BY <1>6, <2>1, <2>2, <2>3, <2>4, <2>5, <2>6 DEF ChildStep
<1>7. ASSUME NEW c \in Conns, KillChild(c) PROVE TypeOK'
  BY <1>7 DEF KillChild, CGoto, NoFlag, listenerVars
<1>8. CASE UNCHANGED vars
  BY <1>8 DEF vars
<1>9. QED
  BY <1>1, <1>2, <1>3, <1>4, <1>5, <1>6, <1>7, <1>8 DEF Next

\* The type invariant of the flag, of the listeners and of the children.
THEOREM WebTypeCorrect == Spec => []TypeOK
  BY TypeInit, TypeNext, PTL DEF Spec

----------------------------------------------------------------------------
(* "running" means listening.  The port belongs to the listener that is    *)
(* between OPEN and CLOSE, and the one that wrote "running" is past the    *)
(* write and has not yet decided to close.                                 *)

PortMatches == \A l \in Listeners : port = l <=> lpc[l] \in Holding
Serving == {"loop", "wait", "event"}
Announced == flag = "running" /\ kills = 0 =>
    \E l \in Listeners : UsesGbl(l) /\ port = l /\ lpc[l] \in Serving
RunInv == TypeOK /\ PortMatches /\ Announced

LEMMA RunInit == Init => RunInv
  BY TypeInit, ProcessAssumption
  DEF Init, RunInv, PortMatches, Announced, Holding, None

LEMMA PortNext == RunInv /\ [Next]_vars => PortMatches'
<1> SUFFICES ASSUME RunInv, [Next]_vars PROVE PortMatches'
  OBVIOUS
<1> USE ProcessAssumption DEF RunInv, TypeOK, PortMatches, Holding
<1>1. CASE Stop
  BY <1>1 DEF Stop, listenerVars
<1>2. ASSUME NEW l \in Listeners, JobStart(l) PROVE PortMatches'
  BY <1>2 DEF JobStart, LGoto
<1>3. ASSUME NEW l \in Listeners, ListenerStep(l) PROVE PortMatches'
  <2> USE DEF LGoto
  <2>1. CASE WriteStarting(l)
    BY <2>1 DEF WriteStarting
  <2>2. CASE OpenPort(l)
    BY <2>2 DEF OpenPort, Ends
  <2>3. CASE WriteRunning(l)
    BY <2>3 DEF WriteRunning
  <2>4. CASE LoopTop(l)
    BY <2>4 DEF LoopTop
  <2>5. CASE CloseSocket(l)
    BY <2>5 DEF CloseSocket
  <2>6. CASE WriteStopped(l)
    BY <2>6 DEF WriteStopped, Ends
  <2>7. CASE WaitEnds(l)
    BY <2>7 DEF WaitEnds
  <2>8. CASE Dispatch(l)
    BY <2>8 DEF Dispatch
  <2>9. QED
    BY <1>3, <2>1, <2>2, <2>3, <2>4, <2>5, <2>6, <2>7, <2>8 DEF ListenerStep
<1>4. ASSUME NEW l \in Listeners, KillListener(l) PROVE PortMatches'
  BY <1>4 DEF KillListener, Ends, LGoto
<1>5. ASSUME NEW c \in Conns, Connect(c) \/ ChildStep(c) \/ KillChild(c) PROVE PortMatches'
  BY <1>5 DEF Connect, ChildStep, LockLog, ReadCount, StoreCount, Wait, ReadLine, Serve,
     KillChild, listenerVars
<1>6. CASE UNCHANGED vars
  BY <1>6 DEF vars
<1>7. QED
  BY <1>1, <1>2, <1>3, <1>4, <1>5, <1>6 DEF Next

LEMMA AnnouncedNext == RunInv /\ [Next]_vars => Announced'
<1> SUFFICES ASSUME RunInv, [Next]_vars, (flag = "running" /\ kills = 0)'
             PROVE \E l \in Listeners : UsesGbl(l) /\ port' = l /\ lpc'[l] \in Serving
  BY DEF Announced
<1> USE ProcessAssumption DEF RunInv, TypeOK, PortMatches, Announced, Holding, Serving
<1> DEFINE Up == \E l \in Listeners : UsesGbl(l) /\ port' = l /\ lpc'[l] \in Serving
<1>1. CASE Stop
  BY <1>1 DEF Stop, SetFlag, StopWord, listenerVars
<1>2. ASSUME NEW l \in Listeners, JobStart(l) PROVE Up
  BY <1>2 DEF JobStart, LGoto, NoFlag
<1>3. ASSUME NEW l \in Listeners, ListenerStep(l) PROVE Up
  <2> USE DEF LGoto, SetFlag, NoFlag, history
  <2>1. CASE WriteStarting(l)
    BY <2>1 DEF WriteStarting, FirstWord
  <2>2. CASE OpenPort(l)
    BY <2>2 DEF OpenPort, Ends
  <2>3. CASE WriteRunning(l)
    BY <2>3 DEF WriteRunning
  <2>4. CASE LoopTop(l)
    BY <2>4 DEF LoopTop, StopSeen
  <2>5. CASE CloseSocket(l)
    BY <2>5 DEF CloseSocket
  <2>6. CASE WriteStopped(l)
    BY <2>6 DEF WriteStopped, Ends
  <2>7. CASE WaitEnds(l)
    BY <2>7 DEF WaitEnds
  <2>8. CASE Dispatch(l)
    BY <2>8 DEF Dispatch
  <2>9. QED
    BY <1>3, <2>1, <2>2, <2>3, <2>4, <2>5, <2>6, <2>7, <2>8 DEF ListenerStep
<1>4. ASSUME NEW l \in Listeners, KillListener(l) PROVE Up
  BY <1>4 DEF KillListener
<1>5. ASSUME NEW c \in Conns, KillChild(c) PROVE Up
  BY <1>5 DEF KillChild
<1>6. ASSUME NEW c \in Conns, Connect(c) \/ ChildStep(c) PROVE Up
  BY <1>6 DEF Connect, ChildStep, LockLog, ReadCount, StoreCount, Wait, ReadLine, Serve,
     listenerVars, NoFlag, history
<1>7. CASE UNCHANGED vars
  BY <1>7 DEF vars
<1>8. QED
  BY <1>1, <1>2, <1>3, <1>4, <1>5, <1>6, <1>7 DEF Next

\* However many listeners are started and stopped at once, while the flag
\* says "running" one that reads the flag holds the port, if none was killed.
THEOREM RunningIsTrue == Spec => []RunningMeansListening
<1>1. RunInv /\ [Next]_vars => RunInv'
  BY TypeNext, PortNext, AnnouncedNext DEF RunInv
<1>2. RunInv => RunningMeansListening
  BY DEF RunInv, Announced, RunningMeansListening, Serving, Holding
<1>3. QED
  BY RunInit, <1>1, <1>2, PTL DEF Spec

----------------------------------------------------------------------------
(* One more request at most.  A child that is not past the first read it   *)
(* makes under a stop has read nothing since the flag was written.         *)

Before == {"none", "backlog", "attached", "lock", "count", "store", "read"}
StopInv == flag = "stopped" => \A c \in Conns : c \notin nogbl =>
    /\ served[c] <= atStop[c] + 1
    /\ cpc[c] \in Before => served[c] <= atStop[c]

LEMMA StopNext == TypeOK /\ StopInv /\ [Next]_vars => StopInv'
<1> SUFFICES ASSUME TypeOK, StopInv, [Next]_vars PROVE StopInv'
  OBVIOUS
<1> USE ProcessAssumption DEF TypeOK, StopInv, Before
<1>1. CASE Stop
  BY <1>1 DEF Stop, SetFlag, childVars
<1>2. ASSUME NEW l \in Listeners, JobStart(l) PROVE StopInv'
  BY <1>2 DEF JobStart, NoFlag, childVars
<1>3. ASSUME NEW l \in Listeners, ListenerStep(l) PROVE StopInv'
  <2> USE DEF CGoto, SetFlag, NoFlag, childVars
  <2>1. CASE WriteStarting(l)
    BY <2>1 DEF WriteStarting
  <2>2. CASE OpenPort(l)
    BY <2>2 DEF OpenPort
  <2>3. CASE WriteRunning(l)
    BY <2>3 DEF WriteRunning
  <2>4. CASE LoopTop(l)
    BY <2>4 DEF LoopTop
  <2>5. CASE CloseSocket(l)
    BY <2>5 DEF CloseSocket, DropSockets
  <2>6. CASE WriteStopped(l)
    BY <2>6 DEF WriteStopped
  <2>7. CASE WaitEnds(l)
    BY <2>7 DEF WaitEnds
  <2>8. CASE Dispatch(l)
    BY <2>8 DEF Dispatch, StopSeen
  <2>9. QED
    BY <1>3, <2>1, <2>2, <2>3, <2>4, <2>5, <2>6, <2>7, <2>8 DEF ListenerStep
<1>4. ASSUME NEW l \in Listeners, KillListener(l) PROVE StopInv'
  BY <1>4 DEF KillListener, DropSockets, NoFlag, childVars
<1>5. ASSUME NEW c \in Conns, Connect(c) PROVE StopInv'
  BY <1>5 DEF Connect, CGoto, NoFlag, childVars
<1>6. ASSUME NEW c \in Conns, ChildStep(c) PROVE StopInv'
  <2> USE DEF CGoto, NoFlag, childVars
  <2>1. CASE LockLog(c)
    BY <2>1 DEF LockLog
  <2>2. CASE ReadCount(c)
    BY <2>2 DEF ReadCount
  <2>3. CASE StoreCount(c)
    BY <2>3 DEF StoreCount
  <2>4. CASE Wait(c)
    BY <2>4 DEF Wait, ChildStops, StopSeen
  <2>5. CASE ReadLine(c)
    BY <2>5 DEF ReadLine
  <2>6. CASE Serve(c)
    BY <2>6 DEF Serve
  <2>7. QED
    BY <1>6, <2>1, <2>2, <2>3, <2>4, <2>5, <2>6 DEF ChildStep
<1>7. ASSUME NEW c \in Conns, KillChild(c) PROVE StopInv'
  BY <1>7 DEF KillChild, CGoto, NoFlag
<1>8. CASE UNCHANGED vars
  BY <1>8 DEF vars
<1>9. QED
  BY <1>1, <1>2, <1>3, <1>4, <1>5, <1>6, <1>7, <1>8 DEF Next

\* For any number of connections and of starts: while the flag stays at stop
\* no child that reads it begins a second request.
THEOREM StopLetsOneRequestIn == Spec => []OneMoreRequestAtMost
<1>1. Init => StopInv
  BY DEF Init, StopInv, None
<1>2. StopInv => OneMoreRequestAtMost
  BY DEF StopInv, OneMoreRequestAtMost
<1>3. QED
  BY TypeInit, TypeNext, StopNext, <1>1, <1>2, PTL DEF Spec

----------------------------------------------------------------------------
(* Log ids.  Only the holder of the M lock is between the read of the      *)
(* counter and the write, so its id is above those of all the children     *)
(* that log.                                                               *)

Early == {"none", "backlog", "attached", "lock", "count", "store"}
Logs(c) == c \notin nogbl /\ (cpc[c] \in {"wait", "read", "serve"} \/ served[c] > 0)

GotAttached == \A l \in Listeners : got[l] # None =>
    lpc[l] = "event" /\ cpc[got[l]] = "attached"
EarlyFresh == \A c \in Conns : cpc[c] \in Early => served[c] = 0
LockMatches == \A c \in Conns : cpc[c] \in {"count", "store"} => logLock = c
StoreId == \A c \in Conns : cpc[c] = "store" => id[c] = logCount + 1
IdsKnown == \A c \in Conns : Logs(c) => id[c] <= logCount
IdsDiffer == \A c, d \in Conns : c # d /\ Logs(c) /\ Logs(d) => id[c] # id[d]
LogInv == TypeOK /\ PortMatches /\ GotAttached /\ EarlyFresh /\ LockMatches
          /\ StoreId /\ IdsKnown /\ IdsDiffer

LEMMA LogInit == Init => LogInv
  BY TypeInit, RunInit, ProcessAssumption
  DEF Init, RunInv, LogInv, GotAttached, EarlyFresh, LockMatches, StoreId, IdsKnown,
      IdsDiffer, Logs

LEMMA LogNext == LogInv /\ PortMatches' /\ [Next]_vars => LogInv'
<1> SUFFICES ASSUME LogInv, PortMatches', [Next]_vars PROVE LogInv'
  OBVIOUS
<1> DEFINE Rest == GotAttached' /\ EarlyFresh' /\ LockMatches' /\ StoreId' /\ IdsKnown' /\ IdsDiffer'
<1> SUFFICES Rest
  BY TypeNext DEF LogInv
<1> USE ProcessAssumption DEF LogInv, TypeOK, PortMatches, Holding, GotAttached, EarlyFresh,
        Early, LockMatches, StoreId, IdsKnown, IdsDiffer, Logs
<1>1. CASE Stop
  BY <1>1 DEF Stop, listenerVars, childVars
<1>2. ASSUME NEW l \in Listeners, JobStart(l) PROVE Rest
  BY <1>2 DEF JobStart, LGoto, childVars
<1>3. ASSUME NEW l \in Listeners, ListenerStep(l) PROVE Rest
  <2> USE DEF LGoto, CGoto, childVars
  <2>1. CASE WriteStarting(l)
    BY <2>1 DEF WriteStarting
  <2>2. CASE OpenPort(l)
    BY <2>2 DEF OpenPort, Ends
  <2>3. CASE WriteRunning(l)
    BY <2>3 DEF WriteRunning
  <2>4. CASE LoopTop(l)
    BY <2>4 DEF LoopTop
  <2>5. CASE CloseSocket(l)
    <3> USE <2>5 DEF CloseSocket, DropSockets
    <3>1. GotAttached'
      OBVIOUS
    <3>2. EarlyFresh' /\ LockMatches' /\ StoreId'
      OBVIOUS
    <3>3. IdsKnown' /\ IdsDiffer'
      OBVIOUS
    <3>4. QED
      BY <3>1, <3>2, <3>3
  <2>6. CASE WriteStopped(l)
    BY <2>6 DEF WriteStopped, Ends
  <2>7. CASE WaitEnds(l)
    <3> USE <2>7 DEF WaitEnds
    <3>1. GotAttached'
      OBVIOUS
    <3>2. EarlyFresh' /\ LockMatches' /\ StoreId'
      OBVIOUS
    <3>3. IdsKnown' /\ IdsDiffer'
      OBVIOUS
    <3>4. QED
      BY <3>1, <3>2, <3>3
  <2>8. CASE Dispatch(l)
    <3> USE <2>8 DEF Dispatch
    <3>1. GotAttached'
      OBVIOUS
    <3>2. EarlyFresh' /\ LockMatches' /\ StoreId'
      OBVIOUS
    <3>3. IdsKnown' /\ IdsDiffer'
      OBVIOUS
    <3>4. QED
      BY <3>1, <3>2, <3>3
  <2>9. QED
    BY <1>3, <2>1, <2>2, <2>3, <2>4, <2>5, <2>6, <2>7, <2>8 DEF ListenerStep
<1>4. ASSUME NEW l \in Listeners, KillListener(l) PROVE Rest
  <2> USE <1>4 DEF KillListener, Ends, LGoto, DropSockets, childVars
  <2>1. GotAttached'
    OBVIOUS
  <2>2. EarlyFresh' /\ LockMatches' /\ StoreId'
    OBVIOUS
  <2>3. IdsKnown' /\ IdsDiffer'
    OBVIOUS
  <2>4. QED
    BY <2>1, <2>2, <2>3
<1>5. ASSUME NEW c \in Conns, Connect(c) PROVE Rest
  BY <1>5 DEF Connect, CGoto, listenerVars, childVars
<1>6. ASSUME NEW c \in Conns, ChildStep(c) PROVE Rest
  <2> USE DEF CGoto, listenerVars, childVars
  <2>1. CASE LockLog(c)
    BY <2>1 DEF LockLog, LogLockFree
  <2>2. CASE ReadCount(c)
    BY <2>2 DEF ReadCount
  <2>3. CASE StoreCount(c)
    BY <2>3 DEF StoreCount
  <2>4. CASE Wait(c)
    BY <2>4 DEF Wait
  <2>5. CASE ReadLine(c)
    BY <2>5 DEF ReadLine
  <2>6. CASE Serve(c)
    BY <2>6 DEF Serve
  <2>7. QED
    BY <1>6, <2>1, <2>2, <2>3, <2>4, <2>5, <2>6 DEF ChildStep
<1>7. ASSUME NEW c \in Conns, KillChild(c) PROVE Rest
  BY <1>7 DEF KillChild, CGoto, listenerVars
<1>8. CASE UNCHANGED vars
  BY <1>8 DEF vars
<1>9. QED
  BY <1>1, <1>2, <1>3, <1>4, <1>5, <1>6, <1>7, <1>8 DEF Next

\* For any number of children, whichever of them are killed: the requests of
\* two of them are never logged under one id.
THEOREM LogIdsAreUnique == Spec => []LogIdsDiffer
<1> DEFINE Inv == RunInv /\ LogInv
<1>1. Init => Inv
  BY RunInit, LogInit
<1>2. Inv /\ [Next]_vars => Inv'
  <2> SUFFICES ASSUME RunInv, LogInv, [Next]_vars PROVE Inv'
    OBVIOUS
  <2>1. RunInv'
    BY TypeNext, PortNext, AnnouncedNext DEF RunInv
  <2>2. LogInv'
    BY <2>1, LogNext DEF RunInv
  <2>3. QED
    BY <2>1, <2>2
<1>3. Inv => LogIdsDiffer
  BY DEF LogInv, IdsDiffer, Logs, LogIdsDiffer
<1>4. QED
  BY <1>1, <1>2, <1>3, PTL DEF Spec

=============================================================================
