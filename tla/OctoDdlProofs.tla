--------------------------- MODULE OctoDdlProofs ---------------------------
(***************************************************************************)
(* Proofs about OctoDdl, for any processes, databases and bounds: types,   *)
(* that the locking keeps the promise of SchemaAccess, and that the format *)
(* numbers of a database tell the truth about it.                          *)
(***************************************************************************)
EXTENDS OctoDdl, TLAPS

LEMMA LineSet ==
  Lines = {"parse", "parsed", "run", "again", "work", "working", "upgrade", "upgrading",
           "markbin", "mark", "unlock", "recheck", "catalog", "define", "discard", "undefine",
           "off", "check", "look", "lock", "ready", "share", "ask"}
  BY DEF Lines, Reading, Changing, StartChanges, DdlChanges

LEMMA LessType == ASSUME NEW n \in Nat PROVE Less(n) \in Nat /\ Less(n) <= n
  BY DEF Less

LEMMA WantsAfterType ==
  ASSUME TypeOK, NEW p \in Procs, NEW k \in Kinds
  PROVE  WantsAfter(p, k) \in SUBSET {"full", "partial"}
  <1>1. wants[p] \in SUBSET {"full", "partial"}
    BY DEF TypeOK, StartTypeOK
  <1> QED
    BY <1>1 DEF WantsAfter

LEMMA TypeInit == ASSUME OctoAssumption, Init PROVE TypeOK
  <1>1. \A d \in Databases : FmtOf(d) \in [Kinds -> Formats] /\ DataOf(d) \in [Kinds -> Ages]
    BY OctoAssumption DEF OctoAssumption, FmtOf, DataOf, Kinds, Formats, Ages
  <1>2. DbTypeOK /\ nextOid \in Nat
    BY <1>1 DEF Init, DbTypeOK
  <1>3. LockTypeOK
    BY DEF Init, LockInit, NoLocks, LockTypeOK
  <1>4. SchemaTypeOK
    BY <1>2 DEF Init, SchemaTypeOK
  <1>5. StartTypeOK
    BY LineSet DEF Init, StartTypeOK, Kinds
  <1>6. StmtTypeOK
    BY DEF Init, StmtTypeOK
  <1>7. HistoryTypeOK
    <2>1. MaxStarts \in Nat /\ MaxStatements \in Nat /\ MaxFaults \in Nat
      BY OctoAssumption DEF OctoAssumption
    <2>2. before \in [Procs -> Nat \X Nat]
      BY DEF Init
    <2>3. starts \in 0..MaxStarts /\ asked \in 0..MaxStatements /\ faults \in 0..MaxFaults
      BY <2>1 DEF Init
    <2>4. needless \in BOOLEAN
      BY DEF Init
    <2> QED
      BY <2>2, <2>3, <2>4 DEF HistoryTypeOK
  <1> QED
    BY <1>2, <1>3, <1>4, <1>5, <1>6, <1>7 DEF TypeOK

\* What the operators that several actions share make of the types.
LEMMA DropType ==
  ASSUME TypeOK, NEW p \in Procs, DropShared(p) \/ DropExclusive(p)
  PROVE  LockTypeOK'
  <1>1. Less(shared[p]) \in Nat /\ Less(excl[p]) \in Nat
    BY LessType DEF TypeOK, LockTypeOK
  <1> QED
    BY <1>1 DEF TypeOK, LockTypeOK, DropShared, DropExclusive

LEMMA GrabType ==
  ASSUME TypeOK, NEW p \in Procs, GrabShared(p) \/ GrabExclusive(p)
  PROVE  LockTypeOK'
  BY DEF TypeOK, LockTypeOK, GrabShared, GrabExclusive

LEMMA GotoType ==
  ASSUME TypeOK, NEW p \in Procs, NEW line \in Lines, Goto(p, line)
  PROVE  at' \in [Procs -> Lines]
  BY DEF TypeOK, StartTypeOK, Goto

LEMMA FoundType == ASSUME TypeOK, NEW p \in Procs PROVE Found(p) \in Nat
  BY DEF TypeOK, SchemaTypeOK, StmtTypeOK, Found

LEMMA FindTableType ==
  ASSUME TypeOK, NEW p \in Procs, FindTable(p) PROVE cache' \in [Procs -> Nat]
  BY FoundType DEF TypeOK, StmtTypeOK, FindTable

LEMMA EndStmtType ==
  ASSUME TypeOK, NEW p \in Procs, EndStmt(p)
  PROVE  /\ at' \in [Procs -> Lines]
         /\ stmt' \in [Procs -> Statements \cup {None}]
         /\ used' \in [Procs -> Nat]
  <1>1. at' \in [Procs -> Lines]
    BY GotoType, LineSet DEF EndStmt
  <1> QED
    BY <1>1 DEF TypeOK, StmtTypeOK, EndStmt

LEMMA StageDoneType ==
  ASSUME TypeOK, NEW p \in Procs, StageDone(p)
  PROVE  /\ at' \in [Procs -> Lines]
         /\ stage' \in [Procs -> Kinds]
         /\ wants' \in [Procs -> SUBSET {"full", "partial"}]
  <1>1. stage[p] \in {"plan", "seed", "bin"}
    BY DEF TypeOK, StartTypeOK, Kinds
  <1>2. Goto(p, "look") \/ Goto(p, "ready")
    BY <1>1 DEF StageDone
  <1>3. at' \in [Procs -> Lines]
    BY <1>2, GotoType, LineSet
  <1>4. stage' \in [Procs -> Kinds]
    BY <1>1 DEF StageDone, TypeOK, StartTypeOK, Kinds
  <1>5. wants' \in [Procs -> SUBSET {"full", "partial"}]
    BY DEF StageDone, TypeOK, StartTypeOK
  <1> QED
    BY <1>3, <1>4, <1>5

LEMMA ExitType ==
  ASSUME TypeOK, NEW p \in Procs, Exit(p)
  PROVE  LockTypeOK' /\ StartTypeOK' /\ StmtTypeOK' /\ before' \in [Procs -> Nat \X Nat]
  <1>1. LockTypeOK'
    BY DEF TypeOK, LockTypeOK, Exit, DropAll
  <1>2. at' \in [Procs -> Lines]
    BY GotoType, LineSet DEF Exit
  <1>3. StartTypeOK'
    BY <1>2 DEF TypeOK, StartTypeOK, Exit, Kinds
  <1>4. StmtTypeOK'
    BY DEF TypeOK, StmtTypeOK, Exit
  <1>5. before' \in [Procs -> Nat \X Nat]
    BY DEF TypeOK, HistoryTypeOK, Exit
  <1> QED
    BY <1>1, <1>3, <1>4, <1>5


\* One step for each action of a process, and under it one for each part of
\* the type invariant that the action can disturb.
LEMMA TypeStep ==
  ASSUME OctoAssumption, TypeOK, NEW p \in Procs,
         StartStep(p) \/ QueryStep(p) \/ DdlStep(p) \/ Killed(p)
  PROVE  TypeOK'
  <1> USE DEF TypeOK
  <1>1. ASSUME Start(p) PROVE TypeOK'
    <2> USE <1>1 DEF Start
    <2>1. LockTypeOK' /\ DbTypeOK' /\ SchemaTypeOK' /\ StmtTypeOK'
      BY DEF LockTypeOK, DbTypeOK, SchemaTypeOK, StmtTypeOK, dbVars, lockVars, schemaVars, stmtVars
    <2>2. StartTypeOK'
      BY GotoType, LineSet DEF StartTypeOK, startVars
    <2>3. HistoryTypeOK'
      BY DEF HistoryTypeOK, history, bounds
    <2> QED
      BY <2>1, <2>2, <2>3
  <1>2. ASSUME Check(p) PROVE TypeOK'
    <2> USE <1>2 DEF Check
    <2>1. DbTypeOK' /\ SchemaTypeOK'
      BY DEF DbTypeOK, SchemaTypeOK, dbVars, schemaVars
    <2>2. LockTypeOK'
      BY ExitType DEF LockTypeOK, lockVars
    <2>3. StartTypeOK'
      BY GotoType, ExitType, LineSet DEF StartTypeOK, startVars
    <2>4. StmtTypeOK'
      BY ExitType DEF StmtTypeOK, stmtVars
    <2>5. HistoryTypeOK'
      BY ExitType DEF HistoryTypeOK, history, bounds
    <2> QED
      BY <2>1, <2>2, <2>3, <2>4, <2>5
  <1>3. ASSUME Look(p) PROVE TypeOK'
    <2> USE <1>3 DEF Look
    <2>1. LockTypeOK' /\ DbTypeOK' /\ SchemaTypeOK' /\ StmtTypeOK' /\ HistoryTypeOK'
      BY DEF LockTypeOK, DbTypeOK, SchemaTypeOK, StmtTypeOK, HistoryTypeOK, bounds, dbVars, history, lockVars, schemaVars, stmtVars
    <2>2. StartTypeOK'
      <3>1. stage[p] \in Kinds
        BY DEF StartTypeOK
      <3>2. wants' \in [Procs -> SUBSET {"full", "partial"}]
        BY <3>1, WantsAfterType, StageDoneType DEF StartTypeOK
      <3>3. at' \in [Procs -> Lines]
        BY GotoType, StageDoneType, LineSet DEF FirstWork
      <3>4. stage' \in [Procs -> Kinds] /\ octo929' \subseteq Procs
        BY StageDoneType DEF StartTypeOK
      <3> QED
        BY <3>2, <3>3, <3>4 DEF StartTypeOK
    <2> QED
      BY <2>1, <2>2
  <1>4. ASSUME LockDdl(p) PROVE TypeOK'
    <2> USE <1>4 DEF LockDdl
    <2>1. DbTypeOK' /\ SchemaTypeOK' /\ StmtTypeOK' /\ HistoryTypeOK'
      BY DEF DbTypeOK, SchemaTypeOK, StmtTypeOK, HistoryTypeOK, bounds, dbVars, history, schemaVars, stmtVars
    <2>2. LockTypeOK'
      BY GrabType DEF LockTypeOK, TakeDdl, lockVars
    <2>3. StartTypeOK'
      BY GotoType, LineSet DEF StartTypeOK, startVars
    <2> QED
      BY <2>1, <2>2, <2>3
  <1>5. ASSUME LockDdlTimeout(p) PROVE TypeOK'
    <2> USE <1>5 DEF LockDdlTimeout
    <2>1. DbTypeOK' /\ SchemaTypeOK'
      BY DEF DbTypeOK, SchemaTypeOK, dbVars, schemaVars
    <2>2. LockTypeOK'
      BY ExitType DEF LockTypeOK, lockVars
    <2>3. StartTypeOK'
      BY ExitType DEF StartTypeOK, startVars
    <2>4. StmtTypeOK'
      BY ExitType DEF StmtTypeOK, stmtVars
    <2>5. HistoryTypeOK'
      BY ExitType DEF HistoryTypeOK, history, bounds
    <2> QED
      BY <2>1, <2>2, <2>3, <2>4, <2>5
  <1>6. ASSUME Work(p) PROVE TypeOK'
    <2> USE <1>6 DEF Work
    <2>1. LockTypeOK' /\ SchemaTypeOK' /\ StmtTypeOK'
      BY DEF LockTypeOK, SchemaTypeOK, StmtTypeOK, lockVars, schemaVars, stmtVars
    <2>2. DbTypeOK'
      BY DEF DbTypeOK, Ages, Kinds, dbVars
    <2>3. StartTypeOK'
      BY GotoType, LineSet DEF StartTypeOK, startVars
    <2>4. HistoryTypeOK'
      BY DEF HistoryTypeOK, history, bounds
    <2> QED
      BY <2>1, <2>2, <2>3, <2>4
  <1>7. ASSUME WorkDone(p) PROVE TypeOK'
    <2> USE <1>7 DEF WorkDone
    <2>1. LockTypeOK' /\ StmtTypeOK'
      BY DEF LockTypeOK, StmtTypeOK, lockVars, stmtVars
    <2>2. DbTypeOK'
      BY DEF DbTypeOK, Ages, Kinds, dbVars
    <2>3. SchemaTypeOK'
      BY DEF SchemaTypeOK, schemaVars
    <2>4. StartTypeOK'
      BY GotoType, LineSet DEF StartTypeOK, AfterSeed, startVars
    <2>5. HistoryTypeOK'
      BY DEF HistoryTypeOK, history, bounds
    <2> QED
      BY <2>1, <2>2, <2>3, <2>4, <2>5
  <1>8. ASSUME Upgrade(p) PROVE TypeOK'
    <2> USE <1>8 DEF Upgrade
    <2>1. LockTypeOK' /\ SchemaTypeOK' /\ StmtTypeOK' /\ HistoryTypeOK'
      BY DEF LockTypeOK, SchemaTypeOK, StmtTypeOK, HistoryTypeOK, bounds, history, lockVars, schemaVars, stmtVars
    <2>2. DbTypeOK'
      BY DEF DbTypeOK, Ages, Kinds, dbVars
    <2>3. StartTypeOK'
      BY GotoType, LineSet DEF StartTypeOK, startVars
    <2> QED
      BY <2>1, <2>2, <2>3
  <1>9. ASSUME UpgradeDone(p) PROVE TypeOK'
    <2> USE <1>9 DEF UpgradeDone
    <2>1. LockTypeOK' /\ SchemaTypeOK' /\ StmtTypeOK' /\ HistoryTypeOK'
      BY DEF LockTypeOK, SchemaTypeOK, StmtTypeOK, HistoryTypeOK, bounds, history, lockVars, schemaVars, stmtVars
    <2>2. DbTypeOK'
      BY DEF DbTypeOK, Ages, Kinds, dbVars
    <2>3. StartTypeOK'
      BY GotoType, LineSet DEF StartTypeOK, startVars
    <2> QED
      BY <2>1, <2>2, <2>3
  <1>10. ASSUME MarkBin(p) PROVE TypeOK'
    <2> USE <1>10 DEF MarkBin
    <2>1. LockTypeOK' /\ SchemaTypeOK' /\ StmtTypeOK' /\ HistoryTypeOK'
      BY DEF LockTypeOK, SchemaTypeOK, StmtTypeOK, HistoryTypeOK, bounds, history, lockVars, schemaVars, stmtVars
    <2>2. DbTypeOK'
      BY DEF DbTypeOK, Formats, Kinds, dbVars
    <2>3. StartTypeOK'
      BY GotoType, LineSet DEF StartTypeOK, startVars
    <2> QED
      BY <2>1, <2>2, <2>3
  <1>11. ASSUME Mark(p) PROVE TypeOK'
    <2> USE <1>11 DEF Mark
    <2>1. LockTypeOK' /\ SchemaTypeOK' /\ StmtTypeOK' /\ HistoryTypeOK'
      BY DEF LockTypeOK, SchemaTypeOK, StmtTypeOK, HistoryTypeOK, bounds, history, lockVars, schemaVars, stmtVars
    <2>2. DbTypeOK'
      BY DEF DbTypeOK, Formats, StartTypeOK, dbVars
    <2>3. StartTypeOK'
      BY GotoType, LineSet DEF StartTypeOK, startVars
    <2> QED
      BY <2>1, <2>2, <2>3
  <1>12. ASSUME Unlock(p) PROVE TypeOK'
    <2> USE <1>12 DEF Unlock
    <2>1. DbTypeOK' /\ SchemaTypeOK' /\ StmtTypeOK' /\ HistoryTypeOK'
      BY DEF DbTypeOK, SchemaTypeOK, StmtTypeOK, HistoryTypeOK, bounds, dbVars, history, schemaVars, stmtVars
    <2>2. LockTypeOK'
      BY DropType DEF LockTypeOK, lockVars
    <2>3. StartTypeOK'
      BY StageDoneType DEF StartTypeOK, startVars
    <2> QED
      BY <2>1, <2>2, <2>3
  <1>13. ASSUME Killed(p) PROVE TypeOK'
    <2> USE <1>13 DEF Killed
    <2>1. DbTypeOK' /\ SchemaTypeOK'
      BY DEF DbTypeOK, SchemaTypeOK, dbVars, schemaVars
    <2>2. LockTypeOK'
      BY ExitType DEF LockTypeOK, lockVars
    <2>3. StartTypeOK'
      BY ExitType DEF StartTypeOK, startVars
    <2>4. StmtTypeOK'
      BY ExitType DEF StmtTypeOK, stmtVars
    <2>5. HistoryTypeOK'
      BY ExitType DEF HistoryTypeOK, history, bounds
    <2> QED
      BY <2>1, <2>2, <2>3, <2>4, <2>5
  <1>14. ASSUME Peek(p) PROVE TypeOK'
    <2> USE <1>14 DEF Peek
    <2>1. LockTypeOK' /\ DbTypeOK' /\ SchemaTypeOK' /\ StartTypeOK' /\ HistoryTypeOK'
      BY DEF LockTypeOK, DbTypeOK, SchemaTypeOK, StartTypeOK, HistoryTypeOK, bounds, dbVars, history, lockVars, schemaVars, startVars
    <2>2. StmtTypeOK'
      BY FindTableType DEF StmtTypeOK, stmtVars
    <2> QED
      BY <2>1, <2>2
  <1>15. ASSUME Share(p) PROVE TypeOK'
    <2> USE <1>15 DEF Share
    <2>1. DbTypeOK' /\ SchemaTypeOK' /\ StmtTypeOK' /\ HistoryTypeOK'
      BY DEF DbTypeOK, SchemaTypeOK, StmtTypeOK, HistoryTypeOK, bounds, dbVars, history, schemaVars, stmtVars
    <2>2. LockTypeOK'
      BY GrabType DEF LockTypeOK, lockVars
    <2>3. StartTypeOK'
      BY GotoType, LineSet DEF StartTypeOK, startVars
    <2> QED
      BY <2>1, <2>2, <2>3
  <1>16. ASSUME ShareTimeout(p) PROVE TypeOK'
    <2> USE <1>16 DEF ShareTimeout
    <2>1. LockTypeOK' /\ DbTypeOK' /\ SchemaTypeOK' /\ HistoryTypeOK'
      BY DEF LockTypeOK, DbTypeOK, SchemaTypeOK, HistoryTypeOK, bounds, dbVars, history, lockVars, schemaVars
    <2>2. StartTypeOK'
      BY EndStmtType DEF StartTypeOK, startVars
    <2>3. StmtTypeOK'
      BY EndStmtType DEF StmtTypeOK, stmtVars
    <2> QED
      BY <2>1, <2>2, <2>3
  <1>17. ASSUME Parse(p) PROVE TypeOK'
    <2> USE <1>17 DEF Parse
    <2>1. DbTypeOK' /\ SchemaTypeOK' /\ HistoryTypeOK'
      BY DEF DbTypeOK, SchemaTypeOK, HistoryTypeOK, bounds, dbVars, history, schemaVars
    <2>2. LockTypeOK'
      BY DropType DEF LockTypeOK, lockVars
    <2>3. StartTypeOK'
      BY GotoType, EndStmtType, LineSet DEF StartTypeOK, startVars
    <2>4. StmtTypeOK'
      BY EndStmtType, FindTableType, FoundType DEF StmtTypeOK, stmtVars
    <2> QED
      BY <2>1, <2>2, <2>3, <2>4
  <1>18. ASSUME Plan(p) PROVE TypeOK'
    <2> USE <1>18 DEF Plan
    <2>1. LockTypeOK' /\ DbTypeOK' /\ StmtTypeOK' /\ HistoryTypeOK'
      BY DEF LockTypeOK, DbTypeOK, StmtTypeOK, HistoryTypeOK, bounds, dbVars, history, lockVars, stmtVars
    <2>2. SchemaTypeOK'
      BY DEF SchemaTypeOK, StmtTypeOK, schemaVars
    <2>3. StartTypeOK'
      BY GotoType, LineSet DEF StartTypeOK, startVars
    <2> QED
      BY <2>1, <2>2, <2>3
  <1>19. ASSUME Run(p) PROVE TypeOK'
    <2> USE <1>19 DEF Run
    <2>1. DbTypeOK' /\ SchemaTypeOK' /\ HistoryTypeOK'
      BY DEF DbTypeOK, SchemaTypeOK, HistoryTypeOK, bounds, dbVars, history, schemaVars
    <2>2. LockTypeOK'
      BY DropType DEF LockTypeOK, lockVars
    <2>3. StartTypeOK'
      BY EndStmtType DEF StartTypeOK, startVars
    <2>4. StmtTypeOK'
      BY EndStmtType DEF StmtTypeOK, stmtVars
    <2> QED
      BY <2>1, <2>2, <2>3, <2>4
  <1>20. ASSUME Show(p) PROVE TypeOK'
    <2> USE <1>20 DEF Show
    <2>1. DbTypeOK' /\ SchemaTypeOK' /\ HistoryTypeOK'
      BY DEF DbTypeOK, SchemaTypeOK, HistoryTypeOK, bounds, dbVars, history, schemaVars
    <2>2. LockTypeOK'
      BY DropType DEF LockTypeOK, lockVars
    <2>3. StartTypeOK'
      BY EndStmtType DEF StartTypeOK, startVars
    <2>4. StmtTypeOK'
      BY EndStmtType DEF StmtTypeOK, stmtVars
    <2> QED
      BY <2>1, <2>2, <2>3, <2>4
  <1>21. ASSUME Unshare(p) PROVE TypeOK'
    <2> USE <1>21 DEF Unshare
    <2>1. DbTypeOK' /\ SchemaTypeOK' /\ StmtTypeOK' /\ HistoryTypeOK'
      BY DEF DbTypeOK, SchemaTypeOK, StmtTypeOK, HistoryTypeOK, bounds, dbVars, history, schemaVars, stmtVars
    <2>2. LockTypeOK'
      BY DropType DEF LockTypeOK, lockVars
    <2>3. StartTypeOK'
      BY GotoType, LineSet DEF StartTypeOK, startVars
    <2> QED
      BY <2>1, <2>2, <2>3
  <1>22. ASSUME Exclude(p) PROVE TypeOK'
    <2> USE <1>22 DEF Exclude
    <2>1. DbTypeOK' /\ SchemaTypeOK' /\ StmtTypeOK' /\ HistoryTypeOK'
      BY DEF DbTypeOK, SchemaTypeOK, StmtTypeOK, HistoryTypeOK, bounds, dbVars, history, schemaVars, stmtVars
    <2>2. LockTypeOK'
      BY GrabType DEF LockTypeOK, TakeDdl, lockVars
    <2>3. StartTypeOK'
      BY GotoType, LineSet DEF StartTypeOK, startVars
    <2> QED
      BY <2>1, <2>2, <2>3
  <1>23. ASSUME ExcludeTimeout(p) PROVE TypeOK'
    <2> USE <1>23 DEF ExcludeTimeout
    <2>1. LockTypeOK' /\ DbTypeOK' /\ SchemaTypeOK' /\ HistoryTypeOK'
      BY DEF LockTypeOK, DbTypeOK, SchemaTypeOK, HistoryTypeOK, bounds, dbVars, history, lockVars, schemaVars
    <2>2. StartTypeOK'
      BY EndStmtType DEF StartTypeOK, startVars
    <2>3. StmtTypeOK'
      BY EndStmtType DEF StmtTypeOK, stmtVars
    <2> QED
      BY <2>1, <2>2, <2>3
  <1>24. ASSUME Recheck(p) PROVE TypeOK'
    <2> USE <1>24 DEF Recheck
    <2>1. DbTypeOK' /\ SchemaTypeOK' /\ HistoryTypeOK'
      BY DEF DbTypeOK, SchemaTypeOK, HistoryTypeOK, bounds, dbVars, history, schemaVars
    <2>2. LockTypeOK'
      BY DropType DEF LockTypeOK, Refuse, lockVars
    <2>3. StartTypeOK'
      BY GotoType, EndStmtType, LineSet DEF StartTypeOK, Refuse, startVars
    <2>4. StmtTypeOK'
      BY EndStmtType, FindTableType DEF StmtTypeOK, Refuse, stmtVars
    <2> QED
      BY <2>1, <2>2, <2>3, <2>4
  <1>25. ASSUME Catalog(p) PROVE TypeOK'
    <2> USE <1>25 DEF Catalog
    <2>1. LockTypeOK' /\ DbTypeOK' /\ StmtTypeOK' /\ HistoryTypeOK'
      BY DEF LockTypeOK, DbTypeOK, StmtTypeOK, HistoryTypeOK, bounds, dbVars, history, lockVars, stmtVars
    <2>2. SchemaTypeOK'
      <3>1. {catalog', defn', plan', view', nextOid'} \subseteq Nat
        BY DEF SchemaTypeOK, StmtTypeOK
      <3>2. named' \in BOOLEAN /\ depends' \in BOOLEAN
        BY DEF SchemaTypeOK
      <3> QED
        BY <3>1, <3>2 DEF SchemaTypeOK
    <2>3. StartTypeOK'
      BY GotoType, LineSet DEF StartTypeOK, startVars
    <2> QED
      BY <2>1, <2>2, <2>3
  <1>26. ASSUME Define(p) PROVE TypeOK'
    <2> USE <1>26 DEF Define
    <2>1. DbTypeOK' /\ HistoryTypeOK'
      BY DEF DbTypeOK, HistoryTypeOK, bounds, dbVars, history
    <2>2. LockTypeOK'
      BY DropType DEF LockTypeOK, lockVars
    <2>3. SchemaTypeOK'
      <3>1. {catalog', defn', plan', view', nextOid'} \subseteq Nat
        BY DEF SchemaTypeOK, StmtTypeOK
      <3>2. named' \in BOOLEAN /\ depends' \in BOOLEAN
        BY DEF SchemaTypeOK
      <3> QED
        BY <3>1, <3>2 DEF SchemaTypeOK
    <2>4. StartTypeOK'
      BY EndStmtType DEF StartTypeOK, startVars
    <2>5. StmtTypeOK'
      BY EndStmtType DEF StmtTypeOK, stmtVars
    <2> QED
      BY <2>1, <2>2, <2>3, <2>4, <2>5
  <1>27. ASSUME Discard(p) PROVE TypeOK'
    <2> USE <1>27 DEF Discard
    <2>1. LockTypeOK' /\ DbTypeOK' /\ StmtTypeOK' /\ HistoryTypeOK'
      BY DEF LockTypeOK, DbTypeOK, StmtTypeOK, HistoryTypeOK, bounds, dbVars, history, lockVars, stmtVars
    <2>2. SchemaTypeOK'
      <3>1. {catalog', defn', plan', view', nextOid'} \subseteq Nat
        BY DEF SchemaTypeOK, StmtTypeOK
      <3>2. named' \in BOOLEAN /\ depends' \in BOOLEAN
        BY DEF SchemaTypeOK
      <3> QED
        BY <3>1, <3>2 DEF SchemaTypeOK
    <2>3. StartTypeOK'
      BY GotoType, LineSet DEF StartTypeOK, startVars
    <2> QED
      BY <2>1, <2>2, <2>3
  <1>28. ASSUME Undefine(p) PROVE TypeOK'
    <2> USE <1>28 DEF Undefine
    <2>1. DbTypeOK' /\ HistoryTypeOK'
      BY DEF DbTypeOK, HistoryTypeOK, bounds, dbVars, history
    <2>2. LockTypeOK'
      BY DropType DEF LockTypeOK, lockVars
    <2>3. SchemaTypeOK'
      <3>1. {catalog', defn', plan', view', nextOid'} \subseteq Nat
        BY DEF SchemaTypeOK, StmtTypeOK
      <3>2. named' \in BOOLEAN /\ depends' \in BOOLEAN
        BY DEF SchemaTypeOK
      <3> QED
        BY <3>1, <3>2 DEF SchemaTypeOK
    <2>4. StartTypeOK'
      BY EndStmtType DEF StartTypeOK, startVars
    <2>5. StmtTypeOK'
      BY EndStmtType DEF StmtTypeOK, stmtVars
    <2> QED
      BY <2>1, <2>2, <2>3, <2>4, <2>5
  <1>29. ASSUME DdlFails(p) PROVE TypeOK'
    <2> USE <1>29 DEF DdlFails
    <2>1. DbTypeOK' /\ SchemaTypeOK'
      BY DEF DbTypeOK, SchemaTypeOK, dbVars, schemaVars
    <2>2. LockTypeOK'
      BY DropType DEF LockTypeOK, lockVars
    <2>3. StartTypeOK'
      BY EndStmtType DEF StartTypeOK, startVars
    <2>4. StmtTypeOK'
      BY EndStmtType DEF StmtTypeOK, stmtVars
    <2>5. HistoryTypeOK'
      BY DEF HistoryTypeOK, history, bounds
    <2> QED
      BY <2>1, <2>2, <2>3, <2>4, <2>5
  <1> QED
    BY <1>1, <1>2, <1>3, <1>4, <1>5, <1>6, <1>7, <1>8, <1>9, <1>10, <1>11, <1>12, <1>13, <1>14, <1>15, <1>16, <1>17, <1>18, <1>19, <1>20, <1>21, <1>22, <1>23, <1>24, <1>25, <1>26, <1>27, <1>28, <1>29
       DEF StartStep, QueryStep, DdlStep

LEMMA TypeNext == ASSUME OctoAssumption, TypeOK, [Next]_vars PROVE TypeOK'
  <1>1. ASSUME NEW p \in Procs, StartStep(p) \/ QueryStep(p) \/ DdlStep(p) \/ Killed(p)
        PROVE  TypeOK'
    BY <1>1, TypeStep
  <1>2. ASSUME NEW p \in Procs, NEW s \in Statements, Ask(p, s) PROVE TypeOK'
    <2> USE <1>2 DEF TypeOK, Ask
    <2>1. LockTypeOK' /\ DbTypeOK' /\ SchemaTypeOK'
      BY DEF LockTypeOK, DbTypeOK, SchemaTypeOK, lockVars, dbVars, schemaVars
    <2>2. StartTypeOK'
      BY GotoType, LineSet DEF StartTypeOK, startVars
    <2>3. StmtTypeOK'
      BY DEF StmtTypeOK
    <2>4. HistoryTypeOK'
      <3>1. shared[p] \in Nat /\ excl[p] \in Nat
        BY DEF LockTypeOK
      <3> QED
        BY <3>1 DEF HistoryTypeOK
    <2> QED
      BY <2>1, <2>2, <2>3, <2>4
  <1>3. ASSUME NEW p \in Procs, NEW q \in Procs, Fork(p, q) PROVE TypeOK'
    <2> USE <1>3 DEF TypeOK, Fork
    <2>1. LockTypeOK' /\ DbTypeOK' /\ SchemaTypeOK'
      BY DEF LockTypeOK, DbTypeOK, SchemaTypeOK, lockVars, dbVars, schemaVars
    <2>2. StartTypeOK'
      BY GotoType, LineSet DEF StartTypeOK
    <2>3. StmtTypeOK'
      BY DEF StmtTypeOK
    <2>4. HistoryTypeOK'
      BY DEF HistoryTypeOK
    <2> QED
      BY <2>1, <2>2, <2>3, <2>4
  <1>4. ASSUME UNCHANGED vars PROVE TypeOK'
    BY <1>4 DEF TypeOK, LockTypeOK, DbTypeOK, SchemaTypeOK, StartTypeOK, StmtTypeOK, HistoryTypeOK,
                vars, lockVars, dbVars, schemaVars, startVars, stmtVars, history, bounds
  <1> QED
    BY <1>1, <1>2, <1>3, <1>4 DEF Next

\* Every variable of the database and of the processes keeps its type, for any
\* processes and bounds.
THEOREM TypeCorrect == Spec => []TypeOK
  <1>1. Init => TypeOK
    BY TypeInit, OctoAssumption
  <1>2. TypeOK /\ [Next]_vars => TypeOK'
    BY TypeNext, OctoAssumption
  <1> QED
    BY <1>1, <1>2, PTL DEF Spec

----------------------------------------------------------------------------
(* Locking.  Who reads or changes the schema holds the lock for it, and    *)
(* the exclusive lock leaves no other lock beside it.                      *)

Covered ==
    /\ \A p \in Procs : at[p] \in Changing => excl[p] > 0
    /\ \A p \in Procs : at[p] \in Reading => shared[p] > 0
Alone ==
    \A p \in Procs : excl[p] > 0 =>
        \A q \in Procs \ {p} : excl[q] = 0 /\ shared[q] = 0
LockInv == Covered /\ Alone

\* What a step means for the locks and for the use of the schema.
Stays(p) ==
    /\ UNCHANGED lockVars
    /\ \E line \in Lines : Goto(p, line) /\ ModeOf(line) = ModeOf(at[p])
Fewer(p) ==
    \E s \in Nat, e \in Nat :
        /\ s <= shared[p] /\ e <= excl[p]
        /\ shared' = [shared EXCEPT ![p] = s] /\ excl' = [excl EXCEPT ![p] = e]
Leaves(p) ==
    /\ Fewer(p)
    /\ \E line \in Lines : Goto(p, line) /\ ModeOf(line) = "away"
ComesToRead(p) ==
    /\ ModeOf(at[p]) = "away" /\ GrabShared(p)
    /\ \E line \in Reading : Goto(p, line)
ComesToChange(p) ==
    /\ ModeOf(at[p]) = "away" /\ GrabExclusive(p)
    /\ \E line \in Changing : Goto(p, line)
Moves(p) == Stays(p) \/ Leaves(p) \/ ComesToRead(p) \/ ComesToChange(p)

LEMMA ModeTable ==
  /\ \A line \in Reading : ModeOf(line) = "reads"
  /\ \A line \in Changing : ModeOf(line) = "changes"
  /\ \A line \in {"off", "check", "look", "lock", "ready", "share", "ask"} :
        ModeOf(line) = "away"
  BY DEF ModeOf, Reading, Changing, StartChanges, DdlChanges

LEMMA ModeSplit ==
  ASSUME NEW line \in Lines
  PROVE  /\ ModeOf(line) = "reads" <=> line \in Reading
         /\ ModeOf(line) = "changes" <=> line \in Changing
  BY ModeTable DEF Lines, Reading, Changing, StartChanges, DdlChanges

LEMMA MoveKeepsLocks ==
  ASSUME TypeOK, LockInv, NEW p \in Procs, Moves(p)
  PROVE  LockInv'
  <1> USE DEF LockInv, Covered, Alone
  <1>1. /\ shared \in [Procs -> Nat] /\ excl \in [Procs -> Nat]
        /\ at \in [Procs -> Lines]
    BY DEF TypeOK, LockTypeOK, StartTypeOK
  <1>2. CASE Stays(p)
    <2>1. PICK line \in Lines : Goto(p, line) /\ ModeOf(line) = ModeOf(at[p])
      BY <1>2 DEF Stays
    <2>2. line \in Changing => at[p] \in Changing
      BY <1>1, <2>1, ModeSplit
    <2>3. line \in Reading => at[p] \in Reading
      BY <1>1, <2>1, ModeSplit
    <2> QED
      BY <1>1, <1>2, <2>1, <2>2, <2>3 DEF Stays, Goto, lockVars
  <1>3. CASE Leaves(p)
    <2>1. PICK line \in Lines : Goto(p, line) /\ ModeOf(line) = "away"
      BY <1>3 DEF Leaves
    <2>2. line \notin Changing /\ line \notin Reading
      BY <2>1, ModeSplit
    <2>3. PICK s \in Nat, e \in Nat :
            /\ s <= shared[p] /\ e <= excl[p]
            /\ shared' = [shared EXCEPT ![p] = s] /\ excl' = [excl EXCEPT ![p] = e]
      BY <1>3 DEF Leaves, Fewer
    <2>4. Covered'
      BY <1>1, <2>1, <2>2, <2>3 DEF Goto
    <2>5. Alone'
      BY <1>1, <2>3
    <2> QED
      BY <2>4, <2>5
  <1>4. CASE ComesToRead(p)
    <2>1. PICK line \in Reading : Goto(p, line)
      BY <1>4 DEF ComesToRead
    <2>2. line \notin Changing
      BY <2>1 DEF Reading, Changing, StartChanges, DdlChanges
    <2> QED
      BY <1>1, <1>4, <2>1, <2>2 DEF ComesToRead, GrabShared, Shareable, Goto
  <1>5. CASE ComesToChange(p)
    <2>1. PICK line \in Changing : Goto(p, line)
      BY <1>5 DEF ComesToChange
    <2>2. line \notin Reading
      BY <2>1 DEF Reading, Changing, StartChanges, DdlChanges
    <2> QED
      BY <1>1, <1>5, <2>1, <2>2 DEF ComesToChange, GrabExclusive, Excludable, Goto
  <1> QED
    BY <1>2, <1>3, <1>4, <1>5 DEF Moves

LEMMA DropIsFewer ==
  ASSUME TypeOK, NEW p \in Procs,
         DropShared(p) \/ DropExclusive(p) \/ DropAll(p) \/ UNCHANGED lockVars
  PROVE  Fewer(p)
  <1>1. /\ shared \in [Procs -> Nat] /\ excl \in [Procs -> Nat]
        /\ shared[p] \in Nat /\ excl[p] \in Nat
    BY DEF TypeOK, LockTypeOK
  <1>2. /\ shared = [shared EXCEPT ![p] = shared[p]]
        /\ excl = [excl EXCEPT ![p] = excl[p]]
    BY <1>1
  <1>3. CASE DropShared(p)
    <2>1. shared' = [shared EXCEPT ![p] = Less(shared[p])] /\ excl' = [excl EXCEPT ![p] = excl[p]]
      BY <1>2, <1>3 DEF DropShared
    <2>2. Less(shared[p]) \in Nat /\ Less(shared[p]) <= shared[p] /\ excl[p] <= excl[p]
      BY <1>1, LessType
    <2> QED
      BY <1>1, <2>1, <2>2 DEF Fewer
  <1>4. CASE DropExclusive(p)
    <2>1. excl' = [excl EXCEPT ![p] = Less(excl[p])] /\ shared' = [shared EXCEPT ![p] = shared[p]]
      BY <1>2, <1>4 DEF DropExclusive
    <2>2. Less(excl[p]) \in Nat /\ Less(excl[p]) <= excl[p] /\ shared[p] <= shared[p]
      BY <1>1, LessType
    <2> QED
      BY <1>1, <2>1, <2>2 DEF Fewer
  <1>5. CASE DropAll(p)
    <2>1. shared' = [shared EXCEPT ![p] = 0] /\ excl' = [excl EXCEPT ![p] = 0]
      BY <1>5 DEF DropAll
    <2>2. 0 <= shared[p] /\ 0 <= excl[p]
      BY <1>1
    <2> QED
      BY <2>1, <2>2 DEF Fewer
  <1>6. CASE UNCHANGED lockVars
    <2>1. shared' = [shared EXCEPT ![p] = shared[p]] /\ excl' = [excl EXCEPT ![p] = excl[p]]
      BY <1>2, <1>6 DEF lockVars
    <2>2. shared[p] <= shared[p] /\ excl[p] <= excl[p]
      BY <1>1
    <2> QED
      BY <1>1, <2>1, <2>2 DEF Fewer
  <1> QED
    BY <1>3, <1>4, <1>5, <1>6

LEMMA ExitLeaves ==
  ASSUME TypeOK, NEW p \in Procs, Exit(p) PROVE Leaves(p)
  BY DropIsFewer, LineSet, ModeTable DEF Exit, Leaves

LEMMA EndStmtLeaves ==
  ASSUME TypeOK, NEW p \in Procs, Fewer(p), EndStmt(p) PROVE Leaves(p)
  BY LineSet, ModeTable DEF EndStmt, Leaves

LEMMA StageDoneLeaves ==
  ASSUME TypeOK, NEW p \in Procs, Fewer(p), StageDone(p) PROVE Leaves(p)
  <1>1. stage[p] \in {"plan", "seed", "bin"}
    BY DEF TypeOK, StartTypeOK, Kinds
  <1>2. Goto(p, "look") \/ Goto(p, "ready")
    BY <1>1 DEF StageDone
  <1> QED
    BY <1>2, LineSet, ModeTable DEF Leaves

\* Every step of a process is one of these moves, or changes neither locks nor place.
LEMMA StepMoves ==
  ASSUME TypeOK, NEW p \in Procs,
         StartStep(p) \/ QueryStep(p) \/ DdlStep(p) \/ Killed(p)
  PROVE  Moves(p) \/ UNCHANGED <<lockVars, at>>
  <1> USE DEF Moves
  <1>1. ASSUME Start(p) PROVE Moves(p)
    BY <1>1, LineSet, ModeTable DEF Start, Stays
  <1>2. ASSUME Check(p) PROVE Moves(p)
    BY <1>2, ExitLeaves, LineSet, ModeTable DEF Check, Stays
  <1>3. ASSUME Look(p) PROVE Moves(p)
    <2>1. CASE StageDone(p)
      BY <1>3, <2>1, DropIsFewer, StageDoneLeaves DEF Look
    <2>2. CASE at[p] = "look" /\ Goto(p, "lock")
      BY <1>3, <2>2, LineSet, ModeTable DEF Look, Stays
    <2>3. CASE at[p] = "again" /\ Goto(p, FirstWork(p))
      <3>1. FirstWork(p) \in Changing /\ at[p] \in Changing
        BY <2>3 DEF FirstWork, Changing, StartChanges
      <3>2. FirstWork(p) \in Lines
        BY <3>1 DEF Lines
      <3> QED
        BY <1>3, <2>3, <3>1, <3>2, ModeTable DEF Look, Stays
    <2> QED
      BY <1>3, <2>1, <2>2, <2>3 DEF Look
  <1>4. ASSUME LockDdl(p) PROVE Moves(p)
    BY <1>4, LineSet, ModeTable DEF LockDdl, TakeDdl, ComesToChange, Changing, StartChanges
  <1>5. ASSUME LockDdlTimeout(p) PROVE Moves(p)
    BY <1>5, ExitLeaves DEF LockDdlTimeout
  <1>6. ASSUME Work(p) PROVE Moves(p)
    BY <1>6, LineSet, ModeTable DEF Work, Stays, Changing, StartChanges
  <1>7. ASSUME WorkDone(p) PROVE Moves(p)
    BY <1>7, LineSet, ModeTable DEF WorkDone, AfterSeed, Stays, Changing, StartChanges
  <1>8. ASSUME Upgrade(p) PROVE Moves(p)
    BY <1>8, LineSet, ModeTable DEF Upgrade, Stays, Changing, StartChanges
  <1>9. ASSUME UpgradeDone(p) PROVE Moves(p)
    BY <1>9, LineSet, ModeTable DEF UpgradeDone, Stays, Changing, StartChanges
  <1>10. ASSUME MarkBin(p) PROVE Moves(p)
    BY <1>10, LineSet, ModeTable DEF MarkBin, Stays, Changing, StartChanges
  <1>11. ASSUME Mark(p) PROVE Moves(p)
    BY <1>11, LineSet, ModeTable DEF Mark, Stays, Changing, StartChanges
  <1>12. ASSUME Unlock(p) PROVE Moves(p)
    BY <1>12, DropIsFewer, StageDoneLeaves DEF Unlock
  <1>13. ASSUME Killed(p) PROVE Moves(p)
    BY <1>13, ExitLeaves DEF Killed
  <1>14. ASSUME Peek(p) PROVE Moves(p) \/ UNCHANGED <<lockVars, at>>
    BY <1>14 DEF Peek
  <1>15. ASSUME Share(p) PROVE Moves(p)
    BY <1>15, LineSet, ModeTable DEF Share, ComesToRead, Reading
  <1>16. ASSUME ShareTimeout(p) PROVE Moves(p)
    BY <1>16, DropIsFewer, EndStmtLeaves DEF ShareTimeout
  <1>17. ASSUME Parse(p) PROVE Moves(p)
    BY <1>17, DropIsFewer, EndStmtLeaves, LineSet, ModeTable DEF Parse, Stays, Reading
  <1>18. ASSUME Plan(p) PROVE Moves(p)
    BY <1>18, LineSet, ModeTable DEF Plan, Stays, Reading
  <1>19. ASSUME Run(p) PROVE Moves(p)
    BY <1>19, DropIsFewer, EndStmtLeaves DEF Run
  <1>20. ASSUME Show(p) PROVE Moves(p)
    BY <1>20, DropIsFewer, EndStmtLeaves DEF Show
  <1>21. ASSUME Unshare(p) PROVE Moves(p)
    BY <1>21, DropIsFewer, LineSet, ModeTable DEF Unshare, Leaves
  <1>22. ASSUME Exclude(p) PROVE Moves(p)
    BY <1>22, LineSet, ModeTable DEF Exclude, TakeDdl, ComesToChange, Changing, DdlChanges
  <1>23. ASSUME ExcludeTimeout(p) PROVE Moves(p)
    BY <1>23, DropIsFewer, EndStmtLeaves DEF ExcludeTimeout
  <1>24. ASSUME Recheck(p) PROVE Moves(p)
    BY <1>24, DropIsFewer, EndStmtLeaves, LineSet, ModeTable DEF Recheck, Refuse, Stays, Changing, DdlChanges
  <1>25. ASSUME Catalog(p) PROVE Moves(p)
    BY <1>25, LineSet, ModeTable DEF Catalog, Stays, Changing, DdlChanges
  <1>26. ASSUME Define(p) PROVE Moves(p)
    BY <1>26, DropIsFewer, EndStmtLeaves DEF Define
  <1>27. ASSUME Discard(p) PROVE Moves(p)
    BY <1>27, LineSet, ModeTable DEF Discard, Stays, Changing, DdlChanges
  <1>28. ASSUME Undefine(p) PROVE Moves(p)
    BY <1>28, DropIsFewer, EndStmtLeaves DEF Undefine
  <1>29. ASSUME DdlFails(p) PROVE Moves(p)
    BY <1>29, DropIsFewer, EndStmtLeaves DEF DdlFails
  <1> QED
    BY <1>1, <1>2, <1>3, <1>4, <1>5, <1>6, <1>7, <1>8, <1>9, <1>10, <1>11, <1>12, <1>13, <1>14, <1>15, <1>16, <1>17, <1>18, <1>19, <1>20, <1>21, <1>22, <1>23, <1>24, <1>25, <1>26, <1>27, <1>28, <1>29
       DEF StartStep, QueryStep, DdlStep

LEMMA NextMoves ==
  ASSUME OctoAssumption, TypeOK, [Next]_vars
  PROVE  (\E p \in Procs : Moves(p)) \/ UNCHANGED <<lockVars, at>>
  <1>1. ASSUME NEW p \in Procs, NEW s \in Statements, Ask(p, s) PROVE Moves(p)
    BY <1>1, LineSet, ModeTable DEF Ask, Moves, Stays
  <1>2. ASSUME NEW p \in Procs, NEW q \in Procs, Fork(p, q) PROVE Moves(q)
    BY <1>2, LineSet, ModeTable DEF Fork, Moves, Stays
  <1>3. ASSUME UNCHANGED vars PROVE UNCHANGED <<lockVars, at>>
    BY <1>3 DEF vars, lockVars
  <1> QED
    BY <1>1, <1>2, <1>3, StepMoves DEF Next

LEMMA LockInitial == ASSUME Init PROVE LockInv
  <1>1. \A p \in Procs : at[p] = "off" /\ shared[p] = 0 /\ excl[p] = 0
    BY DEF Init, LockInit, NoLocks
  <1> QED
    BY <1>1 DEF LockInv, Covered, Alone, Reading, Changing, StartChanges, DdlChanges

LEMMA LockNext ==
  ASSUME OctoAssumption, TypeOK, LockInv, [Next]_vars
  PROVE  LockInv'
  <1>1. ASSUME UNCHANGED <<lockVars, at>> PROVE LockInv'
    BY <1>1 DEF lockVars, LockInv, Covered, Alone
  <1> QED
    BY <1>1, NextMoves, MoveKeepsLocks

\* Whoever reads or changes the schema holds the lock for it, and nobody holds
\* any lock beside the exclusive one.
THEOREM LocksHold == Spec => []LockInv
  <1>1. Init => LockInv
    BY LockInitial
  <1>2. TypeOK /\ LockInv /\ [Next]_vars => LockInv'
    BY LockNext, OctoAssumption
  <1> QED
    BY <1>1, <1>2, TypeCorrect, PTL DEF Spec

LEMMA AccessInitial == ASSUME Init PROVE Access!Init
  <1>1. at = [p \in Procs |-> "off"]
    BY DEF Init
  <1> QED
    BY <1>1, ModeTable DEF Access!Init, Modes

LEMMA MoveIsAccess ==
  ASSUME TypeOK, LockInv, NEW p \in Procs, Moves(p)
  PROVE  Access!Next \/ UNCHANGED Modes
  <1>1. at \in [Procs -> Lines] /\ shared \in [Procs -> Nat] /\ excl \in [Procs -> Nat]
    BY DEF TypeOK, StartTypeOK, LockTypeOK
  <1>2. ASSUME NEW line \in Lines, Goto(p, line)
        PROVE  Modes' = [Modes EXCEPT ![p] = ModeOf(line)]
    BY <1>1, <1>2 DEF Goto, Modes
  <1>3. CASE Stays(p)
    <2>1. PICK line \in Lines : Goto(p, line) /\ ModeOf(line) = ModeOf(at[p])
      BY <1>3 DEF Stays
    <2> QED
      BY <1>1, <1>2, <2>1 DEF Modes
  <1>4. CASE Leaves(p)
    <2>1. PICK line \in Lines : Goto(p, line) /\ ModeOf(line) = "away"
      BY <1>4 DEF Leaves
    <2> QED
      BY <1>2, <2>1 DEF Access!Next, Access!Leave, Access!Becomes
  <1>5. CASE ComesToRead(p)
    <2>1. PICK line \in Reading : Goto(p, line)
      BY <1>5 DEF ComesToRead
    <2>2. line \in Lines /\ ModeOf(line) = "reads" /\ ModeOf(at[p]) = "away"
      BY <1>5, <2>1, ModeTable DEF ComesToRead, Lines
    <2>3. ASSUME NEW q \in Procs \ {p} PROVE ModeOf(at[q]) # "changes"
      <3>1. at[q] \notin Changing
        BY <1>1, <1>5 DEF ComesToRead, GrabShared, Shareable, LockInv, Covered
      <3> QED
        BY <1>1, <3>1, ModeSplit
    <2>4. Access!Read(p)
      BY <1>2, <2>1, <2>2, <2>3 DEF Access!Read, Access!Becomes, Modes
    <2> QED
      BY <2>4 DEF Access!Next
  <1>6. CASE ComesToChange(p)
    <2>1. PICK line \in Changing : Goto(p, line)
      BY <1>6 DEF ComesToChange
    <2>2. line \in Lines /\ ModeOf(line) = "changes" /\ ModeOf(at[p]) = "away"
      BY <1>6, <2>1, ModeTable DEF ComesToChange, Lines
    <2>3. ASSUME NEW q \in Procs \ {p} PROVE ModeOf(at[q]) = "away"
      <3>1. at[q] \notin Changing /\ at[q] \notin Reading
        BY <1>1, <1>6 DEF ComesToChange, GrabExclusive, Excludable, LockInv, Covered
      <3>2. at[q] \in Lines
        BY <1>1
      <3> QED
        BY <3>1, <3>2, ModeTable DEF Lines
    <2>4. Access!Change(p)
      BY <1>2, <2>1, <2>2, <2>3 DEF Access!Change, Access!Becomes, Modes
    <2> QED
      BY <2>4 DEF Access!Next
  <1> QED
    BY <1>3, <1>4, <1>5, <1>6 DEF Moves

LEMMA NextIsAccess ==
  ASSUME OctoAssumption, TypeOK, LockInv, [Next]_vars
  PROVE  [Access!Next]_Modes
  <1>1. ASSUME UNCHANGED <<lockVars, at>>
        PROVE  UNCHANGED Modes
    BY <1>1 DEF Modes
  <1> QED
    BY <1>1, NextMoves, MoveIsAccess

\* The start-ups and the statements implement SchemaAccess: while one process
\* changes the schema no other reads or changes it.
THEOREM AccessImplemented == Spec => AccessSpec
  <1>1. Init => Access!Init
    BY AccessInitial
  <1>2. TypeOK /\ LockInv /\ [Next]_vars => [Access!Next]_Modes
    BY NextIsAccess, OctoAssumption
  <1> QED
    BY <1>1, <1>2, TypeCorrect, LocksHold, PTL DEF Spec, AccessSpec, Access!Spec

----------------------------------------------------------------------------
(* Marks.  What a start-up that holds the lock knows, at each place, of    *)
(* the numbers and of the work behind them; nobody else changes either.    *)

PlanInv(p) ==
    /\ at[p] \notin {"upgrade", "upgrading", "markbin"}
    /\ at[p] \in {"work", "working", "mark"} => fmt["plan"] # "now"
    /\ at[p] = "mark" => data["plan"] = "new"

\* A start-up that does not upgrade the definitions knows that nobody has to.
SeedInv(p) ==
    /\ "full" \in wants[p] => fmt["bin"] # "none"
    /\ at[p] \in {"work", "working", "upgrade", "upgrading", "markbin", "mark"} =>
        IF "full" \in wants[p] THEN fmt["seed"] # "now" ELSE data["bin"] = "new"
    /\ at[p] \in {"upgrade", "upgrading"} => "full" \in wants[p]
    /\ at[p] \in {"upgrade", "upgrading", "markbin", "mark"} => data["seed"] = "new"
    /\ at[p] \in {"markbin", "mark"} => data["bin"] = "new"
    /\ at[p] = "mark" => fmt["bin"] = "now"
    /\ at[p] = "unlock" => fmt["seed"] = "now"

BinInv(p) ==
    /\ at[p] \notin {"work", "working", "mark"}
    /\ at[p] \in {"upgrade", "upgrading", "markbin"} => fmt["bin"] # "now"
    /\ at[p] = "markbin" => data["bin"] = "new"
    /\ fmt["bin"] # "none"

StartInv(p) ==
    /\ "partial" \in wants[p] => stage[p] = "seed" /\ fmt["bin"] \in {"none", "now"}
    /\ stage[p] = "plan" => PlanInv(p)
    /\ stage[p] = "seed" => SeedInv(p)
    /\ stage[p] = "bin" => BinInv(p)

\* A database without a number of the definitions has no seed and none to upgrade.
Unused == fmt["bin"] = "none" => fmt["seed"] = "none" /\ data["bin"] = "new"

MarkInv == MarksTellTheTruth /\ Unused /\ \A p \in Procs : StartInv(p)

Places == {"work", "working", "upgrade", "upgrading", "markbin", "mark", "unlock"}

LEMMA MarkInitial == ASSUME OctoAssumption, Init PROVE MarkInv
  <1>1. \A p \in Procs : at[p] = "off" /\ stage[p] = "plan" /\ wants[p] = {}
    BY DEF Init
  <1>2. \A p \in Procs : StartInv(p)
    BY <1>1 DEF StartInv, PlanInv
  <1>3. PICK d \in Databases : fmt = FmtOf(d) /\ data = DataOf(d)
    BY DEF Init
  <1>4. d \in {"fresh", "unmarked", "pre929", "old", "now", "newer"}
    BY OctoAssumption DEF OctoAssumption
  <1>5. MarksTellTheTruth /\ Unused
    BY <1>3, <1>4 DEF MarksTellTheTruth, Unused, FmtOf, DataOf, Kinds
  <1> QED
    BY <1>2, <1>5 DEF MarkInv

\* A process that neither has the lock nor moves knows what it knew.
LEMMA OthersKeepMarks ==
  ASSUME MarkInv, NEW q \in Procs, at[q] \notin Places,
         at'[q] = at[q], stage'[q] = stage[q], wants'[q] = wants[q],
         fmt'["bin"] \in {fmt["bin"], "now"}
  PROVE  StartInv(q)'
  <1>1. StartInv(q)
    BY DEF MarkInv
  <1> QED
    BY <1>1 DEF StartInv, PlanInv, SeedInv, BinInv, Places

LEMMA OnlyOneChanges ==
  ASSUME TypeOK, LockInv, NEW p \in Procs, at[p] \in Changing, NEW q \in Procs \ {p}
  PROVE  at[q] \notin Places
  <1>1. excl[p] > 0 /\ excl[q] = 0
    BY DEF LockInv, Covered, Alone
  <1>2. at[q] \notin Changing
    BY <1>1 DEF LockInv, Covered
  <1> QED
    BY <1>2 DEF Places, Changing, StartChanges

\* A step to a place where nothing is upgraded, and that changes no number.
LEMMA QuietKeepsMarks ==
  ASSUME TypeOK, MarkInv, NEW p \in Procs, NEW line \in Lines \ Places, Goto(p, line),
         UNCHANGED <<fmt, data, stage, wants, needless>>
  PROVE  MarkInv'
  <1>1. ASSUME NEW q \in Procs PROVE StartInv(q)'
    <2>1. StartInv(q)
      BY DEF MarkInv
    <2>2. at'[q] = at[q] \/ at'[q] \notin Places
      BY DEF Goto, TypeOK, StartTypeOK
    <2> QED
      BY <2>1, <2>2 DEF StartInv, PlanInv, SeedInv, BinInv, Places
  <1> QED
    BY <1>1 DEF MarkInv, MarksTellTheTruth, Unused

LEMMA ExitKeepsMarks ==
  ASSUME TypeOK, MarkInv, NEW p \in Procs, Exit(p), UNCHANGED <<fmt, data, needless>>
  PROVE  MarkInv'
  <1>1. ASSUME NEW q \in Procs PROVE StartInv(q)'
    <2>1. StartInv(q)
      BY DEF MarkInv
    <2>2. CASE q = p
      <3>1. at'[q] = "off" /\ stage'[q] = "plan" /\ wants'[q] = {}
        BY <2>2 DEF Exit, Goto, TypeOK, StartTypeOK
      <3> QED
        BY <3>1 DEF StartInv, PlanInv
    <2>3. CASE q # p
      <3>1. at'[q] = at[q] /\ stage'[q] = stage[q] /\ wants'[q] = wants[q]
        BY <2>3 DEF Exit, Goto, TypeOK, StartTypeOK
      <3> QED
        BY <2>1, <3>1 DEF StartInv, PlanInv, SeedInv, BinInv
    <2> QED
      BY <2>2, <2>3
  <1> QED
    BY <1>1 DEF MarkInv, MarksTellTheTruth, Unused

\* A start-up that is done with a kind knows its number is set.
LEMMA StageDoneKeepsMarks ==
  ASSUME TypeOK, MarkInv, NEW p \in Procs, StageDone(p),
         stage[p] = "seed" => fmt["seed"] = "now",
         UNCHANGED <<fmt, data, needless>>
  PROVE  MarkInv'
  <1>1. ASSUME NEW q \in Procs PROVE StartInv(q)'
    <2>1. StartInv(q)
      BY DEF MarkInv
    <2>2. CASE q = p
      <3>1. /\ at'[q] \in {"look", "ready"} /\ wants'[q] = {}
            /\ stage[q] = "plan" => stage'[q] = "seed"
            /\ stage[q] = "seed" => stage'[q] = "bin"
            /\ stage[q] = "bin" => stage'[q] = "bin"
        BY <2>2 DEF StageDone, Goto, TypeOK, StartTypeOK, Kinds
      <3>2. stage[q] \in {"plan", "seed", "bin"}
        BY DEF TypeOK, StartTypeOK, Kinds
      <3>3. stage[q] # "plan" => fmt["bin"] # "none"
        BY <2>1, <2>2, <3>2 DEF StartInv, BinInv, MarkInv, Unused
      <3> QED
        BY <3>1, <3>2, <3>3 DEF StartInv, PlanInv, SeedInv, BinInv
    <2>3. CASE q # p
      <3>1. at'[q] = at[q] /\ stage'[q] = stage[q] /\ wants'[q] = wants[q]
        BY <2>3 DEF StageDone, Goto, TypeOK, StartTypeOK, Kinds
      <3> QED
        BY <2>1, <3>1 DEF StartInv, PlanInv, SeedInv, BinInv
    <2> QED
      BY <2>2, <2>3
  <1> QED
    BY <1>1 DEF MarkInv, MarksTellTheTruth, Unused

\* A step of the process that has the lock: what it does not upset by itself
\* it upsets for nobody.
LEMMA ChangeKeepsMarks ==
  ASSUME TypeOK, LockInv, MarkInv, NEW p \in Procs, at[p] \in Changing,
         \A q \in Procs \ {p} : at'[q] = at[q] /\ stage'[q] = stage[q] /\ wants'[q] = wants[q],
         fmt'["bin"] \in {fmt["bin"], "now"},
         StartInv(p)', MarksTellTheTruth', Unused'
  PROVE  MarkInv'
  <1>1. ASSUME NEW q \in Procs \ {p} PROVE StartInv(q)'
    <2>1. at[q] \notin Places
      BY OnlyOneChanges
    <2> QED
      BY <2>1, OthersKeepMarks
  <1>2. \A q \in Procs : StartInv(q)'
    BY <1>1
  <1> QED
    BY <1>2 DEF MarkInv

\* What the second look, made with the lock, lets a start-up rely on.
LEMMA FlagsAreRight ==
  ASSUME TypeOK, MarkInv, NEW p \in Procs, at[p] \in {"look", "again"}
  PROVE  /\ WantsAfter(p, stage[p]) = {} => fmt[stage[p]] = "now"
         /\ "partial" \in WantsAfter(p, stage[p])
                => stage[p] = "seed" /\ fmt["bin"] \in {"none", "now"}
         /\ stage[p] # "seed" /\ WantsAfter(p, stage[p]) # {} => fmt[stage[p]] # "now"
         /\ stage[p] = "seed" /\ "full" \in WantsAfter(p, stage[p]) => fmt["bin"] # "none"
         /\ stage[p] = "seed" =>
                IF "full" \in WantsAfter(p, stage[p]) THEN fmt["seed"] # "now"
                ELSE WantsAfter(p, stage[p]) # {} => data["bin"] = "new"
  <1>1. /\ stage[p] \in {"plan", "seed", "bin"} /\ wants[p] \subseteq {"full", "partial"}
    BY DEF TypeOK, StartTypeOK, Kinds
  <1>2. "partial" \in wants[p] => stage[p] = "seed" /\ fmt["bin"] \in {"none", "now"}
    BY DEF MarkInv, StartInv
  <1>3. MarksTellTheTruth /\ Unused
    BY DEF MarkInv
  <1>4. WantsAfter(p, stage[p]) = {} => fmt[stage[p]] = "now"
    BY <1>1 DEF WantsAfter
  <1>5. "partial" \in WantsAfter(p, stage[p])
            => stage[p] = "seed" /\ fmt["bin"] \in {"none", "now"}
    BY <1>1, <1>2 DEF WantsAfter
  <1>6. stage[p] # "seed" /\ WantsAfter(p, stage[p]) # {} => fmt[stage[p]] # "now"
    BY <1>1, <1>2 DEF WantsAfter
  <1>7. ASSUME stage[p] = "seed", "full" \in WantsAfter(p, stage[p]) PROVE fmt["seed"] # "now"
    BY <1>1, <1>7 DEF WantsAfter
  <1>8. ASSUME stage[p] = "seed", "full" \notin WantsAfter(p, stage[p]),
               WantsAfter(p, stage[p]) # {}
        PROVE  data["bin"] = "new"
    <2>1. WantsAfter(p, stage[p]) \subseteq {"full", "partial"}
      BY WantsAfterType, <1>1 DEF Kinds
    <2>2. "partial" \in WantsAfter(p, stage[p])
      BY <1>8, <2>1
    <2>3. fmt["seed"] = "now" \/ fmt["bin"] = "none"
      BY <1>1, <1>8 DEF WantsAfter
    <2> QED
      BY <1>3, <1>5, <2>2, <2>3 DEF MarksTellTheTruth, Unused
  <1>9. ASSUME stage[p] = "seed", "full" \in WantsAfter(p, stage[p]) PROVE fmt["bin"] # "none"
    <2>1. "full" \in wants[p] => fmt["bin"] # "none"
      BY <1>9 DEF MarkInv, StartInv, SeedInv
    <2> QED
      BY <1>1, <1>3, <1>9, <2>1 DEF WantsAfter, Unused
  <1> QED
    BY <1>4, <1>5, <1>6, <1>7, <1>8, <1>9

LEMMA LookKeepsMarks ==
  ASSUME TypeOK, LockInv, MarkInv, NEW p \in Procs, Look(p)
  PROVE  MarkInv'
  <1>1. /\ at[p] \in {"look", "again"} /\ UNCHANGED <<fmt, data, needless>>
        /\ stage[p] \in {"plan", "seed", "bin"}
    BY DEF Look, dbVars, history, TypeOK, StartTypeOK, Kinds
  <1>2. CASE WantsAfter(p, stage[p]) = {}
    <2>1. StageDone(p) /\ (stage[p] = "seed" => fmt["seed"] = "now")
      BY <1>1, <1>2, FlagsAreRight DEF Look
    <2> QED
      BY <1>1, <2>1, StageDoneKeepsMarks
  <1>3. CASE WantsAfter(p, stage[p]) # {}
    <2>1. /\ wants' = [wants EXCEPT ![p] = WantsAfter(p, stage[p])] /\ UNCHANGED stage
          /\ Goto(p, IF at[p] = "look" THEN "lock" ELSE FirstWork(p))
      BY <1>3 DEF Look
    <2>2. /\ wants'[p] = WantsAfter(p, stage[p])
          /\ at'[p] = IF at[p] = "look" THEN "lock" ELSE FirstWork(p)
          /\ \A q \in Procs \ {p} : at'[q] = at[q] /\ wants'[q] = wants[q]
      BY <2>1 DEF Goto, TypeOK, StartTypeOK
    <2>3. at'[p] \in {"lock", "work", "upgrade"}
              /\ (at'[p] = "upgrade" => stage[p] = "bin")
              /\ (at'[p] = "work" => stage[p] # "bin")
      BY <2>2 DEF FirstWork
    <2>4. stage[p] = "bin" => fmt["bin"] # "none"
      BY DEF MarkInv, StartInv, BinInv
    <2>5. StartInv(p)'
      <3>1. "partial" \in wants'[p] => stage[p] = "seed" /\ fmt["bin"] \in {"none", "now"}
        BY <1>1, <2>2, FlagsAreRight
      <3>2. stage[p] = "plan" => PlanInv(p)'
        BY <1>1, <1>3, <2>3, FlagsAreRight DEF PlanInv
      <3>3. stage[p] = "seed" => SeedInv(p)'
        BY <1>1, <1>3, <2>2, <2>3, FlagsAreRight DEF SeedInv
      <3>4. stage[p] = "bin" => BinInv(p)'
        BY <1>1, <1>3, <2>3, <2>4, FlagsAreRight DEF BinInv
      <3> QED
        BY <1>1, <2>1, <3>1, <3>2, <3>3, <3>4 DEF StartInv
    <2>6. ASSUME NEW q \in Procs \ {p} PROVE StartInv(q)'
      <3>1. StartInv(q) /\ at'[q] = at[q] /\ stage'[q] = stage[q] /\ wants'[q] = wants[q]
        BY <2>1, <2>2 DEF MarkInv
      <3> QED
        BY <1>1, <3>1 DEF StartInv, PlanInv, SeedInv, BinInv
    <2>7. \A q \in Procs : StartInv(q)'
      BY <2>5, <2>6
    <2> QED
      BY <1>1, <2>7 DEF MarkInv, MarksTellTheTruth, Unused
  <1> QED
    BY <1>2, <1>3

LEMMA WorkKeepsMarks ==
  ASSUME TypeOK, LockInv, MarkInv, NEW p \in Procs,
         Work(p) \/ WorkDone(p) \/ Upgrade(p) \/ UpgradeDone(p)
  PROVE  MarkInv'
  <1>1. /\ StartInv(p) /\ MarksTellTheTruth /\ Unused
        /\ stage[p] \in {"plan", "seed", "bin"}
        /\ data \in [Kinds -> Ages] /\ needless \in BOOLEAN
    BY DEF MarkInv, TypeOK, StartTypeOK, DbTypeOK, HistoryTypeOK, Kinds
  <1>2. /\ UNCHANGED <<fmt, stage, wants>>
        /\ at[p] \in {"work", "working", "upgrade", "upgrading"}
    BY DEF Work, WorkDone, Upgrade, UpgradeDone, startVars
  <1>3. \A q \in Procs \ {p} : at'[q] = at[q] /\ stage'[q] = stage[q] /\ wants'[q] = wants[q]
    BY <1>2 DEF Work, WorkDone, Upgrade, UpgradeDone, Goto, TypeOK, StartTypeOK
  <1>4. at[p] \in Changing
    BY <1>2 DEF Changing, StartChanges
  <1>5. StartInv(p)' /\ MarksTellTheTruth' /\ Unused'
    <2>1. CASE Work(p)
      <3>1. /\ at[p] = "work" /\ at'[p] = "working"
            /\ data' = [data EXCEPT ![stage[p]] = "half"]
            /\ needless' = (needless \/ (stage[p] = "seed" /\ fmt["seed"] = "now"))
        BY <2>1 DEF Work, Goto, TypeOK, StartTypeOK
      <3>2. stage[p] # "bin"
        BY <1>1, <3>1 DEF StartInv, BinInv
      <3>3. StartInv(p)'
        BY <1>1, <1>2, <3>1, <3>2 DEF StartInv, PlanInv, SeedInv, Kinds
      <3>4. CASE stage[p] = "plan"
        <4>1. fmt["plan"] # "now"
          BY <1>1, <3>1, <3>4 DEF StartInv, PlanInv
        <4>2. data'["seed"] = data["seed"] /\ data'["bin"] = data["bin"]
          BY <1>1, <3>1, <3>4 DEF Kinds
        <4>3. needless' = needless
          BY <1>1, <3>1, <3>4
        <4> QED
          BY <1>1, <1>2, <3>3, <4>1, <4>2, <4>3 DEF MarksTellTheTruth, Unused
      <3>5. CASE stage[p] = "seed"
        <4>1. data'["plan"] = data["plan"] /\ data'["bin"] = data["bin"]
          BY <1>1, <3>1, <3>5 DEF Kinds
        <4>2. fmt["seed"] = "now" => needless'
          BY <3>1, <3>5
        <4> QED
          BY <1>1, <1>2, <3>3, <4>1, <4>2 DEF MarksTellTheTruth, Unused
      <3> QED
        BY <1>1, <3>2, <3>4, <3>5
    <2>2. CASE WorkDone(p)
      <3>1. /\ at[p] = "working"
            /\ data' = [data EXCEPT ![stage[p]] = "new"]
            /\ \/ stage[p] = "plan" /\ at'[p] = "mark" /\ needless' = needless
               \/ stage[p] = "seed" /\ at'[p] = AfterSeed(p)
        BY <2>2 DEF WorkDone, Goto, TypeOK, StartTypeOK
      <3>2. /\ \A k \in Kinds : data[k] = "new" => data'[k] = "new"
            /\ data'[stage[p]] = "new"
        BY <1>1, <3>1 DEF Kinds
      <3>3. StartInv(p)'
        BY <1>1, <1>2, <3>1, <3>2 DEF StartInv, PlanInv, SeedInv, AfterSeed, Kinds
      <3>4. stage[p] = "seed" \/ needless' = needless
        BY <3>1
      <3> QED
        BY <1>1, <1>2, <3>2, <3>3, <3>4 DEF MarksTellTheTruth, Unused, Kinds
    <2>3. CASE Upgrade(p)
      <3>1. /\ at[p] = "upgrade" /\ at'[p] = "upgrading" /\ needless' = needless
            /\ data' = [data EXCEPT !["bin"] = "half"]
        BY <2>3 DEF Upgrade, Goto, history, TypeOK, StartTypeOK
      <3>2. data'["plan"] = data["plan"] /\ data'["seed"] = data["seed"]
        BY <1>1, <3>1 DEF Kinds
      <3>3. stage[p] = "seed" => fmt["bin"] # "none" /\ fmt["seed"] # "now"
        BY <1>1, <3>1 DEF StartInv, SeedInv
      <3>4. stage[p] = "bin" => fmt["bin"] # "now" /\ fmt["bin"] # "none"
        BY <1>1, <3>1 DEF StartInv, BinInv
      <3>5. stage[p] # "plan"
        BY <1>1, <3>1 DEF StartInv, PlanInv
      <3>6. StartInv(p)'
        BY <1>1, <1>2, <3>1, <3>2, <3>5 DEF StartInv, SeedInv, BinInv
      <3>7. MarksTellTheTruth'
        BY <1>1, <1>2, <3>1, <3>2, <3>3, <3>4, <3>5 DEF MarksTellTheTruth
      <3>8. Unused'
        BY <1>1, <1>2, <3>1, <3>3, <3>4, <3>5 DEF Unused
      <3> QED
        BY <3>6, <3>7, <3>8
    <2>4. CASE UpgradeDone(p)
      <3>1. /\ at[p] = "upgrading" /\ at'[p] = "markbin" /\ needless' = needless
            /\ data' = [data EXCEPT !["bin"] = "new"]
        BY <2>4 DEF UpgradeDone, Goto, history, TypeOK, StartTypeOK
      <3>2. data'["plan"] = data["plan"] /\ data'["seed"] = data["seed"] /\ data'["bin"] = "new"
        BY <1>1, <3>1 DEF Kinds
      <3>3. stage[p] # "plan"
        BY <1>1, <3>1 DEF StartInv, PlanInv
      <3>4. StartInv(p)'
        BY <1>1, <1>2, <3>1, <3>2, <3>3 DEF StartInv, SeedInv, BinInv
      <3> QED
        BY <1>1, <1>2, <3>1, <3>2, <3>4 DEF MarksTellTheTruth, Unused
    <2> QED
      BY <2>1, <2>2, <2>3, <2>4
  <1> QED
    BY <1>2, <1>3, <1>4, <1>5, ChangeKeepsMarks

LEMMA MarkKeepsMarks ==
  ASSUME TypeOK, LockInv, MarkInv, NEW p \in Procs, MarkBin(p) \/ Mark(p) \/ Unlock(p)
  PROVE  MarkInv'
  <1>1. /\ StartInv(p) /\ MarksTellTheTruth /\ Unused
        /\ stage[p] \in {"plan", "seed", "bin"}
        /\ fmt \in [Kinds -> Formats]
    BY DEF MarkInv, TypeOK, StartTypeOK, DbTypeOK, Kinds
  <1>2. at[p] \in Changing
    BY DEF MarkBin, Mark, Unlock, Changing, StartChanges
  <1>3. CASE MarkBin(p)
    <2>1. /\ at[p] = "markbin" /\ at'[p] = IF stage[p] = "bin" THEN "unlock" ELSE "mark"
          /\ UNCHANGED <<data, needless, stage, wants>>
          /\ \A q \in Procs \ {p} : at'[q] = at[q]
      BY <1>3 DEF MarkBin, Goto, TypeOK, StartTypeOK, history
    <2>2. fmt'["bin"] = "now" /\ fmt'["plan"] = fmt["plan"] /\ fmt'["seed"] = fmt["seed"]
      BY <1>1, <1>3 DEF MarkBin, Kinds
    <2>3. stage[p] # "plan" /\ data["bin"] = "new" /\ (stage[p] = "seed" => data["seed"] = "new")
      BY <1>1, <2>1 DEF StartInv, PlanInv, SeedInv, BinInv
    <2>4. StartInv(p)'
      BY <1>1, <2>1, <2>2, <2>3 DEF StartInv, SeedInv, BinInv
    <2>5. MarksTellTheTruth' /\ Unused'
      BY <1>1, <2>1, <2>2, <2>3 DEF MarksTellTheTruth, Unused
    <2> QED
      BY <1>2, <2>1, <2>2, <2>4, <2>5, ChangeKeepsMarks
  <1>4. CASE Mark(p)
    <2>1. /\ at[p] = "mark" /\ at'[p] = "unlock"
          /\ UNCHANGED <<data, needless, stage, wants>>
          /\ \A q \in Procs \ {p} : at'[q] = at[q]
      BY <1>4 DEF Mark, Goto, TypeOK, StartTypeOK, history, startVars
    <2>2. stage[p] # "bin"
      BY <1>1, <2>1 DEF StartInv, BinInv
    <2>3. CASE stage[p] = "plan"
      <3>1. fmt'["plan"] = "now" /\ fmt'["seed"] = fmt["seed"] /\ fmt'["bin"] = fmt["bin"]
        BY <1>1, <1>4, <2>3 DEF Mark, Kinds
      <3>2. data["plan"] = "new"
        BY <1>1, <2>1, <2>3 DEF StartInv, PlanInv
      <3>3. StartInv(p)'
        BY <1>1, <2>1, <2>3, <3>1 DEF StartInv, PlanInv
      <3>4. MarksTellTheTruth' /\ Unused'
        BY <1>1, <2>1, <3>1, <3>2 DEF MarksTellTheTruth, Unused
      <3> QED
        BY <1>2, <2>1, <3>1, <3>3, <3>4, ChangeKeepsMarks
    <2>4. CASE stage[p] = "seed"
      <3>1. fmt'["seed"] = "now" /\ fmt'["plan"] = fmt["plan"] /\ fmt'["bin"] = fmt["bin"]
        BY <1>1, <1>4, <2>4 DEF Mark, Kinds
      <3>2. data["seed"] = "new" /\ data["bin"] = "new" /\ fmt["bin"] = "now"
        BY <1>1, <2>1, <2>4 DEF StartInv, SeedInv
      <3>3. StartInv(p)'
        BY <1>1, <2>1, <2>4, <3>1, <3>2 DEF StartInv, SeedInv
      <3>4. MarksTellTheTruth' /\ Unused'
        BY <1>1, <2>1, <3>1, <3>2 DEF MarksTellTheTruth, Unused
      <3> QED
        BY <1>2, <2>1, <3>1, <3>3, <3>4, ChangeKeepsMarks
    <2> QED
      BY <1>1, <2>2, <2>3, <2>4
  <1>5. CASE Unlock(p)
    <2>1. StageDone(p) /\ UNCHANGED <<fmt, data, needless>> /\ at[p] = "unlock"
      BY <1>5 DEF Unlock, dbVars, history
    <2>2. stage[p] = "seed" => fmt["seed"] = "now"
      BY <1>1, <2>1 DEF StartInv, SeedInv
    <2> QED
      BY <2>1, <2>2, StageDoneKeepsMarks
  <1> QED
    BY <1>3, <1>4, <1>5

\* Where the quiet steps go.
Quiet == {"off", "check", "look", "ready", "share", "ask", "parse", "parsed", "run", "again",
          "recheck", "catalog", "define", "discard", "undefine"}

LEMMA StartKeepsMarks ==
  ASSUME TypeOK, LockInv, MarkInv, NEW p \in Procs, StartStep(p) \/ Killed(p)
  PROVE  MarkInv'
  <1> USE LineSet DEF Places
  <1>1. ASSUME Start(p) PROVE MarkInv'
    BY <1>1, QuietKeepsMarks DEF Start, dbVars, startVars
  <1>2. ASSUME Check(p) PROVE MarkInv'
    <2>1. UNCHANGED <<fmt, data, needless>> /\ (Exit(p) \/ (Goto(p, "look") /\ UNCHANGED startVars))
      BY <1>2 DEF Check, dbVars
    <2> QED
      BY <2>1, QuietKeepsMarks, ExitKeepsMarks DEF startVars
  <1>3. ASSUME LockDdl(p) PROVE MarkInv'
    BY <1>3, QuietKeepsMarks DEF LockDdl, dbVars, startVars, history
  <1>4. ASSUME LockDdlTimeout(p) PROVE MarkInv'
    BY <1>4, ExitKeepsMarks DEF LockDdlTimeout, dbVars
  <1>5. ASSUME Killed(p) PROVE MarkInv'
    BY <1>5, ExitKeepsMarks DEF Killed, dbVars
  <1> QED
    BY <1>1, <1>2, <1>3, <1>4, <1>5, LookKeepsMarks, WorkKeepsMarks, MarkKeepsMarks DEF StartStep

\* A statement touches neither numbers nor seed, and no start-up.
LEMMA StatementKeepsMarks ==
  ASSUME TypeOK, MarkInv, NEW p \in Procs, QueryStep(p) \/ DdlStep(p)
  PROVE  MarkInv'
  <1>1. UNCHANGED <<fmt, data, stage, wants, needless>>
    BY DEF QueryStep, DdlStep, Peek, Share, ShareTimeout, Parse, Plan, Run, Show, Unshare, Exclude,
           ExcludeTimeout, Recheck, Catalog, Define, Discard, Undefine, DdlFails,
           dbVars, startVars, history
  <1>2. (\E line \in Quiet : Goto(p, line)) \/ UNCHANGED at
    <2>1. ASSUME QueryStep(p) PROVE (\E line \in Quiet : Goto(p, line)) \/ UNCHANGED at
      <3>1. Peek(p) => UNCHANGED at
        BY DEF Peek
      <3>2. Share(p) \/ ShareTimeout(p) \/ Plan(p) \/ Run(p) \/ Show(p)
                => \E line \in Quiet : Goto(p, line)
        BY DEF Share, ShareTimeout, Plan, Run, Show, EndStmt, Quiet
      <3>3. Parse(p) => \E line \in Quiet : Goto(p, line)
        BY DEF Parse, EndStmt, Quiet
      <3> QED
        BY <2>1, <3>1, <3>2, <3>3 DEF QueryStep
    <2>2. ASSUME Unshare(p) \/ Exclude(p) \/ ExcludeTimeout(p) \/ DdlFails(p)
          PROVE  \E line \in Quiet : Goto(p, line)
      BY <2>2 DEF Unshare, Exclude, ExcludeTimeout, DdlFails, EndStmt, Quiet
    <2>3. ASSUME Recheck(p) PROVE \E line \in Quiet : Goto(p, line)
      BY <2>3 DEF Recheck, Refuse, EndStmt, Quiet
    <2>4. ASSUME Catalog(p) \/ Define(p) \/ Discard(p) \/ Undefine(p)
          PROVE  \E line \in Quiet : Goto(p, line)
      BY <2>4 DEF Catalog, Define, Discard, Undefine, EndStmt, Quiet
    <2> QED
      BY <2>1, <2>2, <2>3, <2>4 DEF DdlStep
  <1>3. ASSUME UNCHANGED at PROVE MarkInv'
    BY <1>1, <1>3 DEF MarkInv, MarksTellTheTruth, Unused, StartInv, PlanInv, SeedInv, BinInv
  <1>4. Quiet \subseteq Lines \ Places
    BY LineSet DEF Quiet, Places
  <1> QED
    BY <1>1, <1>2, <1>3, <1>4, QuietKeepsMarks

LEMMA MarkNext ==
  ASSUME OctoAssumption, TypeOK, LockInv, MarkInv, [Next]_vars
  PROVE  MarkInv'
  <1>1. ASSUME NEW p \in Procs, NEW s \in Statements, Ask(p, s) PROVE MarkInv'
    BY <1>1, QuietKeepsMarks, LineSet DEF Ask, Places, dbVars, startVars
  <1>2. ASSUME NEW p \in Procs, NEW q \in Procs, Fork(p, q) PROVE MarkInv'
    BY <1>2, QuietKeepsMarks, LineSet DEF Fork, Places, dbVars
  <1>3. ASSUME UNCHANGED vars PROVE MarkInv'
    BY <1>3 DEF vars, dbVars, startVars, history, MarkInv, MarksTellTheTruth, Unused, StartInv,
                PlanInv, SeedInv, BinInv
  <1> QED
    BY <1>1, <1>2, <1>3, StartKeepsMarks, StatementKeepsMarks DEF Next

\* A format number of this build is never ahead of the work it stands for,
\* whichever processes start at once and wherever one of them is killed.
THEOREM MarksAreTrue == Spec => []MarksTellTheTruth
  <1>1. Init => MarkInv
    BY MarkInitial, OctoAssumption
  <1>2. TypeOK /\ LockInv /\ MarkInv /\ [Next]_vars => MarkInv'
    BY MarkNext, OctoAssumption
  <1>3. MarkInv => MarksTellTheTruth
    BY DEF MarkInv
  <1> QED
    BY <1>1, <1>2, <1>3, TypeCorrect, LocksHold, PTL DEF Spec
==============================================================================
