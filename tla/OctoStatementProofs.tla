------------------------- MODULE OctoStatementProofs -------------------------
(***************************************************************************)
(* Proofs about the statements of OctoDdl, for any processes, databases    *)
(* and bounds: what they find when they run, and the locks they leave.     *)
(***************************************************************************)
EXTENDS OctoDdlProofs

----------------------------------------------------------------------------
(* The invariants.                                                         *)

\* A start-up that is past a kind, and so every process that takes
\* statements, knows that the number of that kind was set; it stays set.
AtStatement == {"ready", "share", "ask"} \cup Reading \cup DdlChanges
Passed(p) ==
    /\ stage[p] \in {"seed", "bin"} => fmt["plan"] = "now"
    /\ stage[p] = "bin" => fmt["seed"] = "now"
    /\ at[p] = "unlock" => fmt[stage[p]] = "now"
    /\ at[p] \in AtStatement => \A k \in Kinds : fmt[k] = "now"
PassedInv == \A p \in Procs : Passed(p)

\* The stored plan and the definition belong to one table, the one in the
\* catalog; a table that was not created to its end is in nobody's memory.
OneTable ==
    /\ plan # 0 => plan = defn
    /\ defn # 0 => defn = catalog
    /\ catalog <= nextOid
    /\ \A p \in Procs : cache[p] <= nextOid
    /\ catalog # 0 /\ defn = 0 => \A p \in Procs : cache[p] # catalog

\* What a statement knows of the table it has parsed, creates or drops.
KnowsTable(p) ==
    /\ at[p] = "run" \/ (at[p] = "parsed" /\ UsesTable(p)) => used[p] = defn /\ defn # 0
    /\ at[p] = "run" => plan = defn
    /\ at[p] \in {"catalog", "define"} /\ stmt[p] = "create" => defn = 0
    /\ at[p] = "define" /\ stmt[p] = "create" => catalog # 0
    /\ at[p] = "undefine" /\ stmt[p] = "drop" => plan = 0

TableInv == OneTable /\ \A p \in Procs : KnowsTable(p)

\* The locks of a process against those it had when its statement began.
Held(p) == stmt[p] # None =>
    /\ at[p] \in {"share", "ask"} \cup Reading \cup DdlChanges
    /\ shared[p] = IF at[p] \in Reading THEN before[p][1] + 1 ELSE before[p][1]
    /\ excl[p] = IF at[p] \in DdlChanges THEN before[p][2] + 1 ELSE before[p][2]
HeldInv == \A p \in Procs : Held(p)

----------------------------------------------------------------------------
(* A process changes what is its own, and in the schema only what its      *)
(* place lets it.                                                          *)

OwnSame(q) ==
    /\ at'[q] = at[q] /\ stage'[q] = stage[q]
    /\ stmt'[q] = stmt[q] /\ used'[q] = used[q] /\ cache'[q] = cache[q]
    /\ shared'[q] = shared[q] /\ excl'[q] = excl[q] /\ before'[q] = before[q]
OnlyChanges(p) == \A q \in Procs \ {p} : OwnSame(q)

LEMMA StatementIsLocal ==
  ASSUME TypeOK, NEW p \in Procs, QueryStep(p) \/ DdlStep(p)
  PROVE  OnlyChanges(p)
  <1> USE DEF TypeOK, StartTypeOK, StmtTypeOK, LockTypeOK, HistoryTypeOK,
              OnlyChanges, OwnSame, Goto, EndStmt, FindTable, GrabShared, GrabExclusive,
              DropShared, DropExclusive, startVars, stmtVars, history, lockVars
  <1>1. ASSUME Peek(p) \/ Share(p) \/ ShareTimeout(p) \/ Plan(p) \/ Run(p) PROVE OnlyChanges(p)
    BY <1>1 DEF Peek, Share, ShareTimeout, Plan, Run
  <1>2. ASSUME Parse(p) PROVE OnlyChanges(p)
    BY <1>2 DEF Parse
  <1>3. ASSUME Show(p) \/ Unshare(p) \/ Exclude(p) \/ ExcludeTimeout(p) PROVE OnlyChanges(p)
    BY <1>3 DEF Show, Unshare, Exclude, ExcludeTimeout, TakeDdl
  <1>4. ASSUME Recheck(p) PROVE OnlyChanges(p)
    BY <1>4 DEF Recheck, Refuse
  <1>5. ASSUME Catalog(p) \/ Discard(p) \/ DdlFails(p) PROVE OnlyChanges(p)
    BY <1>5 DEF Catalog, Discard, DdlFails
  <1>6. ASSUME Define(p) \/ Undefine(p) PROVE OnlyChanges(p)
    BY <1>6 DEF Define, Undefine
  <1> QED
    BY <1>1, <1>2, <1>3, <1>4, <1>5, <1>6 DEF QueryStep, DdlStep

LEMMA ExitIsLocal ==
  ASSUME TypeOK, NEW p \in Procs, Exit(p)
  PROVE  OnlyChanges(p) /\ at'[p] = "off" /\ stage'[p] = "plan" /\ stmt'[p] = None /\ cache'[p] = 0
  BY DEF TypeOK, StartTypeOK, StmtTypeOK, LockTypeOK, HistoryTypeOK, OnlyChanges, OwnSame, Goto,
         Exit, DropAll

LEMMA StageDoneIsLocal ==
  ASSUME TypeOK, NEW p \in Procs, StageDone(p)
  PROVE  /\ at'[p] \in {"look", "ready"}
         /\ stage'[p] = IF stage[p] = "plan" THEN "seed" ELSE "bin"
         /\ at'[p] = "ready" => stage[p] = "bin"
         /\ \A q \in Procs \ {p} : at'[q] = at[q] /\ stage'[q] = stage[q]
  <1>1. stage[p] \in {"plan", "seed", "bin"}
    BY DEF TypeOK, StartTypeOK, Kinds
  <1> QED
    BY <1>1 DEF TypeOK, StartTypeOK, StageDone, Goto

LEMMA StartIsLocal ==
  ASSUME TypeOK, NEW p \in Procs, StartStep(p) \/ Killed(p)
  PROVE  OnlyChanges(p)
  <1> USE DEF TypeOK, StartTypeOK, StmtTypeOK, LockTypeOK, HistoryTypeOK,
              OnlyChanges, OwnSame, Goto, GrabExclusive, DropExclusive,
              startVars, stmtVars, history, lockVars
  <1>1. ASSUME Start(p) \/ LockDdl(p) PROVE OnlyChanges(p)
    BY <1>1 DEF Start, LockDdl, TakeDdl
  <1>2. ASSUME Check(p) \/ LockDdlTimeout(p) \/ Killed(p) PROVE OnlyChanges(p)
    BY <1>2, ExitIsLocal DEF Check, LockDdlTimeout, Killed
  <1>3. ASSUME Look(p) PROVE OnlyChanges(p)
    BY <1>3, StageDoneIsLocal DEF Look
  <1>4. ASSUME Work(p) \/ WorkDone(p) \/ Upgrade(p) \/ UpgradeDone(p) PROVE OnlyChanges(p)
    BY <1>4 DEF Work, WorkDone, Upgrade, UpgradeDone
  <1>5. ASSUME MarkBin(p) \/ Mark(p) PROVE OnlyChanges(p)
    BY <1>5 DEF MarkBin, Mark
  <1>6. ASSUME Unlock(p) PROVE OnlyChanges(p)
    BY <1>6, StageDoneIsLocal DEF Unlock
  <1> QED
    BY <1>1, <1>2, <1>3, <1>4, <1>5, <1>6 DEF StartStep

LEMMA AskIsLocal ==
  ASSUME TypeOK, NEW p \in Procs, NEW s \in Statements, Ask(p, s)
  PROVE  OnlyChanges(p)
  BY DEF TypeOK, StartTypeOK, StmtTypeOK, LockTypeOK, HistoryTypeOK, OnlyChanges, OwnSame, Goto,
         Ask, startVars, lockVars

LEMMA ForkIsLocal ==
  ASSUME TypeOK, NEW p \in Procs, NEW q \in Procs, Fork(p, q)
  PROVE  OnlyChanges(q) /\ p # q
  BY DEF TypeOK, StartTypeOK, StmtTypeOK, LockTypeOK, HistoryTypeOK, OnlyChanges, OwnSame, Goto,
         Fork, lockVars

\* While a process changes the schema no other is in the middle of a
\* statement that reads it, or of a change.
LEMMA AloneWhenChanging ==
  ASSUME LockInv, NEW p \in Procs, at[p] \in Changing, NEW q \in Procs \ {p}
  PROVE  at[q] \notin Reading /\ at[q] \notin Changing
  <1>1. excl[p] > 0 /\ excl[q] = 0 /\ shared[q] = 0
    BY DEF LockInv, Covered, Alone
  <1> QED
    BY <1>1 DEF LockInv, Covered

\* Where the steps of a statement begin and end.
LEMMA StatementLines ==
  ASSUME TypeOK, NEW p \in Procs, QueryStep(p) \/ DdlStep(p)
  PROVE  at[p] \in AtStatement /\ at'[p] \in AtStatement
  <1> USE DEF TypeOK, StartTypeOK, Goto, EndStmt, AtStatement, Reading, DdlChanges
  <1>1. ASSUME Peek(p) \/ Share(p) \/ ShareTimeout(p) \/ Parse(p) \/ Plan(p) \/ Run(p) \/ Show(p)
        PROVE  at[p] \in AtStatement /\ at'[p] \in AtStatement
    BY <1>1 DEF Peek, Share, ShareTimeout, Parse, Plan, Run, Show
  <1>2. ASSUME Unshare(p) \/ Exclude(p) \/ ExcludeTimeout(p) \/ Recheck(p)
        PROVE  at[p] \in AtStatement /\ at'[p] \in AtStatement
    BY <1>2 DEF Unshare, Exclude, ExcludeTimeout, Recheck, Refuse
  <1>3. ASSUME Catalog(p) \/ Define(p) \/ Discard(p) \/ Undefine(p) \/ DdlFails(p)
        PROVE  at[p] \in AtStatement /\ at'[p] \in AtStatement
    BY <1>3 DEF Catalog, Define, Discard, Undefine, DdlFails
  <1> QED
    BY <1>1, <1>2, <1>3 DEF QueryStep, DdlStep

----------------------------------------------------------------------------
(* Statements run on a database whose three numbers are set.               *)

LEMMA PassedInitial == ASSUME Init PROVE PassedInv
  BY DEF Init, PassedInv, Passed, AtStatement, Reading, DdlChanges

\* No step takes back a number that is set.
LEMMA NumbersStay ==
  ASSUME TypeOK, NEW p \in Procs,
         StartStep(p) \/ QueryStep(p) \/ DdlStep(p) \/ Killed(p),
         NEW k \in Kinds, fmt[k] = "now"
  PROVE  fmt'[k] = "now"
  <1>1. CASE MarkBin(p) \/ Mark(p)
    BY <1>1 DEF MarkBin, Mark, TypeOK, DbTypeOK
  <1>2. CASE ~MarkBin(p) /\ ~Mark(p)
    BY <1>2
    DEF StartStep, QueryStep, DdlStep, Start, Check, Look, LockDdl, LockDdlTimeout, Work, WorkDone,
        Upgrade, UpgradeDone, Unlock, Peek, Share, ShareTimeout, Parse, Plan, Run, Show, Unshare,
        Exclude, ExcludeTimeout, Recheck, Catalog, Define, Discard, Undefine, DdlFails, Killed,
        dbVars
  <1> QED
    BY <1>1, <1>2

\* A start-up leaves a kind with the number of it set.
LEMMA StageDonePasses ==
  ASSUME TypeOK, PassedInv, NEW p \in Procs, StageDone(p), fmt[stage[p]] = "now", UNCHANGED fmt
  PROVE  Passed(p)'
  <1>1. Passed(p) /\ stage[p] \in {"plan", "seed", "bin"}
    BY DEF PassedInv, TypeOK, StartTypeOK, Kinds
  <1> QED
    BY <1>1, StageDoneIsLocal DEF Passed, AtStatement, Reading, DdlChanges, Kinds

LEMMA StartPasses ==
  ASSUME TypeOK, MarkInv, PassedInv, NEW p \in Procs, StartStep(p) \/ Killed(p)
  PROVE  Passed(p)'
  <1> USE DEF Goto, AtStatement, Reading, DdlChanges
  <1>1. /\ Passed(p) /\ stage[p] \in {"plan", "seed", "bin"} /\ stage[p] \in Kinds
        /\ at \in [Procs -> Lines] /\ fmt \in [Kinds -> Formats]
    BY DEF PassedInv, TypeOK, StartTypeOK, DbTypeOK, Kinds
  <1>2. \A k \in {"plan", "seed", "bin"} : fmt[k] = "now" => fmt'[k] = "now"
    BY NumbersStay DEF Kinds
  <1>3. ASSUME stage'[p] = stage[p], at'[p] \notin AtStatement \cup {"unlock"}
        PROVE  Passed(p)'
    BY <1>1, <1>2, <1>3 DEF Passed
  <1>4. ASSUME Exit(p) PROVE Passed(p)'
    BY <1>4, ExitIsLocal DEF Passed
  <1>5. CASE Start(p) \/ LockDdl(p)
    BY <1>1, <1>3, <1>5 DEF Start, LockDdl, startVars
  <1>6. CASE Check(p) \/ LockDdlTimeout(p) \/ Killed(p)
    BY <1>1, <1>3, <1>4, <1>6 DEF Check, LockDdlTimeout, Killed, startVars
  <1>7. CASE Look(p)
    <2>1. CASE WantsAfter(p, stage[p]) = {}
      <3>1. fmt[stage[p]] = "now" /\ StageDone(p) /\ UNCHANGED fmt
        BY <1>7, <2>1, FlagsAreRight DEF Look, dbVars
      <3> QED
        BY <3>1, StageDonePasses
    <2>2. CASE WantsAfter(p, stage[p]) # {}
      BY <1>1, <1>3, <1>7, <2>2 DEF Look, FirstWork
    <2> QED
      BY <2>1, <2>2
  <1>8. CASE Work(p) \/ WorkDone(p) \/ Upgrade(p) \/ UpgradeDone(p)
    BY <1>1, <1>3, <1>8 DEF Work, WorkDone, AfterSeed, Upgrade, UpgradeDone, startVars
  <1>9. CASE MarkBin(p)
    <2>1. stage'[p] = stage[p] /\ fmt'["bin"] = "now"
          /\ at'[p] = IF stage[p] = "bin" THEN "unlock" ELSE "mark"
      BY <1>1, <1>9 DEF MarkBin, Kinds
    <2> QED
      BY <1>1, <1>2, <2>1 DEF Passed
  <1>10. CASE Mark(p)
    <2>1. stage'[p] = stage[p] /\ fmt'[stage[p]] = "now" /\ at'[p] = "unlock"
      BY <1>1, <1>10 DEF Mark, startVars
    <2> QED
      BY <1>1, <1>2, <2>1 DEF Passed
  <1>11. CASE Unlock(p)
    <2>1. fmt[stage[p]] = "now" /\ StageDone(p) /\ UNCHANGED fmt
      BY <1>1, <1>11 DEF Unlock, Passed, dbVars
    <2> QED
      BY <2>1, StageDonePasses
  <1> QED
    BY <1>5, <1>6, <1>7, <1>8, <1>9, <1>10, <1>11 DEF StartStep

LEMMA PassedNext ==
  ASSUME TypeOK, MarkInv, PassedInv, [Next]_vars
  PROVE  PassedInv'
  <1>1. ASSUME NEW p \in Procs, StartStep(p) \/ QueryStep(p) \/ DdlStep(p) \/ Killed(p)
        PROVE  PassedInv'
    <2>1. \A k \in Kinds : fmt[k] = "now" => fmt'[k] = "now"
      BY <1>1, NumbersStay
    <2>2. OnlyChanges(p)
      BY <1>1, StartIsLocal, StatementIsLocal
    <2>3. Passed(p)'
      <3>1. CASE QueryStep(p) \/ DdlStep(p)
        <4>1. at[p] \in AtStatement /\ at'[p] \in AtStatement /\ Passed(p)
          BY <3>1, StatementLines DEF PassedInv
        <4>2. at'[p] # "unlock" /\ "plan" \in Kinds /\ "seed" \in Kinds
          BY <4>1 DEF AtStatement, Reading, DdlChanges, Kinds
        <4> QED
          BY <2>1, <4>1, <4>2 DEF Passed
      <3> QED
        BY <1>1, <3>1, StartPasses
    <2>4. ASSUME NEW q \in Procs \ {p} PROVE Passed(q)'
      <3>1. at'[q] = at[q] /\ stage'[q] = stage[q] /\ Passed(q) /\ stage[q] \in Kinds
        BY <2>2 DEF OnlyChanges, OwnSame, PassedInv, TypeOK, StartTypeOK
      <3> QED
        BY <2>1, <3>1 DEF Passed, Kinds
    <2> QED
      BY <2>3, <2>4 DEF PassedInv
  <1>2. ASSUME NEW p \in Procs, NEW s \in Statements, Ask(p, s) PROVE PassedInv'
    <2>1. UNCHANGED <<fmt, stage>> /\ at[p] = "ready" /\ at'[p] = "share"
      BY <1>2 DEF Ask, Goto, dbVars, startVars, TypeOK, StartTypeOK
    <2> QED
      BY <1>2, <2>1, AskIsLocal DEF OnlyChanges, OwnSame, PassedInv, Passed, AtStatement
  <1>3. ASSUME NEW p \in Procs, NEW q \in Procs, Fork(p, q) PROVE PassedInv'
    <2>1. UNCHANGED <<fmt, stage>> /\ at[p] = "ready" /\ at'[q] = "ready"
      BY <1>3 DEF Fork, Goto, dbVars, startVars, TypeOK, StartTypeOK
    <2> QED
      BY <1>3, <2>1, ForkIsLocal DEF OnlyChanges, OwnSame, PassedInv, Passed, AtStatement
  <1>4. ASSUME UNCHANGED vars PROVE PassedInv'
    BY <1>4 DEF vars, dbVars, startVars, PassedInv, Passed
  <1> QED
    BY <1>1, <1>2, <1>3, <1>4 DEF Next

\* Nothing is parsed or run against plans, definitions or a seed that nobody
\* has brought up to this build, or that another process is half way through
\* with, whoever of those that did is killed, and whatever database it was.
THEOREM ReadersAreUpgraded == Spec => []ReadersSeeUpgraded
  <1>1. Init => MarkInv /\ PassedInv
    BY MarkInitial, PassedInitial, OctoAssumption
  <1>2. TypeOK /\ LockInv /\ MarkInv /\ PassedInv /\ [Next]_vars => MarkInv' /\ PassedInv'
    BY MarkNext, PassedNext, OctoAssumption
  <1>3. MarkInv /\ PassedInv => ReadersSeeUpgraded
    BY DEF MarkInv, MarksTellTheTruth, PassedInv, Passed, AtStatement, Kinds, ReadersSeeUpgraded
  <1> QED
    BY <1>1, <1>2, <1>3, TypeCorrect, LocksHold, PTL DEF Spec

----------------------------------------------------------------------------
(* Statements give back the locks they take.                               *)

LEMMA LessOfMore == ASSUME NEW n \in Nat PROVE Less(n + 1) = n
  BY DEF Less

LEMMA HeldInitial == ASSUME Init PROVE HeldInv
  BY DEF Init, HeldInv, Held

\* What the start and the end of a statement leave the process with.
Returned(p) == <<shared[p], excl[p]>>' = before[p]

LEMMA StatementHolds ==
  ASSUME TypeOK, HeldInv, NEW p \in Procs, QueryStep(p) \/ DdlStep(p)
  PROVE  Held(p)' /\ (stmt[p] \notin {None, "show"} /\ at'[p] = "ready" => Returned(p))
  <1> USE DEF Goto, EndStmt, GrabShared, GrabExclusive, DropShared, DropExclusive,
              Reading, DdlChanges, startVars, stmtVars, history, lockVars
  <1>1. /\ at \in [Procs -> Lines] /\ stmt \in [Procs -> Statements \cup {None}]
        /\ shared \in [Procs -> Nat] /\ excl \in [Procs -> Nat]
        /\ before \in [Procs -> Nat \X Nat]
        /\ shared[p] \in Nat /\ excl[p] \in Nat /\ before[p][1] \in Nat /\ before[p][2] \in Nat
        /\ before[p] = <<before[p][1], before[p][2]>>
    BY DEF TypeOK, StartTypeOK, StmtTypeOK, LockTypeOK, HistoryTypeOK
  <1>2. Held(p) /\ before' = before
    BY DEF HeldInv, QueryStep, DdlStep, Peek, Share, ShareTimeout, Parse, Plan, Run, Show, Unshare,
           Exclude, ExcludeTimeout, Recheck, Catalog, Define, Discard, Undefine, DdlFails
  <1>3. /\ Less(before[p][1] + 1) = before[p][1] /\ Less(before[p][2] + 1) = before[p][2]
    BY <1>1, LessOfMore
  <1>4. ASSUME EndStmt(p), stmt[p] \notin {None, "show"} => Returned(p)
        PROVE  Held(p)' /\ (stmt[p] \notin {None, "show"} /\ at'[p] = "ready" => Returned(p))
    BY <1>1, <1>4 DEF Held
  <1>5. CASE Peek(p)
    BY <1>1, <1>2, <1>5 DEF Peek, Held, None
  <1>6. CASE Share(p)
    BY <1>1, <1>2, <1>6 DEF Share, Held
  <1>7. CASE ShareTimeout(p)
    <2>1. stmt[p] # None => Returned(p)
      BY <1>1, <1>2, <1>7 DEF ShareTimeout, Held, Returned
    <2> QED
      BY <1>4, <1>7, <2>1 DEF ShareTimeout
  <1>8. ASSUME at[p] \in Reading, DropShared(p), stmt[p] # None PROVE Returned(p)
    BY <1>1, <1>2, <1>3, <1>8 DEF Held, Returned
  <1>9. ASSUME at[p] \in DdlChanges, DropExclusive(p), stmt[p] # None PROVE Returned(p)
    BY <1>1, <1>2, <1>3, <1>9 DEF Held, Returned
  <1>10. CASE Parse(p)
    <2>1. CASE DropShared(p) /\ EndStmt(p)
      BY <1>4, <1>8, <1>10, <2>1 DEF Parse
    <2>2. CASE at'[p] = "parsed" /\ UNCHANGED <<lockVars, stmt>>
      BY <1>1, <1>2, <1>10, <2>2 DEF Parse, Held
    <2> QED
      BY <1>1, <1>10, <2>1, <2>2 DEF Parse
  <1>11. CASE Plan(p)
    BY <1>1, <1>2, <1>11 DEF Plan, Held
  <1>12. CASE Run(p)
    BY <1>4, <1>8, <1>12 DEF Run
  <1>13. CASE Show(p)
    BY <1>4, <1>13 DEF Show
  <1>14. CASE Unshare(p)
    BY <1>1, <1>2, <1>3, <1>14 DEF Unshare, Held
  <1>15. CASE Exclude(p)
    BY <1>1, <1>2, <1>15 DEF Exclude, TakeDdl, Held
  <1>16. CASE ExcludeTimeout(p)
    <2>1. stmt[p] # None => Returned(p)
      BY <1>1, <1>2, <1>16 DEF ExcludeTimeout, Held, Returned
    <2> QED
      BY <1>4, <1>16, <2>1 DEF ExcludeTimeout
  <1>17. CASE Recheck(p)
    <2>1. CASE DropExclusive(p) /\ EndStmt(p)
      BY <1>4, <1>9, <1>17, <2>1 DEF Recheck
    <2>2. CASE at'[p] \in {"catalog", "discard"} /\ UNCHANGED <<lockVars, stmt>>
      BY <1>1, <1>2, <1>17, <2>2 DEF Recheck, Held
    <2> QED
      BY <1>1, <1>17, <2>1, <2>2 DEF Recheck, Refuse
  <1>18. CASE Catalog(p) \/ Discard(p)
    BY <1>1, <1>2, <1>18 DEF Catalog, Discard, Held
  <1>19. CASE Define(p) \/ Undefine(p) \/ DdlFails(p)
    BY <1>4, <1>9, <1>19 DEF Define, Undefine, DdlFails
  <1> QED
    BY <1>5, <1>6, <1>7, <1>10, <1>11, <1>12, <1>13, <1>14, <1>15, <1>16, <1>17, <1>18, <1>19
    DEF QueryStep, DdlStep

\* A start-up has no statement to run, and a process that is killed has none
\* any more.
LEMMA StartHolds ==
  ASSUME TypeOK, HeldInv, NEW p \in Procs, StartStep(p) \/ Killed(p)
  PROVE  stmt'[p] = None /\ (stmt[p] # None => at'[p] = "off")
  <1>1. Exit(p) => stmt'[p] = None /\ at'[p] = "off"
    BY ExitIsLocal
  <1>2. Held(p) /\ stmt \in [Procs -> Statements \cup {None}]
    BY DEF HeldInv, TypeOK, StmtTypeOK
  <1>3. CASE Check(p) \/ LockDdlTimeout(p) \/ Killed(p)
    BY <1>1, <1>2, <1>3 DEF Check, LockDdlTimeout, Killed, Held, Reading, DdlChanges, stmtVars
  <1>4. CASE Start(p) \/ Look(p) \/ LockDdl(p) \/ Work(p) \/ WorkDone(p) \/ Upgrade(p)
             \/ UpgradeDone(p) \/ MarkBin(p) \/ Mark(p) \/ Unlock(p)
    <2>1. stmt' = stmt
      BY <1>4 DEF Start, Look, LockDdl, Work, WorkDone, Upgrade, UpgradeDone, MarkBin, Mark, Unlock,
                  stmtVars
    <2>2. at[p] \notin {"share", "ask"} \cup Reading \cup DdlChanges
      BY <1>4 DEF Start, Look, LockDdl, Work, WorkDone, Upgrade, UpgradeDone, MarkBin, Mark, Unlock,
                  Reading, DdlChanges
    <2> QED
      BY <1>2, <2>1, <2>2 DEF Held
  <1> QED
    BY <1>3, <1>4 DEF StartStep

LEMMA HeldNext ==
  ASSUME TypeOK, HeldInv, [Next]_vars
  PROVE  HeldInv' /\ \A p \in Procs :
            stmt[p] \notin {None, "show"} /\ at'[p] = "ready" => Returned(p)
  <1> DEFINE Returns == \A p \in Procs :
                stmt[p] \notin {None, "show"} /\ at'[p] = "ready" => Returned(p)
  <1>0. ASSUME NEW q \in Procs, OwnSame(q)
        PROVE  Held(q)' /\ (stmt[q] \notin {None, "show"} => at'[q] # "ready")
    BY <1>0 DEF OwnSame, HeldInv, Held, Reading, DdlChanges
  <1>1. ASSUME NEW p \in Procs, StartStep(p) \/ QueryStep(p) \/ DdlStep(p) \/ Killed(p)
        PROVE  HeldInv' /\ Returns
    <2>1. \A q \in Procs \ {p} : OwnSame(q)
      BY <1>1, StartIsLocal, StatementIsLocal DEF OnlyChanges
    <2>2. Held(p)' /\ (stmt[p] \notin {None, "show"} /\ at'[p] = "ready" => Returned(p))
      BY <1>1, StatementHolds, StartHolds DEF Held
    <2> QED
      BY <1>0, <2>1, <2>2 DEF HeldInv
  <1>2. ASSUME NEW p \in Procs, NEW s \in Statements, Ask(p, s) PROVE HeldInv' /\ Returns
    <2>1. \A q \in Procs \ {p} : OwnSame(q)
      BY <1>2, AskIsLocal DEF OnlyChanges
    <2>2. /\ at[p] = "ready" /\ at'[p] = "share" /\ UNCHANGED <<shared, excl>>
          /\ before'[p] = <<shared[p], excl[p]>>
      BY <1>2 DEF Ask, Goto, lockVars, TypeOK, StartTypeOK, HistoryTypeOK
    <2>3. Held(p)'
      BY <2>2 DEF Held, Reading, DdlChanges
    <2> QED
      BY <1>0, <2>1, <2>2, <2>3 DEF HeldInv
  <1>3. ASSUME NEW p \in Procs, NEW q \in Procs, Fork(p, q) PROVE HeldInv' /\ Returns
    <2>1. \A r \in Procs \ {q} : OwnSame(r)
      BY <1>3, ForkIsLocal DEF OnlyChanges
    <2>2. at[q] = "off" /\ stmt' = stmt
      BY <1>3 DEF Fork
    <2>3. stmt[q] = None
      BY <2>2 DEF HeldInv, Held, Reading, DdlChanges
    <2>4. Held(q)'
      BY <2>2, <2>3 DEF Held
    <2> QED
      BY <1>0, <2>1, <2>3, <2>4 DEF HeldInv
  <1>4. ASSUME UNCHANGED vars PROVE HeldInv' /\ Returns
    <2>1. \A q \in Procs : OwnSame(q)
      BY <1>4 DEF vars, OwnSame, lockVars, startVars, stmtVars, history
    <2> QED
      BY <1>0, <2>1 DEF HeldInv
  <1> QED
    BY <1>1, <1>2, <1>3, <1>4 DEF Next

\* However a statement other than SET and SHOW ends, refused, timed out,
\* half way or done, its process holds the locks it held when it began.
THEOREM LocksAreReturned == Spec => StatementsReturnLocks
  <1> DEFINE Returns == \A p \in Procs :
        stmt[p] \notin {None, "show"} /\ at'[p] = "ready"
            => <<shared'[p], excl'[p]>> = before[p]
  <1>1. Init => HeldInv
    BY HeldInitial
  <1>2. TypeOK /\ HeldInv /\ [Next]_vars => HeldInv' /\ [Returns]_vars
    BY HeldNext DEF Returned
  <1> QED
    BY <1>1, <1>2, TypeCorrect, PTL DEF Spec, StatementsReturnLocks

----------------------------------------------------------------------------
(* The table, its plan and the memory of the processes.                    *)

LEMMA TableInitial == ASSUME OctoAssumption, Init PROVE TableInv
  <1>1. nextOid \in {0, 1} /\ catalog = nextOid /\ defn = nextOid /\ plan \in {0, nextOid}
    BY DEF Init
  <1>2. \A p \in Procs : at[p] = "off" /\ cache[p] = 0
    BY DEF Init
  <1> QED
    BY <1>1, <1>2 DEF TableInv, OneTable, KnowsTable

\* A definition in memory that still counts is the one in the database.
LEMMA FoundIsDefn ==
  ASSUME TypeOK, OneTable, NEW p \in Procs
  PROVE  Found(p) = defn
  BY DEF TypeOK, SchemaTypeOK, StmtTypeOK, OneTable, Found

\* What one process knows no step of another makes untrue.
LEMMA OthersKnowTable ==
  ASSUME TypeOK, LockInv, TableInv, NEW p \in Procs, NEW q \in Procs \ {p}, OwnSame(q),
         \/ at[p] \in Changing
         \/ UNCHANGED <<catalog, defn, plan>>
         \/ at[p] \in Reading /\ UNCHANGED <<catalog, defn>> /\ (plan # 0 => plan' = plan)
  PROVE  KnowsTable(q)'
  <1>1. KnowsTable(q) /\ at'[q] = at[q] /\ stmt'[q] = stmt[q] /\ used'[q] = used[q]
    BY DEF TableInv, OwnSame
  <1>2. CASE at[p] \in Changing
    <2>1. at[q] \notin Reading \cup Changing
      BY <1>2, AloneWhenChanging
    <2> QED
      BY <1>1, <2>1 DEF KnowsTable, Reading, Changing, DdlChanges
  <1>3. CASE UNCHANGED <<catalog, defn, plan>>
    BY <1>1, <1>3 DEF KnowsTable, UsesTable
  <1>4. CASE at[p] \in Reading /\ UNCHANGED <<catalog, defn>> /\ (plan # 0 => plan' = plan)
    <2>1. at[q] \notin Changing
      BY <1>4, AloneWhenChanging
    <2> QED
      BY <1>1, <1>4, <2>1 DEF KnowsTable, UsesTable, Changing, DdlChanges
  <1> QED
    BY <1>2, <1>3, <1>4

LEMMA StartKeepsTable ==
  ASSUME TypeOK, LockInv, TableInv, NEW p \in Procs, StartStep(p) \/ Killed(p)
  PROVE  TableInv'
  <1>0. OneTable /\ stage[p] \in {"plan", "seed", "bin"} /\ at \in [Procs -> Lines]
    BY DEF TableInv, TypeOK, StartTypeOK, Kinds
  <1>1. at'[p] \notin {"parsed", "run", "catalog", "define", "undefine"}
    <2>1. CASE Check(p) \/ LockDdlTimeout(p) \/ Killed(p)
      BY <1>0, <2>1, ExitIsLocal DEF Check, LockDdlTimeout, Killed, Goto
    <2>2. CASE Look(p) \/ Unlock(p)
      BY <1>0, <2>2, StageDoneIsLocal DEF Look, Unlock, FirstWork, Goto
    <2>3. CASE Start(p) \/ LockDdl(p) \/ Work(p) \/ Upgrade(p) \/ UpgradeDone(p) \/ MarkBin(p)
               \/ Mark(p)
      BY <1>0, <2>3 DEF Start, LockDdl, Work, Upgrade, UpgradeDone, MarkBin, Mark, Goto
    <2>4. CASE WorkDone(p)
      BY <1>0, <2>4 DEF WorkDone, AfterSeed, Goto
    <2> QED
      BY <2>1, <2>2, <2>3, <2>4 DEF StartStep
  <1>2. UNCHANGED <<catalog, defn, nextOid>>
    BY DEF StartStep, Start, Check, Look, LockDdl, LockDdlTimeout, Work, WorkDone, Upgrade,
           UpgradeDone, MarkBin, Mark, Unlock, Killed, schemaVars
  <1>3. plan' = plan \/ (plan' = 0 /\ at[p] \in Changing)
    <2>1. CASE WorkDone(p)
      BY <2>1 DEF WorkDone, Changing, StartChanges
    <2>2. CASE ~WorkDone(p)
      BY <2>2 DEF StartStep, Start, Check, Look, LockDdl, LockDdlTimeout, Work, Upgrade,
                  UpgradeDone, MarkBin, Mark, Unlock, Killed, schemaVars
    <2> QED
      BY <2>1, <2>2
  <1>4. \A q \in Procs : cache'[q] = cache[q] \/ cache'[q] = 0
    <2>1. CASE Check(p) \/ LockDdlTimeout(p) \/ Killed(p)
      BY <2>1, ExitIsLocal DEF Check, LockDdlTimeout, Killed, stmtVars, OnlyChanges, OwnSame
    <2>2. CASE ~(Check(p) \/ LockDdlTimeout(p) \/ Killed(p))
      BY <2>2 DEF StartStep, Start, Look, LockDdl, Work, WorkDone, Upgrade,
                  UpgradeDone, MarkBin, Mark, Unlock, stmtVars
    <2> QED
      BY <2>1, <2>2
  <1>5. OneTable'
    <2>1. catalog \in Nat /\ nextOid \in Nat /\ cache \in [Procs -> Nat]
      BY DEF TypeOK, SchemaTypeOK, StmtTypeOK
    <2>2. \A q \in Procs : cache'[q] <= nextOid /\ (catalog # 0 /\ defn = 0 => cache'[q] # catalog)
      BY <1>0, <1>4, <2>1 DEF OneTable
    <2> QED
      BY <1>0, <1>2, <1>3, <2>2 DEF OneTable
  <1>6. \A q \in Procs \ {p} : KnowsTable(q)'
    BY <1>2, <1>3, StartIsLocal, OthersKnowTable DEF OnlyChanges
  <1>7. KnowsTable(p)'
    BY <1>1 DEF KnowsTable
  <1> QED
    BY <1>5, <1>6, <1>7 DEF TableInv

LEMMA QueryKeepsTable ==
  ASSUME TypeOK, LockInv, TableInv, NEW p \in Procs, QueryStep(p)
  PROVE  TableInv'
  <1> USE DEF Goto, EndStmt, FindTable, schemaVars, stmtVars
  <1>0. /\ OneTable /\ KnowsTable(p) /\ Found(p) = defn
        /\ at \in [Procs -> Lines] /\ stmt \in [Procs -> Statements \cup {None}]
        /\ used \in [Procs -> Nat] /\ cache \in [Procs -> Nat] /\ plan \in Nat
    BY FoundIsDefn DEF TableInv, TypeOK, StartTypeOK, StmtTypeOK, SchemaTypeOK
  <1>1. UNCHANGED <<catalog, defn, nextOid>>
    BY DEF QueryStep, Peek, Share, ShareTimeout, Parse, Plan, Run, Show
  <1>2. \A q \in Procs : cache'[q] \in {cache[q], defn}
    BY <1>0 DEF QueryStep, Peek, Share, ShareTimeout, Parse, Plan, Run, Show
  <1>3. \/ plan' = plan
        \/ Plan(p) /\ plan = 0 /\ plan' = defn
    BY <1>0 DEF QueryStep, Peek, Share, ShareTimeout, Parse, Plan, Run, Show, KnowsTable, UsesTable
  <1>4. at[p] \in Reading \/ plan' = plan
    BY <1>3 DEF Plan, Reading
  <1>5. OneTable'
    <2>1. /\ catalog \in Nat /\ nextOid \in Nat /\ defn \in Nat /\ defn <= nextOid
      BY <1>0 DEF TypeOK, SchemaTypeOK, OneTable
    <2>2. \A q \in Procs : cache'[q] <= nextOid /\ (catalog # 0 /\ defn = 0 => cache'[q] # catalog)
      BY <1>0, <1>2, <2>1 DEF OneTable
    <2> QED
      BY <1>0, <1>1, <1>3, <2>2 DEF OneTable
  <1>6. \A q \in Procs \ {p} : KnowsTable(q)'
    BY <1>1, <1>3, <1>4, StatementIsLocal, OthersKnowTable DEF OnlyChanges
  <1>7. KnowsTable(p)'
    <2>1. CASE Peek(p) \/ Share(p) \/ ShareTimeout(p) \/ Run(p) \/ Show(p)
      <3>1. at'[p] \in {"ready", "parse"}
        BY <1>0, <2>1 DEF Peek, Share, ShareTimeout, Run, Show
      <3> QED
        BY <3>1 DEF KnowsTable
    <2>2. CASE Parse(p)
      <3>1. at'[p] = "ready" \/ (at'[p] = "parsed" /\ stmt' = stmt)
        BY <1>0, <2>2 DEF Parse
      <3>2. at'[p] = "parsed" /\ UsesTable(p) => used'[p] = defn /\ defn # 0
        BY <1>0, <2>2 DEF Parse
      <3> QED
        BY <1>1, <3>1, <3>2 DEF KnowsTable, UsesTable
    <2>3. CASE Plan(p)
      <3>1. at'[p] = "run" /\ used'[p] = used[p] /\ used[p] = defn /\ defn # 0
        BY <1>0, <2>3 DEF Plan, KnowsTable, UsesTable
      <3>2. plan' = defn
        BY <1>0, <2>3, <3>1 DEF Plan, OneTable
      <3> QED
        BY <1>1, <3>1, <3>2 DEF KnowsTable
    <2> QED
      BY <2>1, <2>2, <2>3 DEF QueryStep
  <1> QED
    BY <1>5, <1>6, <1>7 DEF TableInv

LEMMA DdlKeepsTable ==
  ASSUME TypeOK, LockInv, TableInv, NEW p \in Procs, DdlStep(p)
  PROVE  TableInv'
  <1> USE DEF Goto, EndStmt, FindTable, schemaVars, stmtVars
  <1>0. /\ OneTable /\ KnowsTable(p) /\ Found(p) = defn
        /\ at \in [Procs -> Lines] /\ stmt \in [Procs -> Statements \cup {None}]
        /\ cache \in [Procs -> Nat] /\ plan \in Nat
        /\ catalog \in Nat /\ nextOid \in Nat /\ defn \in Nat /\ defn <= nextOid
    BY FoundIsDefn DEF TableInv, TypeOK, StartTypeOK, StmtTypeOK, SchemaTypeOK, OneTable
  <1>1. ASSUME at[p] \in Changing \/ UNCHANGED <<catalog, defn, plan>>, OneTable', KnowsTable(p)'
        PROVE  TableInv'
    <2>1. \A q \in Procs \ {p} : KnowsTable(q)'
      BY <1>1, StatementIsLocal, OthersKnowTable DEF OnlyChanges
    <2> QED
      BY <1>1, <2>1 DEF TableInv
  <1>2. CASE Unshare(p) \/ Exclude(p) \/ ExcludeTimeout(p) \/ DdlFails(p)
    <2>1. UNCHANGED <<catalog, defn, plan, nextOid, cache>>
      BY <1>2 DEF Unshare, Exclude, ExcludeTimeout, DdlFails
    <2>2. at'[p] \in {"ask", "recheck", "ready"}
      BY <1>0, <1>2 DEF Unshare, Exclude, ExcludeTimeout, DdlFails
    <2> QED
      BY <1>0, <1>1, <2>1, <2>2 DEF OneTable, KnowsTable
  <1>3. CASE Recheck(p)
    <2>1. UNCHANGED <<catalog, defn, plan, nextOid>> /\ \A q \in Procs : cache'[q] \in {cache[q], defn}
      BY <1>0, <1>3 DEF Recheck
    <2>2. \A q \in Procs : cache'[q] <= nextOid /\ (catalog # 0 /\ defn = 0 => cache'[q] # catalog)
      BY <1>0, <2>1 DEF OneTable
    <2>3. OneTable'
      BY <1>0, <2>1, <2>2 DEF OneTable
    <2>4. \/ at'[p] \in {"ready", "discard"}
          \/ at'[p] = "catalog" /\ stmt' = stmt /\ (stmt[p] = "create" => defn = 0)
      BY <1>0, <1>3 DEF Recheck, Refuse, Refused
    <2> QED
      BY <1>1, <2>1, <2>3, <2>4 DEF KnowsTable
  <1>4. CASE Catalog(p)
    <2>1. /\ at[p] = "catalog" /\ at'[p] = "define" /\ nextOid' = nextOid + 1
          /\ UNCHANGED <<defn, plan, cache, stmt>>
          /\ \/ stmt[p] = "create" /\ catalog' = nextOid'
             \/ stmt[p] # "create" /\ catalog' = catalog
      BY <1>0, <1>4 DEF Catalog
    <2>2. stmt[p] = "create" => defn = 0 /\ catalog' # 0
      BY <1>0, <2>1 DEF KnowsTable
    <2>3. OneTable'
      <3>1. \A q \in Procs : cache[q] <= nextOid /\ cache[q] \in Nat
        BY <1>0 DEF OneTable
      <3>2. \A q \in Procs : cache[q] <= nextOid' /\ cache[q] # nextOid'
        BY <1>0, <2>1, <3>1
      <3> QED
        BY <1>0, <2>1, <2>2, <3>2 DEF OneTable
    <2>4. KnowsTable(p)'
      BY <2>1, <2>2 DEF KnowsTable
    <2> QED
      BY <1>1, <2>1, <2>3, <2>4 DEF Changing, DdlChanges
  <1>5. CASE Define(p)
    <2>1. /\ at[p] = "define" /\ at'[p] = "ready" /\ UNCHANGED <<catalog, plan, nextOid, cache>>
          /\ \/ stmt[p] = "create" /\ defn' = catalog
             \/ stmt[p] # "create" /\ defn' = defn
      BY <1>0, <1>5 DEF Define
    <2>2. stmt[p] = "create" => defn = 0 /\ catalog # 0 /\ plan = 0
      BY <1>0, <2>1 DEF KnowsTable, OneTable
    <2>3. OneTable'
      BY <1>0, <2>1, <2>2 DEF OneTable
    <2>4. KnowsTable(p)'
      BY <2>1 DEF KnowsTable
    <2> QED
      BY <1>1, <2>1, <2>3, <2>4 DEF Changing, DdlChanges
  <1>6. CASE Discard(p)
    <2>1. /\ at[p] = "discard" /\ at'[p] = "undefine"
          /\ UNCHANGED <<catalog, defn, nextOid, cache, stmt>>
          /\ \/ stmt[p] = "drop" /\ plan' = 0
             \/ stmt[p] # "drop" /\ plan' = plan
      BY <1>0, <1>6 DEF Discard
    <2>2. OneTable' /\ KnowsTable(p)'
      BY <1>0, <2>1 DEF OneTable, KnowsTable
    <2> QED
      BY <1>1, <2>1, <2>2 DEF Changing, DdlChanges
  <1>7. CASE Undefine(p)
    <2>1. /\ at[p] = "undefine" /\ at'[p] = "ready" /\ UNCHANGED <<plan, nextOid>>
          /\ \A q \in Procs : cache'[q] \in {0, cache[q]}
          /\ \/ stmt[p] = "drop" /\ defn' = 0 /\ catalog' = 0
             \/ stmt[p] # "drop" /\ UNCHANGED <<defn, catalog>>
      BY <1>0, <1>7 DEF Undefine
    <2>2. stmt[p] = "drop" => plan = 0
      BY <1>0, <2>1 DEF KnowsTable
    <2>3. \A q \in Procs : cache'[q] <= nextOid /\ (catalog # 0 /\ defn = 0 => cache'[q] # catalog)
      BY <1>0, <2>1 DEF OneTable
    <2>4. OneTable'
      BY <1>0, <2>1, <2>2, <2>3 DEF OneTable
    <2>5. KnowsTable(p)'
      BY <2>1 DEF KnowsTable
    <2> QED
      BY <1>1, <2>1, <2>4, <2>5 DEF Changing, DdlChanges
  <1> QED
    BY <1>2, <1>3, <1>4, <1>5, <1>6, <1>7 DEF DdlStep

LEMMA TableNext ==
  ASSUME TypeOK, LockInv, TableInv, [Next]_vars
  PROVE  TableInv'
  <1>1. ASSUME NEW p \in Procs, NEW s \in Statements, Ask(p, s) PROVE TableInv'
    <2>1. UNCHANGED <<catalog, defn, plan, nextOid, cache>> /\ at'[p] = "share"
      BY <1>1 DEF Ask, Goto, schemaVars, TypeOK, StartTypeOK
    <2>2. \A q \in Procs \ {p} : KnowsTable(q)'
      BY <1>1, <2>1, AskIsLocal, OthersKnowTable DEF OnlyChanges
    <2> QED
      BY <2>1, <2>2 DEF TableInv, OneTable, KnowsTable
  <1>2. ASSUME NEW p \in Procs, NEW q \in Procs, Fork(p, q) PROVE TableInv'
    <2>1. /\ UNCHANGED <<catalog, defn, plan, nextOid>> /\ at'[q] = "ready"
          /\ cache' = [cache EXCEPT ![q] = cache[p]] /\ cache \in [Procs -> Nat]
      BY <1>2 DEF Fork, Goto, schemaVars, TypeOK, StartTypeOK, StmtTypeOK
    <2>2. \A r \in Procs \ {q} : KnowsTable(r)'
      BY <1>2, <2>1, ForkIsLocal, OthersKnowTable DEF OnlyChanges
    <2>3. \A r \in Procs : cache'[r] \in {cache[r], cache[p]}
      BY <2>1
    <2> QED
      BY <2>1, <2>2, <2>3 DEF TableInv, OneTable, KnowsTable
  <1>3. ASSUME UNCHANGED vars PROVE TableInv'
    BY <1>3 DEF vars, schemaVars, stmtVars, TableInv, OneTable, KnowsTable, UsesTable
  <1> QED
    BY <1>1, <1>2, <1>3, StartKeepsTable, QueryKeepsTable, DdlKeepsTable DEF Next

\* A SELECT runs with a plan made for the table that exists, the one it was
\* parsed against: no definition in memory and no stored plan survives a DROP
\* and a CREATE by another process, nor one that was killed half way.
THEOREM SelectsAreCurrent == Spec => []SelectsUseCurrentTable
  <1>1. Init => TableInv
    BY TableInitial, OctoAssumption
  <1>2. TypeOK /\ LockInv /\ TableInv /\ [Next]_vars => TableInv'
    BY TableNext
  <1>3. TableInv => SelectsUseCurrentTable
    BY DEF TableInv, KnowsTable, SelectsUseCurrentTable
  <1> QED
    BY <1>1, <1>2, <1>3, TypeCorrect, LocksHold, PTL DEF Spec

==============================================================================
