------------------------------ MODULE OctoDdl ------------------------------
(***************************************************************************)
(* How the processes of YDBOcto share one schema (ydbocto-aux/src): the    *)
(* upgrade that every octo and rocto process looks for when it starts, and *)
(* the statements that read and change the schema afterwards.              *)
(*                                                                         *)
(* The database keeps three format numbers, of the plans ("planfmt"), the  *)
(* definitions loaded from octo-seed.sql ("seeddfnfmt") and the binary     *)
(* definitions of tables and functions ("binfmt").  A start-up compares    *)
(* each with its own, takes the exclusive lock where they differ, looks    *)
(* again, does the work, sets the number and lets go of the lock.          *)
(*                                                                         *)
(* Statements are about one table and one view on it.  All processes run   *)
(* the same build.  Of a plan or definition only its age is kept, of a     *)
(* table the object id ("oid") it was created with.                        *)
(***************************************************************************)
EXTENDS DdlLock, FiniteSets

CONSTANTS
    Rocto,          \* the processes that are rocto listeners
    Databases,      \* the databases to begin with, see FmtOf
    MaxStarts,      \* bound: processes started or forked
    MaxStatements,  \* bound: statements asked for
    MaxFaults       \* bound: processes killed, statements that fail half way

Kinds == {"plan", "seed", "bin"}
Formats == {"none", "pre929", "old", "now", "newer"}
Ages == {"old", "half", "new"}
Statements == {"select", "show", "create", "drop", "view", "unview"}
None == "none"

ASSUME OctoAssumption ==
    /\ Rocto \subseteq Procs
    /\ Databases \subseteq {"fresh", "unmarked", "pre929", "old", "now", "newer"}
    /\ {MaxStarts, MaxStatements, MaxFaults} \subseteq Nat

VARIABLES
    \* the database
    fmt,        \* fmt[k]: format number of kind k, against that of the build
    data,       \* data[k]: how far what is stored is up to that of the build
    catalog,    \* oid of the table in its "pg_class" node, 0 without one
    defn,       \* oid in the binary definition of the table, 0 without one
    plan,       \* oid of the table the stored plan was made for, 0 without one
    view,       \* oid of the table the view was defined over, 0 without a view
    named,      \* the schema has a node of the view's name, a view
    depends,    \* a "tableviewdependency" node names the view
    nextOid,    \* ^%ydboctoocto("oid")
    \* the processes
    at,         \* at[p]: where p is
    stage,      \* stage[p]: the kind the start-up of p is at
    wants,      \* wants[p]: which of the two flags full/partial are set
    octo929,    \* processes with config->is_auto_upgrade_octo929
    stmt,       \* stmt[p]: the statement p runs
    used,       \* used[p]: oid of the table p parsed its statement against
    cache,      \* cache[p]: oid of the table definition p has in memory
    \* history, read by the bounds and by properties only
    starts, asked, faults,
    needless,   \* a seed that was current is being, or was half, loaded again
    before      \* before[p]: what p held when its statement began

dbVars == <<fmt, data>>
schemaVars == <<catalog, defn, plan, view, named, depends, nextOid>>
startVars == <<stage, wants, octo929>>
stmtVars == <<stmt, used, cache>>
bounds == <<starts, asked, faults>>
history == <<bounds, needless, before>>
vars == <<lockVars, dbVars, schemaVars, at, startVars, stmtVars, history>>

\* A fresh database, one of a build before "seeddfnfmt" existed, one from
\* before YDBOcto#929, and others.
FmtOf(d) ==
    CASE d = "fresh" -> [k \in Kinds |-> "none"]
      [] d = "unmarked" -> [plan |-> "old", seed |-> "none", bin |-> "old"]
      [] d = "pre929" -> [plan |-> "old", seed |-> "pre929", bin |-> "old"]
      [] OTHER -> [k \in Kinds |-> d]
DataOf(d) ==
    CASE d = "fresh" -> [plan |-> "new", seed |-> "old", bin |-> "new"]
      [] d = "now" -> [k \in Kinds |-> "new"]
      [] OTHER -> [k \in Kinds |-> "old"]

Init ==
    /\ LockInit
    /\ \E d \in Databases :
        /\ fmt = FmtOf(d) /\ data = DataOf(d)
        /\ nextOid = IF d = "fresh" THEN 0 ELSE 1
    /\ catalog = nextOid /\ defn = nextOid
    /\ plan \in {0, nextOid} /\ view \in {0, nextOid}
    /\ named = (view # 0) /\ depends = (view # 0)
    /\ at = [p \in Procs |-> "off"]
    /\ stage = [p \in Procs |-> "plan"]
    /\ wants = [p \in Procs |-> {}]
    /\ octo929 = {}
    /\ stmt = [p \in Procs |-> None]
    /\ used = [p \in Procs |-> 0]
    /\ cache = [p \in Procs |-> 0]
    /\ starts = 0 /\ asked = 0 /\ faults = 0
    /\ needless = FALSE
    /\ before = [p \in Procs |-> <<0, 0>>]

Goto(p, line) == at' = [at EXCEPT ![p] = line]

----------------------------------------------------------------------------
(* Start-up.                                                               *)

\* A process that ends: its locks and its memory go.
Exit(p) ==
    /\ DropAll(p)
    /\ Goto(p, "off")
    /\ stage' = [stage EXCEPT ![p] = "plan"]
    /\ wants' = [wants EXCEPT ![p] = {}]
    /\ octo929' = octo929 \ {p}
    /\ stmt' = [stmt EXCEPT ![p] = None]
    /\ used' = [used EXCEPT ![p] = 0]
    /\ cache' = [cache EXCEPT ![p] = 0]
    /\ before' = [before EXCEPT ![p] = <<0, 0>>]

Start(p) ==
    /\ at[p] = "off" /\ starts < MaxStarts
    /\ starts' = starts + 1
    /\ Goto(p, "check")
    /\ UNCHANGED <<lockVars, dbVars, schemaVars, startVars, stmtVars, asked, faults, needless, before>>

\* A database of a later build is left alone, whatever its other numbers.
Check(p) ==
    /\ at[p] = "check"
    /\ \/ fmt["bin"] = "newer" /\ Exit(p)
       \/ /\ fmt["bin"] # "newer"
          /\ Goto(p, "look")
          /\ UNCHANGED <<lockVars, startVars, stmtVars, before>>
    /\ UNCHANGED <<dbVars, schemaVars, bounds, needless>>

\* The flags after a look at the format number of kind k.
WantsAfter(p, k) ==
    IF k = "seed" /\ fmt[k] = "none"
    THEN wants[p] \cup {IF fmt["bin"] = "none" THEN "partial" ELSE "full"}
    ELSE (wants[p] \ {"full"}) \cup (IF fmt[k] = "now" THEN {} ELSE {"full"})

LooksPre929 ==
    \/ fmt["seed"] = "none" /\ fmt["bin"] # "none"
    \/ fmt["seed"] = "pre929"

StageDone(p) ==
    /\ wants' = [wants EXCEPT ![p] = {}]
    /\ CASE stage[p] = "plan" -> stage' = [stage EXCEPT ![p] = "seed"] /\ Goto(p, "look")
         [] stage[p] = "seed" -> stage' = [stage EXCEPT ![p] = "bin"] /\ Goto(p, "look")
         [] stage[p] = "bin" -> UNCHANGED stage /\ Goto(p, "ready")

FirstWork(p) == IF stage[p] = "bin" THEN "upgrade" ELSE "work"

\* One round of the loop: the first look goes for the lock, the second, which
\* has it, for the work.  Where there is nothing to do either returns at once.
Look(p) ==
    /\ at[p] \in {"look", "again"}
    /\ octo929' = IF stage[p] = "seed" /\ LooksPre929 THEN octo929 \cup {p} ELSE octo929
    /\ \/ /\ WantsAfter(p, stage[p]) = {}
          /\ StageDone(p)
       \/ /\ WantsAfter(p, stage[p]) # {}
          /\ wants' = [wants EXCEPT ![p] = WantsAfter(p, stage[p])]
          /\ Goto(p, IF at[p] = "look" THEN "lock" ELSE FirstWork(p))
          /\ UNCHANGED stage
    /\ UNCHANGED <<lockVars, dbVars, schemaVars, stmtVars, history>>

\* Who will change the schema locks it all, not the part of its own pid.
TakeDdlOfPid(p) == GrabShared(p)
TakeDdl(p) == GrabExclusive(p)

LockDdl(p) ==
    /\ at[p] = "lock"
    /\ TakeDdl(p)
    /\ Goto(p, "again")
    /\ UNCHANGED <<dbVars, schemaVars, startVars, stmtVars, history>>

LockTimeoutGoesOn(p) ==
    /\ at[p] = "lock" /\ ~Excludable(p)
    /\ StageDone(p)
    /\ UNCHANGED <<lockVars, dbVars, schemaVars, octo929, stmtVars, history>>

\* Ten seconds without the lock: the process does not start.
LockDdlTimeout(p) ==
    /\ at[p] = "lock" /\ ~Excludable(p)
    /\ Exit(p)
    /\ UNCHANGED <<dbVars, schemaVars, bounds, needless>>

\* DISCARD ALL, or the load of octo-seed.sql and octo-seed.zwr.
Work(p) ==
    /\ at[p] = "work"
    /\ data' = [data EXCEPT ![stage[p]] = "half"]
    /\ needless' = (needless \/ (stage[p] = "seed" /\ fmt["seed"] = "now"))
    /\ Goto(p, "working")
    /\ UNCHANGED <<lockVars, fmt, schemaVars, startVars, stmtVars, bounds, before>>

AfterSeedMarkBin(p) == "markbin"

\* Definitions that were made over another seed are upgraded with it.
AfterSeed(p) == IF "full" \in wants[p] THEN "upgrade" ELSE "markbin"

WorkDone(p) ==
    /\ at[p] = "working"
    /\ data' = [data EXCEPT ![stage[p]] = "new"]
    /\ \/ stage[p] = "plan" /\ plan' = 0 /\ Goto(p, "mark") /\ UNCHANGED needless
       \/ /\ stage[p] = "seed"
          /\ needless' = FALSE
          /\ Goto(p, AfterSeed(p))
          /\ UNCHANGED plan
    /\ UNCHANGED <<lockVars, fmt, catalog, defn, view, named, depends, nextOid, startVars,
                   stmtVars, bounds, before>>

\* Functions, tables and views are rewritten one after the other.
Upgrade(p) ==
    /\ at[p] = "upgrade"
    /\ data' = [data EXCEPT !["bin"] = "half"]
    /\ Goto(p, "upgrading")
    /\ UNCHANGED <<lockVars, fmt, schemaVars, startVars, stmtVars, history>>

UpgradeDone(p) ==
    /\ at[p] = "upgrading"
    /\ data' = [data EXCEPT !["bin"] = "new"]
    /\ Goto(p, "markbin")
    /\ UNCHANGED <<lockVars, fmt, schemaVars, startVars, stmtVars, history>>

MarkBin(p) ==
    /\ at[p] = "markbin"
    /\ fmt' = [fmt EXCEPT !["bin"] = "now"]
    /\ Goto(p, IF stage[p] = "bin" THEN "unlock" ELSE "mark")
    /\ octo929' = IF stage[p] = "seed" /\ "full" \in wants[p] THEN octo929 \ {p} ELSE octo929
    /\ UNCHANGED <<lockVars, data, schemaVars, stage, wants, stmtVars, history>>

Mark(p) ==
    /\ at[p] = "mark"
    /\ fmt' = [fmt EXCEPT ![stage[p]] = "now"]
    /\ Goto(p, "unlock")
    /\ UNCHANGED <<lockVars, data, schemaVars, startVars, stmtVars, history>>

Unlock(p) ==
    /\ at[p] = "unlock"
    /\ DropExclusive(p)
    /\ StageDone(p)
    /\ UNCHANGED <<dbVars, schemaVars, octo929, stmtVars, history>>

\* A rocto listener forks a server for a connection: the child has a copy of
\* its memory, but none of its locks.
Fork(p, q) ==
    /\ p \in Rocto /\ at[p] = "ready"
    /\ q \notin Rocto /\ at[q] = "off" /\ starts < MaxStarts
    /\ starts' = starts + 1
    /\ Goto(q, "ready")
    /\ octo929' = IF p \in octo929 THEN octo929 \cup {q} ELSE octo929
    /\ cache' = [cache EXCEPT ![q] = cache[p]]
    /\ UNCHANGED <<lockVars, dbVars, schemaVars, stage, wants, stmt, used, asked, faults,
                   needless, before>>

\* A step that fails ends the start-up, and the process with it; and any
\* process may be killed.
Killed(p) ==
    /\ at[p] # "off" /\ faults < MaxFaults
    /\ faults' = faults + 1
    /\ Exit(p)
    /\ UNCHANGED <<dbVars, schemaVars, starts, asked, needless>>

----------------------------------------------------------------------------
(* Statements: run_query.                                                  *)

Ask(p, s) ==
    /\ at[p] = "ready" /\ p \notin Rocto /\ asked < MaxStatements
    /\ asked' = asked + 1
    /\ stmt' = [stmt EXCEPT ![p] = s]
    /\ before' = [before EXCEPT ![p] = <<shared[p], excl[p]>>]
    /\ Goto(p, "share")
    /\ UNCHANGED <<lockVars, dbVars, schemaVars, startVars, used, cache, starts, faults, needless>>

EndStmt(p) ==
    /\ stmt' = [stmt EXCEPT ![p] = None]
    /\ used' = [used EXCEPT ![p] = 0]
    /\ Goto(p, "ready")

Share(p) ==
    /\ at[p] = "share"
    /\ GrabShared(p)
    /\ Goto(p, "parse")
    /\ UNCHANGED <<dbVars, schemaVars, startVars, stmtVars, history>>

ShareTimeout(p) ==
    /\ at[p] = "share" /\ ~Shareable(p)
    /\ EndStmt(p)
    /\ UNCHANGED <<lockVars, dbVars, schemaVars, startVars, cache, history>>

FoundInMemory(p) == IF cache[p] # 0 THEN cache[p] ELSE defn

\* find_view_or_table: the definition in memory if the database still has
\* the table under that oid, else the one in the database, 0 for none.
Found(p) == IF cache[p] # 0 /\ catalog = cache[p] THEN cache[p] ELSE defn
FindTable(p) == cache' = [cache EXCEPT ![p] = Found(p)]

\* An interactive octo parses what is typed once before it asks for the lock.
Peek(p) ==
    /\ at[p] = "ready" /\ p \notin Rocto
    /\ FindTable(p)
    /\ UNCHANGED <<lockVars, dbVars, schemaVars, at, startVars, stmt, used, history>>

UsesTable(p) == stmt[p] \in {"select", "view"}

Parse(p) ==
    /\ at[p] = "parse"
    /\ \/ /\ UsesTable(p) /\ Found(p) = 0
          /\ FindTable(p)
          /\ DropShared(p) /\ EndStmt(p)
       \/ /\ UsesTable(p) /\ Found(p) # 0
          /\ FindTable(p)
          /\ used' = [used EXCEPT ![p] = Found(p)]
          /\ Goto(p, "parsed") /\ UNCHANGED <<lockVars, stmt>>
       \/ /\ ~UsesTable(p)
          /\ Goto(p, "parsed") /\ UNCHANGED <<lockVars, stmtVars>>
    /\ UNCHANGED <<dbVars, schemaVars, startVars, history>>

\* The plan that is stored for the query, or a new one.
Plan(p) ==
    /\ at[p] = "parsed" /\ stmt[p] = "select"
    /\ plan' = IF plan = 0 THEN used[p] ELSE plan
    /\ Goto(p, "run")
    /\ UNCHANGED <<lockVars, dbVars, catalog, defn, view, named, depends, nextOid, startVars,
                   stmtVars, history>>

Run(p) ==
    /\ at[p] = "run"
    /\ DropShared(p) /\ EndStmt(p)
    /\ UNCHANGED <<dbVars, schemaVars, startVars, cache, history>>

\* SET and SHOW: where the callback fails, the clean-up of the DDL
\* statements runs, which decrements the exclusive lock.
Show(p) ==
    /\ at[p] = "parsed" /\ stmt[p] = "show"
    /\ (DropShared(p) \/ DropExclusive(p))
    /\ EndStmt(p)
    /\ UNCHANGED <<dbVars, schemaVars, startVars, cache, history>>

IsDdl(s) == s \in {"create", "drop", "view", "unview"}

Unshare(p) ==
    /\ at[p] = "parsed" /\ IsDdl(stmt[p])
    /\ DropShared(p)
    /\ Goto(p, "ask")
    /\ UNCHANGED <<dbVars, schemaVars, startVars, stmtVars, history>>

Exclude(p) ==
    /\ at[p] = "ask"
    /\ TakeDdl(p)
    /\ Goto(p, "recheck")
    /\ UNCHANGED <<dbVars, schemaVars, startVars, stmtVars, history>>

ExcludeTimeout(p) ==
    /\ at[p] = "ask" /\ ~Excludable(p)
    /\ EndStmt(p)
    /\ UNCHANGED <<lockVars, dbVars, schemaVars, startVars, cache, history>>

\* What a statement is refused for, now that the schema stands still.
Refused(p) ==
    \/ stmt[p] = "create" /\ Found(p) # 0
    \/ stmt[p] = "drop" /\ (Found(p) = 0 \/ (depends /\ p \notin octo929))
    \/ stmt[p] = "view" /\ view # 0
    \/ stmt[p] = "unview" /\ ~named

LooksUpTable(p) == stmt[p] \in {"create", "drop"}

RefuseKeepsLock(p) == UNCHANGED lockVars /\ EndStmt(p)
Refuse(p) == DropExclusive(p) /\ EndStmt(p)

Recheck(p) ==
    /\ at[p] = "recheck"
    /\ IF LooksUpTable(p) THEN FindTable(p) ELSE UNCHANGED cache
    /\ \/ Refused(p) /\ Refuse(p)
       \/ /\ ~Refused(p)
          /\ Goto(p, IF stmt[p] \in {"create", "view"} THEN "catalog" ELSE "discard")
          /\ UNCHANGED <<lockVars, stmt, used>>
    /\ UNCHANGED <<dbVars, schemaVars, startVars, history>>

\* store_table_or_view_in_pg_class
Catalog(p) ==
    /\ at[p] = "catalog"
    /\ nextOid' = nextOid + 1
    /\ \/ stmt[p] = "create" /\ catalog' = nextOid' /\ UNCHANGED <<named, depends>>
       \/ stmt[p] = "view" /\ named' = TRUE /\ depends' = TRUE /\ UNCHANGED catalog
    /\ Goto(p, "define")
    /\ UNCHANGED <<lockVars, dbVars, defn, plan, view, startVars, stmtVars, history>>

Define(p) ==
    /\ at[p] = "define"
    /\ \/ stmt[p] = "create" /\ defn' = catalog /\ UNCHANGED view
       \/ stmt[p] = "view" /\ view' = used[p] /\ UNCHANGED defn
    /\ DropExclusive(p) /\ EndStmt(p)
    /\ UNCHANGED <<dbVars, catalog, plan, named, depends, nextOid, startVars, cache, history>>

\* _ydboctoDiscardTable, _ydboctoDiscardView
Discard(p) ==
    /\ at[p] = "discard"
    /\ \/ stmt[p] = "drop" /\ plan' = 0 /\ UNCHANGED depends
       \/ stmt[p] = "unview" /\ depends' = FALSE /\ UNCHANGED plan
    /\ Goto(p, "undefine")
    /\ UNCHANGED <<lockVars, dbVars, catalog, defn, view, named, nextOid, startVars, stmtVars, history>>

Undefine(p) ==
    /\ at[p] = "undefine"
    /\ \/ /\ stmt[p] = "drop"
          /\ defn' = 0 /\ catalog' = 0
          /\ cache' = IF p \in octo929 THEN cache ELSE [cache EXCEPT ![p] = 0]
          /\ UNCHANGED <<view, named>>
       \/ stmt[p] = "unview" /\ view' = 0 /\ named' = FALSE /\ UNCHANGED <<defn, catalog, cache>>
    /\ DropExclusive(p) /\ EndStmt(p)
    /\ UNCHANGED <<dbVars, plan, depends, nextOid, startVars, history>>

\* A step of a DDL statement fails: the statement ends there.
DdlFails(p) ==
    /\ at[p] \in {"catalog", "define", "discard", "undefine"} /\ faults < MaxFaults
    /\ faults' = faults + 1
    /\ DropExclusive(p) /\ EndStmt(p)
    /\ UNCHANGED <<dbVars, schemaVars, startVars, cache, starts, asked, needless, before>>

----------------------------------------------------------------------------
StartStep(p) ==
    \/ Start(p) \/ Check(p) \/ Look(p) \/ LockDdl(p) \/ LockDdlTimeout(p)
    \/ Work(p) \/ WorkDone(p) \/ Upgrade(p) \/ UpgradeDone(p)
    \/ MarkBin(p) \/ Mark(p) \/ Unlock(p)
QueryStep(p) ==
    \/ Peek(p) \/ Share(p) \/ ShareTimeout(p) \/ Parse(p) \/ Plan(p) \/ Run(p) \/ Show(p)
DdlStep(p) ==
    \/ Unshare(p) \/ Exclude(p) \/ ExcludeTimeout(p) \/ Recheck(p)
    \/ Catalog(p) \/ Define(p) \/ Discard(p) \/ Undefine(p) \/ DdlFails(p)

Next ==
    \E p \in Procs :
        \/ StartStep(p) \/ QueryStep(p) \/ DdlStep(p) \/ Killed(p)
        \/ \E s \in Statements : Ask(p, s)
        \/ \E q \in Procs : Fork(p, q)

Spec == Init /\ [][Next]_vars

----------------------------------------------------------------------------
(* Properties.                                                             *)

Reading == {"parse", "parsed", "run"}
StartChanges == {"again", "work", "working", "upgrade", "upgrading", "markbin", "mark", "unlock"}
DdlChanges == {"recheck", "catalog", "define", "discard", "undefine"}
Changing == StartChanges \cup DdlChanges
Lines == Reading \cup Changing \cup {"off", "check", "look", "lock", "ready", "share", "ask"}

DbTypeOK == fmt \in [Kinds -> Formats] /\ data \in [Kinds -> Ages]
SchemaTypeOK ==
    /\ {catalog, defn, plan, view, nextOid} \subseteq Nat
    /\ {named, depends} \subseteq BOOLEAN
StartTypeOK ==
    /\ at \in [Procs -> Lines]
    /\ stage \in [Procs -> Kinds]
    /\ wants \in [Procs -> SUBSET {"full", "partial"}]
    /\ octo929 \subseteq Procs
StmtTypeOK ==
    /\ stmt \in [Procs -> Statements \cup {None}]
    /\ used \in [Procs -> Nat] /\ cache \in [Procs -> Nat]
HistoryTypeOK ==
    /\ starts \in 0..MaxStarts /\ asked \in 0..MaxStatements /\ faults \in 0..MaxFaults
    /\ needless \in BOOLEAN
    /\ before \in [Procs -> Nat \X Nat]

\* Every variable has its type.
TypeOK == LockTypeOK /\ DbTypeOK /\ SchemaTypeOK /\ StartTypeOK /\ StmtTypeOK /\ HistoryTypeOK

\* Shared and exclusive uses of the lock implement SchemaAccess: while a
\* start-up or a DDL statement changes the schema nobody else reads or
\* changes it, whoever fails, is killed or gives up waiting.
ModeOf(line) ==
    CASE line \in Reading -> "reads" [] line \in Changing -> "changes" [] OTHER -> "away"
Modes == [p \in Procs |-> ModeOf(at[p])]
Access == INSTANCE SchemaAccess WITH mode <- Modes
AccessSpec == Access!Spec

\* A format number of this build is never ahead of the work it stands for,
\* though the work is done in steps and any of them may be the last of its
\* process.  The one exception is a seed that is loaded again without need.
MarksTellTheTruth ==
    /\ fmt["plan"] = "now" => data["plan"] = "new"
    /\ fmt["seed"] = "now" /\ ~needless => data["seed"] = "new"
    /\ fmt["seed"] = "now" /\ fmt["bin"] = "now" => data["bin"] = "new"

\* No statement is parsed or run against plans and definitions that another
\* process is half way through upgrading, or that nobody has upgraded.
ReadersSeeUpgraded ==
    \A p \in Procs : at[p] \in Reading =>
        /\ data["plan"] = "new" /\ data["bin"] = "new"
        /\ needless \/ data["seed"] = "new"

\* A SELECT runs with a plan made for the table that exists, the one it was
\* parsed against: neither a definition kept in memory nor a stored plan
\* survives a DROP and CREATE by another process.
SelectsUseCurrentTable ==
    \A p \in Procs : at[p] = "run" => used[p] = defn /\ plan = defn /\ defn # 0

\* A statement other than SET and SHOW leaves the locks of its process as it
\* found them, however it ends.
StatementsReturnLocks ==
    [][\A p \in Procs :
        stmt[p] \notin {None, "show"} /\ at'[p] = "ready"
            => <<shared'[p], excl'[p]>> = before[p]]_vars

\* A process that has started holds no lock until it is asked for something:
\* "Return after releasing ddl exclusive lock (if applicable)", as
\* auto_load_octo_seed_if_needed.c and its two siblings say.
NoLockLeftAfterStart ==
    \A p \in Procs : at[p] = "ready" /\ asked = 0 => excl[p] = 0

\* A view is over a table that exists: run_query refuses to drop a table a
\* view relies on.
ViewHasItsTable == view # 0 => defn # 0
==============================================================================
