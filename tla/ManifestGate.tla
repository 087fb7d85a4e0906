---------------------------- MODULE ManifestGate ----------------------------
(***************************************************************************)
(* The discovery artifacts: `make manifest' (tools/gen-manifest.py),       *)
(* `make check-manifest' and the CI job that gates every push with it.     *)
(*                                                                         *)
(* Two sites have a working tree.  "dev" is a maintainer's: snapshots and  *)
(* the table change in it at any time, also while the generator reads it,  *)
(* files under dist/ are edited or deleted by hand, and any part of it is  *)
(* committed.  "ci" checks out a commit and runs the gate on it; nothing   *)
(* else touches that tree.                                                 *)
(*                                                                         *)
(* A row of sources.tsv is its license, a snapshot is known by the counts  *)
(* count_subdir finds in it.  `git diff' compares with the commit the tree *)
(* is based on: staging and committing are one step.                       *)
(***************************************************************************)
EXTENDS Naturals, Sequences, FiniteSets

CONSTANTS
    Names,      \* the subdirs, in the order of sorted()
    Licenses,   \* the licenses a row may have
    Snapshots,  \* the snapshots a subdir may hold
    Routines,   \* Routines[v]: number of .m files of snapshot v
    Loc,        \* Loc[v]: lines of these files
    MaxEdits    \* bound: what the maintainer does besides generating

Elems(seq) == {seq[i] : i \in DOMAIN seq}
Subdirs == Elems(Names)

ASSUME NamesAssumption ==       \* the keys of a dict
    /\ Names \in Seq(Subdirs)
    /\ \A i, j \in DOMAIN Names : Names[i] = Names[j] => i = j
ASSUME CountsAssumption ==
    /\ Routines \in [Snapshots -> Nat]
    /\ Loc \in [Snapshots -> Nat]

Sites == {"dev", "ci"}
Files == {"manifest", "stats"}
NoRow == "no row"           \* not declared in sources.tsv
NoDir == "no directory"

ASSUME MarksAssumption ==
    /\ Licenses # {} /\ NoRow \notin Licenses
    /\ Snapshots # {} /\ NoDir \notin Snapshots

VARIABLES
    work,       \* work[x]: the working tree of site x
    base,       \* base[x]: the commit it is based on, what `git diff' shows it against
    pc,         \* pc[x]: the next step of gen-manifest.py, or of make
    target,     \* target[x]: the make target of the run
    todo,       \* todo[x]: the rows the generator has read and not counted
    entries,    \* entries[x]: the manifest entries built so far
    verdict,    \* verdict[x]: exit status of the latest make
    edits,      \* number of steps of the maintainer
    made        \* history, made[x]: both files are as a generator run left them

vars == <<work, base, pc, target, todo, entries, verdict, edits, made>>

----------------------------------------------------------------------------
(* What the generator computes.                                            *)

Entry(name, license, v) ==
    [name |-> name, license |-> license, routine_count |-> Routines[v], loc |-> Loc[v]]

NoBucket == [routine_count |-> 0, loc |-> 0, subdir_count |-> 0]
EmptyStats == [subdir_count |-> 0, total_routines |-> 0, total_loc |-> 0,
               breakdown |-> [l \in {} |-> NoBucket]]

Bucketed(breakdown, e) ==
    LET old == IF e.license \in DOMAIN breakdown THEN breakdown[e.license] ELSE NoBucket
    IN [l \in DOMAIN breakdown \cup {e.license} |->
          IF l = e.license
          THEN [routine_count |-> old.routine_count + e.routine_count,
                loc |-> old.loc + e.loc,
                subdir_count |-> old.subdir_count + 1]
          ELSE breakdown[l]]

AddEntry(stats, e) ==
    [subdir_count |-> stats.subdir_count + 1,
     total_routines |-> stats.total_routines + e.routine_count,
     total_loc |-> stats.total_loc + e.loc,
     breakdown |-> Bucketed(stats.breakdown, e)]

build_stats(manifest) ==
    LET after[n \in 0 .. Len(manifest)] ==
            IF n = 0 THEN EmptyStats ELSE AddEntry(after[n - 1], manifest[n])
    IN  after[Len(manifest)]

\* A file under dist/: gone, cut short by a crash, or JSON.
Gone == [st |-> "gone", json |-> <<>>]
Torn == [st |-> "torn", json |-> <<>>]
Json(payload) == [st |-> "json", json |-> payload]

\* load_sources and sorted(): the rows in the order the generator visits them.
Row(s, license) == [name |-> s, license |-> license]
RowsOfAll(table) == [i \in DOMAIN Names |-> Row(Names[i], table[Names[i]])]
Visit(rows, table, s) == IF table[s] = NoRow THEN rows ELSE Append(rows, Row(s, table[s]))
Rows(table) ==
    LET after[n \in 0 .. Len(Names)] ==
            IF n = 0 THEN <<>> ELSE Visit(after[n - 1], table, Names[n])
    IN  after[Len(Names)]

Fresh == [table |-> [s \in Subdirs |-> CHOOSE l \in Licenses : TRUE],
          tree |-> [s \in Subdirs |-> CHOOSE v \in Snapshots : TRUE]]
FreshManifest == [i \in DOMAIN Names |->
    Entry(Names[i], Fresh.table[Names[i]], Fresh.tree[Names[i]])]
FirstCommit ==
    [table |-> Fresh.table, tree |-> Fresh.tree,
     manifest |-> Json(FreshManifest), stats |-> Json(build_stats(FreshManifest))]

Init ==
    /\ work = [x \in Sites |-> FirstCommit]
    /\ base = [x \in Sites |-> FirstCommit]
    /\ pc = [x \in Sites |-> "idle"]
    /\ target = [x \in Sites |-> "manifest"]
    /\ todo = [x \in Sites |-> <<>>]
    /\ entries = [x \in Sites |-> <<>>]
    /\ verdict = [x \in Sites |-> "none"]
    /\ edits = 0
    /\ made = [x \in Sites |-> TRUE]

----------------------------------------------------------------------------
(* The maintainer.                                                         *)

Edit(w) ==
    /\ edits < MaxEdits
    /\ edits' = edits + 1
    /\ work' = [work EXCEPT !["dev"] = w]
    /\ made' = [made EXCEPT !["dev"] =
          @ /\ \A f \in Files : w[f] = work["dev"][f]]
    /\ UNCHANGED <<base, pc, target, todo, entries, verdict>>

EditTable(s) == \E row \in Licenses \cup {NoRow} :
    row # work["dev"].table[s] /\ Edit([work["dev"] EXCEPT !.table[s] = row])

\* fetch-corpus.sh: rm -rf of the target, then the mv of the clone.
RemoveSnapshot(s) ==
    work["dev"].tree[s] # NoDir /\ Edit([work["dev"] EXCEPT !.tree[s] = NoDir])

InstallSnapshot(s) == \E v \in Snapshots :
    work["dev"].tree[s] = NoDir /\ Edit([work["dev"] EXCEPT !.tree[s] = v])

DeleteFile(f) ==
    work["dev"][f] # Gone /\ Edit([work["dev"] EXCEPT ![f] = Gone])

\* An entry of the manifest is dropped, or a number of the stats changed.
EditFile(f) ==
    /\ work["dev"][f].st = "json" /\ work["dev"][f].json # <<>>
    /\ IF f = "manifest"
       THEN Edit([work["dev"] EXCEPT !.manifest.json = Tail(@)])
       ELSE Edit([work["dev"] EXCEPT !.stats.json.total_loc = @ + 1])

\* git add of some paths, and git commit.
Commit == \E paths \in SUBSET DOMAIN FirstCommit :
    /\ paths # {} /\ edits < MaxEdits
    /\ edits' = edits + 1
    /\ base' = [base EXCEPT !["dev"] =
          [f \in DOMAIN FirstCommit |-> IF f \in paths THEN work["dev"][f] ELSE @[f]]]
    /\ UNCHANGED <<work, pc, target, todo, entries, verdict, made>>

\* A push: CI checks out the commit.
CheckOut ==
    /\ pc["ci"] = "idle"
    /\ base["ci"] # base["dev"]
    /\ base' = [base EXCEPT !["ci"] = base["dev"]]
    /\ work' = [work EXCEPT !["ci"] = base["dev"]]
    /\ verdict' = [verdict EXCEPT !["ci"] = "none"]
    /\ made' = [made EXCEPT !["ci"] = FALSE]
    /\ UNCHANGED <<pc, target, todo, entries, edits>>

----------------------------------------------------------------------------
(* make manifest, make check-manifest.                                     *)

Goto(x, label) == pc' = [pc EXCEPT ![x] = label]
Make(x, result) == Goto(x, "idle") /\ verdict' = [verdict EXCEPT ![x] = result]

\* The generator reads the table once.
StartMake(x) ==
    /\ pc[x] = "idle"
    /\ x = "ci" => verdict[x] = "none"
    /\ \E t \in {"manifest", "check-manifest"} :
          (x = "ci" => t = "check-manifest") /\ target' = [target EXCEPT ![x] = t]
    /\ todo' = [todo EXCEPT ![x] = Rows(work[x].table)]
    /\ entries' = [entries EXCEPT ![x] = <<>>]
    /\ Goto(x, "count")
    /\ UNCHANGED <<work, base, verdict, edits, made>>

\* One turn of build_manifest: the row is the one read at the start, the
\* directory is looked at now, and a missing one ends the run.
CountSubdir(x) ==
    /\ pc[x] = "count" /\ todo[x] # <<>>
    /\ LET row == Head(todo[x])
           v == work[x].tree[row.name] IN
       \/ /\ v = NoDir
          /\ Make(x, "red")
          /\ UNCHANGED <<todo, entries>>
       \/ /\ v # NoDir
          /\ entries' = [entries EXCEPT ![x] =
                Append(@, Entry(row.name, row.license, v))]
          /\ todo' = [todo EXCEPT ![x] = Tail(@)]
          /\ UNCHANGED <<pc, verdict>>
    /\ UNCHANGED <<work, base, target, edits, made>>

\* write_json of the manifest, then of the stats of the same entries.
WriteManifest(x) ==
    /\ pc[x] = "count" /\ todo[x] = <<>>
    /\ work' = [work EXCEPT ![x].manifest = Json(entries[x])]
    /\ made' = [made EXCEPT ![x] = FALSE]
    /\ Goto(x, "stats")
    /\ UNCHANGED <<base, target, todo, entries, verdict, edits>>

StatsOfTree(x) ==
    build_stats([i \in DOMAIN entries[x] |->
        [entries[x][i] EXCEPT !.loc = IF work[x].tree[entries[x][i].name] = NoDir THEN 0
                                      ELSE Loc[work[x].tree[entries[x][i].name]]]])
StatsOfEntries(x) == build_stats(entries[x])

WriteStats(x) ==
    /\ pc[x] = "stats"
    /\ work' = [work EXCEPT ![x].stats = Json(StatsOfEntries(x))]
    /\ made' = [made EXCEPT ![x] = work[x].manifest = Json(entries[x])]
    /\ IF target[x] = "check-manifest"
       THEN Goto(x, "diff") /\ UNCHANGED verdict
       ELSE Make(x, "green")
    /\ UNCHANGED <<base, target, todo, entries, edits>>

\* git diff --exit-code dist/ looks at the files the commit has.
OnlyManifestDiffers(x) == base[x].manifest # Gone /\ work[x].manifest # base[x].manifest
Differs(x) == \E f \in Files : base[x][f] # Gone /\ work[x][f] # base[x][f]

GitDiff(x) ==
    /\ pc[x] = "diff"
    /\ Make(x, IF Differs(x) THEN "red" ELSE "green")
    /\ UNCHANGED <<work, base, target, todo, entries, edits, made>>

\* The generator dies in the middle of writing a file, or between the two.
\* CI reruns a job that dies on a fresh checkout.
Interrupt ==
    /\ pc["dev"] \in {"count", "stats"} /\ edits < MaxEdits
    /\ edits' = edits + 1
    /\ Make("dev", "red")
    /\ \/ UNCHANGED <<work, made>>
       \/ /\ pc["dev"] = "count" /\ todo["dev"] = <<>>
          /\ work' = [work EXCEPT !["dev"].manifest = Torn]
          /\ made' = [made EXCEPT !["dev"] = FALSE]
       \/ /\ pc["dev"] = "stats"
          /\ work' = [work EXCEPT !["dev"].stats = Torn]
          /\ made' = [made EXCEPT !["dev"] = FALSE]
    /\ UNCHANGED <<base, target, todo, entries>>

Maintain ==
    \/ \E s \in Subdirs : EditTable(s) \/ RemoveSnapshot(s) \/ InstallSnapshot(s)
    \/ \E f \in Files : DeleteFile(f) \/ EditFile(f)
    \/ Commit

Generate(x) == CountSubdir(x) \/ WriteManifest(x) \/ WriteStats(x)

Next ==
    \/ Maintain \/ CheckOut \/ Interrupt
    \/ \E x \in Sites : StartMake(x) \/ Generate(x) \/ GitDiff(x)

Spec == Init /\ [][Next]_vars

----------------------------------------------------------------------------
(* Properties.                                                             *)

Payloads == [st : {"gone", "torn", "json"}, json : Seq([name : Subdirs, license : Licenses,
                 routine_count : Nat, loc : Nat])]

\* Type invariant of the trees and of the generator's variables.
TypeOK ==
    /\ \A t \in {work, base} : \A x \in Sites :
          /\ t[x].table \in [Subdirs -> Licenses \cup {NoRow}]
          /\ t[x].tree \in [Subdirs -> Snapshots \cup {NoDir}]
          /\ t[x].manifest \in Payloads
          /\ t[x].stats.st \in {"gone", "torn", "json"}
    /\ pc \in [Sites -> {"idle", "count", "stats", "diff"}]
    /\ target \in [Sites -> {"manifest", "check-manifest"}]
    /\ todo \in [Sites -> Seq([name : Subdirs, license : Licenses])]
    /\ verdict \in [Sites -> {"none", "green", "red"}]
    /\ made \in [Sites -> BOOLEAN]

\* What the files should hold, counted over sets instead of by a loop.
ExpectedManifest(c) ==
    LET rows == Rows(c.table)
    IN [i \in DOMAIN rows |-> Entry(rows[i].name, rows[i].license, c.tree[rows[i].name])]
\* A total is the size of the set of the things counted, each once.
Total(es, count) == Cardinality(UNION {{e} \X (1 .. e[count]) : e \in es})
ExpectedStats(manifest) ==
    LET es == Elems(manifest)
        Of(l) == {e \in es : e.license = l}
    IN [subdir_count |-> Cardinality(es),
        total_routines |-> Total(es, "routine_count"),
        total_loc |-> Total(es, "loc"),
        breakdown |-> [l \in {e.license : e \in es} |->
            [routine_count |-> Total(Of(l), "routine_count"), loc |-> Total(Of(l), "loc"),
             subdir_count |-> Cardinality(Of(l))]]]

Complete(c) == \A s \in Subdirs : c.table[s] # NoRow => c.tree[s] # NoDir
Expected(c, f) ==
    IF f = "manifest" THEN Json(ExpectedManifest(c)) ELSE Json(ExpectedStats(ExpectedManifest(c)))

\* The gate passes a commit exactly when every declared subdir is in it and
\* each of the two files it has is the one its own snapshots and table give:
\* no stale, hand-edited, cut or mixed file passes, and no good one is held.
GateDecides == verdict["ci"] # "none" =>
    (verdict["ci"] = "green" <=>
        /\ Complete(base["ci"])
        /\ \A f \in Files : base["ci"][f] # Gone => base["ci"][f] = Expected(base["ci"], f))

\* The two files agree with each other after every generator run that ends,
\* also when snapshots are swapped or rows are edited while it reads them.
StatsMatchManifest == \A x \in Sites : made[x] =>
    work[x].stats = Json(ExpectedStats(work[x].manifest.json))
=============================================================================
