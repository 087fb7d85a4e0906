---------------------------- MODULE FetchCorpus ----------------------------
(***************************************************************************)
(* tools/fetch-corpus.sh: runs of the script against one working tree.     *)
(*                                                                         *)
(* The shared state is the snapshot directories under ROOT_DIR and the     *)
(* lock file dist/sources.lock.json; the environment moves the upstream    *)
(* HEADs.  Each process of Procs executes one run of `fetch', `refresh' or *)
(* `verify' at a time, one action per step another run, a crash or a       *)
(* reader of the tree can fall between.  Nothing in the script orders two  *)
(* runs: no lock is taken.                                                 *)
(*                                                                         *)
(* A snapshot is the set of its items; an item is a part of the tree as of *)
(* one upstream HEAD, so a half removed or a mixed directory is visible.   *)
(* Heads are numbered in commit order.  `fetched_at' is not kept.          *)
(***************************************************************************)
EXTENDS Naturals, Sequences

CONSTANTS
    Subdirs,    \* the subdirs sources.tsv declares
    Table,      \* the same, as the sequence SUBDIRS of load_sources
    Names,      \* the names a user may type
    ArgLists,   \* the argument lists users pass to refresh and verify
    Procs,      \* the runs that may overlap
    Owns,       \* Owns[p]: the subdirs that runs of p fetch or refresh
    Parts,      \* the files of an upstream tree
    Faults,     \* the commands that may fail, and "kill"
    MaxHead,    \* bound: commits per upstream
    MaxRuns,    \* bound: runs of the script
    MaxFaults   \* bound: failures over a whole behaviour

FaultKinds == {"clone", "revparse", "stripgit", "rm", "mv", "write", "kill"}

Elems(seq) == {seq[i] : i \in DOMAIN seq}

ASSUME TableAssumption ==
    /\ Table \in Seq(Subdirs)
    /\ Elems(Table) = Subdirs
    /\ \A i, j \in DOMAIN Table : Table[i] = Table[j] => i = j
ASSUME ArgsAssumption == ArgLists \subseteq Seq(Names)
ASSUME OwnsAssumption == Owns \in [Procs -> SUBSET Subdirs]
ASSUME FaultsAssumption == Faults \subseteq FaultKinds
ASSUME BoundsAssumption ==
    /\ MaxHead \in Nat \ {0}
    /\ MaxRuns \in Nat
    /\ MaxFaults \in Nat
ASSUME PartsAssumption == Parts # {} /\ {".git", "payload"} \cap Parts = {}

VARIABLES
    \* the world
    upstream,   \* upstream[s]: HEAD of the default branch of s's URL
    disk,       \* disk[s]: ROOT_DIR/s
    lock,       \* dist/sources.lock.json
    \* the runs
    pc,         \* pc[p]: the next command of p's run; "idle" when none runs
    cmd,        \* cmd[p]: the subcommand
    args,       \* args[p]: target_subdirs
    todo,       \* todo[p]: the subdirs the loop has not finished
    payload,    \* payload[p]: $tmp/payload
    sha,        \* sha[p]: the sha fetch_one will echo
    listing,    \* listing[p]: what `rm -rf $target' read of the directory
    fetched,    \* fetched[p]: FETCHED_SUBDIRS and FETCHED_SHAS, subdir -> sha
    data,       \* data[p]: the `sources' dict of the python helper
    rc,         \* rc[p]: exit status of p's latest run, or verify's drift
    \* history, read by properties only
    started,    \* number of runs started
    faults,     \* number of failures so far
    clean,      \* clean[p]: nothing failed in p's run and no run since it began
    before,     \* the disk and the lock when the latest run began
    overtaken   \* overtaken[p]: another run wrote p's subdir since p looked at it

world == <<upstream, disk, lock>>
local == <<cmd, args, todo, payload, sha, listing, fetched, data>>
history == <<started, faults, clean, before, overtaken>>
vars == <<upstream, disk, lock, pc, cmd, args, todo, payload, sha, listing,
          fetched, data, rc, started, faults, clean, before, overtaken>>

----------------------------------------------------------------------------
(* Values.                                                                 *)

Heads == 1..MaxHead
NoSha == 0              \* what a failed rev-parse leaves in $sha
Shas == Heads \cup {NoSha}
Killed == 137
Item == [head : Heads, part : Parts \cup {".git", "payload"}]
Directory == [dir : BOOLEAN, items : SUBSET Item]
Entries == UNION {[D -> Shas] : D \in SUBSET Subdirs}
LockStates == {"absent", "empty", "good", "garbage"}

ItemAt(h, x) == [head |-> h, part |-> x]
Snapshot(h) == {ItemAt(h, x) : x \in Parts}
Clone(h) == Snapshot(h) \cup {ItemAt(h, ".git")}
Missing == [dir |-> FALSE, items |-> {}]
Tree(items) == [dir |-> TRUE, items |-> items]
NoEntries == [s \in {} |-> NoSha]

MergeForgetsOld(new, old) == new

\* `sources' updated with the entries of this run: later keys win.
Merge(new, old) ==
    [s \in DOMAIN new \cup DOMAIN old |-> IF s \in DOMAIN new THEN new[s] ELSE old[s]]

\* is_present: a directory with something in it.
IsPresent(s) == disk[s].dir /\ disk[s].items # {}

Init ==
    /\ upstream = [s \in Subdirs |-> 1]
    /\ disk \in [Subdirs -> {Missing, Tree(Snapshot(1))}]
    /\ lock = [st |-> "absent", entries |-> NoEntries]
    /\ pc = [p \in Procs |-> "idle"]
    /\ cmd = [p \in Procs |-> "status"]
    /\ args = [p \in Procs |-> <<>>]
    /\ todo = [p \in Procs |-> <<>>]
    /\ payload = [p \in Procs |-> {}]
    /\ sha = [p \in Procs |-> NoSha]
    /\ listing = [p \in Procs |-> {}]
    /\ fetched = [p \in Procs |-> NoEntries]
    /\ data = [p \in Procs |-> NoEntries]
    /\ rc = [p \in Procs |-> 0]
    /\ started = 0
    /\ faults = 0
    /\ clean = [p \in Procs |-> FALSE]
    /\ before = [disk |-> disk, lock |-> lock]
    /\ overtaken = [p \in Procs |-> FALSE]

----------------------------------------------------------------------------
(* Control.                                                                *)

At(p, label) == pc[p] = label
Goto(p, label) == pc' = [pc EXCEPT ![p] = label]
Exit(p, code) == Goto(p, "idle") /\ rc' = [rc EXCEPT ![p] = code]
Cur(p) == Head(todo[p])
SameTargetAgain(p) == Goto(p, "loop") /\ UNCHANGED todo
NextTarget(p) == todo' = [todo EXCEPT ![p] = Tail(@)] /\ Goto(p, "loop")

\* The RETURN trap removes $tmp; a killed run leaves it behind.
DropTmp(p) ==
    /\ payload' = [payload EXCEPT ![p] = {}]
    /\ sha' = [sha EXCEPT ![p] = NoSha]
    /\ listing' = [listing EXCEPT ![p] = {}]

\* index_of finds every name, and there is a name.
AnyTargets(list) == list # <<>>
KnownTargets(list) == list # <<>> /\ Elems(list) \subseteq Subdirs

\* Command `kind' of p's run fails; `clean' remembers that it did.
Fails(p, kind) ==
    /\ kind \in Faults
    /\ faults < MaxFaults
    /\ faults' = faults + 1
    /\ clean' = [clean EXCEPT ![p] = FALSE]
    /\ UNCHANGED <<started, before, overtaken>>

\* p writes the subdir it works on, under every run that works on it too.
Writes(p) ==
    /\ overtaken' = [q \in Procs |-> overtaken[q] \/
           (q # p /\ ~At(q, "idle") /\ todo[q] # <<>> /\ Cur(q) = Cur(p))]
    /\ UNCHANGED <<started, faults, clean, before>>

(***************************************************************************)
(* A user starts a run.  An argument index_of does not find, or a refresh  *)
(* of nothing, ends it in die before anything is cloned.                   *)
(***************************************************************************)
Start(p, c, list) ==
    /\ At(p, "idle")
    /\ started < MaxRuns
    /\ started' = started + 1
    /\ clean' = [q \in Procs |-> q = p /\ \A r \in Procs \ {p} : At(r, "idle")]
    /\ before' = [disk |-> disk, lock |-> lock]
    /\ cmd' = [cmd EXCEPT ![p] = c]
    /\ fetched' = [fetched EXCEPT ![p] = NoEntries]
    /\ \/ /\ KnownTargets(list)
          /\ args' = [args EXCEPT ![p] = list]
          /\ todo' = [todo EXCEPT ![p] = list]
          /\ Goto(p, "loop")
          /\ rc' = [rc EXCEPT ![p] = 0]
       \/ /\ ~KnownTargets(list)
          /\ args' = [args EXCEPT ![p] = <<>>]
          /\ todo' = [todo EXCEPT ![p] = <<>>]
          /\ Exit(p, 2)
    /\ data' = [data EXCEPT ![p] = NoEntries]
    /\ DropTmp(p)
    /\ UNCHANGED <<upstream, disk, lock, faults, overtaken>>

RunFetch(p) == Owns[p] = Subdirs /\ Start(p, "fetch", Table)

RunRefresh(p) == \E list \in ArgLists \cup {Table} :
    /\ Elems(list) \cap Subdirs \subseteq Owns[p]
    /\ Start(p, "refresh", list)

RunVerify(p) == \E list \in ArgLists :
    Start(p, "verify", IF list = <<>> THEN Table ELSE list)

SkipsVerifyOnly(p) == cmd[p] = "verify" /\ ~IsPresent(Cur(p))
SkipsAnyDirectory(p) ==
    \/ cmd[p] = "fetch" /\ disk[Cur(p)].dir
    \/ cmd[p] = "verify" /\ ~IsPresent(Cur(p))

\* `fetch' passes over what is present, `verify' over what is missing.
Skips(p) ==
    \/ cmd[p] = "fetch" /\ IsPresent(Cur(p))
    \/ cmd[p] = "verify" /\ ~IsPresent(Cur(p))

NextSubdir(p) ==
    /\ At(p, "loop") /\ todo[p] # <<>>
    /\ \/ Skips(p) /\ NextTarget(p)
       \/ ~Skips(p) /\ Goto(p, "clone") /\ UNCHANGED todo
    /\ overtaken' = [overtaken EXCEPT ![p] = FALSE]
    /\ UNCHANGED <<world, cmd, args, payload, sha, listing, fetched, data, rc,
                    started, faults, clean, before>>

\* The loop is over: update_lock_file, unless the run fetched nothing.
LoopEnds(p) ==
    /\ At(p, "loop") /\ todo[p] = <<>>
    /\ \/ /\ cmd[p] # "verify" /\ fetched[p] # NoEntries
          /\ Goto(p, "lockRead") /\ UNCHANGED rc
       \/ /\ cmd[p] = "verify" \/ fetched[p] = NoEntries
          /\ Exit(p, rc[p])
    /\ UNCHANGED <<world, local, history>>

----------------------------------------------------------------------------
(* fetch_one.  errexit is off inside `$(...)': of the commands here only   *)
(* the clone is checked.                                                   *)

CloneUpstream(p) ==
    /\ At(p, "clone")
    /\ payload' = [payload EXCEPT ![p] =
           IF cmd[p] = "verify" THEN Snapshot(upstream[Cur(p)]) ELSE Clone(upstream[Cur(p)])]
    /\ sha' = [sha EXCEPT ![p] = upstream[Cur(p)]]
    /\ Goto(p, IF cmd[p] = "verify" THEN "diff" ELSE "strip")
    /\ UNCHANGED <<world, cmd, args, todo, listing, fetched, data, rc, history>>

\* `|| exit $?': the run ends without writing the lock file.  A verify
\* counts the subdir as drifted and goes on.
AfterFailedClone(p) ==
    \/ cmd[p] # "verify" /\ Exit(p, 1) /\ UNCHANGED todo
    \/ cmd[p] = "verify" /\ NextTarget(p) /\ rc' = [rc EXCEPT ![p] = 1]

CloneFails(p) ==
    /\ At(p, "clone")
    /\ AfterFailedClone(p)
    /\ Fails(p, "clone")
    /\ UNCHANGED <<world, cmd, args, payload, sha, listing, fetched, data>>

RevParseFails(p) ==
    /\ At(p, "strip") /\ sha[p] # NoSha
    /\ sha' = [sha EXCEPT ![p] = NoSha]
    /\ Fails(p, "revparse")
    /\ UNCHANGED <<world, pc, cmd, args, todo, payload, listing, fetched, data, rc>>

StripGit(p) ==
    /\ At(p, "strip")
    /\ payload' = [payload EXCEPT ![p] = {i \in @ : i.part # ".git"}]
    /\ Goto(p, "test")
    /\ UNCHANGED <<world, cmd, args, todo, sha, listing, fetched, data, rc, history>>

StripFails(p) ==
    /\ At(p, "strip")
    /\ Goto(p, "test")
    /\ Fails(p, "stripgit")
    /\ UNCHANGED <<world, local, rc>>

TargetNotTested(p) == FALSE
TargetExists(p) == disk[Cur(p)].dir

\* [ -e "$target" ], and rm's first look at the directory.
TestTarget(p) ==
    /\ At(p, "test")
    /\ listing' = [listing EXCEPT ![p] = disk[Cur(p)].items]
    /\ Goto(p, IF TargetExists(p) THEN "rm" ELSE "mv")
    /\ UNCHANGED <<world, cmd, args, todo, payload, sha, fetched, data, rc, history>>

RemoveItem(p) ==
    /\ At(p, "rm")
    /\ \E i \in listing[p] \cap disk[Cur(p)].items :
          disk' = [disk EXCEPT ![Cur(p)].items = @ \ {i}]
    /\ Writes(p)
    /\ UNCHANGED <<upstream, lock, pc, local, rc>>

\* The directory goes only when nothing was added to it meanwhile.
RemoveDir(p) ==
    /\ At(p, "rm")
    /\ listing[p] \cap disk[Cur(p)].items = {}
    /\ disk' = IF disk[Cur(p)].items = {}
               THEN [disk EXCEPT ![Cur(p)] = Missing] ELSE disk
    /\ Goto(p, "mv")
    /\ Writes(p)
    /\ UNCHANGED <<upstream, lock, local, rc>>

RmFails(p) ==
    /\ At(p, "rm")
    /\ Goto(p, "mv")
    /\ Fails(p, "rm")
    /\ UNCHANGED <<world, local, rc>>

\* mv renames onto a name that is free, but moves INTO a directory that is
\* there; a second payload does not replace one moved in before.
Nested(items) == {ItemAt(i.head, "payload") : i \in items}
Moved(target, items) ==
    IF ~target.dir THEN Tree(items)
    ELSE IF \E i \in target.items : i.part = "payload" THEN target
    ELSE Tree(target.items \cup Nested(items))

\* fetch_one echoes $sha whatever mv said; the caller records it.
RecordedRemoteHead(p) == upstream[Cur(p)]
RecordedSha(p) == sha[p]

RecordFetched(p) ==
    /\ fetched' = [fetched EXCEPT ![p] = Merge([s \in {Cur(p)} |-> RecordedSha(p)], @)]
    /\ NextTarget(p)

MvPayload(p) ==
    /\ At(p, "mv")
    /\ disk' = [disk EXCEPT ![Cur(p)] = Moved(@, payload[p])]
    /\ RecordFetched(p)
    /\ DropTmp(p)
    /\ Writes(p)
    /\ UNCHANGED <<upstream, lock, cmd, args, data, rc>>

MvFails(p) ==
    /\ At(p, "mv")
    /\ RecordFetched(p)
    /\ Fails(p, "mv")
    /\ DropTmp(p)
    /\ UNCHANGED <<world, cmd, args, data, rc>>

\* cmd_verify: diff -r against the working tree.
DiffUpstream(p) ==
    /\ At(p, "diff")
    /\ rc' = [rc EXCEPT ![p] = IF disk[Cur(p)].items = payload[p] THEN @ ELSE 1]
    /\ NextTarget(p)
    /\ DropTmp(p)
    /\ UNCHANGED <<world, cmd, args, fetched, data, history>>

----------------------------------------------------------------------------
(* update_lock_file: read, merge, truncate, write.                         *)

ReadLock(p) ==
    /\ At(p, "lockRead")
    /\ data' = [data EXCEPT ![p] =
           Merge(fetched[p], IF lock.st = "good" THEN lock.entries ELSE NoEntries)]
    /\ Goto(p, "lockTrunc")
    /\ UNCHANGED <<world, cmd, args, todo, payload, sha, listing, fetched, rc, history>>

TruncateLock(p) ==
    /\ At(p, "lockTrunc")
    /\ lock' = [st |-> "empty", entries |-> NoEntries]
    /\ Goto(p, "lockWrite")
    /\ UNCHANGED <<upstream, disk, local, rc, history>>

\* A file another run filled since the truncation is overwritten from its
\* start: the tail of a longer text stays behind.
WriteLock(p) ==
    /\ At(p, "lockWrite")
    /\ \/ lock' = [st |-> "good", entries |-> data[p]]
       \/ /\ lock.st # "empty" /\ DOMAIN lock.entries # DOMAIN data[p]
          /\ lock' = [st |-> "garbage", entries |-> NoEntries]
    /\ Exit(p, 0)
    /\ UNCHANGED <<upstream, disk, local, history>>

WriteFails(p) ==
    /\ pc[p] \in {"lockTrunc", "lockWrite"}
    /\ Exit(p, 1)
    /\ Fails(p, "write")
    /\ UNCHANGED <<world, local>>

----------------------------------------------------------------------------
(* The run is killed between any two commands, or in the middle of an rm.  *)
Kill(p) ==
    /\ ~At(p, "idle")
    /\ Exit(p, Killed)
    /\ Fails(p, "kill")
    /\ UNCHANGED <<world, local>>

\* Somebody pushes to an upstream.
UpstreamCommit(s) ==
    /\ upstream[s] < MaxHead
    /\ upstream' = [upstream EXCEPT ![s] = @ + 1]
    /\ UNCHANGED <<disk, lock, pc, local, rc, history>>

FetchOne(p) ==
    \/ CloneUpstream(p) \/ CloneFails(p)
    \/ RevParseFails(p) \/ StripGit(p) \/ StripFails(p)
    \/ TestTarget(p) \/ RemoveItem(p) \/ RemoveDir(p) \/ RmFails(p)
    \/ MvPayload(p) \/ MvFails(p)

UpdateLockFile(p) ==
    \/ ReadLock(p) \/ TruncateLock(p) \/ WriteLock(p) \/ WriteFails(p)

\* One command of the script.
Step(p) ==
    \/ NextSubdir(p) \/ LoopEnds(p)
    \/ FetchOne(p) \/ DiffUpstream(p) \/ UpdateLockFile(p)

Next ==
    \/ \E p \in Procs :
          RunFetch(p) \/ RunRefresh(p) \/ RunVerify(p) \/ Step(p) \/ Kill(p)
    \/ \E s \in Subdirs : UpstreamCommit(s)

Spec == Init /\ [][Next]_vars

\* Every command ends: what the script itself does is never put off forever.
FairSpec == Spec /\ \A p \in Procs : WF_vars(Step(p))

----------------------------------------------------------------------------
(* Properties.                                                             *)

\* Type invariant of the tree, the lock file and the variables of the runs.
TypeOK ==
    /\ upstream \in [Subdirs -> Heads]
    /\ disk \in [Subdirs -> Directory]
    /\ lock \in [st : LockStates, entries : Entries]
    /\ pc \in [Procs -> {"idle", "loop", "clone", "strip", "test", "rm", "mv",
                         "diff", "lockRead", "lockTrunc", "lockWrite"}]
    /\ cmd \in [Procs -> {"status", "fetch", "refresh", "verify"}]
    /\ args \in [Procs -> Seq(Subdirs)]
    /\ todo \in [Procs -> Seq(Subdirs)]
    /\ payload \in [Procs -> SUBSET Item]
    /\ sha \in [Procs -> Shas]
    /\ listing \in [Procs -> SUBSET Item]
    /\ fetched \in [Procs -> Entries]
    /\ data \in [Procs -> Entries]
    /\ rc \in [Procs -> {0, 1, 2, Killed}]
    /\ started \in Nat
    /\ faults \in Nat
    /\ clean \in [Procs -> BOOLEAN]
    /\ before \in [disk : [Subdirs -> Directory],
                   lock : [st : LockStates, entries : Entries]]
    /\ overtaken \in [Procs -> BOOLEAN]

SingleWriter == \A p, q \in Procs : p # q => Owns[p] \cap Owns[q] = {}

\* A directory never mixes two upstream HEADs and never holds a second copy
\* of a snapshot inside the first: fetch_one removes the target before it
\* moves the clone, whatever is killed or fails to clone in between.  True
\* of runs that share no subdir, as long as rm itself does its work.
NeverMixed == \A s \in Subdirs : \A i, j \in disk[s].items :
    i.head = j.head /\ i.part # "payload"

\* The lock file may lag behind the tree (a run that dies after a swap, an
\* update lost to a concurrent run) but never runs ahead of it: nothing on
\* the disk is older than the sha dist/sources.lock.json records for it.
LockNeverAhead == lock.st = "good" =>
    \A s \in DOMAIN lock.entries : \A i \in disk[s].items : lock.entries[s] <= i.head

\* p's latest run ended well, nothing failed in it and no run overlapped it.
Completed(p) == At(p, "idle") /\ clean[p] /\ rc[p] = 0

\* The sha lock file l has for s, as a set: empty without a readable entry.
ShaOnRecord(l, s) == {l.entries[x] : x \in {s} \cap
                                         (IF l.st = "good" THEN DOMAIN l.entries ELSE {})}

\* Whatever crashes and failures came before it, a run that fails nowhere and
\* is alone leaves every subdir it fetched as the exact snapshot of the sha
\* the lock file now has for it, and every other entry of a readable lock
\* file as it was.
RunRecordsWhatItInstalled == \A p \in Procs : Completed(p) =>
    /\ \A s \in DOMAIN fetched[p] : disk[s] = Tree(Snapshot(fetched[p][s]))
    /\ \A s \in Subdirs : ShaOnRecord(lock, s) =
          IF s \in DOMAIN fetched[p] THEN {fetched[p][s]} ELSE ShaOnRecord(before.lock, s)
    /\ fetched[p] = NoEntries => lock = before.lock

\* After such a run of `fetch' no subdir is missing and after `refresh' each
\* named subdir was fetched; neither touched anything else, nor `verify'
\* anything at all, and a verify that reports no drift found every subdir it
\* did not skip a whole snapshot.
RunDoesWhatItIsAskedTo == \A p \in Procs : Completed(p) =>
    /\ \A s \in Subdirs \ DOMAIN fetched[p] : disk[s] = before.disk[s]
    /\ cmd[p] = "fetch" => \A s \in Subdirs : IsPresent(s)
    /\ cmd[p] = "refresh" => DOMAIN fetched[p] = Elems(args[p])
    /\ cmd[p] = "verify" =>
          /\ fetched[p] = NoEntries
          /\ \A s \in Elems(args[p]) :
                IsPresent(s) => \E h \in Heads : disk[s] = Tree(Snapshot(h))

\* A directory with something in it changes only under the rm and mv of a
\* `refresh' that names it, or of a `fetch' for which another run wrote it
\* after is_present found nothing there: that look is as old as a clone, which
\* may take minutes, and no lock keeps others away meanwhile.
FetchLeavesPresentAlone == [][\A s \in Subdirs : IsPresent(s) /\ disk'[s] # disk[s] =>
    \E p \in Procs :
       /\ pc[p] \in {"rm", "mv"} /\ Cur(p) = s
       /\ \/ cmd[p] = "refresh" /\ s \in Elems(args[p])
          \/ cmd[p] = "fetch" /\ overtaken[p]]_vars

\* Every run ends: the loop over the subdirs makes progress whatever fails.
RunsEnd == \A p \in Procs : ~At(p, "idle") ~> At(p, "idle")
=============================================================================
