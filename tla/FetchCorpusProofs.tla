------------------------- MODULE FetchCorpusProofs -------------------------
(***************************************************************************)
(* Theorems about FetchCorpus, for every table of sources, every number of *)
(* runs and every bound.                                                   *)
(***************************************************************************)
EXTENDS FetchCorpus, TLAPS

----------------------------------------------------------------------------
(* Lemmas about the values.                                                *)

\* The entries of a run merged into those of the lock file are entries.
LEMMA MergeType ==
    ASSUME NEW f \in Entries, NEW g \in Entries
    PROVE  /\ Merge(f, g) \in Entries
           /\ DOMAIN Merge(f, g) = DOMAIN f \cup DOMAIN g
           /\ \A s \in DOMAIN f : Merge(f, g)[s] = f[s]
           /\ \A s \in DOMAIN g \ DOMAIN f : Merge(f, g)[s] = g[s]
  <1>1. PICK D \in SUBSET Subdirs : f \in [D -> Shas]
    BY DEF Entries
  <1>2. PICK E \in SUBSET Subdirs : g \in [E -> Shas]
    BY DEF Entries
  <1>3. Merge(f, g) \in [D \cup E -> Shas]
    BY <1>1, <1>2 DEF Merge
  <1>4. D \cup E \in SUBSET Subdirs
    BY <1>1, <1>2
  <1> QED  BY <1>1, <1>2, <1>3, <1>4 DEF Merge, Entries

LEMMA NoEntriesType == NoEntries \in Entries /\ DOMAIN NoEntries = {}
  <1>1. NoEntries \in [{} -> Shas]
    BY DEF NoEntries
  <1> QED  BY <1>1 DEF Entries, NoEntries

LEMMA SingleEntryType ==
    ASSUME NEW s \in Subdirs, NEW h \in Shas
    PROVE  [t \in {s} |-> h] \in Entries
  <1>1. [t \in {s} |-> h] \in [{s} -> Shas]
    OBVIOUS
  <1> QED  BY <1>1 DEF Entries

\* An argument list whose names are all in the table is a sequence of subdirs.
LEMMA KnownTargetsType ==
    ASSUME NEW list \in ArgLists \cup {Table, <<>>}, KnownTargets(list)
    PROVE  list \in Seq(Subdirs)
  <1>1. list \in Seq(Names) \/ list \in Seq(Subdirs)
    BY TableAssumption, ArgsAssumption DEF KnownTargets
  <1>2. CASE list \in Seq(Names)
    <2>1. \A i \in 1..Len(list) : list[i] \in Subdirs
      BY <1>2 DEF KnownTargets, Elems
    <2> QED  BY <1>2, <2>1
  <1> QED  BY <1>1, <1>2

LEMMA SnapshotType ==
    ASSUME NEW h \in Heads
    PROVE  Snapshot(h) \in SUBSET Item /\ Clone(h) \in SUBSET Item
  BY DEF Snapshot, Clone, Item, ItemAt

LEMMA MovedType ==
    ASSUME NEW target \in Directory, NEW items \in SUBSET Item
    PROVE  Moved(target, items) \in Directory
  <1>1. Nested(items) \in SUBSET Item
    BY DEF Nested, Item, ItemAt
  <1> QED  BY <1>1 DEF Moved, Tree, Directory

----------------------------------------------------------------------------
(* Type correctness.  TypeOK is not inductive: Head and Tail of todo[p]    *)
(* are subdirs only while p's loop has one to work on.                     *)

Labels == {"clone", "strip", "test", "rm", "mv", "diff"}
Busy == \A p \in Procs : pc[p] \in Labels => todo[p] # <<>>
TypeInv == TypeOK /\ Busy

LEMMA InitType == Init => TypeInv
  <1> SUFFICES ASSUME Init PROVE TypeInv
    OBVIOUS
  <1>1. 1 \in Heads
    BY BoundsAssumption DEF Heads
  <1>2. disk \in [Subdirs -> Directory]
    <2>1. Missing \in Directory /\ Tree(Snapshot(1)) \in Directory
      BY <1>1, SnapshotType DEF Missing, Tree, Directory
    <2> QED  BY <2>1 DEF Init
  <1> QED
    BY <1>1, <1>2, NoEntriesType DEF Init, TypeInv, TypeOK, Busy, Labels, Shas, LockStates

\* What a subdir in work is.
LEMMA CurType ==
    ASSUME TypeInv, NEW p \in Procs, todo[p] # <<>>
    PROVE  Cur(p) \in Subdirs /\ Tail(todo[p]) \in Seq(Subdirs)
  BY DEF TypeInv, TypeOK, Cur

LEMMA StartType ==
    ASSUME TypeInv, NEW p \in Procs, NEW c \in {"fetch", "refresh", "verify"},
           NEW list \in ArgLists \cup {Table, <<>>}, Start(p, c, list)
    PROVE  TypeInv'
  <1>1. KnownTargets(list) => list \in Seq(Subdirs)
    BY KnownTargetsType
  <1>2. PICK l \in Seq(Subdirs), label \in {"loop", "idle"}, code \in {0, 2} :
           /\ args' = [args EXCEPT ![p] = l] /\ todo' = [todo EXCEPT ![p] = l]
           /\ pc' = [pc EXCEPT ![p] = label] /\ rc' = [rc EXCEPT ![p] = code]
    <2>1. CASE KnownTargets(list)
      BY <1>1, <2>1 DEF Start, Goto
    <2>2. CASE ~KnownTargets(list)
      <3>1. <<>> \in Seq(Subdirs)
        OBVIOUS
      <3> QED  BY <2>2, <3>1 DEF Start, Goto, Exit
    <2> QED  BY <2>1, <2>2
  <1>3. clean' \in [Procs -> BOOLEAN]
    BY DEF Start
  <1>4. /\ args' \in [Procs -> Seq(Subdirs)] /\ todo' \in [Procs -> Seq(Subdirs)]
        /\ pc' \in [Procs -> Labels \cup {"idle", "loop", "lockRead", "lockTrunc", "lockWrite"}]
        /\ rc' \in [Procs -> {0, 1, 2, Killed}]
    BY <1>2 DEF TypeInv, TypeOK, Labels
  <1>5. Busy'
    BY DEF Start, Goto, Exit, TypeInv, TypeOK, Busy, Labels
  <1>6. /\ fetched' \in [Procs -> Entries] /\ data' \in [Procs -> Entries]
        /\ payload' \in [Procs -> SUBSET Item] /\ listing' \in [Procs -> SUBSET Item]
        /\ sha' \in [Procs -> Shas]
    BY NoEntriesType DEF Start, DropTmp, TypeInv, TypeOK, Shas
  <1>7. /\ cmd' \in [Procs -> {"status", "fetch", "refresh", "verify"}]
        /\ started' \in Nat
        /\ before' \in [disk : [Subdirs -> Directory],
                        lock : [st : LockStates, entries : Entries]]
    BY DEF Start, TypeInv, TypeOK
  <1> QED
    BY <1>2, <1>3, <1>4, <1>5, <1>6, <1>7 DEF Start, TypeInv, TypeOK, Labels

\* The history a write to the tree leaves.
LEMMA WritesType ==
    ASSUME NEW p \in Procs, Writes(p)
    PROVE  overtaken' \in [Procs -> BOOLEAN] /\ UNCHANGED <<started, faults, clean, before>>
  <1>1. \A q \in Procs :
          (overtaken[q] \/ (q # p /\ ~At(q, "idle") /\ todo[q] # <<>> /\ Cur(q) = Cur(p)))
             \in BOOLEAN
    OBVIOUS
  <1> QED  BY <1>1 DEF Writes

LEMMA StepType ==
    ASSUME TypeInv, NEW p \in Procs, Step(p) \/ Kill(p)
    PROVE  TypeInv'
  <1> USE DEF TypeInv, TypeOK, Busy, Labels, At, Goto, Exit, world, local, history
  <1>1. CASE NextSubdir(p)
    <2>1. CASE NextTarget(p)
      BY <1>1, <2>1, CurType DEF NextSubdir, NextTarget
    <2>2. CASE Goto(p, "clone") /\ UNCHANGED todo
      BY <1>1, <2>2 DEF NextSubdir
    <2> QED  BY <1>1, <2>1, <2>2 DEF NextSubdir
  <1>2. CASE LoopEnds(p)
    BY <1>2 DEF LoopEnds
  <1>3. CASE CloneUpstream(p)
    <2>1. upstream[Cur(p)] \in Heads
      BY <1>3, CurType DEF CloneUpstream
    <2>2. payload' \in [Procs -> SUBSET Item]
      BY <1>3, <2>1, SnapshotType DEF CloneUpstream
    <2> QED  BY <1>3, <2>1, <2>2 DEF CloneUpstream, Shas
  <1>4. CASE CloneFails(p)
    <2>1. CASE Exit(p, 1) /\ UNCHANGED todo
      BY <1>4, <2>1 DEF CloneFails, Fails
    <2>2. CASE NextTarget(p) /\ rc' = [rc EXCEPT ![p] = 1]
      BY <1>4, <2>2, CurType DEF CloneFails, NextTarget, Fails
    <2> QED  BY <1>4, <2>1, <2>2 DEF CloneFails, AfterFailedClone
  <1>5. CASE RevParseFails(p)
    BY <1>5 DEF RevParseFails, Fails, Shas
  <1>6. CASE StripGit(p)
    BY <1>6 DEF StripGit
  <1>7. CASE StripFails(p)
    BY <1>7 DEF StripFails, Fails
  <1>8. CASE TestTarget(p)
    BY <1>8, CurType DEF TestTarget, Directory
  <1>9. CASE RemoveItem(p)
    <2>1. disk' \in [Subdirs -> Directory]
      <3>1. PICK i : disk' = [disk EXCEPT ![Cur(p)].items = @ \ {i}]
        BY <1>9 DEF RemoveItem
      <3>2. Cur(p) \in Subdirs /\ disk[Cur(p)] \in Directory
        BY <1>9, CurType DEF RemoveItem
      <3> QED  BY <3>1, <3>2 DEF Directory
    <2> QED  BY <1>9, <2>1, WritesType DEF RemoveItem
  <1>10. CASE RemoveDir(p)
    <2>1. disk' \in [Subdirs -> Directory]
      BY <1>10, CurType DEF RemoveDir, Directory, Missing
    <2> QED  BY <1>10, <2>1, WritesType DEF RemoveDir
  <1>11. CASE RmFails(p)
    BY <1>11 DEF RmFails, Fails
  <1>12. ASSUME RecordFetched(p), todo[p] # <<>>
         PROVE  /\ fetched' \in [Procs -> Entries]
                /\ todo' \in [Procs -> Seq(Subdirs)]
                /\ pc' \in [Procs -> Labels \cup {"idle", "loop", "lockRead", "lockTrunc", "lockWrite"}]
                /\ Busy'
    <2>1. Cur(p) \in Subdirs /\ Tail(todo[p]) \in Seq(Subdirs) /\ RecordedSha(p) \in Shas
      BY <1>12, CurType DEF RecordedSha
    <2>2. Merge([s \in {Cur(p)} |-> RecordedSha(p)], fetched[p]) \in Entries
      <3>1. [s \in {Cur(p)} |-> RecordedSha(p)] \in Entries
        BY <2>1, SingleEntryType
      <3>2. fetched[p] \in Entries
        OBVIOUS
      <3> QED  BY <3>1, <3>2, MergeType
    <2> QED  BY <1>12, <2>1, <2>2 DEF RecordFetched, NextTarget
  <1>13. CASE MvPayload(p)
    <2>1. disk' \in [Subdirs -> Directory]
      BY <1>13, CurType, MovedType DEF MvPayload
    <2>2. /\ fetched' \in [Procs -> Entries]
          /\ todo' \in [Procs -> Seq(Subdirs)]
          /\ pc' \in [Procs -> Labels \cup {"idle", "loop", "lockRead", "lockTrunc", "lockWrite"}]
          /\ Busy'
      BY <1>12, <1>13 DEF MvPayload
    <2> QED
      <3>1. overtaken' \in [Procs -> BOOLEAN] /\ UNCHANGED <<started, faults, clean, before>>
        BY <1>13, WritesType DEF MvPayload
      <3> QED  BY <1>13, <2>1, <2>2, <3>1 DEF MvPayload, DropTmp, Shas
  <1>14. CASE MvFails(p)
    <2>1. /\ fetched' \in [Procs -> Entries]
          /\ todo' \in [Procs -> Seq(Subdirs)]
          /\ pc' \in [Procs -> Labels \cup {"idle", "loop", "lockRead", "lockTrunc", "lockWrite"}]
          /\ Busy'
      BY <1>12, <1>14 DEF MvFails
    <2>2. /\ payload' \in [Procs -> SUBSET Item] /\ listing' \in [Procs -> SUBSET Item]
          /\ sha' \in [Procs -> Shas]
      BY <1>14 DEF MvFails, DropTmp, Shas
    <2>3. faults' \in Nat /\ clean' \in [Procs -> BOOLEAN] /\ UNCHANGED <<started, before, overtaken>>
      BY <1>14 DEF MvFails, Fails
    <2> QED  BY <1>14, <2>1, <2>2, <2>3 DEF MvFails
  <1>15. CASE DiffUpstream(p)
    BY <1>15, CurType DEF DiffUpstream, NextTarget, DropTmp, Shas
  <1>16. CASE ReadLock(p)
    <2>1. data' \in [Procs -> Entries]
      BY <1>16, MergeType, NoEntriesType DEF ReadLock
    <2> QED  BY <1>16, <2>1 DEF ReadLock
  <1>17. CASE TruncateLock(p)
    BY <1>17, NoEntriesType DEF TruncateLock, LockStates
  <1>18. CASE WriteLock(p)
    BY <1>18, NoEntriesType DEF WriteLock, LockStates
  <1>19. CASE WriteFails(p)
    BY <1>19 DEF WriteFails, Fails
  <1>20. CASE Kill(p)
    BY <1>20 DEF Kill, Fails
  <1> QED
    BY <1>1, <1>2, <1>3, <1>4, <1>5, <1>6, <1>7, <1>8, <1>9, <1>10, <1>11, <1>13,
       <1>14, <1>15, <1>16, <1>17, <1>18, <1>19, <1>20
    DEF Step, FetchOne, UpdateLockFile

LEMMA NextType == TypeInv /\ [Next]_vars => TypeInv'
  <1> SUFFICES ASSUME TypeInv, [Next]_vars PROVE TypeInv'
    OBVIOUS
  <1>1. ASSUME NEW p \in Procs, RunFetch(p) \/ RunRefresh(p) \/ RunVerify(p)
        PROVE  TypeInv'
    <2>1. PICK c \in {"fetch", "refresh", "verify"}, list \in ArgLists \cup {Table, <<>>} :
             Start(p, c, list)
      BY <1>1 DEF RunFetch, RunRefresh, RunVerify
    <2> QED  BY <2>1, StartType
  <1>2. ASSUME NEW p \in Procs, Step(p) \/ Kill(p)
        PROVE  TypeInv'
    BY <1>2, StepType
  <1>3. ASSUME NEW s \in Subdirs, UpstreamCommit(s)
        PROVE  TypeInv'
    <2>1. upstream' \in [Subdirs -> Heads]
      BY <1>3, BoundsAssumption DEF UpstreamCommit, TypeInv, TypeOK, Heads
    <2> QED
      BY <1>3, <2>1 DEF UpstreamCommit, TypeInv, TypeOK, Busy, local, history
  <1>4. CASE UNCHANGED vars
    BY <1>4 DEF vars, TypeInv, TypeOK, Busy
  <1> QED  BY <1>1, <1>2, <1>3, <1>4 DEF Next

\* The variables keep their types: whatever fails and whatever overlaps, the
\* tree holds items of upstream HEADs and the lock file shas or the empty
\* string of a failed rev-parse.
THEOREM TypeCorrect == Spec => []TypeOK
  <1>1. TypeInv => TypeOK
    BY DEF TypeInv
  <1> QED  BY <1>1, InitType, NextType, PTL DEF Spec

----------------------------------------------------------------------------
(* The tree and the lock file.  SafeInv strengthens NeverMixed and         *)
(* LockNeverAhead with what holds inside a run: the target is gone before  *)
(* mv runs, because rm's listing was complete (no other run writes to the  *)
(* directory); and no sha that a lock file, a list FETCHED_* or a python   *)
(* helper knows for a subdir is newer than the clone about to be moved in. *)

Below(entries, s, n) == s \in DOMAIN entries => entries[s] <= n
RecordsBelow(s, n) ==
    /\ Below(lock.entries, s, n)
    /\ \A p \in Procs : Below(fetched[p], s, n) /\ Below(data[p], s, n)

Swapping == {"strip", "test", "rm", "mv"}
PayloadIs(p, h) ==
    /\ \A i \in payload[p] : i.head = h /\ i.part # "payload"
    /\ sha[p] <= h /\ h <= upstream[Cur(p)]
    /\ RecordsBelow(Cur(p), h)

WorksOnOwn == \A p \in Procs : cmd[p] # "verify" => Elems(todo[p]) \subseteq Owns[p]
SwapsOneHead == \A p \in Procs : pc[p] \in Swapping =>
    cmd[p] # "verify" /\ \E h \in Heads : PayloadIs(p, h)
RmSeesAll == \A p \in Procs : pc[p] = "rm" => disk[Cur(p)].items \subseteq listing[p]
MvFindsNothing == \A p \in Procs : pc[p] = "mv" => ~disk[Cur(p)].dir
NoItemsWithoutDir == \A s \in Subdirs : ~disk[s].dir => disk[s].items = {}
RecordsTrail == \A s \in Subdirs :
    /\ RecordsBelow(s, upstream[s])
    /\ \A i \in disk[s].items : RecordsBelow(s, i.head)

SafeInv ==
    /\ WorksOnOwn
    /\ SwapsOneHead
    /\ RmSeesAll
    /\ MvFindsNothing
    /\ NoItemsWithoutDir
    /\ NeverMixed
    /\ RecordsTrail

LEMMA ElemsOfTail ==
    ASSUME NEW seq \in Seq(Subdirs), seq # <<>>
    PROVE  Head(seq) \in Elems(seq) /\ Elems(Tail(seq)) \subseteq Elems(seq)
  BY DEF Elems

LEMMA InitSafe == Init => SafeInv
  <1> SUFFICES ASSUME Init PROVE SafeInv
    OBVIOUS
  <1>1. Elems(<<>>) = {}
    BY DEF Elems
  <1>2. WorksOnOwn
    BY <1>1 DEF Init, WorksOnOwn
  <1>3. SwapsOneHead /\ RmSeesAll /\ MvFindsNothing
    BY DEF Init, SwapsOneHead, Swapping, RmSeesAll, MvFindsNothing
  <1>4. NoItemsWithoutDir /\ NeverMixed
    BY PartsAssumption
    DEF Init, NoItemsWithoutDir, NeverMixed, Missing, Tree, Snapshot, ItemAt
  <1>5. RecordsTrail
    BY NoEntriesType DEF Init, RecordsTrail, RecordsBelow, Below
  <1> QED  BY <1>2, <1>3, <1>4, <1>5 DEF SafeInv

\* Two runs in the middle of a swap are at different subdirs.
LEMMA SwapsApart ==
    ASSUME TypeInv, WorksOnOwn, SwapsOneHead, SingleWriter,
           NEW p \in Procs, NEW q \in Procs, p # q,
           pc[p] \in Swapping, pc[q] \in Swapping
    PROVE  Cur(p) # Cur(q)
  <1>1. \A r \in {p, q} : todo[r] \in Seq(Subdirs) /\ todo[r] # <<>> /\ cmd[r] # "verify"
    BY DEF TypeInv, TypeOK, Busy, Labels, Swapping, SwapsOneHead
  <1>2. \A r \in {p, q} : Cur(r) \in Owns[r]
    BY <1>1, ElemsOfTail DEF WorksOnOwn, Cur
  <1> QED  BY <1>2 DEF SingleWriter

\* Steps that leave alone what SafeInv says of the tree and the records.
LEMMA QuietStep ==
    ASSUME TypeInv, SafeInv, NEW p \in Procs,
           UNCHANGED <<upstream, disk, lock, cmd, fetched, data>>,
           (todo[p] # <<>> /\ todo'[p] = Tail(todo[p])) \/ todo'[p] = todo[p],
           \A q \in Procs \ {p} : /\ pc'[q] = pc[q] /\ todo'[q] = todo[q]
                                  /\ payload'[q] = payload[q]
                                  /\ sha'[q] = sha[q] /\ listing'[q] = listing[q],
           pc'[p] \notin Swapping
    PROVE  SafeInv'
  <1>1. WorksOnOwn'
    <2>1. todo[p] \in Seq(Subdirs)
      BY DEF TypeInv, TypeOK
    <2>2. \A q \in Procs : Elems(todo'[q]) \subseteq Elems(todo[q])
      BY <2>1, ElemsOfTail
    <2> QED  BY <2>2 DEF SafeInv, WorksOnOwn
  <1>2. SwapsOneHead'
    BY DEF SafeInv, SwapsOneHead, PayloadIs, RecordsBelow, Swapping, Cur, TypeInv, TypeOK
  <1>3. RmSeesAll' /\ MvFindsNothing'
    <2>1. \A q \in Procs : pc'[q] \in {"rm", "mv"} => q # p
      BY DEF Swapping
    <2>2. RmSeesAll'
      BY <2>1 DEF SafeInv, RmSeesAll, Cur
    <2>3. MvFindsNothing'
      BY <2>1 DEF SafeInv, MvFindsNothing, Cur
    <2> QED  BY <2>2, <2>3
  <1>4. NoItemsWithoutDir' /\ NeverMixed' /\ RecordsTrail'
    BY DEF SafeInv, NoItemsWithoutDir, NeverMixed, RecordsTrail, RecordsBelow
  <1> QED  BY <1>1, <1>2, <1>3, <1>4 DEF SafeInv

LEMMA StartSafe ==
    ASSUME TypeInv, SafeInv, NEW p \in Procs, NEW c \in {"fetch", "refresh", "verify"},
           NEW list \in ArgLists \cup {Table, <<>>}, Start(p, c, list),
           c # "verify" => Elems(list) \cap Subdirs \subseteq Owns[p]
    PROVE  SafeInv'
  <1>1. pc'[p] \in {"idle", "loop"} /\ \A q \in Procs \ {p} : pc'[q] = pc[q]
    BY DEF Start, Goto, Exit, TypeInv, TypeOK
  <1>2. \A q \in Procs \ {p} :
           /\ todo'[q] = todo[q] /\ cmd'[q] = cmd[q] /\ payload'[q] = payload[q]
           /\ sha'[q] = sha[q] /\ listing'[q] = listing[q]
    <2>1. \A q \in Procs \ {p} : todo'[q] = todo[q] /\ cmd'[q] = cmd[q]
      BY DEF Start, TypeInv, TypeOK
    <2>2. \A q \in Procs \ {p} : /\ payload'[q] = payload[q] /\ sha'[q] = sha[q]
                                 /\ listing'[q] = listing[q]
      BY DEF Start, DropTmp, TypeInv, TypeOK
    <2> QED  BY <2>1, <2>2
  <1>3. cmd'[p] = c /\ (todo'[p] = <<>> \/ (KnownTargets(list) /\ todo'[p] = list))
    <2>1. CASE KnownTargets(list)
      BY <2>1 DEF Start, TypeInv, TypeOK
    <2>2. CASE ~KnownTargets(list)
      BY <2>2 DEF Start, Goto, Exit, TypeInv, TypeOK
    <2> QED  BY <2>1, <2>2
  <1>4. \A q \in Procs : /\ fetched'[q] \in {fetched[q], NoEntries}
                          /\ data'[q] \in {data[q], NoEntries}
    BY DEF Start, TypeInv, TypeOK
  <1>5. WorksOnOwn'
    <2>1. Elems(<<>>) = {}
      BY DEF Elems
    <2>2. c # "verify" => Elems(todo'[p]) \subseteq Owns[p]
      BY <1>3, <2>1 DEF KnownTargets
    <2> QED  BY <1>2, <1>3, <2>2 DEF SafeInv, WorksOnOwn
  <1>6. \A s, n : RecordsBelow(s, n) => RecordsBelow(s, n)'
    BY <1>4, NoEntriesType DEF RecordsBelow, Below, Start
  <1>7. SwapsOneHead'
    BY <1>1, <1>2, <1>6 DEF SafeInv, SwapsOneHead, PayloadIs, Swapping, Cur, Start
  <1>8. RmSeesAll' /\ MvFindsNothing'
    BY <1>1, <1>2 DEF SafeInv, RmSeesAll, MvFindsNothing, Cur, Start
  <1>9. NoItemsWithoutDir' /\ NeverMixed' /\ RecordsTrail'
    BY <1>6 DEF SafeInv, NoItemsWithoutDir, NeverMixed, RecordsTrail, Start
  <1> QED  BY <1>5, <1>7, <1>8, <1>9 DEF SafeInv

\* The steps outside fetch_one and update_lock_file, the failing clone, and
\* the kill disturb nothing.
LEMMA LoopSafe ==
    ASSUME TypeInv, SafeInv, NEW p \in Procs,
           \/ NextSubdir(p) \/ LoopEnds(p) \/ CloneFails(p)
           \/ DiffUpstream(p) \/ WriteFails(p) \/ Kill(p)
    PROVE  SafeInv'
  <1> USE DEF TypeInv, TypeOK, At, Goto, Exit, world, local, history
  <1>1. /\ UNCHANGED <<upstream, disk, lock, cmd, fetched, data>>
        /\ pc'[p] \notin Swapping
        /\ \A q \in Procs \ {p} : pc'[q] = pc[q]
    BY DEF Swapping, NextSubdir, NextTarget, LoopEnds, CloneFails, AfterFailedClone,
           DiffUpstream, WriteFails, Kill
  <1>2. /\ (todo[p] # <<>> /\ todo'[p] = Tail(todo[p])) \/ todo'[p] = todo[p]
        /\ \A q \in Procs \ {p} : todo'[q] = todo[q]
    BY DEF Busy, Labels, NextSubdir, NextTarget, LoopEnds, CloneFails, AfterFailedClone,
           DiffUpstream, WriteFails, Kill
  <1>3. \A q \in Procs \ {p} : /\ payload'[q] = payload[q] /\ sha'[q] = sha[q]
                               /\ listing'[q] = listing[q]
    BY DEF NextSubdir, LoopEnds, CloneFails, DiffUpstream, DropTmp, WriteFails, Kill
  <1> QED  BY <1>1, <1>2, <1>3, QuietStep

\* The clone is at least as new as every record: HEADs only advance.
LEMMA CloneSafe ==
    ASSUME TypeInv, SafeInv, NEW p \in Procs, CloneUpstream(p)
    PROVE  SafeInv'
  <1> USE DEF TypeInv, TypeOK, At, Goto, world, history, CloneUpstream
  <1>1. CASE cmd[p] = "verify"
    <2>1. pc'[p] \notin Swapping
      BY <1>1 DEF Swapping
    <2> QED  BY <2>1, QuietStep
  <1>2. CASE cmd[p] # "verify"
    <2>1. Cur(p) \in Subdirs
      BY CurType DEF Busy, Labels
    <2>2. PICK h0 \in Heads : h0 = upstream[Cur(p)]
      BY <2>1
    <2>3. UNCHANGED <<upstream, disk, lock, cmd, todo, fetched, data, listing>>
      OBVIOUS
    <2>4. payload'[p] = Clone(h0) /\ sha'[p] = h0
      BY <1>2, <2>2
    <2>5. \A i \in Clone(h0) : i.head = h0 /\ i.part # "payload"
      BY PartsAssumption DEF Clone, Snapshot, ItemAt
    <2>6. PayloadIs(p, h0)'
      BY <2>1, <2>2, <2>3, <2>4, <2>5
      DEF PayloadIs, RecordsBelow, Cur, Heads, SafeInv, RecordsTrail
    <2>7. ASSUME NEW q \in Procs, pc'[q] \in Swapping
          PROVE  (cmd[q] # "verify" /\ \E h \in Heads : PayloadIs(q, h))'
      <3>1. CASE q = p
        BY <1>2, <2>3, <2>6, <3>1
      <3>2. CASE q # p
        BY <2>3, <2>7, <3>2 DEF SafeInv, SwapsOneHead, PayloadIs, RecordsBelow, Cur
      <3> QED  BY <3>1, <3>2
    <2>8. SwapsOneHead'
      BY <2>7 DEF SwapsOneHead
    <2>9. RmSeesAll' /\ MvFindsNothing'
      BY <2>3 DEF SafeInv, RmSeesAll, MvFindsNothing, Cur
    <2> QED
      BY <2>3, <2>8, <2>9
      DEF SafeInv, WorksOnOwn, NoItemsWithoutDir, NeverMixed, RecordsTrail, RecordsBelow
  <1> QED  BY <1>1, <1>2

\* rev-parse, the removal of .git and the test of the target work on the
\* clone; the test sends the run to mv only when nothing is there.
LEMMA PrepareSafe ==
    ASSUME TypeInv, SafeInv, NEW p \in Procs,
           RevParseFails(p) \/ StripGit(p) \/ StripFails(p) \/ TestTarget(p)
    PROVE  SafeInv'
  <1> USE DEF TypeInv, TypeOK, At, Goto, world, local, history,
              RevParseFails, StripGit, StripFails, TestTarget
  <1>1. UNCHANGED <<upstream, disk, lock, cmd, todo, fetched, data>>
    OBVIOUS
  <1>2. \A q \in Procs : pc'[q] \in Swapping => pc[q] \in Swapping
    BY DEF Swapping
  <1>3. \A q \in Procs : payload'[q] \subseteq payload[q] /\ (sha'[q] = sha[q] \/ sha'[q] = 0)
    <2>1. CASE RevParseFails(p)
      BY <2>1 DEF NoSha
    <2>2. CASE StripGit(p)
      BY <2>2
    <2>3. CASE StripFails(p) \/ TestTarget(p)
      BY <2>3
    <2> QED  BY <2>1, <2>2, <2>3
  <1>4. \A q \in Procs, h \in Heads : PayloadIs(q, h) => PayloadIs(q, h)'
    BY <1>1, <1>3 DEF PayloadIs, RecordsBelow, Cur, Heads
  <1>5. SwapsOneHead'
    BY <1>1, <1>2, <1>4 DEF SafeInv, SwapsOneHead
  <1>6. RmSeesAll' /\ MvFindsNothing'
    <2>1. CASE TestTarget(p)
      BY <1>1, <2>1 DEF SafeInv, RmSeesAll, MvFindsNothing, Cur, TargetExists
    <2>2. CASE RevParseFails(p) \/ StripGit(p) \/ StripFails(p)
      <3>1. UNCHANGED listing /\ \A q \in Procs : pc'[q] \in {"rm", "mv"} => pc[q] = pc'[q]
        BY <2>2
      <3> QED  BY <1>1, <3>1 DEF SafeInv, RmSeesAll, MvFindsNothing, Cur
    <2> QED  BY <2>1, <2>2
  <1> QED
    BY <1>1, <1>5, <1>6
    DEF SafeInv, WorksOnOwn, NoItemsWithoutDir, NeverMixed, RecordsTrail, RecordsBelow

\* rm -rf empties the target and nothing else: the directories of the other
\* runs in a swap are other directories.
LEMMA RemoveSafe ==
    ASSUME TypeInv, SafeInv, SingleWriter, NEW p \in Procs,
           RemoveItem(p) \/ RemoveDir(p)
    PROVE  SafeInv'
  <1> USE DEF TypeInv, TypeOK, At, Goto, local, history
  <1>1. /\ UNCHANGED <<upstream, lock, cmd, todo, fetched, data, payload, sha, listing>>
        /\ pc[p] = "rm" /\ pc'[p] \in {"rm", "mv"}
        /\ \A q \in Procs \ {p} : pc'[q] = pc[q]
    BY DEF RemoveItem, RemoveDir
  <1>2. Cur(p) \in Subdirs
    BY <1>1, CurType DEF Busy, Labels
  <1>3. /\ \A s \in Subdirs \ {Cur(p)} : disk'[s] = disk[s]
        /\ disk'[Cur(p)].items \subseteq disk[Cur(p)].items
        /\ ~disk'[Cur(p)].dir => disk'[Cur(p)].items = {}
        /\ pc'[p] = "mv" => ~disk'[Cur(p)].dir
    <2>1. CASE RemoveItem(p)
      <3>1. PICK i : disk' = [disk EXCEPT ![Cur(p)].items = @ \ {i}]
        BY <2>1 DEF RemoveItem
      <3>2. disk[Cur(p)] \in Directory
        BY <1>2
      <3>3. disk'[Cur(p)].items = disk[Cur(p)].items \ {i} /\ disk'[Cur(p)].dir = disk[Cur(p)].dir
        BY <1>2, <3>1, <3>2 DEF Directory
      <3>4. pc'[p] = "rm"
        BY <1>1, <2>1 DEF RemoveItem
      <3> QED  BY <1>2, <3>1, <3>3, <3>4 DEF SafeInv, NoItemsWithoutDir
    <2>2. CASE RemoveDir(p)
      <3>1. disk[Cur(p)].items = {}
        BY <1>1, <2>2 DEF RemoveDir, SafeInv, RmSeesAll
      <3>2. disk' = [disk EXCEPT ![Cur(p)] = Missing]
        BY <2>2, <3>1 DEF RemoveDir
      <3> QED  BY <1>2, <3>1, <3>2 DEF Missing
    <2> QED  BY <2>1, <2>2
  <1>4. \A q \in Procs \ {p} : pc[q] \in Swapping => Cur(q) # Cur(p) /\ Cur(q) \in Subdirs
    BY <1>1, SwapsApart, CurType DEF SafeInv, Swapping, Busy, Labels
  <1>5. SwapsOneHead'
    BY <1>1 DEF SafeInv, SwapsOneHead, PayloadIs, RecordsBelow, Swapping, Cur
  <1>6. RmSeesAll'
    BY <1>1, <1>3, <1>4 DEF SafeInv, RmSeesAll, Swapping, Cur
  <1>7. MvFindsNothing'
    <2>1. \A q \in Procs : Cur(q)' = Cur(q)
      BY <1>1 DEF Cur
    <2>2. ASSUME NEW q \in Procs \ {p}, pc'[q] = "mv"
          PROVE  ~disk'[Cur(q)].dir
      <3>1. pc[q] = "mv" /\ pc[q] \in Swapping
        BY <1>1, <2>2 DEF Swapping
      <3>2. disk'[Cur(q)] = disk[Cur(q)]
        BY <1>3, <1>4, <3>1
      <3> QED  BY <3>1, <3>2 DEF SafeInv, MvFindsNothing
    <2> QED  BY <1>3, <2>1, <2>2 DEF MvFindsNothing
  <1>8. NoItemsWithoutDir' /\ NeverMixed'
    <2>1. \A s \in Subdirs : disk'[s].items \subseteq disk[s].items
      BY <1>3
    <2>2. NeverMixed'
      BY <2>1 DEF SafeInv, NeverMixed
    <2>3. NoItemsWithoutDir'
      BY <1>3 DEF SafeInv, NoItemsWithoutDir
    <2> QED  BY <2>2, <2>3
  <1>9. RecordsTrail'
    BY <1>1, <1>2, <1>3 DEF SafeInv, RecordsTrail, RecordsBelow
  <1> QED  BY <1>1, <1>5, <1>6, <1>7, <1>8, <1>9 DEF SafeInv, WorksOnOwn

\* A subdir is recorded with the sha of the clone that replaces it, or of
\* the clone that should have when mv fails and nothing is there.
LEMMA MoveSafe ==
    ASSUME TypeInv, SafeInv, SingleWriter, NEW p \in Procs,
           MvPayload(p) \/ MvFails(p)
    PROVE  SafeInv'
  <1>1. /\ pc[p] = "mv" /\ todo[p] # <<>> /\ todo[p] \in Seq(Subdirs)
        /\ Cur(p) \in Subdirs /\ sha[p] \in Shas /\ fetched[p] \in Entries
    BY CurType DEF TypeInv, TypeOK, Busy, Labels, MvPayload, MvFails, At
  <1>2. PICK h \in Heads : PayloadIs(p, h)
    BY <1>1 DEF SafeInv, SwapsOneHead, Swapping
  <1>3. ~disk[Cur(p)].dir /\ disk[Cur(p)].items = {}
    BY <1>1 DEF SafeInv, MvFindsNothing, NoItemsWithoutDir
  <1>4. /\ UNCHANGED <<upstream, lock, cmd, data>>
        /\ pc' = [pc EXCEPT ![p] = "loop"]
        /\ todo' = [todo EXCEPT ![p] = Tail(@)]
        /\ DropTmp(p)
    BY DEF MvPayload, MvFails, RecordFetched, NextTarget, Goto, world
  <1>5. /\ \A s \in Subdirs \ {Cur(p)} : disk'[s] = disk[s]
        /\ \/ disk'[Cur(p)] = Tree(payload[p])
           \/ disk'[Cur(p)] = disk[Cur(p)]
    BY <1>1, <1>3 DEF MvPayload, MvFails, world, Moved, TypeInv, TypeOK
  <1>6. \A q \in Procs \ {p} :
           /\ pc'[q] = pc[q] /\ todo'[q] = todo[q] /\ payload'[q] = payload[q]
           /\ sha'[q] = sha[q] /\ listing'[q] = listing[q]
    BY <1>4 DEF DropTmp, TypeInv, TypeOK
  <1>7. \A q \in Procs \ {p} : pc[q] \in Swapping => Cur(q) # Cur(p) /\ Cur(q) \in Subdirs
    BY <1>1, SwapsApart, CurType DEF SafeInv, Swapping, TypeInv, Busy, Labels
  \* The records: at Cur(p) the sha of the clone, elsewhere what they were.
  <1>8. /\ \A q \in Procs \ {p} : fetched'[q] = fetched[q]
        /\ fetched'[p] = Merge([s \in {Cur(p)} |-> sha[p]], fetched[p])
    BY DEF MvPayload, MvFails, RecordFetched, RecordedSha, TypeInv, TypeOK
  <1>9. /\ DOMAIN fetched'[p] = {Cur(p)} \cup DOMAIN fetched[p]
        /\ fetched'[p][Cur(p)] = sha[p]
        /\ \A s \in DOMAIN fetched[p] \ {Cur(p)} : fetched'[p][s] = fetched[p][s]
    BY <1>8 DEF Merge
  <1>10. \A s \in Subdirs, n \in Heads :
            /\ RecordsBelow(s, n)
            /\ s = Cur(p) => sha[p] <= n
            => RecordsBelow(s, n)'
    BY <1>4, <1>8, <1>9 DEF RecordsBelow, Below
  <1>11. \A s \in Subdirs : s = Cur(p) => RecordsBelow(s, h)'
    BY <1>1, <1>2, <1>10 DEF PayloadIs
  <1>12. RecordsTrail'
    <2>1. ASSUME NEW s \in Subdirs PROVE RecordsBelow(s, upstream[s])'
      <3>1. upstream[s] \in Heads /\ upstream'[s] = upstream[s]
        BY <1>4 DEF TypeInv, TypeOK
      <3>2. s = Cur(p) => sha[p] <= upstream[s]
        BY <1>1, <1>2, <3>1 DEF PayloadIs, Shas, Heads, NoSha
      <3>3. RecordsBelow(s, upstream[s])
        BY DEF SafeInv, RecordsTrail
      <3> QED  BY <1>10, <3>1, <3>2, <3>3 DEF RecordsBelow
    <2>2. ASSUME NEW s \in Subdirs, NEW i \in disk'[s].items
          PROVE  RecordsBelow(s, i.head)'
      <3>1. CASE s = Cur(p)
        <4>1. i.head = h
          BY <1>2, <1>3, <1>5, <2>2, <3>1 DEF PayloadIs, Tree
        <4> QED  BY <1>11, <3>1, <4>1
      <3>2. CASE s # Cur(p)
        <4>1. i \in disk[s].items /\ i.head \in Heads
          BY <1>5, <2>2, <3>2 DEF TypeInv, TypeOK, Directory, Item
        <4> QED  BY <1>10, <3>2, <4>1 DEF SafeInv, RecordsTrail
      <3> QED  BY <3>1, <3>2
    <2> QED  BY <2>1, <2>2 DEF RecordsTrail
  <1>13. SwapsOneHead'
    <2> SUFFICES ASSUME NEW q \in Procs, pc'[q] \in Swapping
                 PROVE  (cmd[q] # "verify" /\ \E g \in Heads : PayloadIs(q, g))'
      BY DEF SwapsOneHead
    <2>1. q # p /\ pc[q] \in Swapping
      BY <1>1, <1>4, <1>6 DEF Swapping, TypeInv, TypeOK
    <2>2. PICK g \in Heads : PayloadIs(q, g)
      BY <2>1 DEF SafeInv, SwapsOneHead
    <2>3. \A s \in Subdirs : s = Cur(q) => RecordsBelow(s, g)'
      BY <1>7, <1>10, <2>1, <2>2 DEF PayloadIs
    <2>4. PayloadIs(q, g)'
      BY <1>4, <1>6, <1>7, <2>1, <2>2, <2>3 DEF PayloadIs, Cur
    <2> QED  BY <1>4, <2>1, <2>4 DEF SafeInv, SwapsOneHead
  <1>14. \A q \in Procs : pc'[q] \in {"rm", "mv"} =>
            /\ pc'[q] = pc[q] /\ Cur(q)' = Cur(q)
            /\ listing'[q] = listing[q] /\ disk'[Cur(q)] = disk[Cur(q)]
    BY <1>4, <1>5, <1>6, <1>7 DEF Swapping, Cur, TypeInv, TypeOK
  <1>15. RmSeesAll' /\ MvFindsNothing'
    BY <1>14 DEF SafeInv, RmSeesAll, MvFindsNothing
  <1>16. NoItemsWithoutDir' /\ NeverMixed'
    <2>1. NoItemsWithoutDir'
      BY <1>5 DEF SafeInv, NoItemsWithoutDir, Tree
    <2>2. \A i, j \in disk'[Cur(p)].items : i.head = j.head /\ i.part # "payload"
      BY <1>2, <1>3, <1>5 DEF PayloadIs, Tree
    <2> QED  BY <1>5, <2>1, <2>2 DEF SafeInv, NeverMixed
  <1>17. WorksOnOwn'
    BY <1>1, <1>4, <1>6, ElemsOfTail DEF SafeInv, WorksOnOwn, TypeInv, TypeOK
  <1> QED  BY <1>12, <1>13, <1>15, <1>16, <1>17 DEF SafeInv

\* Reading, truncating and writing the lock file move records that trail
\* the tree from one place to another, or lose them.
LEMMA LockSafe ==
    ASSUME TypeInv, SafeInv, NEW p \in Procs,
           ReadLock(p) \/ TruncateLock(p) \/ WriteLock(p)
    PROVE  SafeInv'
  <1> USE DEF TypeInv, TypeOK, At, Goto, Exit, local, history
  <1>1. /\ UNCHANGED <<upstream, disk, cmd, todo, fetched, payload, sha, listing>>
        /\ \A q \in Procs : pc'[q] \in Swapping => pc[q] = pc'[q]
    BY DEF Swapping, ReadLock, TruncateLock, WriteLock, world
  <1>2. \A s, n : RecordsBelow(s, n) => RecordsBelow(s, n)'
    <2>1. CASE ReadLock(p)
      <3>1. PICK old \in {lock.entries, NoEntries} :
               data' = [data EXCEPT ![p] = Merge(fetched[p], old)]
        BY <2>1 DEF ReadLock
      <3>2. /\ UNCHANGED <<lock, fetched>>
            /\ data'[p] = Merge(fetched[p], old)
            /\ \A q \in Procs \ {p} : data'[q] = data[q]
        BY <2>1, <3>1 DEF ReadLock, world
      <3>3. \A s \in DOMAIN data'[p] :
               \/ s \in DOMAIN fetched[p] /\ data'[p][s] = fetched[p][s]
               \/ s \in DOMAIN lock.entries /\ data'[p][s] = lock.entries[s]
        BY <3>1, <3>2, NoEntriesType DEF Merge
      <3> QED  BY <3>2, <3>3 DEF RecordsBelow, Below
    <2>2. CASE TruncateLock(p)
      BY <2>2, NoEntriesType DEF TruncateLock, RecordsBelow, Below
    <2>3. CASE WriteLock(p)
      BY <2>3, NoEntriesType DEF WriteLock, RecordsBelow, Below
    <2> QED  BY <2>1, <2>2, <2>3
  <1>3. SwapsOneHead'
    BY <1>1, <1>2 DEF SafeInv, SwapsOneHead, PayloadIs, Cur
  <1>4. RmSeesAll' /\ MvFindsNothing'
    BY <1>1 DEF SafeInv, RmSeesAll, MvFindsNothing, Swapping, Cur
  <1>5. NoItemsWithoutDir' /\ NeverMixed' /\ WorksOnOwn'
    BY <1>1 DEF SafeInv, NoItemsWithoutDir, NeverMixed, WorksOnOwn
  <1>6. RecordsTrail'
    BY <1>1, <1>2 DEF SafeInv, RecordsTrail
  <1> QED  BY <1>3, <1>4, <1>5, <1>6 DEF SafeInv

\* HEADs only advance, so what was below them stays below.
LEMMA CommitSafe ==
    ASSUME TypeInv, SafeInv, NEW s \in Subdirs, UpstreamCommit(s)
    PROVE  SafeInv'
  <1> USE DEF TypeInv, TypeOK, local, history, UpstreamCommit
  <1>1. UNCHANGED <<disk, lock, pc, cmd, todo, fetched, data, payload, sha, listing>>
    OBVIOUS
  <1>2. \A t \in Subdirs : /\ upstream[t] \in Nat /\ upstream'[t] \in Nat
                           /\ upstream[t] <= upstream'[t]
    BY DEF Heads
  <1>3. \A q \in Procs : sha[q] \in Nat
    BY DEF Shas, Heads, NoSha
  <1>4. \A t \in Subdirs : RecordsBelow(t, upstream[t]) => RecordsBelow(t, upstream[t])'
    <2> SUFFICES ASSUME NEW t \in Subdirs, RecordsBelow(t, upstream[t])
                 PROVE  RecordsBelow(t, upstream[t])'
      OBVIOUS
    <2>1. \A e \in Entries : t \in DOMAIN e => e[t] \in Nat
      BY DEF Entries, Shas, Heads, NoSha
    <2> QED  BY <1>1, <1>2, <2>1 DEF RecordsBelow, Below
  <1>5. RecordsTrail'
    BY <1>1, <1>4 DEF SafeInv, RecordsTrail, RecordsBelow
  <1>6. SwapsOneHead'
    <2> SUFFICES ASSUME NEW q \in Procs, pc[q] \in Swapping
                 PROVE  (cmd[q] # "verify" /\ \E h \in Heads : PayloadIs(q, h))'
      BY <1>1 DEF SwapsOneHead
    <2>1. PICK h \in Heads : PayloadIs(q, h)
      BY DEF SafeInv, SwapsOneHead
    <2>2. Cur(q) \in Subdirs
      BY CurType DEF Busy, Labels, Swapping
    <2>3. h <= upstream'[Cur(q)]
      BY <1>2, <2>1, <2>2 DEF PayloadIs, Heads
    <2>4. PayloadIs(q, h)'
      BY <1>1, <2>1, <2>3 DEF PayloadIs, RecordsBelow, Cur
    <2> QED  BY <1>1, <2>4 DEF SafeInv, SwapsOneHead
  <1> QED
    BY <1>1, <1>5, <1>6
    DEF SafeInv, WorksOnOwn, RmSeesAll, MvFindsNothing, NoItemsWithoutDir, NeverMixed, Cur

LEMMA NextSafe ==
    ASSUME TypeInv, SafeInv, SingleWriter, "rm" \notin Faults, [Next]_vars
    PROVE  SafeInv'
  <1>1. ASSUME NEW p \in Procs, RunFetch(p) \/ RunRefresh(p) \/ RunVerify(p)
        PROVE  SafeInv'
    <2>1. PICK c \in {"fetch", "refresh", "verify"}, list \in ArgLists \cup {Table, <<>>} :
             /\ Start(p, c, list)
             /\ c # "verify" => Elems(list) \cap Subdirs \subseteq Owns[p]
      BY <1>1 DEF RunFetch, RunRefresh, RunVerify
    <2> QED  BY <2>1, StartSafe
  <1>2. ASSUME NEW p \in Procs, Step(p) \/ Kill(p)
        PROVE  SafeInv'
    <2>1. ~RmFails(p)
      BY DEF RmFails, Fails
    <2> QED
      BY <1>2, <2>1, LoopSafe, CloneSafe, PrepareSafe, RemoveSafe, MoveSafe, LockSafe
      DEF Step, FetchOne, UpdateLockFile
  <1>3. ASSUME NEW s \in Subdirs, UpstreamCommit(s)
        PROVE  SafeInv'
    BY <1>3, CommitSafe
  <1>4. CASE UNCHANGED vars
    BY <1>4
    DEF vars, SafeInv, WorksOnOwn, SwapsOneHead, RmSeesAll, MvFindsNothing, PayloadIs,
        NoItemsWithoutDir, NeverMixed, RecordsTrail, RecordsBelow, Cur
  <1> QED  BY <1>1, <1>2, <1>3, <1>4 DEF Next

\* Runs that share no subdir, and whose rm succeeds, never mix two HEADs in a
\* directory, whichever of their clones, moves and writes fail and wherever
\* they are killed; and the lock file they all rewrite without a lock never
\* claims a newer snapshot than the tree holds.
THEOREM TreeAndLockSafe ==
    ASSUME SingleWriter, "rm" \notin Faults
    PROVE  Spec => [](NeverMixed /\ LockNeverAhead)
  <1>1. TypeInv /\ SafeInv => NeverMixed /\ LockNeverAhead
    BY DEF TypeInv, TypeOK, SafeInv, LockNeverAhead, RecordsTrail, RecordsBelow, Below, Entries
  <1>2. TypeInv /\ SafeInv /\ [Next]_vars => TypeInv' /\ SafeInv'
    BY NextType, NextSafe
  <1> QED  BY <1>1, <1>2, InitType, InitSafe, PTL DEF Spec

\* The lock file may lag behind the tree but never runs ahead of it: nothing
\* on the disk is older than the sha the file records for it.
THEOREM LockTrailsTree ==
    ASSUME SingleWriter, "rm" \notin Faults
    PROVE  Spec => []LockNeverAhead
  BY TreeAndLockSafe, PTL

=============================================================================
