--------------------------- MODULE FetchRunProofs ---------------------------
(***************************************************************************)
(* Theorems about what a single run of tools/fetch-corpus.sh leaves        *)
(* behind: for every table, every number of processes and runs before it,  *)
(* and every failure in those.                                             *)
(*                                                                         *)
(* RunInv says, for a run in which nothing has failed and which no other   *)
(* run overlaps, how far the tree and the lock file have come at each      *)
(* command.  The other runs matter only in that they are idle.             *)
(***************************************************************************)
EXTENDS FetchCorpusProofs

----------------------------------------------------------------------------
(* The invariant.                                                          *)

Writing == {"lockRead", "lockTrunc", "lockWrite"}

\* Only fetch and refresh get to the commands that change something, and
\* their exit status is untouched until they end.
LinesOfCmd == \A p \in Procs :
    /\ pc[p] \in Swapping \cup Writing => cmd[p] # "verify"
    /\ pc[p] = "diff" => cmd[p] = "verify"
    /\ ~At(p, "idle") /\ cmd[p] # "verify" => rc[p] = 0

Alone == \A p \in Procs : clean[p] => \A q \in Procs \ {p} : At(q, "idle")

\* What is fetched is in place, all else is as the run found it; the subdir
\* in the swap is neither.
TreeAsDone(p) == \A s \in Subdirs :
    (pc[p] \in {"rm", "mv"} => s # Cur(p)) =>
        disk[s] = IF s \in DOMAIN fetched[p] THEN Tree(Snapshot(fetched[p][s]))
                  ELSE before.disk[s]

\* The clone is whole and of the sha that will be recorded, and by the time
\* of the mv the target is gone.
SwapsWhole(p) ==
    /\ pc[p] = "strip" => sha[p] \in Heads /\ payload[p] = Clone(sha[p])
    /\ pc[p] \in {"test", "rm", "mv"} => sha[p] \in Heads /\ payload[p] = Snapshot(sha[p])
    /\ pc[p] = "diff" => \E h \in Heads : payload[p] = Snapshot(h)
    /\ pc[p] = "rm" => disk[Cur(p)].items \subseteq listing[p]
    /\ pc[p] = "mv" => ~disk[Cur(p)].dir

OldEntries(p) == IF before.lock.st = "good" THEN before.lock.entries ELSE NoEntries
Merged(p) == Merge(fetched[p], OldEntries(p))

\* The lock file is the one the run found until it truncates it, and then the
\* one it found with its own entries added.
LockAsDone(p) ==
    /\ pc[p] \in Writing => fetched[p] # NoEntries
    /\ pc[p] \notin {"idle", "lockWrite"} => lock = before.lock
    /\ pc[p] \in {"lockTrunc", "lockWrite"} => data[p] = Merged(p)
    /\ pc[p] = "lockWrite" => lock.st = "empty"
    /\ pc[p] = "idle" =>
          lock = IF fetched[p] = NoEntries THEN before.lock
                 ELSE [st |-> "good", entries |-> Merged(p)]

Whole(s) == \E h \in Heads : disk[s] = Tree(Snapshot(h))

\* What the loop is through with is done.
TargetsDone(p) ==
    /\ pc[p] \in Writing \cup {"idle"} => todo[p] = <<>>
    /\ cmd[p] = "fetch" => \A s \in Subdirs \ Elems(todo[p]) : IsPresent(s)
    /\ cmd[p] = "refresh" => Elems(args[p]) = DOMAIN fetched[p] \cup Elems(todo[p])
    /\ cmd[p] = "verify" =>
          /\ fetched[p] = NoEntries
          /\ \A s \in Elems(args[p]) \ Elems(todo[p]) : IsPresent(s) => Whole(s)

RunOK(p) == TreeAsDone(p) /\ SwapsWhole(p) /\ LockAsDone(p) /\ TargetsDone(p)

RunInv ==
    /\ LinesOfCmd
    /\ Alone
    /\ \A p \in Procs : clean[p] /\ rc[p] = 0 => RunOK(p)

----------------------------------------------------------------------------
(* Lemmas about the values.                                                *)

LEMMA ElemsOfHeadAndTail ==
    ASSUME NEW seq \in Seq(Subdirs), seq # <<>>
    PROVE  Elems(seq) = {Head(seq)} \cup Elems(Tail(seq))
  <1>1. Elems(Tail(seq)) \subseteq Elems(seq) /\ Head(seq) \in Elems(seq)
    BY ElemsOfTail
  <1>2. ASSUME NEW i \in DOMAIN seq, i # 1
        PROVE  i - 1 \in DOMAIN Tail(seq) /\ Tail(seq)[i - 1] = seq[i]
    BY <1>2
  <1>3. ASSUME NEW x \in Elems(seq)
        PROVE  x = Head(seq) \/ x \in Elems(Tail(seq))
    <2>1. PICK i \in DOMAIN seq : x = seq[i]
      BY <1>3 DEF Elems
    <2>2. CASE i = 1
      BY <2>1, <2>2
    <2>3. CASE i # 1
      BY <1>2, <2>1, <2>3 DEF Elems
    <2> QED  BY <2>2, <2>3
  <1> QED  BY <1>1, <1>3

LEMMA StrippedClone ==
    ASSUME NEW h \in Heads
    PROVE  {i \in Clone(h) : i.part # ".git"} = Snapshot(h)
  BY PartsAssumption DEF Clone, Snapshot, ItemAt

LEMMA SnapshotNotEmpty ==
    ASSUME NEW h \in Heads
    PROVE  Snapshot(h) # {}
  BY PartsAssumption DEF Snapshot

\* What the subdir in work is, and what else the commands on it rely on.
LEMMA CurKnown ==
    ASSUME TypeInv, NEW p \in Procs, pc[p] \in Labels
    PROVE  /\ todo[p] \in Seq(Subdirs) /\ todo[p] # <<>>
           /\ Cur(p) \in Subdirs /\ disk[Cur(p)] \in Directory
           /\ Elems(todo[p]) = {Cur(p)} \cup Elems(Tail(todo[p]))
  <1>1. todo[p] \in Seq(Subdirs) /\ todo[p] # <<>>
    BY DEF TypeInv, TypeOK, Busy
  <1>2. Cur(p) \in Subdirs
    BY <1>1, CurType
  <1>3. disk[Cur(p)] \in Directory
    BY <1>2 DEF TypeInv, TypeOK
  <1> QED  BY <1>1, <1>2, <1>3, ElemsOfHeadAndTail DEF Cur

----------------------------------------------------------------------------
(* RunInv is inductive.                                                    *)

LEMMA InitRun == Init => RunInv
  BY DEF Init, RunInv, LinesOfCmd, Alone, Swapping, Writing, At

\* A run without failures that no other overlaps is the only one to act.
LEMMA OnlyItsOwnSteps ==
    ASSUME TypeInv, RunInv, NEW q \in Procs, Step(q) \/ Kill(q),
           NEW p \in Procs, clean'[p]
    PROVE  q = p /\ clean[p] /\ ~Kill(q)
  <1> USE DEF TypeInv, TypeOK
  <1>1. ~At(q, "idle")
    BY DEF Step, Kill, NextSubdir, LoopEnds, FetchOne, CloneUpstream, CloneFails, RevParseFails,
           StripGit, StripFails, TestTarget, RemoveItem, RemoveDir, RmFails, MvPayload, MvFails,
           DiffUpstream, UpdateLockFile, ReadLock, TruncateLock, WriteLock, WriteFails, At
  <1>2. \/ UNCHANGED clean
        \/ clean' = [clean EXCEPT ![q] = FALSE]
    BY DEF Step, Kill, NextSubdir, LoopEnds, FetchOne, CloneUpstream, CloneFails, RevParseFails,
           StripGit, StripFails, TestTarget, RemoveItem, RemoveDir, RmFails, MvPayload, MvFails,
           DiffUpstream, UpdateLockFile, ReadLock, TruncateLock, WriteLock, WriteFails,
           history, Fails, Writes
  <1>3. clean[p]
    BY <1>2
  <1>4. q = p
    BY <1>1, <1>3 DEF RunInv, Alone
  <1>5. ~Kill(q)
    BY <1>4 DEF Kill, Fails
  <1> QED  BY <1>3, <1>4, <1>5

\* What is said of the tree and of the targets stays true when neither they
\* nor the lists the run keeps of them change.
LEMMA TreeStays ==
    ASSUME NEW p \in Procs, TreeAsDone(p), pc[p] \notin {"rm", "mv"},
           UNCHANGED <<disk, before, fetched>>
    PROVE  TreeAsDone(p)'
  BY DEF TreeAsDone

LEMMA TargetsStay ==
    ASSUME NEW p \in Procs, TargetsDone(p), UNCHANGED <<disk, fetched, cmd, args, todo>>,
           pc'[p] \in Writing \cup {"idle"} => todo[p] = <<>>
    PROVE  TargetsDone(p)'
  BY DEF TargetsDone, IsPresent, Whole

\* The steps of a run that is alone and in which nothing fails.
LEMMA OwnStep ==
    ASSUME TypeInv, RunInv, NEW p \in Procs, Step(p), clean[p], clean'[p], rc[p] = 0, rc'[p] = 0
    PROVE  RunOK(p)'
  <1> USE DEF TypeInv, TypeOK, At, Goto, Exit, world, local, history
  <1>0. RunOK(p)
    BY DEF RunInv
  <1>t. TreeAsDone(p) /\ TargetsDone(p)
    BY <1>0 DEF RunOK
  <1> USE <1>0 DEF RunOK, SwapsWhole, LockAsDone
  <1>a. \A k : ~Fails(p, k)
    BY DEF Fails
  <1>b. pc[p] \in Swapping \cup Writing => cmd[p] # "verify"
    BY DEF RunInv, LinesOfCmd
  <1>1. CASE NextSubdir(p)
    <2>1. UNCHANGED <<disk, lock, before, fetched, cmd, args>> /\ pc[p] = "loop"
      BY <1>1 DEF NextSubdir
    <2>2. CASE Skips(p) /\ NextTarget(p)
      <3>1. Elems(todo[p]) = {Cur(p)} \cup Elems(Tail(todo[p])) /\ todo'[p] = Tail(todo[p])
        BY <1>1, <2>2, ElemsOfHeadAndTail DEF NextSubdir, NextTarget, Cur
      <3>2. pc'[p] = "loop"
        BY <2>2 DEF NextTarget
      <3>3. TargetsDone(p)'
        <4>1. cmd[p] # "refresh"
          BY <2>2 DEF Skips
        <4>2. cmd[p] = "fetch" => \A s \in Subdirs \ Elems(todo'[p]) : IsPresent(s)
          BY <1>t, <2>2, <3>1 DEF Skips, TargetsDone
        <4>3. cmd[p] = "verify" =>
                 \A s \in Elems(args[p]) \ Elems(todo'[p]) : IsPresent(s) => Whole(s)
          BY <1>t, <2>2, <3>1 DEF Skips, TargetsDone
        <4> QED
          BY <1>t, <2>1, <3>2, <4>1, <4>2, <4>3 DEF TargetsDone, Writing, IsPresent, Whole
      <3>4. TreeAsDone(p)'
        BY <1>t, <2>1, TreeStays
      <3> QED  BY <2>1, <3>2, <3>3, <3>4 DEF Writing
    <2>3. CASE ~Skips(p) /\ Goto(p, "clone") /\ UNCHANGED todo
      <3>1. pc'[p] = "clone"
        BY <2>3
      <3>2. TreeAsDone(p)' /\ TargetsDone(p)'
        BY <1>t, <2>1, <2>3, <3>1, TreeStays, TargetsStay DEF Writing
      <3> QED  BY <2>1, <3>1, <3>2 DEF Writing
    <2> QED  BY <1>1, <2>2, <2>3 DEF NextSubdir
  <1>2. CASE LoopEnds(p)
    <2>1. UNCHANGED <<disk, lock, before, fetched, cmd, args, todo>> /\ pc[p] = "loop" /\ todo[p] = <<>>
      BY <1>2 DEF LoopEnds
    <2>2. \/ pc'[p] = "lockRead" /\ fetched[p] # NoEntries
          \/ pc'[p] = "idle" /\ fetched[p] = NoEntries
      BY <1>t, <1>2 DEF LoopEnds, TargetsDone
    <2>9. TreeAsDone(p)' /\ TargetsDone(p)'
      BY <1>t, <2>1, <2>2, TreeStays, TargetsStay DEF Writing
    <2> QED  BY <2>1, <2>2, <2>9 DEF Writing
  <1>3. CASE CloneUpstream(p)
    <2>1. UNCHANGED <<disk, lock, before, fetched, cmd, args, todo>> /\ pc[p] = "clone"
      BY <1>3 DEF CloneUpstream
    <2>2. upstream[Cur(p)] \in Heads
      BY <2>1, CurKnown DEF Labels
    <2>3. \/ /\ pc'[p] = "diff"
             /\ payload'[p] = Snapshot(upstream[Cur(p)])
          \/ /\ pc'[p] = "strip"
             /\ payload'[p] = Clone(upstream[Cur(p)]) /\ sha'[p] = upstream[Cur(p)]
      BY <1>3 DEF CloneUpstream
    <2>9. TreeAsDone(p)' /\ TargetsDone(p)'
      BY <1>t, <2>1, <2>2, <2>3, TreeStays, TargetsStay DEF Writing
    <2> QED  BY <2>1, <2>2, <2>3, <2>9 DEF Writing
  <1>4. CASE StripGit(p)
    <2>1. UNCHANGED <<disk, lock, before, fetched, cmd, args, todo, sha>> /\ pc[p] = "strip" /\ pc'[p] = "test"
      BY <1>4 DEF StripGit
    <2>2. payload'[p] = Snapshot(sha[p])
      BY <1>4, <2>1, StrippedClone DEF StripGit
    <2>9. TreeAsDone(p)' /\ TargetsDone(p)'
      BY <1>t, <2>1, <2>2, TreeStays, TargetsStay DEF Writing
    <2> QED  BY <2>1, <2>2, <2>9 DEF Writing
  <1>5. CASE TestTarget(p)
    <2>1. UNCHANGED <<disk, lock, before, fetched, cmd, args, todo, sha, payload>> /\ pc[p] = "test"
      BY <1>5 DEF TestTarget
    <2>2. /\ pc'[p] = IF disk[Cur(p)].dir THEN "rm" ELSE "mv"
          /\ listing'[p] = disk[Cur(p)].items
      BY <1>5 DEF TestTarget, TargetExists
    <2>9. TreeAsDone(p)' /\ TargetsDone(p)'
      BY <1>t, <2>1, <2>2, TreeStays, TargetsStay DEF Writing
    <2> QED  BY <2>1, <2>2, <2>9 DEF Writing, Cur
  <1>6. CASE RemoveItem(p) \/ RemoveDir(p)
    <2>1. UNCHANGED <<lock, before, fetched, cmd, args, todo, sha, payload, listing>> /\ pc[p] = "rm"
      BY <1>6 DEF RemoveItem, RemoveDir, Writes
    <2>2. Cur(p) \in Subdirs /\ disk[Cur(p)] \in Directory
      BY <2>1, CurKnown DEF Labels
    <2>3. /\ \A s \in Subdirs \ {Cur(p)} : disk'[s] = disk[s]
          /\ \/ pc'[p] = "rm" /\ disk'[Cur(p)].items \subseteq disk[Cur(p)].items
             \/ pc'[p] = "mv" /\ ~disk'[Cur(p)].dir
      <3>1. CASE RemoveItem(p)
        BY <2>1, <2>2, <3>1 DEF RemoveItem, Directory
      <3>2. CASE RemoveDir(p)
        BY <2>1, <2>2, <3>2 DEF RemoveDir, Missing
      <3> QED  BY <1>6, <3>1, <3>2
    <2>4. Cur(p) \in Elems(todo[p])
      BY <2>1, CurKnown DEF Labels
    <2>5. TargetsDone(p)'
      <3>1. cmd[p] # "verify"
        BY <1>b, <2>1 DEF Swapping
      <3>2. pc'[p] \notin Writing \cup {"idle"}
        BY <2>3 DEF Writing
      <3>3. cmd[p] = "fetch" => \A s \in Subdirs \ Elems(todo[p]) : IsPresent(s)'
        <4> SUFFICES ASSUME cmd[p] = "fetch", NEW s \in Subdirs \ Elems(todo[p])
                     PROVE  IsPresent(s)'
          OBVIOUS
        <4>1. IsPresent(s) /\ disk'[s] = disk[s]
          BY <1>t, <2>3, <2>4 DEF TargetsDone
        <4> QED  BY <4>1 DEF IsPresent
      <3> QED  BY <1>t, <2>1, <3>1, <3>2, <3>3 DEF TargetsDone
    <2>6. TreeAsDone(p)'
      BY <1>t, <2>1, <2>2, <2>3 DEF TreeAsDone, Cur
    <2>7. SwapsWhole(p)'
      BY <2>1, <2>2, <2>3 DEF Cur
    <2> QED  BY <2>1, <2>3, <2>5, <2>6, <2>7 DEF Writing
  <1>7. CASE MvPayload(p)
    <2>1. /\ UNCHANGED <<lock, before, cmd, args>> /\ pc[p] = "mv" /\ pc'[p] = "loop"
          /\ todo'[p] = Tail(todo[p])
          /\ fetched'[p] = Merge([s \in {Cur(p)} |-> sha[p]], fetched[p])
      BY <1>7 DEF MvPayload, Writes, RecordFetched, NextTarget, RecordedSha
    <2>2. /\ Cur(p) \in Subdirs /\ disk[Cur(p)] \in Directory
          /\ Elems(todo[p]) = {Cur(p)} \cup Elems(Tail(todo[p]))
      BY <2>1, CurKnown DEF Labels
    <2>3. sha[p] \in Heads /\ payload[p] = Snapshot(sha[p]) /\ ~disk[Cur(p)].dir
      BY <2>1
    <2>4. /\ disk'[Cur(p)] = Tree(Snapshot(sha[p]))
          /\ \A s \in Subdirs \ {Cur(p)} : disk'[s] = disk[s]
      BY <1>7, <2>2, <2>3 DEF MvPayload, Moved
    <2>5. /\ DOMAIN fetched'[p] = {Cur(p)} \cup DOMAIN fetched[p]
          /\ fetched'[p][Cur(p)] = sha[p]
          /\ \A s \in DOMAIN fetched[p] \ {Cur(p)} : fetched'[p][s] = fetched[p][s]
      BY <2>1 DEF Merge
    <2>6. TreeAsDone(p)'
      <3> SUFFICES ASSUME NEW s \in Subdirs
                   PROVE  disk'[s] = IF s \in DOMAIN fetched'[p]
                                     THEN Tree(Snapshot(fetched'[p][s])) ELSE before.disk[s]
        BY <2>1 DEF TreeAsDone
      <3>1. CASE s = Cur(p)
        BY <2>4, <2>5, <3>1
      <3>2. CASE s # Cur(p)
        BY <1>t, <2>1, <2>4, <2>5, <3>2 DEF TreeAsDone
      <3> QED  BY <3>1, <3>2
    <2>7. disk'[Cur(p)].dir /\ disk'[Cur(p)].items # {}
      BY <2>3, <2>4, SnapshotNotEmpty DEF Tree
    <2>8. cmd[p] # "verify"
      BY <1>b, <2>1 DEF Swapping
    <2>9. TargetsDone(p)'
      <3>1. pc'[p] \notin Writing \cup {"idle"}
        BY <2>1 DEF Writing
      <3>2. cmd[p] = "fetch" => \A s \in Subdirs \ Elems(todo'[p]) : IsPresent(s)'
        <4> SUFFICES ASSUME cmd[p] = "fetch", NEW s \in Subdirs \ Elems(todo'[p])
                     PROVE  IsPresent(s)'
          OBVIOUS
        <4>1. CASE s = Cur(p)
          BY <2>7, <4>1 DEF IsPresent
        <4>2. CASE s # Cur(p)
          <5>1. IsPresent(s) /\ disk'[s] = disk[s]
            BY <1>t, <2>1, <2>2, <2>4, <4>2 DEF TargetsDone
          <5> QED  BY <5>1 DEF IsPresent
        <4> QED  BY <4>1, <4>2
      <3>3. cmd[p] = "refresh" => Elems(args[p]) = DOMAIN fetched'[p] \cup Elems(todo'[p])
        BY <1>t, <2>1, <2>2, <2>5 DEF TargetsDone
      <3> QED  BY <2>1, <2>8, <3>1, <3>2, <3>3 DEF TargetsDone
    <2> QED  BY <2>1, <2>6, <2>9 DEF Writing
  <1>8. CASE DiffUpstream(p)
    <2>1. /\ UNCHANGED <<disk, lock, before, fetched, cmd, args>> /\ pc[p] = "diff" /\ pc'[p] = "loop"
          /\ todo'[p] = Tail(todo[p])
          /\ disk[Cur(p)].items = payload[p]
      BY <1>8 DEF DiffUpstream, NextTarget
    <2>2. /\ disk[Cur(p)] \in Directory
          /\ Elems(todo[p]) = {Cur(p)} \cup Elems(Tail(todo[p]))
      BY <2>1, CurKnown DEF Labels
    <2>3. IsPresent(Cur(p)) => Whole(Cur(p))
      BY <2>1, <2>2 DEF IsPresent, Whole, Tree, Directory
    <2>4. cmd[p] = "verify"
      BY <2>1 DEF RunInv, LinesOfCmd
    <2>5. TargetsDone(p)'
      <3>1. pc'[p] \notin Writing \cup {"idle"}
        BY <2>1 DEF Writing
      <3>2. \A s \in Elems(args[p]) \ Elems(todo'[p]) : IsPresent(s) => Whole(s)
        BY <1>t, <2>1, <2>2, <2>3, <2>4 DEF TargetsDone
      <3>3. \A s : (IsPresent(s) => Whole(s)) => (IsPresent(s) => Whole(s))'
        BY <2>1 DEF IsPresent, Whole
      <3> QED  BY <1>t, <2>1, <2>4, <3>1, <3>2, <3>3 DEF TargetsDone
    <2>6. TreeAsDone(p)'
      BY <1>t, <2>1, TreeStays
    <2> QED  BY <2>1, <2>5, <2>6 DEF Writing
  <1>9. CASE ReadLock(p)
    <2>1. /\ UNCHANGED <<disk, lock, before, fetched, cmd, args, todo>> /\ pc[p] = "lockRead"
          /\ pc'[p] = "lockTrunc"
      BY <1>9 DEF ReadLock
    <2>2. data'[p] = Merged(p)
      BY <1>9, <2>1 DEF ReadLock, Merged, OldEntries
    <2>9. TreeAsDone(p)' /\ TargetsDone(p)'
      BY <1>t, <2>1, TreeStays, TargetsStay DEF TargetsDone, Writing
    <2> QED  BY <2>1, <2>2, <2>9 DEF Writing, Merged, OldEntries
  <1>10. CASE TruncateLock(p)
    <2>1. /\ UNCHANGED <<disk, before, fetched, data, cmd, args, todo>> /\ pc[p] = "lockTrunc"
          /\ pc'[p] = "lockWrite" /\ lock'.st = "empty"
      BY <1>10 DEF TruncateLock
    <2>9. TreeAsDone(p)' /\ TargetsDone(p)'
      BY <1>t, <2>1, TreeStays, TargetsStay DEF TargetsDone, Writing
    <2> QED  BY <2>1, <2>9 DEF Writing, Merged, OldEntries
  <1>11. CASE WriteLock(p)
    <2>1. /\ UNCHANGED <<disk, before, fetched, data, cmd, args, todo>> /\ pc[p] = "lockWrite"
          /\ pc'[p] = "idle" /\ lock' = [st |-> "good", entries |-> Merged(p)]
      BY <1>11 DEF WriteLock
    <2>9. TreeAsDone(p)' /\ TargetsDone(p)'
      BY <1>t, <2>1, TreeStays, TargetsStay DEF TargetsDone, Writing
    <2> QED  BY <2>1, <2>9 DEF Writing, Merged, OldEntries
  <1> QED
    BY <1>a, <1>1, <1>2, <1>3, <1>4, <1>5, <1>6, <1>7, <1>8, <1>9, <1>10, <1>11
    DEF Step, FetchOne, UpdateLockFile, CloneFails, RevParseFails, StripFails, RmFails,
        MvFails, WriteFails

\* What the commands a run can come to say of its subcommand and status.
LEMMA StepLines ==
    ASSUME TypeInv, LinesOfCmd, NEW q \in Procs, Step(q) \/ Kill(q)
    PROVE  LinesOfCmd'
  <1> USE DEF TypeInv, TypeOK, At, Goto, Exit, world, local, history, NextTarget, Swapping, Writing
  <1>1. UNCHANGED cmd
    BY DEF Step, Kill, NextSubdir, LoopEnds, FetchOne, CloneUpstream, CloneFails, RevParseFails,
           StripGit, StripFails, TestTarget, RemoveItem, RemoveDir, RmFails, MvPayload, MvFails,
           DiffUpstream, UpdateLockFile, ReadLock, TruncateLock, WriteLock, WriteFails
  <1>2. /\ pc'[q] \in Swapping \cup Writing => cmd[q] # "verify"
        /\ pc'[q] = "diff" => cmd[q] = "verify"
        /\ pc'[q] # "idle" /\ cmd[q] # "verify" => rc'[q] = 0
    <2>0. /\ pc[q] \in Swapping \cup Writing => cmd[q] # "verify"
          /\ pc[q] = "diff" => cmd[q] = "verify"
          /\ pc[q] # "idle" /\ cmd[q] # "verify" => rc[q] = 0
      BY DEF LinesOfCmd
    <2>1. CASE NextSubdir(q) \/ LoopEnds(q)
      BY <2>0, <2>1 DEF NextSubdir, LoopEnds
    <2>2. CASE CloneUpstream(q) \/ CloneFails(q)
      BY <2>0, <2>2 DEF CloneUpstream, CloneFails, AfterFailedClone
    <2>3. CASE RevParseFails(q) \/ StripGit(q) \/ StripFails(q) \/ TestTarget(q)
      BY <2>0, <2>3 DEF RevParseFails, StripGit, StripFails, TestTarget
    <2>4. CASE RemoveItem(q) \/ RemoveDir(q) \/ RmFails(q)
      BY <2>0, <2>4 DEF RemoveItem, RemoveDir, RmFails
    <2>5. CASE MvPayload(q) \/ MvFails(q)
      BY <2>0, <2>5 DEF MvPayload, MvFails, RecordFetched
    <2>6. CASE DiffUpstream(q)
      BY <2>0, <2>6 DEF DiffUpstream
    <2>7. CASE ReadLock(q) \/ TruncateLock(q) \/ WriteLock(q) \/ WriteFails(q) \/ Kill(q)
      BY <2>0, <2>7 DEF ReadLock, TruncateLock, WriteLock, WriteFails, Kill
    <2> QED
      BY <2>1, <2>2, <2>3, <2>4, <2>5, <2>6, <2>7 DEF Step, FetchOne, UpdateLockFile
  <1>3. \A r \in Procs \ {q} : pc'[r] = pc[r] /\ rc'[r] = rc[r]
    BY DEF Step, Kill, NextSubdir, LoopEnds, FetchOne, CloneUpstream, CloneFails, RevParseFails,
           StripGit, StripFails, TestTarget, RemoveItem, RemoveDir, RmFails, MvPayload, MvFails,
           DiffUpstream, UpdateLockFile, ReadLock, TruncateLock, WriteLock, WriteFails,
           AfterFailedClone, RecordFetched
  <1>4. ASSUME NEW r \in Procs
        PROVE  /\ pc'[r] \in Swapping \cup Writing => cmd'[r] # "verify"
               /\ pc'[r] = "diff" => cmd'[r] = "verify"
               /\ pc'[r] # "idle" /\ cmd'[r] # "verify" => rc'[r] = 0
    <2>1. CASE r = q
      BY <1>1, <1>2, <2>1
    <2>2. CASE r # q
      BY <1>1, <1>3, <2>2 DEF LinesOfCmd
    <2> QED  BY <2>1, <2>2
  <1> QED  BY <1>4 DEF LinesOfCmd

LEMMA StepRun ==
    ASSUME TypeInv, RunInv, NEW q \in Procs, Step(q) \/ Kill(q)
    PROVE  RunInv'
  <1> USE DEF TypeInv, TypeOK
  <1>1. LinesOfCmd'
    BY StepLines DEF RunInv
  <1>2. Alone'
    <2> SUFFICES ASSUME NEW p \in Procs, clean'[p], NEW r \in Procs \ {p}
                 PROVE  pc'[r] = "idle"
      BY DEF Alone, At
    <2>1. q = p /\ clean[p]
      BY OnlyItsOwnSteps
    <2>2. pc[r] = "idle"
      BY <2>1 DEF RunInv, Alone, At
    <2>3. pc'[r] = pc[r]
      BY <2>1
      DEF Step, Kill, NextSubdir, LoopEnds, FetchOne, CloneUpstream, CloneFails, RevParseFails,
          StripGit, StripFails, TestTarget, RemoveItem, RemoveDir, RmFails, MvPayload, MvFails,
          DiffUpstream, UpdateLockFile, ReadLock, TruncateLock, WriteLock, WriteFails,
          AfterFailedClone, RecordFetched, NextTarget, local, world, Goto, Exit
    <2> QED  BY <2>2, <2>3
  <1>3. ASSUME NEW p \in Procs, clean'[p], rc'[p] = 0
        PROVE  RunOK(p)'
    <2>1. q = p /\ clean[p] /\ Step(p)
      BY <1>3, OnlyItsOwnSteps
    <2>2. rc[p] = 0
      <3>1. CASE WriteLock(p)
        BY <3>1 DEF RunInv, LinesOfCmd, WriteLock, At, Writing
      <3>2. CASE ~WriteLock(p)
        <4>1. rc'[p] = rc[p] \/ (DiffUpstream(p) /\ rc[p] = rc'[p])
          BY <1>3, <2>1, <3>2, OnlyItsOwnSteps
          DEF Step, NextSubdir, LoopEnds, FetchOne, CloneUpstream, CloneFails, RevParseFails,
              StripGit, StripFails, TestTarget, RemoveItem, RemoveDir, RmFails, MvPayload, MvFails,
              DiffUpstream, UpdateLockFile, ReadLock, TruncateLock, WriteFails,
              AfterFailedClone, Exit
        <4> QED  BY <1>3, <4>1
      <3> QED  BY <3>1, <3>2
    <2> QED  BY <1>3, <2>1, <2>2, OwnStep
  <1> QED  BY <1>1, <1>2, <1>3 DEF RunInv

LEMMA StartRun ==
    ASSUME TypeInv, RunInv, NEW q \in Procs, NEW c \in {"fetch", "refresh", "verify"},
           NEW list \in ArgLists \cup {Table, <<>>}, Start(q, c, list),
           c = "fetch" => list = Table
    PROVE  RunInv'
  <1> USE DEF TypeInv, TypeOK, At, Goto, Exit
  <1>1. /\ UNCHANGED <<upstream, disk, lock>>
        /\ before' = [disk |-> disk, lock |-> lock]
        /\ cmd' = [cmd EXCEPT ![q] = c] /\ fetched' = [fetched EXCEPT ![q] = NoEntries]
        /\ \/ /\ pc' = [pc EXCEPT ![q] = "loop"] /\ rc' = [rc EXCEPT ![q] = 0]
              /\ args' = [args EXCEPT ![q] = list] /\ todo' = [todo EXCEPT ![q] = list]
           \/ pc' = [pc EXCEPT ![q] = "idle"] /\ rc' = [rc EXCEPT ![q] = 2]
    BY DEF Start
  <1>2. LinesOfCmd'
    BY <1>1 DEF RunInv, LinesOfCmd, Swapping, Writing
  <1>3. \A p \in Procs : clean'[p] => p = q /\ \A r \in Procs \ {p} : pc[r] = "idle"
    BY DEF Start
  <1>4. Alone'
    BY <1>1, <1>3 DEF Alone
  <1>5. ASSUME rc'[q] = 0
        PROVE  RunOK(q)'
    <2>1. /\ pc'[q] = "loop" /\ args'[q] = list /\ todo'[q] = list
          /\ fetched'[q] = NoEntries /\ cmd'[q] = c
      BY <1>1, <1>5
    <2>2. TreeAsDone(q)'
      BY <1>1, <2>1, NoEntriesType DEF TreeAsDone
    <2>3. TargetsDone(q)'
      BY <2>1, NoEntriesType, TableAssumption DEF TargetsDone, Writing
    <2> QED
      BY <1>1, <2>1, <2>2, <2>3 DEF RunOK, SwapsWhole, LockAsDone, Writing
  <1> QED  BY <1>2, <1>3, <1>4, <1>5 DEF RunInv

LEMMA NextRun == TypeInv /\ RunInv /\ [Next]_vars => RunInv'
  <1> SUFFICES ASSUME TypeInv, RunInv, [Next]_vars PROVE RunInv'
    OBVIOUS
  <1>1. ASSUME NEW p \in Procs, RunFetch(p) \/ RunRefresh(p) \/ RunVerify(p)
        PROVE  RunInv'
    <2>1. PICK c \in {"fetch", "refresh", "verify"}, list \in ArgLists \cup {Table, <<>>} :
             Start(p, c, list) /\ (c = "fetch" => list = Table)
      BY <1>1 DEF RunFetch, RunRefresh, RunVerify
    <2> QED  BY <2>1, StartRun
  <1>2. ASSUME NEW p \in Procs, Step(p) \/ Kill(p)
        PROVE  RunInv'
    BY <1>2, StepRun
  <1>3. ASSUME UNCHANGED <<disk, lock, pc, cmd, args, todo, payload, sha, listing, fetched, data,
                           rc, clean, before>>
        PROVE  RunInv'
    BY <1>3
    DEF RunInv, LinesOfCmd, Alone, At, RunOK, TreeAsDone, SwapsWhole, LockAsDone, TargetsDone,
        IsPresent, Whole, Merged, OldEntries, Cur
  <1>4. CASE UNCHANGED vars
    BY <1>3, <1>4 DEF vars
  <1>5. ASSUME NEW s \in Subdirs, UpstreamCommit(s)
        PROVE  RunInv'
    BY <1>3, <1>5 DEF UpstreamCommit, local, history
  <1> QED  BY <1>1, <1>2, <1>4, <1>5 DEF Next

----------------------------------------------------------------------------
(* What a completed run has done.                                          *)

\* A run of `fetch', `refresh' or `verify' in which nothing fails and which
\* no other run overlaps leaves every subdir it fetched as the exact snapshot
\* of the sha the lock file then has for it, and the other entries as they
\* were, whatever state earlier runs, killed or failing anywhere, left.
THEOREM RunRecords == Spec => []RunRecordsWhatItInstalled
  <1>1. ASSUME TypeInv, RunInv, NEW p \in Procs, Completed(p)
        PROVE  /\ \A s \in DOMAIN fetched[p] : disk[s] = Tree(Snapshot(fetched[p][s]))
               /\ \A s \in Subdirs : ShaOnRecord(lock, s) =
                     IF s \in DOMAIN fetched[p] THEN {fetched[p][s]} ELSE ShaOnRecord(before.lock, s)
               /\ fetched[p] = NoEntries => lock = before.lock
    <2>1. RunOK(p) /\ pc[p] = "idle" /\ fetched[p] \in Entries /\ before.lock.entries \in Entries
      BY <1>1 DEF Completed, RunInv, TypeInv, TypeOK, At
    <2>2. DOMAIN fetched[p] \subseteq Subdirs
      BY <2>1 DEF Entries
    <2>3. \A s \in DOMAIN fetched[p] : disk[s] = Tree(Snapshot(fetched[p][s]))
      BY <2>1, <2>2 DEF RunOK, TreeAsDone
    <2>4. CASE fetched[p] = NoEntries
      BY <2>1, <2>3, <2>4, NoEntriesType DEF RunOK, LockAsDone
    <2>5. CASE fetched[p] # NoEntries
      <3>1. lock = [st |-> "good", entries |-> Merged(p)]
        BY <2>1, <2>5 DEF RunOK, LockAsDone
      <3>2. OldEntries(p) \in Entries
        BY <2>1, NoEntriesType DEF OldEntries
      <3>3. /\ DOMAIN Merged(p) = DOMAIN fetched[p] \cup DOMAIN OldEntries(p)
            /\ \A s \in DOMAIN fetched[p] : Merged(p)[s] = fetched[p][s]
            /\ \A s \in DOMAIN OldEntries(p) \ DOMAIN fetched[p] : Merged(p)[s] = OldEntries(p)[s]
        BY <2>1, <3>2, MergeType DEF Merged
      <3>4. ASSUME NEW s \in DOMAIN fetched[p]
            PROVE  ShaOnRecord(lock, s) = {fetched[p][s]}
        BY <3>1, <3>3 DEF ShaOnRecord
      <3>5. ASSUME NEW s \in Subdirs \ DOMAIN fetched[p]
            PROVE  ShaOnRecord(lock, s) = ShaOnRecord(before.lock, s)
        <4>1. CASE before.lock.st = "good"
          BY <3>1, <3>3, <4>1 DEF ShaOnRecord, OldEntries
        <4>2. CASE before.lock.st # "good"
          BY <3>1, <3>3, <4>2, NoEntriesType DEF ShaOnRecord, OldEntries
        <4> QED  BY <4>1, <4>2
      <3> QED  BY <2>3, <2>5, <3>4, <3>5
    <2> QED  BY <2>4, <2>5
  <1>2. TypeInv /\ RunInv => RunRecordsWhatItInstalled
    BY <1>1 DEF RunRecordsWhatItInstalled
  <1> QED  BY <1>2, InitType, NextType, InitRun, NextRun, PTL DEF Spec

\* After such a run of `fetch' every subdir is there, after `refresh' exactly
\* the named subdirs were fetched, and a `verify' changed nothing and, when
\* it reports no drift, found every subdir it looked at a whole snapshot.
THEOREM RunDoesItsJob == Spec => []RunDoesWhatItIsAskedTo
  <1>1. ASSUME TypeInv, RunInv, NEW p \in Procs, Completed(p)
        PROVE  /\ \A s \in Subdirs \ DOMAIN fetched[p] : disk[s] = before.disk[s]
               /\ cmd[p] = "fetch" => \A s \in Subdirs : IsPresent(s)
               /\ cmd[p] = "refresh" => DOMAIN fetched[p] = Elems(args[p])
               /\ cmd[p] = "verify" =>
                     /\ fetched[p] = NoEntries
                     /\ \A s \in Elems(args[p]) :
                           IsPresent(s) => \E h \in Heads : disk[s] = Tree(Snapshot(h))
    <2>1. RunOK(p) /\ pc[p] = "idle"
      BY <1>1 DEF Completed, RunInv, At
    <2>2. Elems(todo[p]) = {}
      BY <2>1 DEF RunOK, TargetsDone, Elems
    <2>3. \A s \in Subdirs \ DOMAIN fetched[p] : disk[s] = before.disk[s]
      BY <2>1 DEF RunOK, TreeAsDone
    <2> QED  BY <2>1, <2>2, <2>3 DEF RunOK, TargetsDone, Whole
  <1>2. TypeInv /\ RunInv => RunDoesWhatItIsAskedTo
    BY <1>1 DEF RunDoesWhatItIsAskedTo
  <1> QED  BY <1>2, InitType, NextType, InitRun, NextRun, PTL DEF Spec

----------------------------------------------------------------------------
(* `fetch' and the directories that are there.  The test of is_present is  *)
(* as old as the clone by the time of the swap.  Whatever the other runs   *)
(* do, it still holds unless one of them wrote the same subdir since.      *)

NamesWhatItDoes == \A p \in Procs :
    /\ cmd[p] = "status" => pc[p] = "idle"
    /\ cmd[p] = "refresh" => Elems(todo[p]) \subseteq Elems(args[p])
SwapsWhatIsMissing == \A p \in Procs :
    cmd[p] = "fetch" /\ pc[p] \in {"clone"} \cup Swapping => overtaken[p] \/ ~IsPresent(Cur(p))

PresentInv == LinesOfCmd /\ NamesWhatItDoes /\ SwapsWhatIsMissing

LEMMA InitPresent == Init => PresentInv
  BY DEF Init, PresentInv, LinesOfCmd, NamesWhatItDoes, SwapsWhatIsMissing, Swapping, Writing, At

\* Only rm and mv write to the tree, and to the subdir in the swap; rm puts
\* nothing into it.
LEMMA WhatSwapsWrite ==
    ASSUME TypeInv, NEW q \in Procs, Step(q) \/ Kill(q), NEW s \in Subdirs
    PROVE  \/ disk'[s] = disk[s]
           \/ pc[q] = "rm" /\ s = Cur(q) /\ (IsPresent(s)' => IsPresent(s))
           \/ pc[q] = "mv" /\ s = Cur(q) /\ pc'[q] = "loop"
  <1> USE DEF TypeInv, TypeOK, At, world, Swapping
  <1>1. CASE RemoveItem(q) \/ RemoveDir(q)
    <2>1. Cur(q) \in Subdirs /\ disk[Cur(q)] \in Directory /\ pc[q] = "rm"
      BY <1>1, CurKnown DEF RemoveItem, RemoveDir, Labels
    <2>2. \/ disk'[s] = disk[s]
          \/ s = Cur(q) /\ disk'[s].items \subseteq disk[s].items /\ disk'[s].dir = disk[s].dir
          \/ s = Cur(q) /\ ~disk'[s].dir
      <3>1. CASE RemoveItem(q)
        <4>1. PICK i : disk' = [disk EXCEPT ![Cur(q)].items = @ \ {i}]
          BY <3>1 DEF RemoveItem
        <4> QED  BY <2>1, <4>1 DEF Directory
      <3>2. CASE RemoveDir(q)
        BY <2>1, <3>2 DEF RemoveDir, Missing
      <3> QED  BY <1>1, <3>1, <3>2
    <2> QED  BY <2>1, <2>2 DEF IsPresent
  <1>2. CASE MvPayload(q)
    BY <1>2 DEF MvPayload, RecordFetched, NextTarget, Goto
  <1>3. CASE ~RemoveItem(q) /\ ~RemoveDir(q) /\ ~MvPayload(q)
    BY <1>3
    DEF Step, Kill, NextSubdir, LoopEnds, FetchOne, CloneUpstream, CloneFails, RevParseFails,
        StripGit, StripFails, TestTarget, RmFails, MvFails, DiffUpstream, UpdateLockFile,
        ReadLock, TruncateLock, WriteLock, WriteFails
  <1> QED  BY <1>1, <1>2, <1>3

\* How a step moves a run into and along a swap, and what it leaves of todo.
LEMMA WhereStepsLead ==
    ASSUME TypeInv, NEW q \in Procs, Step(q) \/ Kill(q)
    PROVE  /\ UNCHANGED <<cmd, args>> /\ pc[q] # "idle"
           /\ \A r \in Procs \ {q} : pc'[r] = pc[r] /\ todo'[r] = todo[r]
           /\ todo'[q] = todo[q] \/ (todo[q] # <<>> /\ todo'[q] = Tail(todo[q]))
           /\ pc'[q] \in {"clone"} \cup Swapping =>
                 /\ todo'[q] = todo[q]
                 /\ pc[q] \in {"clone"} \cup Swapping \/ (pc[q] = "loop" /\ ~Skips(q))
  <1> USE DEF TypeInv, TypeOK, At, Goto, Exit, world, local, history, NextTarget, Swapping
  <1>1. CASE NextSubdir(q) \/ LoopEnds(q)
    BY <1>1 DEF NextSubdir, LoopEnds
  <1>2. CASE CloneUpstream(q) \/ CloneFails(q)
    BY <1>2 DEF CloneUpstream, CloneFails, AfterFailedClone, Busy, Labels
  <1>3. CASE RevParseFails(q) \/ StripGit(q) \/ StripFails(q) \/ TestTarget(q)
    BY <1>3 DEF RevParseFails, StripGit, StripFails, TestTarget
  <1>4. CASE RemoveItem(q) \/ RemoveDir(q) \/ RmFails(q)
    BY <1>4 DEF RemoveItem, RemoveDir, RmFails
  <1>5. CASE MvPayload(q) \/ MvFails(q) \/ DiffUpstream(q)
    BY <1>5 DEF MvPayload, MvFails, RecordFetched, DiffUpstream, Busy, Labels
  <1>6. CASE ReadLock(q) \/ TruncateLock(q) \/ WriteLock(q) \/ WriteFails(q) \/ Kill(q)
    BY <1>6 DEF ReadLock, TruncateLock, WriteLock, WriteFails, Kill
  <1> QED
    BY <1>1, <1>2, <1>3, <1>4, <1>5, <1>6 DEF Step, FetchOne, UpdateLockFile

\* Who is overtaken stays so until its next look, and whoever writes the tree
\* overtakes all others that work on the same subdir.
LEMMA WhoIsOvertaken ==
    ASSUME TypeInv, NEW q \in Procs, Step(q) \/ Kill(q), NEW p \in Procs, pc[p] # "loop"
    PROVE  /\ overtaken[p] => overtaken'[p]
           /\ \/ disk' = disk
              \/ p # q /\ pc[p] \in {"clone"} \cup Swapping /\ Cur(p) = Cur(q) => overtaken'[p]
  <1> USE DEF TypeInv, TypeOK, At, world, history
  <1>1. CASE RemoveItem(q) \/ RemoveDir(q) \/ MvPayload(q)
    <2>1. Writes(q)
      BY <1>1 DEF RemoveItem, RemoveDir, MvPayload
    <2>2. overtaken'[p] = (overtaken[p] \/
             (p # q /\ pc[p] # "idle" /\ todo[p] # <<>> /\ Cur(p) = Cur(q)))
      BY <2>1 DEF Writes
    <2>3. pc[p] \in {"clone"} \cup Swapping => pc[p] # "idle" /\ todo[p] # <<>>
      BY DEF Swapping, Busy, Labels
    <2> QED  BY <2>2, <2>3
  <1>2. CASE NextSubdir(q)
    BY <1>2 DEF NextSubdir
  <1>3. CASE ~RemoveItem(q) /\ ~RemoveDir(q) /\ ~MvPayload(q) /\ ~NextSubdir(q)
    <2>1. disk' = disk /\ overtaken' = overtaken
      BY <1>3
      DEF Step, Kill, LoopEnds, FetchOne, CloneUpstream, CloneFails, RevParseFails, StripGit,
          StripFails, TestTarget, RmFails, MvFails, DiffUpstream, UpdateLockFile, ReadLock,
          TruncateLock, WriteLock, WriteFails, Fails
    <2> QED  BY <2>1
  <1> QED  BY <1>1, <1>2, <1>3

LEMMA StepPresent ==
    ASSUME TypeInv, PresentInv, NEW q \in Procs, Step(q) \/ Kill(q)
    PROVE  PresentInv'
  <1>1. LinesOfCmd'
    BY StepLines DEF PresentInv
  <1>2. NamesWhatItDoes'
    <2>1. todo[q] \in Seq(Subdirs)
      BY DEF TypeInv, TypeOK
    <2>2. \A r \in Procs : Elems(todo'[r]) \subseteq Elems(todo[r])
      BY <2>1, WhereStepsLead, ElemsOfTail
    <2> QED  BY <2>2, WhereStepsLead DEF PresentInv, NamesWhatItDoes
  <1>3. ASSUME NEW p \in Procs, cmd'[p] = "fetch", pc'[p] \in {"clone"} \cup Swapping
        PROVE  overtaken'[p] \/ ~IsPresent(Cur(p))'
    <2>1. /\ cmd[p] = "fetch" /\ todo'[p] = todo[p] /\ Cur(p)' = Cur(p)
          /\ \/ pc[p] \in {"clone"} \cup Swapping
             \/ p = q /\ pc[p] = "loop" /\ ~Skips(p)
      BY <1>3, WhereStepsLead DEF Cur
    <2>2. Cur(p) \in Subdirs
      <3>1. TypeInv' /\ todo'[p] # <<>>
        BY <1>3, StepType DEF TypeInv, Busy, Labels, Swapping
      <3>2. todo[p] # <<>>
        BY <2>1, <3>1
      <3> QED  BY <3>2, CurType
    <2>3. CASE p = q /\ pc[p] = "loop" /\ ~Skips(p)
      <3>1. ~IsPresent(Cur(p)) /\ disk'[Cur(p)] = disk[Cur(p)]
        BY <2>1, <2>2, <2>3, WhatSwapsWrite DEF Skips, Swapping
      <3> QED  BY <2>1, <3>1 DEF IsPresent
    <2>4. CASE pc[p] \in {"clone"} \cup Swapping
      <3>1. pc[p] # "loop" /\ (overtaken[p] \/ ~IsPresent(Cur(p)))
        BY <2>1, <2>4 DEF PresentInv, SwapsWhatIsMissing, Swapping
      <3>2. CASE overtaken[p]
        BY <3>1, <3>2, WhoIsOvertaken
      <3>3. CASE disk'[Cur(p)] = disk[Cur(p)] /\ ~IsPresent(Cur(p))
        BY <2>1, <3>3 DEF IsPresent
      <3>4. CASE disk'[Cur(p)] # disk[Cur(p)] /\ ~IsPresent(Cur(p))
        <4>1. /\ Cur(p) = Cur(q)
              /\ (disk'[Cur(p)].dir /\ disk'[Cur(p)].items # {} => IsPresent(Cur(p)))
                    \/ pc'[q] = "loop"
          <5> DEFINE s == Cur(p)
          <5>1. /\ s = Cur(q)
                /\ (disk'[s].dir /\ disk'[s].items # {} => IsPresent(s)) \/ pc'[q] = "loop"
            BY <2>2, <3>4, WhatSwapsWrite DEF IsPresent
          <5> QED  BY <5>1
        <4>2. CASE p = q
          <5>1. pc'[q] # "loop"
            BY <1>3, <4>2 DEF Swapping
          <5> QED  BY <2>1, <3>4, <4>1, <5>1 DEF IsPresent
        <4>3. CASE p # q
          <5>1. disk' # disk
            BY <3>4
          <5> QED  BY <2>4, <3>1, <4>1, <4>3, <5>1, WhoIsOvertaken
        <4> QED  BY <4>2, <4>3
      <3> QED  BY <3>1, <3>2, <3>3, <3>4
    <2> QED  BY <2>1, <2>3, <2>4
  <1>4. SwapsWhatIsMissing'
    BY <1>3 DEF SwapsWhatIsMissing
  <1> QED  BY <1>1, <1>2, <1>4 DEF PresentInv

LEMMA StartPresent ==
    ASSUME TypeInv, PresentInv, NEW q \in Procs, NEW c \in {"fetch", "refresh", "verify"},
           NEW list \in ArgLists \cup {Table, <<>>}, Start(q, c, list)
    PROVE  PresentInv'
  <1> USE DEF TypeInv, TypeOK, At, Goto, Exit
  <1>1. /\ UNCHANGED <<disk, overtaken>>
        /\ cmd' = [cmd EXCEPT ![q] = c]
        /\ \/ /\ pc' = [pc EXCEPT ![q] = "loop"] /\ rc' = [rc EXCEPT ![q] = 0]
              /\ todo' = [todo EXCEPT ![q] = list] /\ args' = [args EXCEPT ![q] = list]
           \/ /\ pc' = [pc EXCEPT ![q] = "idle"] /\ rc' = [rc EXCEPT ![q] = 2]
              /\ todo' = [todo EXCEPT ![q] = <<>>] /\ args' = [args EXCEPT ![q] = <<>>]
    BY DEF Start
  <1>2. LinesOfCmd'
    BY <1>1 DEF PresentInv, LinesOfCmd, Swapping, Writing
  <1>3. NamesWhatItDoes'
    BY <1>1 DEF PresentInv, NamesWhatItDoes
  <1>4. SwapsWhatIsMissing'
    <2>1. pc'[q] \notin {"clone"} \cup Swapping
      BY <1>1 DEF Swapping
    <2>2. \A r \in Procs \ {q} : pc'[r] = pc[r] /\ cmd'[r] = cmd[r] /\ todo'[r] = todo[r]
      BY <1>1
    <2> QED  BY <1>1, <2>1, <2>2 DEF PresentInv, SwapsWhatIsMissing, IsPresent, Cur
  <1> QED  BY <1>2, <1>3, <1>4 DEF PresentInv

\* For any number of runs that overlap in any way, on shared subdirs too, and
\* whatever fails or is killed: a directory with something in it is changed
\* only by a refresh that names it, or by a fetch whose look at it another run
\* made stale by writing it.  The second case is all the missing lock costs.
THEOREM FetchKeepsPresent == Spec => FetchLeavesPresentAlone
  <1> DEFINE Keeps == \A s \in Subdirs : IsPresent(s) /\ disk'[s] # disk[s] =>
        \E p \in Procs :
           /\ pc[p] \in {"rm", "mv"} /\ Cur(p) = s
           /\ \/ cmd[p] = "refresh" /\ s \in Elems(args[p])
              \/ cmd[p] = "fetch" /\ overtaken[p]
  <1>1. ASSUME TypeInv, PresentInv, Next
        PROVE  PresentInv' /\ Keeps
    <2>1. ASSUME NEW q \in Procs, RunFetch(q) \/ RunRefresh(q) \/ RunVerify(q)
          PROVE  PresentInv' /\ Keeps
      <3>1. PICK c \in {"fetch", "refresh", "verify"}, list \in ArgLists \cup {Table, <<>>} :
               Start(q, c, list)
        BY <2>1 DEF RunFetch, RunRefresh, RunVerify
      <3> QED  BY <1>1, <3>1, StartPresent DEF Start
    <2>2. ASSUME NEW q \in Procs, Step(q) \/ Kill(q)
          PROVE  PresentInv' /\ Keeps
      <3>1. ASSUME NEW s \in Subdirs, IsPresent(s), disk'[s] # disk[s]
            PROVE  \E p \in Procs :
                     /\ pc[p] \in {"rm", "mv"} /\ Cur(p) = s
                     /\ \/ cmd[p] = "refresh" /\ s \in Elems(args[p])
                        \/ cmd[p] = "fetch" /\ overtaken[p]
        <4>1. pc[q] \in {"rm", "mv"} /\ s = Cur(q)
          BY <1>1, <2>2, <3>1, WhatSwapsWrite
        <4>2. cmd[q] # "verify" /\ Cur(q) \in Elems(todo[q])
          BY <1>1, <4>1, CurKnown DEF PresentInv, LinesOfCmd, Swapping, Labels
        <4>3. CASE cmd[q] = "refresh"
          BY <1>1, <4>1, <4>2, <4>3 DEF PresentInv, NamesWhatItDoes
        <4>4. CASE cmd[q] = "fetch"
          <5>1. pc[q] \in {"clone"} \cup Swapping
            BY <4>1 DEF Swapping
          <5>2. overtaken[q]
            BY <1>1, <3>1, <4>1, <4>4, <5>1 DEF PresentInv, SwapsWhatIsMissing
          <5> QED  BY <4>1, <4>4, <5>2
        <4>5. cmd[q] # "status"
          BY <1>1, <4>1 DEF PresentInv, NamesWhatItDoes
        <4>6. cmd[q] \in {"status", "fetch", "refresh", "verify"}
          BY <1>1 DEF TypeInv, TypeOK
        <4> QED  BY <4>2, <4>3, <4>4, <4>5, <4>6
      <3> QED  BY <1>1, <2>2, <3>1, StepPresent
    <2>3. ASSUME NEW s \in Subdirs, UpstreamCommit(s)
          PROVE  PresentInv' /\ Keeps
      BY <1>1, <2>3
      DEF UpstreamCommit, local, history, PresentInv, LinesOfCmd, NamesWhatItDoes,
          SwapsWhatIsMissing, IsPresent, Cur, At
    <2> QED  BY <1>1, <2>1, <2>2, <2>3 DEF Next
  <1>2. ASSUME TypeInv, PresentInv, UNCHANGED vars
        PROVE  PresentInv' /\ Keeps
    BY <1>2
    DEF vars, PresentInv, LinesOfCmd, NamesWhatItDoes, SwapsWhatIsMissing, IsPresent, Cur, At
  <1>3. TypeInv /\ PresentInv /\ [Next]_vars => PresentInv' /\ Keeps
    BY <1>1, <1>2
  <1>4. TypeInv /\ PresentInv /\ [Next]_vars => TypeInv' /\ PresentInv' /\ [Keeps]_vars
    BY <1>3, NextType
  <1> QED  BY <1>4, InitType, InitPresent, PTL DEF Spec, FetchLeavesPresentAlone

=============================================================================
