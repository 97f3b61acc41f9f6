----------------------- MODULE SnapshotRestoreProofs -----------------------
(***************************************************************************)
(* Proofs about SnapshotRestore, for every number of statements, failing   *)
(* commands and kills: what a restored database contains, what it repeats, *)
(* and that BLOCKED keeps MySQL from starting on removed data.             *)
(***************************************************************************)
EXTENDS SnapshotRestore, TLAPS

-----------------------------------------------------------------------------
(* The inductive invariant.                                                *)

\* Every statement up to k took effect in the receiver's database.
Has(k) == \A i \in Entry : i <= k => times[i] >= 1

\* ApplySnapshot is under way.
Applying == pc \in {"block", "shutdown", "waitDown", "remove", "stream", "prepare",
                    "moveBack", "unblock", "waitUp", "waitDB"}

\* The index of the snapshot is in the sender's database, hence in a backup
\* made later, hence in the database restored from it.
SnapInv ==
  /\ Applying => 0 < snap
  /\ pc \in {"prepare", "moveBack"} /\ image # NoImage =>
       snap <= image.row /\ image.row <= image.exec /\ image.exec <= image.row + 1
  /\ pc = "moveBack" => image # NoImage
  /\ pc \in {"unblock", "waitUp", "waitDB"} => dir = "restored" /\ snap <= row
  /\ pc \in {"block", "shutdown", "waitDown", "remove"} => dir # "restored"
  /\ pc \in {"stream", "prepare", "moveBack"} => dir # "restored"
  /\ pc \in {"unblock", "waitUp", "waitDB"} => row <= srcRow
  /\ pc # "running" => after = 0 /\ cursor = 0
  /\ dir # "restored" => row = 0 /\ after = 0 /\ cursor = 0
  /\ srcExec <= srcRow + 1

\* A restored database has what it says it has, and what raft was told.
HasInv ==
  dir = "restored" => Has(row) /\ Has(after) /\ (pc = "running" => Has(cursor))

\* Undisturbed, the restored database is the sender's at one moment, and runs
\* on from there.
OnceInv ==
  Undisturbed =>
    /\ dir # "restored" => times = Never
    /\ pc = "waitUp" => ~blocked
    /\ dir = "restored" => pc \in {"unblock", "waitUp", "waitDB", "running"}
    /\ pc \in {"unblock", "waitUp", "waitDB"} =>
         \A i \in Entry : times[i] <= 1 /\ (i > row + 1 => times[i] = 0)
    /\ pc = "running" /\ dir = "restored" =>
         \A i \in Entry :
           /\ i # after + 1 => times[i] <= 1
           /\ i > cursor /\ i > after + 1 => times[i] = 0

\* Where BLOCKED exists and what it protects, until a clean-up removes it.
BlockInv ==
  ~cleaned =>
    /\ dir # "fresh"
    /\ dir \in {"empty", "debris"} => blocked /\ mysqld # "up"
    /\ pc \in {"running", "block", "shutdown", "waitDown", "remove"} => dir \notin {"empty", "debris"}
    /\ pc \in {"shutdown", "waitDown", "remove", "stream", "prepare", "moveBack", "unblock"} => blocked
    /\ pc \in {"remove", "stream", "prepare", "moveBack", "unblock"} => mysqld # "up"

IInv == TypeOK /\ SnapInv /\ HasInv /\ OnceInv /\ BlockInv

-----------------------------------------------------------------------------
(* One lemma per action.                                                   *)

USE ConstantsAssumption

\* Steps that leave the database alone leave what it has alone.
LEMMA SameDatabase ==
  ASSUME times' = times
  PROVE  \A k : Has(k)' = Has(k)
BY DEF Has

LEMMA SourceExecStep ==
  ASSUME IInv, SourceExec
  PROVE  IInv'
<1>1. TypeOK'
  BY DEF IInv, TypeOK, SourceExec, disk
<1>2. SnapInv'
  BY DEF IInv, SnapInv, Applying, SourceExec, disk
<1>3. HasInv'
  BY SameDatabase DEF IInv, HasInv, SourceExec, disk
<1>4. OnceInv'
  BY DEF IInv, OnceInv, Undisturbed, SourceExec, disk
<1>5. BlockInv'
  BY DEF IInv, BlockInv, SourceExec, disk
<1> QED
  BY <1>1, <1>2, <1>3, <1>4, <1>5 DEF IInv

LEMMA SourceSaveAppliedStep ==
  ASSUME IInv, SourceSaveApplied
  PROVE  IInv'
<1>1. TypeOK'
  BY DEF IInv, TypeOK, SourceSaveApplied, disk
<1>2. SnapInv'
  BY DEF IInv, TypeOK, SnapInv, Applying, SourceSaveApplied, disk
<1>3. HasInv'
  BY SameDatabase DEF IInv, HasInv, SourceSaveApplied, disk
<1>4. OnceInv'
  BY DEF IInv, OnceInv, Undisturbed, SourceSaveApplied, disk
<1>5. BlockInv'
  BY DEF IInv, BlockInv, SourceSaveApplied, disk
<1> QED
  BY <1>1, <1>2, <1>3, <1>4, <1>5 DEF IInv

LEMMA MysqldStopsStep ==
  ASSUME IInv, MysqldStops
  PROVE  IInv'
<1>1. TypeOK'
  BY DEF IInv, TypeOK, MysqldStops, source, disk
<1>2. SnapInv'
  BY DEF IInv, SnapInv, Applying, MysqldStops, source, disk
<1>3. HasInv'
  BY SameDatabase DEF IInv, HasInv, MysqldStops, disk
<1>4. OnceInv'
  BY DEF IInv, OnceInv, Undisturbed, MysqldStops, disk
<1>5. BlockInv'
  BY DEF IInv, BlockInv, MysqldStops, disk
<1> QED
  BY <1>1, <1>2, <1>3, <1>4, <1>5 DEF IInv

LEMMA MysqldStartsStep ==
  ASSUME IInv, MysqldStarts
  PROVE  IInv'
<1>1. TypeOK'
  BY DEF IInv, TypeOK, MysqldStarts, source
<1>2. SnapInv'
  BY DEF IInv, SnapInv, Applying, MysqldStarts, source
<1>3. HasInv'
  BY SameDatabase DEF IInv, HasInv, MysqldStarts
<1>4. OnceInv'
  BY DEF IInv, OnceInv, Undisturbed, MysqldStarts
<1>5. BlockInv'
  BY DEF IInv, BlockInv, MysqldStarts
<1> QED
  BY <1>1, <1>2, <1>3, <1>4, <1>5 DEF IInv

LEMMA ReceiveSnapshotStep ==
  ASSUME IInv, ReceiveSnapshot
  PROVE  IInv'
<1>1. TypeOK'
  BY DEF IInv, TypeOK, ReceiveSnapshot, source, disk, Step
<1>2. SnapInv'
  BY DEF IInv, SnapInv, ReceiveSnapshot, source, disk, Step
<1>3. HasInv'
  BY DEF HasInv, ReceiveSnapshot, disk
<1>4. OnceInv'
  BY DEF IInv, OnceInv, Undisturbed, ReceiveSnapshot, disk, Step
<1>5. BlockInv'
  BY DEF IInv, BlockInv, ReceiveSnapshot, disk, Step
<1> QED
  BY <1>1, <1>2, <1>3, <1>4, <1>5 DEF IInv

LEMMA TouchBlockedStep ==
  ASSUME IInv, TouchBlocked
  PROVE  IInv'
<1>1. TypeOK'
  BY DEF IInv, TypeOK, TouchBlocked, source, disk, Step
<1>2. SnapInv'
  BY DEF IInv, SnapInv, Applying, TouchBlocked, source, disk, Step
<1>3. HasInv'
  BY SameDatabase DEF IInv, SnapInv, HasInv, TouchBlocked, disk
<1>4. OnceInv'
  BY DEF IInv, OnceInv, Undisturbed, TouchBlocked, disk, Step
<1>5. BlockInv'
  BY DEF IInv, BlockInv, TouchBlocked, disk, Step
<1> QED
  BY <1>1, <1>2, <1>3, <1>4, <1>5 DEF IInv

LEMMA ShutdownStep ==
  ASSUME IInv, Shutdown
  PROVE  IInv'
<1>1. TypeOK'
  BY DEF IInv, TypeOK, Shutdown, source, disk, Step
<1>2. SnapInv'
  BY DEF IInv, SnapInv, Applying, Shutdown, source, disk, Step
<1>3. HasInv'
  BY SameDatabase DEF IInv, SnapInv, HasInv, Shutdown, disk
<1>4. OnceInv'
  BY DEF IInv, OnceInv, Undisturbed, Shutdown, disk, Step
<1>5. BlockInv'
  BY DEF IInv, BlockInv, Shutdown, disk, Step
<1> QED
  BY <1>1, <1>2, <1>3, <1>4, <1>5 DEF IInv

LEMMA WaitForShutdownCompletionStep ==
  ASSUME IInv, WaitForShutdownCompletion
  PROVE  IInv'
<1>1. TypeOK'
  BY DEF IInv, TypeOK, WaitForShutdownCompletion, source, disk, Step
<1>2. SnapInv'
  BY DEF IInv, SnapInv, Applying, WaitForShutdownCompletion, source, disk, Step
<1>3. HasInv'
  BY SameDatabase DEF IInv, SnapInv, HasInv, WaitForShutdownCompletion, disk
<1>4. OnceInv'
  BY DEF IInv, OnceInv, Undisturbed, WaitForShutdownCompletion, disk, Step
<1>5. BlockInv'
  BY DEF IInv, BlockInv, WaitForShutdownCompletion, disk, Step
<1> QED
  BY <1>1, <1>2, <1>3, <1>4, <1>5 DEF IInv

LEMMA RemoveDataDirStep ==
  ASSUME IInv, RemoveDataDir
  PROVE  IInv'
<1>1. TypeOK'
  BY DEF IInv, TypeOK, Never, RemoveDataDir, source, Step
<1>2. SnapInv'
  BY DEF IInv, SnapInv, Applying, RemoveDataDir, source, Step
<1>3. HasInv'
  BY DEF HasInv, RemoveDataDir
<1>4. OnceInv'
  BY DEF OnceInv, RemoveDataDir, Step
<1>5. BlockInv'
  BY DEF IInv, BlockInv, RemoveDataDir, Step
<1> QED
  BY <1>1, <1>2, <1>3, <1>4, <1>5 DEF IInv

LEMMA StreamBackupStep ==
  ASSUME IInv, StreamBackup
  PROVE  IInv'
<1>1. TypeOK'
  BY DEF IInv, TypeOK, NoImage, StreamBackup, source, Step
<1>2. SnapInv'
  BY DEF IInv, TypeOK, SnapInv, Applying, StreamBackup, source, Step
<1>3. HasInv'
  BY SameDatabase DEF IInv, SnapInv, HasInv, StreamBackup
<1>4. OnceInv'
  BY DEF IInv, OnceInv, Undisturbed, StreamBackup, Step
<1>5. BlockInv'
  BY DEF IInv, TypeOK, SnapInv, BlockInv, Applying, NoImage, StreamBackup, Step
<1> QED
  BY <1>1, <1>2, <1>3, <1>4, <1>5 DEF IInv

LEMMA StreamCutStep ==
  ASSUME IInv, StreamCut
  PROVE  IInv'
<1>1. TypeOK'
  BY DEF IInv, TypeOK, NoImage, StreamCut, source, Step
<1>2. SnapInv'
  BY DEF IInv, SnapInv, Applying, StreamCut, source, Step
<1>3. HasInv'
  BY SameDatabase DEF IInv, SnapInv, HasInv, StreamCut
<1>4. OnceInv'
  BY DEF IInv, TypeOK, OnceInv, Undisturbed, StreamCut
<1>5. BlockInv'
  BY DEF IInv, BlockInv, StreamCut, Step
<1> QED
  BY <1>1, <1>2, <1>3, <1>4, <1>5 DEF IInv

LEMMA PrepareStep ==
  ASSUME IInv, Prepare
  PROVE  IInv'
<1>1. TypeOK'
  BY DEF IInv, TypeOK, Prepare, source, disk, Step
<1>2. SnapInv'
  BY DEF IInv, SnapInv, Applying, Prepare, source, disk, Step
<1>3. HasInv'
  BY SameDatabase DEF IInv, SnapInv, HasInv, Prepare, disk
<1>4. OnceInv'
  BY DEF IInv, OnceInv, Undisturbed, Prepare, disk, Step
<1>5. BlockInv'
  BY DEF IInv, BlockInv, Prepare, disk, Step
<1> QED
  BY <1>1, <1>2, <1>3, <1>4, <1>5 DEF IInv

LEMMA MoveBackStep ==
  ASSUME IInv, MoveBack
  PROVE  IInv'
<1> DEFINE x == image.exec
           r == image.row
<1>0. /\ x \in Nat /\ r \in Nat /\ r <= x /\ x <= r + 1
      /\ dir' = "restored" /\ row' = r /\ pc = "moveBack" /\ pc' = "unblock"
      /\ times' = [i \in Entry |-> IF i <= x THEN 1 ELSE 0]
      /\ after = 0 /\ cursor = 0 /\ UNCHANGED <<after, cursor, cleaned, failures, crashes>>
  BY DEF IInv, TypeOK, SnapInv, MoveBack, Step
<1>1. TypeOK'
  BY DEF IInv, TypeOK, MoveBack, source, Step
<1>2. SnapInv'
  BY DEF IInv, TypeOK, SnapInv, Applying, MoveBack, source, Step
<1>3. HasInv'
  <2> HIDE DEF x, r
  <2> QED
    BY <1>0 DEF HasInv, Has, Entry
<1>4. OnceInv'
  <2> HIDE DEF x, r
  <2> QED
    BY <1>0 DEF OnceInv, Entry
<1>5. BlockInv'
  BY DEF IInv, BlockInv, MoveBack, Step
<1> QED
  BY <1>1, <1>2, <1>3, <1>4, <1>5 DEF IInv

LEMMA RemoveBlockedStep ==
  ASSUME IInv, RemoveBlocked
  PROVE  IInv'
<1>1. TypeOK'
  BY DEF IInv, TypeOK, RemoveBlocked, source, disk, Step
<1>2. SnapInv'
  BY DEF IInv, SnapInv, Applying, RemoveBlocked, source, disk, Step
<1>3. HasInv'
  BY SameDatabase DEF IInv, SnapInv, HasInv, RemoveBlocked, disk
<1>4. OnceInv'
  BY DEF IInv, OnceInv, Undisturbed, RemoveBlocked, disk, Step
<1>5. BlockInv'
  BY DEF IInv, SnapInv, BlockInv, RemoveBlocked, disk, Step
<1> QED
  BY <1>1, <1>2, <1>3, <1>4, <1>5 DEF IInv

LEMMA RemoveBlockedFailsStep ==
  ASSUME IInv, RemoveBlockedFails
  PROVE  IInv'
<1>1. TypeOK'
  BY DEF IInv, TypeOK, RemoveBlockedFails, source, disk, Step
<1>2. SnapInv'
  BY DEF IInv, SnapInv, Applying, RemoveBlockedFails, source, disk, Step
<1>3. HasInv'
  BY SameDatabase DEF IInv, SnapInv, HasInv, RemoveBlockedFails, disk
<1>4. OnceInv'
  BY DEF IInv, TypeOK, OnceInv, Undisturbed, RemoveBlockedFails
<1>5. BlockInv'
  BY DEF IInv, SnapInv, BlockInv, RemoveBlockedFails, disk, Step
<1> QED
  BY <1>1, <1>2, <1>3, <1>4, <1>5 DEF IInv

LEMMA WaitForMySQLToStartStep ==
  ASSUME IInv, WaitForMySQLToStart
  PROVE  IInv'
<1>1. TypeOK'
  BY DEF IInv, TypeOK, WaitForMySQLToStart, source, disk, Step
<1>2. SnapInv'
  BY DEF IInv, SnapInv, Applying, WaitForMySQLToStart, source, disk, Step
<1>3. HasInv'
  BY SameDatabase DEF IInv, SnapInv, HasInv, WaitForMySQLToStart, disk
<1>4. OnceInv'
  BY DEF IInv, OnceInv, Undisturbed, WaitForMySQLToStart, disk, Step
<1>5. BlockInv'
  BY DEF IInv, BlockInv, WaitForMySQLToStart, disk, Step
<1> QED
  BY <1>1, <1>2, <1>3, <1>4, <1>5 DEF IInv

LEMMA RestoredStep ==
  ASSUME IInv, Restored
  PROVE  IInv'
<1>1. TypeOK'
  BY DEF IInv, TypeOK, SnapInv, NoImage, Restored, source, Step, GetAppliedIndex
<1>2. SnapInv'
  BY DEF IInv, SnapInv, Applying, Restored, source, Step
<1>3. HasInv'
  <2>1. /\ UNCHANGED <<dir, times, row>> /\ after' = row /\ cursor' = snap
        /\ snap \in Nat /\ row \in Nat /\ snap <= row
    BY DEF IInv, TypeOK, SnapInv, Restored, GetAppliedIndex, Step
  <2> QED
    BY <2>1 DEF IInv, HasInv, Has, Entry
<1>4. OnceInv'
  BY DEF IInv, OnceInv, Undisturbed, Restored, Step, GetAppliedIndex
<1>5. BlockInv'
  BY DEF IInv, SnapInv, BlockInv, Restored, Step
<1> QED
  BY <1>1, <1>2, <1>3, <1>4, <1>5 DEF IInv

\* What an error of ApplySnapshot changes, with the clean-up or without.
LEMMA GiveUpEffect ==
  ASSUME IInv, NEW f \in {0, 1}, failures + f <= MaxFailures, GiveUp(f)
  PROVE  /\ image' \in {NoImage, image} /\ blocked' \in BOOLEAN /\ cleaned' \in BOOLEAN
         /\ failures' \in 0..MaxFailures /\ (failures' = 0 => failures = 0)
         /\ ~cleaned' => ~cleaned /\ blocked' = blocked
         /\ pc' = "down" /\ snap' = 0 /\ after' = 0 /\ cursor' = 0
         /\ UNCHANGED <<srcExec, srcRow, dir, times, row, mysqld, crashes>>
<1>1. /\ pc' = "down" /\ snap' = 0 /\ after' = 0 /\ cursor' = 0
      /\ UNCHANGED <<srcExec, srcRow, dir, times, row, mysqld, crashes>>
  BY DEF GiveUp, source
<1>2. image' \in {NoImage, image} /\ blocked' \in {FALSE, blocked} /\ cleaned' \in {TRUE, cleaned}
  BY Zenon DEF GiveUp
<1>3. ~cleaned' => ~cleaned /\ blocked' = blocked
  BY Zenon DEF GiveUp
<1>4. failures' \in 0..MaxFailures /\ (failures' = 0 => failures = 0)
  BY DEF GiveUp, IInv, TypeOK
<1> QED
  BY <1>1, <1>2, <1>3, <1>4 DEF IInv, TypeOK

\* ApplySnapshot fails at one of its commands, or has something in its way.
LEMMA GiveUpStep ==
  ASSUME IInv, CommandFails \/ PrepareFails \/ MoveBackFails \/ WaitUpTimesOut
  PROVE  IInv'
<1>1. \E f \in {0, 1} : failures + f <= MaxFailures /\ GiveUp(f)
  BY DEF IInv, TypeOK, CommandFails, PrepareFails, MoveBackFails, WaitUpTimesOut
<1>2. pc \notin {"running", "down", "dead"}
  BY DEF CommandFails, PrepareFails, MoveBackFails, WaitUpTimesOut
<1>0. /\ image' \in {NoImage, image} /\ blocked' \in BOOLEAN /\ cleaned' \in BOOLEAN
      /\ failures' \in 0..MaxFailures /\ (failures' = 0 => failures = 0)
      /\ ~cleaned' => ~cleaned /\ blocked' = blocked
      /\ pc' = "down" /\ snap' = 0 /\ after' = 0 /\ cursor' = 0
      /\ UNCHANGED <<srcExec, srcRow, dir, times, row, mysqld, crashes>>
  BY <1>1, GiveUpEffect
<1>3. TypeOK'
  <2>1. NoImage \in [exec : 0..srcExec, row : 0..srcRow]
    BY DEF IInv, TypeOK, NoImage
  <2> QED
    BY <1>0, <2>1 DEF IInv, TypeOK
<1>4. SnapInv'
  BY <1>0 DEF IInv, SnapInv, Applying
<1>5. HasInv'
  BY <1>0, <1>2, SameDatabase DEF IInv, SnapInv, HasInv
<1>6. OnceInv'
  <2>1. ASSUME failures' = 0, crashes' = 0, dir = "restored" PROVE FALSE
    <3>1. CommandFails => failures' # 0
      BY DEF IInv, TypeOK, CommandFails, GiveUp
    <3>2. pc \notin {"waitUp", "prepare", "moveBack"} \/ CommandFails
      BY <1>0, <2>1 DEF IInv, SnapInv, OnceInv, Undisturbed, PrepareFails, MoveBackFails,
        WaitUpTimesOut
    <3> QED
      BY <2>1, <3>1, <3>2 DEF PrepareFails, MoveBackFails, WaitUpTimesOut
  <2> QED
    BY <1>0, <2>1 DEF IInv, OnceInv, Undisturbed
<1>7. BlockInv'
  BY <1>0 DEF IInv, BlockInv
<1> QED
  BY <1>3, <1>4, <1>5, <1>6, <1>7 DEF IInv

LEMMA DatabaseNotUpStep ==
  ASSUME IInv, DatabaseNotUp
  PROVE  IInv'
<1>1. TypeOK'
  BY DEF IInv, TypeOK, NoImage, DatabaseNotUp, source
<1>2. SnapInv'
  BY DEF IInv, SnapInv, Applying, DatabaseNotUp, source
<1>3. HasInv'
  BY SameDatabase DEF IInv, SnapInv, HasInv, DatabaseNotUp
<1>4. OnceInv'
  BY DEF IInv, TypeOK, OnceInv, Undisturbed, DatabaseNotUp
<1>5. BlockInv'
  BY DEF IInv, TypeOK, BlockInv, DatabaseNotUp
<1> QED
  BY <1>1, <1>2, <1>3, <1>4, <1>5 DEF IInv

LEMMA CrashStep ==
  ASSUME IInv, Crash
  PROVE  IInv'
<1>1. TypeOK'
  BY DEF IInv, TypeOK, Crash, source, disk
<1>2. SnapInv'
  BY DEF IInv, SnapInv, Applying, Crash, source, disk
<1>3. HasInv'
  <2>1. UNCHANGED <<dir, times, row>> /\ after' = 0 /\ pc' = "down"
    BY DEF Crash, disk
  <2> QED
    BY <2>1 DEF IInv, HasInv, Has, Entry
<1>4. OnceInv'
  BY DEF IInv, TypeOK, OnceInv, Undisturbed, Crash
<1>5. BlockInv'
  BY DEF IInv, BlockInv, Crash, disk
<1> QED
  BY <1>1, <1>2, <1>3, <1>4, <1>5 DEF IInv

LEMMA StartNodeStep ==
  ASSUME IInv, NEW from \in 0..MaxEntries, StartNode(from)
  PROVE  IInv'
<1>1. TypeOK'
  BY DEF IInv, TypeOK, StartNode, source, disk, Step
<1>2. SnapInv'
  BY DEF IInv, SnapInv, Applying, StartNode, source, disk, Step
<1>3. HasInv'
  <2>1. UNCHANGED <<dir, times, row, after>> /\ cursor' = from /\ from <= row /\ row \in Nat
    BY DEF IInv, TypeOK, StartNode, disk
  <2> QED
    BY <2>1 DEF IInv, HasInv, Has, Entry
<1>4. OnceInv'
  BY DEF IInv, OnceInv, Undisturbed, StartNode, disk, Step
<1>5. BlockInv'
  BY DEF IInv, BlockInv, StartNode, disk, Step
<1> QED
  BY <1>1, <1>2, <1>3, <1>4, <1>5 DEF IInv

LEMMA StartFailsStep ==
  ASSUME IInv, StartFails
  PROVE  IInv'
<1>1. TypeOK'
  BY DEF IInv, TypeOK, StartFails, source, disk, Step
<1>2. SnapInv'
  BY DEF IInv, SnapInv, Applying, StartFails, source, disk, Step
<1>3. HasInv'
  BY SameDatabase DEF IInv, SnapInv, HasInv, StartFails, disk
<1>4. OnceInv'
  BY DEF IInv, OnceInv, Undisturbed, StartFails, disk, Step
<1>5. BlockInv'
  BY DEF IInv, BlockInv, StartFails, disk, Step
<1> QED
  BY <1>1, <1>2, <1>3, <1>4, <1>5 DEF IInv

LEMMA CommittedEntryStep ==
  ASSUME IInv, CommittedEntry
  PROVE  IInv'
<1> DEFINE n == cursor + 1
<1>0. /\ pc = "running" /\ dir = "restored" /\ cursor' = n /\ n \in Entry /\ n <= srcExec
      /\ cursor \in Nat /\ after \in Nat /\ row \in Nat /\ times \in [Entry -> Nat]
      /\ UNCHANGED <<source, dir, image, blocked, mysqld, pc, snap, after, cleaned, failures, crashes>>
  BY DEF IInv, TypeOK, CommittedEntry, Entry
<1>1. BlockInv'
  BY <1>0 DEF BlockInv
<1>2. CASE n <= after
  <2>1. UNCHANGED <<times, row>>
    BY <1>2 DEF CommittedEntry
  <2>2. TypeOK'
    BY <1>0, <2>1 DEF IInv, TypeOK, source
  <2>3. SnapInv'
    BY <1>0 DEF IInv, SnapInv, Applying, source
  <2>4. HasInv'
    BY <1>0, <1>2, <2>1 DEF IInv, HasInv, Has, Entry
  <2>5. OnceInv'
    BY <1>0, <2>1 DEF IInv, OnceInv, Undisturbed, Entry
  <2> QED
    BY <1>1, <2>2, <2>3, <2>4, <2>5 DEF IInv
<1>3. CASE ~(n <= after)
  <2>1. times' = [times EXCEPT ![n] = @ + 1] /\ row' = n
    BY <1>3 DEF CommittedEntry
  <2>2. /\ times' \in [Entry -> Nat] /\ times'[n] = times[n] + 1
        /\ \A i \in Entry \ {n} : times'[i] = times[i]
    BY <1>0, <2>1
  <2>3. TypeOK'
    BY <1>0, <2>1 DEF IInv, TypeOK, source
  <2>4. SnapInv'
    BY <1>0 DEF IInv, SnapInv, Applying, source
  <2>5. HasInv'
    BY <1>0, <2>1 DEF IInv, HasInv, Has, Entry
  <2>6. OnceInv'
    BY <1>0, <1>3, <2>2 DEF IInv, OnceInv, Undisturbed, Entry
  <2> QED
    BY <1>1, <2>3, <2>4, <2>5, <2>6 DEF IInv
<1> QED
  BY <1>2, <1>3

-----------------------------------------------------------------------------
(* The theorems.                                                           *)

\* Steps that change nothing.
LEMMA Stutter ==
  ASSUME IInv, UNCHANGED vars
  PROVE  IInv'
<1>1. UNCHANGED <<srcExec, srcRow, dir, times, row, image, blocked, mysqld, pc, snap,
                  after, cursor, cleaned, failures, crashes>>
  BY DEF vars, source, disk
<1>2. TypeOK' /\ SnapInv'
  BY <1>1 DEF IInv, TypeOK, SnapInv, Applying
<1>3. HasInv'
  BY <1>1, SameDatabase DEF IInv, HasInv
<1>4. OnceInv' /\ BlockInv'
  BY <1>1 DEF IInv, OnceInv, Undisturbed, BlockInv
<1> QED
  BY <1>2, <1>3, <1>4 DEF IInv

\* Whatever the sender executes meanwhile, whatever fails and whenever the
\* controller is killed, every reachable state is of the kind IInv describes.
THEOREM InductiveInvariant == Spec => []IInv
<1>1. Init => IInv
  <2> SUFFICES ASSUME Init PROVE IInv
    OBVIOUS
  <2>1. blocked \in BOOLEAN /\ cleaned \in BOOLEAN
    BY DEF Init
  <2>2. TypeOK
    BY <2>1 DEF Init, TypeOK, Never, NoImage
  <2> QED
    BY <2>2 DEF Init, IInv, SnapInv, HasInv, OnceInv, BlockInv, Applying
<1>2. IInv /\ [Next]_vars => IInv'
  <2> SUFFICES ASSUME IInv, [Next]_vars PROVE IInv'
    OBVIOUS
  <2>1. CASE SourceExec \/ SourceSaveApplied \/ Mysqld
    BY <2>1, SourceExecStep, SourceSaveAppliedStep, MysqldStopsStep, MysqldStartsStep DEF Mysqld
  <2>2. CASE Apply
    BY <2>2, TouchBlockedStep, ShutdownStep, WaitForShutdownCompletionStep, RemoveDataDirStep,
       StreamBackupStep, PrepareStep, MoveBackStep, RemoveBlockedStep, GiveUpStep,
       WaitForMySQLToStartStep, RestoredStep DEF Apply
  <2>3. CASE Controller /\ ~Apply
    BY <2>3, ReceiveSnapshotStep, CommittedEntryStep, StartNodeStep, StartFailsStep DEF Controller
  <2>4. CASE Disturbance
    BY <2>4, StreamCutStep, RemoveBlockedFailsStep, GiveUpStep, DatabaseNotUpStep, CrashStep
       DEF Disturbance
  <2>5. CASE UNCHANGED vars
    BY <2>5, Stutter
  <2> QED
    BY <2>1, <2>2, <2>3, <2>4, <2>5 DEF Next
<1> QED
  BY <1>1, <1>2, PTL DEF Spec

\* Every index is one the sender has reached.
THEOREM TypeCorrect == Spec => []TypeOK
<1>1. IInv => TypeOK
  BY DEF IInv
<1> QED
  BY <1>1, InductiveInvariant, PTL

\* A node that works on a restored database has every statement that raft
\* handed over or skipped: applySnapshotIfNotEmpty skips by the applied index
\* of the database it restored, not by that of the snapshot.
THEOREM RestoredHasAll == Spec => []NothingLost
<1>1. IInv => NothingLost
  BY DEF IInv, HasInv, Has, NothingLost
<1> QED
  BY <1>1, InductiveInvariant, PTL

\* Undisturbed, a restore repeats one statement at most: the one the sender had
\* executed and not recorded when the backup was made.
THEOREM RepeatsOne == Spec => []RepeatsOnlyCut
<1>1. IInv => RepeatsOnlyCut
  <2> SUFFICES ASSUME IInv, Undisturbed, NEW i \in Entry, times[i] > 1
               PROVE  i = after + 1
    BY DEF RepeatsOnlyCut
  <2>1. times[i] \in Nat
    BY DEF IInv, TypeOK
  <2>2. dir = "restored"
    BY DEF IInv, OnceInv, Never
  <2> QED
    BY <2>1, <2>2 DEF IInv, OnceInv
<1> QED
  BY <1>1, InductiveInvariant, PTL

\* Wherever a command fails or the controller is killed, and whichever address
\* the snapshot carries, BLOCKED is in place whenever the data is gone, until the
\* clean-up removes it.
THEOREM BlockedProtects == Spec => []FreshOnlyAfterCleanUp
<1>1. IInv => FreshOnlyAfterCleanUp
  BY DEF IInv, BlockInv, FreshOnlyAfterCleanUp, NoFreshStart
<1> QED
  BY <1>1, InductiveInvariant, PTL
=============================================================================
