-------------------------- MODULE SnapshotRestore --------------------------
(***************************************************************************)
(* A lagging node is replaced from another node's MySQL: Snapshot of       *)
(* internal/backend/mysql/storage.go on the sending node, ApplySnapshot    *)
(* and its waits (mysql/backend.go) with applySnapshotIfNotEmpty and the   *)
(* skip in runMainLoop (internal/node/node.go) on the receiving one.       *)
(*                                                                         *)
(* A snapshot carries an index and an address only; the data is backed up  *)
(* from that address later, while the sender goes on executing.  On the    *)
(* receiving pod the controller and the MySQL container run side by side   *)
(* and meet in two files: BLOCKED, which the container's start loop waits  *)
(* on, and the data directory.  Any step may fail, and the controller may  *)
(* be killed between any two.                                              *)
(***************************************************************************)
EXTENDS Naturals

CONSTANTS
  MaxEntries,   \* bound: statements the sender executes
  MaxFailures,  \* bound: failing commands
  MaxCrashes,   \* bound: kills of the controller
  AddrIsLocal   \* may the address in a snapshot name the reader's own pod: a
                \* set of BOOLEANs, {TRUE} as cmd/controller/main.go sets it

ASSUME ConstantsAssumption ==
  /\ MaxEntries \in Nat /\ MaxFailures \in Nat /\ MaxCrashes \in Nat
  /\ AddrIsLocal \subseteq BOOLEAN /\ AddrIsLocal # {}

Entry == 1..MaxEntries
Never == [i \in Entry |-> 0]
NoImage == [exec |-> 0, row |-> 0]

VARIABLES
  \* the sender's database
  srcExec, srcRow,  \* statements 1..srcExec took effect; state.idx
  \* the receiving pod's disk and MySQL container
  dir,      \* /var/lib/mysql/active: "old", "empty", "debris", "restored" or "fresh"
  times,    \* [Entry -> times the statement took effect in that database]
  row,      \* state.idx of that database
  image,    \* /var/lib/mysql/restore: state of the sender when it was backed up
  blocked,  \* does /var/lib/mysql/BLOCKED exist
  mysqld,   \* "up", "stopping" or "starting" (in the start loop)
  \* the receiving controller
  pc,
  snap,     \* index of the snapshot raft works from, 0 before one
  after,    \* indexAfterAppliedSnapshot
  cursor,   \* last entry raft handed over
  \* history and bounds
  cleaned,  \* the deferred clean-up has removed BLOCKED
  failures, crashes

source == <<srcExec, srcRow>>
disk == <<dir, times, row, image>>
vars == <<source, disk, blocked, mysqld, pc, snap, after, cursor, cleaned, failures, crashes>>

Init ==
  /\ srcExec = 0 /\ srcRow = 0
  /\ dir = "old" /\ times = Never /\ row = 0 /\ image = NoImage
  /\ blocked = FALSE /\ mysqld = "up"
  /\ pc = "running" /\ snap = 0 /\ after = 0 /\ cursor = 0
  /\ cleaned = FALSE /\ failures = 0 /\ crashes = 0

-----------------------------------------------------------------------------
(* The sender: ExecSQL is two statements without a transaction.            *)

SourceExec ==
  /\ srcRow = srcExec /\ srcExec < MaxEntries
  /\ srcExec' = srcExec + 1
  /\ UNCHANGED <<srcRow, disk, blocked, mysqld, pc, snap, after, cursor, cleaned, failures, crashes>>

SourceSaveApplied ==
  /\ srcRow < srcExec
  /\ srcRow' = srcExec
  /\ UNCHANGED <<srcExec, disk, blocked, mysqld, pc, snap, after, cursor, cleaned, failures, crashes>>

-----------------------------------------------------------------------------
(* The MySQL container (external): mysqld stops, the container is started  *)
(* again, and its start loop waits while BLOCKED exists.  An empty data    *)
(* directory is initialised as a new database; one that is neither empty   *)
(* nor a database makes the initialisation fail, again and again.          *)

\* A mysqld whose data directory was emptied while it was still stopping may
\* leave files in it.
MysqldStops ==
  /\ mysqld = "stopping"
  /\ mysqld' = "starting"
  /\ dir' \in IF dir = "empty" THEN {"empty", "debris"} ELSE {dir}
  /\ UNCHANGED <<source, times, row, image, blocked, pc, snap, after, cursor, cleaned, failures, crashes>>

MysqldStarts ==
  /\ mysqld = "starting" /\ ~blocked /\ dir # "debris"
  /\ mysqld' = "up"
  /\ dir' = IF dir = "empty" THEN "fresh" ELSE dir
  /\ UNCHANGED <<source, times, row, image, blocked, pc, snap, after, cursor, cleaned, failures, crashes>>

-----------------------------------------------------------------------------
(* The receiving node: ApplySnapshot, one command per step.                *)

Step(from, to) == pc = from /\ pc' = to

\* Snapshot() on the sender, and the message: a reference with the applied
\* index.  The node lags behind the entries the sender still has.
ReceiveSnapshot ==
  /\ Step("running", "block")
  /\ dir # "restored" /\ srcRow > 0
  /\ snap' = srcRow
  /\ UNCHANGED <<source, disk, blocked, mysqld, after, cursor, cleaned, failures, crashes>>

\* Mutant of TouchBlocked: the file is not created.
TouchNothing ==
  /\ Step("block", "shutdown")
  /\ UNCHANGED <<source, disk, blocked, mysqld, snap, after, cursor, cleaned, failures, crashes>>

TouchBlocked ==
  /\ Step("block", "shutdown")
  /\ blocked' = TRUE
  /\ UNCHANGED <<source, disk, mysqld, snap, after, cursor, cleaned, failures, crashes>>

Shutdown ==
  /\ Step("shutdown", "waitDown")
  /\ mysqld' = "stopping"
  /\ UNCHANGED <<source, disk, blocked, snap, after, cursor, cleaned, failures, crashes>>

\* waitForShutdownCompletion: a ping fails, and three seconds pass; mysqld may
\* still be stopping.
WaitForShutdownCompletion ==
  /\ Step("waitDown", "remove")
  /\ mysqld # "up"
  /\ UNCHANGED <<source, disk, blocked, mysqld, snap, after, cursor, cleaned, failures, crashes>>

\* rm -rf active/*; from here on the deferred clean-up is armed.
RemoveDataDir ==
  /\ Step("remove", "stream")
  /\ dir' = "empty" /\ times' = Never /\ row' = 0
  /\ UNCHANGED <<source, image, blocked, mysqld, snap, after, cursor, cleaned, failures, crashes>>

\* xtrabackup piped into xbstream.  The exit status of neither is read, so a
\* backup of a database that is down (the reader's own, which was just shut
\* down), or one cut short, goes unnoticed here.
StreamBackup ==
  /\ Step("stream", "prepare")
  /\ \E local \in AddrIsLocal :
       image' = IF local THEN NoImage ELSE [exec |-> srcExec, row |-> srcRow]
  /\ UNCHANGED <<source, dir, times, row, blocked, mysqld, snap, after, cursor, cleaned, failures, crashes>>

StreamCut ==
  /\ Step("stream", "prepare")
  /\ failures < MaxFailures /\ failures' = failures + 1
  /\ image' = NoImage
  /\ UNCHANGED <<source, dir, times, row, blocked, mysqld, snap, after, cursor, cleaned, crashes>>

Prepare ==
  /\ Step("prepare", "moveBack")
  /\ image # NoImage
  /\ UNCHANGED <<source, disk, blocked, mysqld, snap, after, cursor, cleaned, failures, crashes>>

\* xtrabackup --move-back wants an empty directory.
MoveBack ==
  /\ Step("moveBack", "unblock")
  /\ dir = "empty"
  /\ dir' = "restored" /\ row' = image.row
  /\ times' = [i \in Entry |-> IF i <= image.exec THEN 1 ELSE 0]
  /\ UNCHANGED <<source, image, blocked, mysqld, snap, after, cursor, cleaned, failures, crashes>>

\* Permissions, and rm BLOCKED.
RemoveBlocked ==
  /\ Step("unblock", "waitUp")
  /\ blocked' = FALSE
  /\ UNCHANGED <<source, disk, mysqld, snap, after, cursor, cleaned, failures, crashes>>

\* A failing rm is logged and the wait goes on, for nothing.
RemoveBlockedFails ==
  /\ Step("unblock", "waitUp")
  /\ failures < MaxFailures /\ failures' = failures + 1
  /\ UNCHANGED <<source, disk, blocked, mysqld, snap, after, cursor, cleaned, crashes>>

\* waitForMySQLToStart: mysqld listens.
WaitForMySQLToStart ==
  /\ Step("waitUp", "waitDB")
  /\ mysqld = "up"
  /\ UNCHANGED <<source, disk, blocked, mysqld, snap, after, cursor, cleaned, failures, crashes>>

\* GetAppliedIndex, of the database as it is now.
GetAppliedIndex == row

\* waitForDatabaseToComeUp gets a connection; restore is removed and
\* applySnapshotIfNotEmpty reads the applied index of the new database.
Restored ==
  /\ Step("waitDB", "running")
  /\ image' = NoImage
  /\ after' = GetAppliedIndex /\ cursor' = snap
  /\ UNCHANGED <<source, dir, times, row, blocked, mysqld, snap, cleaned, failures, crashes>>

CleanUpArmed == pc \in {"stream", "prepare", "moveBack", "unblock", "waitUp"}

\* ApplySnapshot returns an error after f commands failed: the deferred clean-up
\* if it is armed, whose own errors are ignored, and applySnapshotIfNotEmpty
\* panics, which ends the process.
GiveUp(f) ==
  /\ \/ /\ ~CleanUpArmed
        /\ failures' = failures + f
        /\ UNCHANGED <<blocked, image, cleaned>>
     \/ /\ CleanUpArmed
        /\ blocked' = FALSE /\ image' = NoImage /\ cleaned' = TRUE
        /\ failures' = failures + f
     \/ /\ CleanUpArmed
        /\ failures + f < MaxFailures /\ failures' = failures + f + 1
        /\ image' = NoImage
        /\ UNCHANGED <<blocked, cleaned>>
  /\ pc' = "down" /\ snap' = 0 /\ after' = 0 /\ cursor' = 0
  /\ UNCHANGED <<source, dir, times, row, mysqld, crashes>>

\* A command fails or a wait times out.  waitForDatabaseToComeUp drops the
\* error of its last attempt and cannot.
CommandFails ==
  /\ pc \notin {"running", "waitDB", "down", "dead"}
  /\ failures < MaxFailures
  /\ GiveUp(1)

\* There is nothing to prepare, files are in the way, or MySQL waits for BLOCKED
\* to go away.
PrepareFails == pc = "prepare" /\ image = NoImage /\ GiveUp(0)
MoveBackFails == pc = "moveBack" /\ dir # "empty" /\ GiveUp(0)
WaitUpTimesOut == pc = "waitUp" /\ blocked /\ GiveUp(0)

\* No attempt got a connection, which ApplySnapshot takes for success; then
\* GetAppliedIndex fails and the process panics, with nothing to clean up.
DatabaseNotUp ==
  /\ pc = "waitDB"
  /\ failures < MaxFailures /\ failures' = failures + 1
  /\ image' = NoImage
  /\ pc' = "down" /\ snap' = 0 /\ after' = 0 /\ cursor' = 0
  /\ UNCHANGED <<source, dir, times, row, blocked, mysqld, cleaned, crashes>>

\* The controller is killed: nothing deferred runs.
Crash ==
  /\ pc \notin {"down", "dead"}
  /\ crashes < MaxCrashes /\ crashes' = crashes + 1
  /\ pc' = "down" /\ snap' = 0 /\ after' = 0 /\ cursor' = 0
  /\ UNCHANGED <<source, disk, blocked, mysqld, cleaned, failures>>

-----------------------------------------------------------------------------
(* The receiving node: start, and the entries after the snapshot.          *)

\* Node.Start: the backend is reachable, createTables fills in what is
\* missing, and raft hands over again what the tables still hold.
StartNode(from) ==
  /\ Step("down", "running")
  /\ mysqld = "up" /\ from <= row
  /\ cursor' = from
  /\ UNCHANGED <<source, disk, blocked, mysqld, snap, after, cleaned, failures, crashes>>

\* startBackendWithRetry gives up after ten attempts; the error is logged and
\* the server goes on without a node.
StartFails ==
  /\ Step("down", "dead")
  /\ mysqld = "starting" /\ (blocked \/ dir = "debris")
  /\ UNCHANGED <<source, disk, blocked, mysqld, snap, after, cursor, cleaned, failures, crashes>>

\* Mutants of CommittedEntry: no entry is skipped; one too many is.
CommittedNeverSkipped ==
  /\ pc = "running" /\ dir = "restored" /\ cursor < srcExec
  /\ cursor' = cursor + 1
  /\ times' = [times EXCEPT ![cursor + 1] = @ + 1] /\ row' = cursor + 1
  /\ UNCHANGED <<source, dir, image, blocked, mysqld, pc, snap, after, cleaned, failures, crashes>>
CommittedSkipsOneMore ==
  /\ pc = "running" /\ dir = "restored" /\ cursor < srcExec
  /\ cursor' = cursor + 1
  /\ IF cursor <= after THEN UNCHANGED <<times, row>>
     ELSE times' = [times EXCEPT ![cursor + 1] = @ + 1] /\ row' = cursor + 1
  /\ UNCHANGED <<source, dir, image, blocked, mysqld, pc, snap, after, cleaned, failures, crashes>>

\* A committed entry after the snapshot: skipped if the restored database has
\* it already, else executed (module ApplyLoop has the two steps of that).
CommittedEntry ==
  /\ pc = "running" /\ dir = "restored" /\ cursor < srcExec
  /\ cursor' = cursor + 1
  /\ IF cursor + 1 <= after THEN UNCHANGED <<times, row>>
     ELSE times' = [times EXCEPT ![cursor + 1] = @ + 1] /\ row' = cursor + 1
  /\ UNCHANGED <<source, dir, image, blocked, mysqld, pc, snap, after, cleaned, failures, crashes>>

-----------------------------------------------------------------------------

Apply ==
  \/ TouchBlocked \/ Shutdown \/ WaitForShutdownCompletion \/ RemoveDataDir
  \/ StreamBackup \/ Prepare \/ PrepareFails \/ MoveBack \/ MoveBackFails
  \/ RemoveBlocked \/ WaitForMySQLToStart \/ WaitUpTimesOut \/ Restored

Controller ==
  \/ ReceiveSnapshot \/ Apply \/ CommittedEntry
  \/ (\E from \in 0..MaxEntries : StartNode(from)) \/ StartFails

Mysqld == MysqldStops \/ MysqldStarts

Disturbance == StreamCut \/ RemoveBlockedFails \/ CommandFails \/ DatabaseNotUp \/ Crash

Next == SourceExec \/ SourceSaveApplied \/ Mysqld \/ Controller \/ Disturbance

Spec == Init /\ [][Next]_vars

\* The containers run, a controller that exits is started again, and the
\* sender offers a snapshot as long as the node lags.
FairSpec == Spec /\ WF_vars(Mysqld) /\ WF_vars(Controller)

-----------------------------------------------------------------------------
(* Properties.                                                             *)

\* Type invariant: every index is one the sender has reached.
TypeOK ==
  /\ srcExec \in 0..MaxEntries /\ srcRow \in 0..srcExec
  /\ dir \in {"old", "empty", "debris", "restored", "fresh"}
  /\ times \in [Entry -> Nat] /\ row \in 0..srcExec
  /\ image \in [exec : 0..srcExec, row : 0..srcRow]
  /\ blocked \in BOOLEAN /\ mysqld \in {"up", "stopping", "starting"}
  /\ pc \in {"running", "block", "shutdown", "waitDown", "remove", "stream",
             "prepare", "moveBack", "unblock", "waitUp", "waitDB", "down", "dead"}
  /\ snap \in 0..srcRow /\ after \in 0..srcRow /\ cursor \in 0..srcExec
  /\ cleaned \in BOOLEAN /\ failures \in 0..MaxFailures /\ crashes \in 0..MaxCrashes

\* The comment in ApplySnapshot (backend.go): BLOCKED prevents MySQL from
\* starting until the restore is complete.  MySQL never runs on a directory
\* whose data was removed and not restored, which would be a node that has
\* forgotten what it acknowledged.
NoFreshStart == mysqld = "up" => dir # "fresh"

\* The same until the deferred clean-up has removed BLOCKED: whatever command
\* fails and wherever the controller is killed, MySQL starts on a directory
\* whose data was removed only after that.
FreshOnlyAfterCleanUp == ~cleaned => NoFreshStart

\* A node that works on a restored database has every statement raft handed
\* over to it or skipped as contained in the snapshot, with whatever failures
\* and kills before.
NothingLost ==
  pc = "running" /\ dir = "restored" => \A i \in Entry : i <= cursor => times[i] >= 1

Undisturbed == failures = 0 /\ crashes = 0

\* In an undisturbed restore all that is executed twice is the statement whose
\* SaveApplied on the sender came after the backup, however far the sender
\* went on between taking the snapshot's index and the backup.
RepeatsOnlyCut == Undisturbed => \A i \in Entry : times[i] > 1 => i = after + 1

\* README.md: "Snapshot and restore capabilities for efficient cluster
\* recovery".  A node that got a snapshot works on the restored database in the
\* end, unless something fails.
RestoreFinishes ==
  pc = "block" ~> (pc = "running" /\ dir = "restored") \/ ~Undisturbed
=============================================================================
