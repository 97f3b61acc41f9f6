--------------------------- MODULE SqliteSnapshot ---------------------------
(***************************************************************************)
(* Snapshot and restore of the SQLite backend: Snapshot of                 *)
(* internal/backend/sqlite/storage.go on a leader, ApplySnapshot of        *)
(* backend.go on a follower that lags, and the statements the leader goes  *)
(* on executing in between.  Raft's goroutine calls Snapshot while the     *)
(* main loop writes; os.Open takes no lock that SQLite would respect.      *)
(*                                                                         *)
(* The main database is two pages.  A statement changes both, under a      *)
(* rollback journal: a second file that exists until the transaction is    *)
(* committed, and that SQLite plays back when it finds it.  A page of the  *)
(* sender is the number of statements it has seen, a page of the receiver  *)
(* the sequence of those it has seen, 0 for one that was never committed.  *)
(*                                                                         *)
(* The receiver may have rows of its own beyond what it executed: entries  *)
(* of an old term that were not committed.  No restore deletes them.       *)
(***************************************************************************)
EXTENDS Naturals, Sequences, Functions

CONSTANTS
  Behind,       \* statements the receiver has executed before it fell behind
  MaxLog,       \* bound: committed statements
  MaxDeaths     \* bound: failures and kills of the receiver

ASSUME ConstantsAssumption ==
  Behind \in Nat /\ MaxLog \in Nat /\ Behind < MaxLog /\ MaxDeaths \in Nat

VARIABLES
  \* sender
  loop,      \* its main loop: "idle", "journal", "half", "written", "executed", "saving"
  page,      \* db.sqlite: [1..2 -> statements the page has seen]
  applied,   \* state.idx in raft.sqlite
  snap,      \* "none", "listed", "opened", "indexed", "half", "sent", "failed"
  listed,    \* fileinfos: the journals among the files of the directory
  sizeAt,    \* db.sqlite as it was when its size was taken
  meta,      \* snapMeta.Index
  tar,       \* the archive: page versions and journals
  quiet,     \* history: no statement ran while the snapshot was taken
  \* receiver
  node,      \* where it stands
  rpage,     \* its db.sqlite
  rapplied, rcommit, rlast,  \* state.idx, state.hardstate_commit, the last row of entries
  rnext,     \* raft's applied index, in memory
  begun,     \* history: a restore was begun and has not finished
  unsaved,   \* history: the last SaveHardState failed
  deaths

senderVars == <<loop, page, applied>>
snapVars == <<snap, listed, sizeAt, meta, tar, quiet>>
receiverVars == <<node, rpage, rapplied, rcommit, rlast, rnext, begun, unsaved, deaths>>
vars == <<senderVars, snapVars, receiverVars>>

None == MaxLog + 1  \* no page copied, no journal
Upto(n) == [i \in 1..n |-> i]

Init ==
  /\ loop = "idle" /\ page = [g \in 1..2 |-> Behind + 1] /\ applied = Behind + 1
  /\ snap = "none" /\ listed = {} /\ sizeAt = 0 /\ meta = 0 /\ quiet = FALSE
  /\ tar = [pages |-> [g \in 1..2 |-> None], db |-> None, raft |-> None]
  /\ node = "running" /\ rpage = [g \in 1..2 |-> Upto(Behind)]
  /\ rapplied = Behind /\ rcommit = Behind /\ rlast \in Behind..MaxLog /\ rnext = Behind
  /\ begun = FALSE /\ unsaved = FALSE /\ deaths = 0

-----------------------------------------------------------------------------
(* The sender's main loop: ExecSQL, then SaveApplied.  SQLite (external)   *)
(* commits by deleting the journal.                                        *)

LoopTo(s) == loop' = s /\ quiet' = (quiet /\ snap \in {"sent", "failed"})

BeginStatement ==
  /\ loop = "idle" /\ applied < MaxLog
  /\ LoopTo("journal")
  /\ UNCHANGED <<page, applied, snap, listed, sizeAt, meta, tar, receiverVars>>

WritePage(g) ==
  /\ loop = <<"journal", "half">>[g]
  /\ LoopTo(<<"half", "written">>[g])
  /\ page' = [page EXCEPT ![g] = @ + 1]
  /\ UNCHANGED <<applied, snap, listed, sizeAt, meta, tar, receiverVars>>

CommitStatement ==
  /\ loop = "written"
  /\ LoopTo("executed")
  /\ UNCHANGED <<page, applied, snap, listed, sizeAt, meta, tar, receiverVars>>

\* SaveApplied: an UPDATE in raft.sqlite, with a journal of its own.
BeginSaveApplied ==
  /\ loop = "executed"
  /\ LoopTo("saving")
  /\ UNCHANGED <<page, applied, snap, listed, sizeAt, meta, tar, receiverVars>>

SaveApplied ==
  /\ loop = "saving"
  /\ LoopTo("idle")
  /\ applied' = page[1]
  /\ UNCHANGED <<page, snap, listed, sizeAt, meta, tar, receiverVars>>

LoopStep ==
  \/ BeginStatement \/ CommitStatement \/ BeginSaveApplied \/ SaveApplied
  \/ \E g \in 1..2 : WritePage(g)

\* The journals in the directory, and what each would roll back to.
Journals == (IF loop \in {"journal", "half", "written"} THEN {"db"} ELSE {})
            \cup (IF loop = "saving" THEN {"raft"} ELSE {})

-----------------------------------------------------------------------------
(* Snapshot, in raft's goroutine.                                          *)

\* dir.Readdir
ListFiles ==
  /\ snap = "none"
  /\ snap' = "listed" /\ listed' = Journals /\ sizeAt' = page[2]
  /\ quiet' = (loop = "idle")
  /\ UNCHANGED <<senderVars, meta, tar, receiverVars>>

\* os.Open of every file listed; an open file can be read to its end even when
\* SQLite deletes it.
OpenFiles ==
  /\ snap = "listed" /\ listed \subseteq Journals
  /\ snap' = "opened"
  /\ tar' = [tar EXCEPT !.db = IF "db" \in listed THEN applied ELSE None,
                        !.raft = IF "raft" \in listed THEN applied ELSE None]
  /\ UNCHANGED <<senderVars, listed, sizeAt, meta, quiet, receiverVars>>

\* Mutant of ReadIndex: the index of the statement before.
ReadIndexBefore ==
  /\ snap = "opened"
  /\ snap' = "indexed" /\ meta' = applied - 1
  /\ UNCHANGED <<senderVars, listed, sizeAt, tar, quiet, receiverVars>>

\* SELECT term, idx FROM state
ReadIndex ==
  /\ snap = "opened"
  /\ snap' = "indexed" /\ meta' = applied
  /\ UNCHANGED <<senderVars, listed, sizeAt, tar, quiet, receiverVars>>

\* Mutant of CopyPage: the index is read at the end.
CopyPageThenIndex(g) ==
  /\ snap = <<"indexed", "half">>[g]
  /\ snap' = <<"half", "sent">>[g]
  /\ tar' = [tar EXCEPT !.pages[g] = page[g]]
  /\ meta' = applied
  /\ UNCHANGED <<senderVars, listed, sizeAt, quiet, receiverVars>>

\* io.Copy of db.sqlite; after it the archive is closed and sent.
CopyPage(g) ==
  /\ snap = <<"indexed", "half">>[g]
  /\ snap' = <<"half", "sent">>[g]
  /\ tar' = [tar EXCEPT !.pages[g] = page[g]]
  /\ UNCHANGED <<senderVars, listed, sizeAt, meta, quiet, receiverVars>>

\* A journal listed is gone, or db.sqlite has grown past the size in its tar
\* header: Snapshot returns an error and raft panics.
SnapshotFails ==
  /\ \/ snap = "listed" /\ ~(listed \subseteq Journals)
     \/ snap \in {"indexed", "half"} /\ page[2] # sizeAt
  /\ snap' = "failed"
  /\ UNCHANGED <<senderVars, listed, sizeAt, meta, tar, quiet, receiverVars>>

SnapshotStep ==
  \/ ListFiles \/ OpenFiles \/ ReadIndex \/ SnapshotFails
  \/ \E g \in 1..2 : CopyPage(g)

-----------------------------------------------------------------------------
(* The receiver's main loop.                                               *)

\* Raft passes a snapshot on only when it is beyond the commit index, in
\* memory and, after a restart, as it was saved.
Restorable == node = "running" /\ snap = "sent" /\ rnext < meta /\ rcommit < meta

\* Mutant of SaveHardState: it is left to the Ready after the snapshot's.
SaveHardStateLater ==
  /\ Restorable
  /\ node' = "restoring" /\ begun' = TRUE /\ unsaved' = FALSE
  /\ UNCHANGED <<senderVars, snapVars, rpage, rapplied, rcommit, rlast, rnext, deaths>>

\* The Ready with the snapshot: saveToStorage saves the commit index raft took
\* from it; SaveSnapshot does nothing; ApplySnapshot closes the databases.
SaveHardState ==
  /\ Restorable
  /\ node' = "restoring" /\ rcommit' = meta /\ begun' = TRUE /\ unsaved' = FALSE
  /\ UNCHANGED <<senderVars, snapVars, rpage, rapplied, rlast, rnext, deaths>>

\* The statement fails: saveToStorage drops the error and goes on.
SaveHardStateFails ==
  /\ Restorable /\ deaths < MaxDeaths
  /\ node' = "restoring" /\ begun' = TRUE /\ unsaved' = TRUE /\ deaths' = deaths + 1
  /\ UNCHANGED <<senderVars, snapVars, rpage, rapplied, rcommit, rlast, rnext>>

\* The files of the archive are written over the receiver's own.
ExtractPage(g) ==
  /\ node = <<"restoring", "half">>[g]
  /\ node' = <<"half", "extracted">>[g]
  /\ rpage' = [rpage EXCEPT ![g] = Upto(tar.pages[g])]
  /\ UNCHANGED <<senderVars, snapVars, rapplied, rcommit, rlast, rnext, begun, unsaved, deaths>>

\* SQLite (external) plays back a journal it finds next to a database, the one
\* of the sender's raft.sqlite into the receiver's: the page of its state row.
PlayBack ==
  /\ rpage' = IF tar.db = None THEN rpage ELSE [g \in 1..2 |-> Upto(tar.db)]
  /\ rapplied' = IF tar.raft = None THEN rapplied ELSE tar.raft
  /\ rcommit' \in IF tar.raft = None THEN {rcommit} ELSE tar.raft + 1..MaxLog

\* innerStart(false).
Reopen ==
  /\ node = "extracted"
  /\ node' = "reopened" /\ PlayBack
  /\ UNCHANGED <<senderVars, snapVars, rlast, rnext, begun, unsaved, deaths>>

\* SaveConfState and SaveApplied with the snapshot's metadata; back in the
\* main loop GetAppliedIndex gives indexAfterAppliedSnapshot.
FinishRestore ==
  /\ node = "reopened"
  /\ node' = "running" /\ rapplied' = meta /\ rnext' = meta /\ begun' = FALSE
  /\ UNCHANGED <<senderVars, snapVars, rpage, rcommit, rlast, unsaved, deaths>>

\* An entry after the snapshot is stored, committed and executed.
CommittedEntry ==
  /\ node = "running" /\ snap = "sent"
  /\ meta <= rnext /\ rnext < applied
  /\ rnext' = rnext + 1 /\ rlast' = rnext + 1 /\ rcommit' = rnext + 1
  /\ rpage' = [g \in 1..2 |-> Append(rpage[g], rnext + 1)]
  /\ rapplied' = rnext + 1
  /\ UNCHANGED <<senderVars, snapVars, node, begun, unsaved, deaths>>

\* After a restart raft takes the rows up to the saved commit index for
\* committed, although that index is the snapshot's and the rows are its own.
StaleEntry ==
  /\ node = "running" /\ begun /\ rnext < rcommit
  /\ rnext' = rnext + 1 /\ rapplied' = rnext + 1
  /\ rpage' = [g \in 1..2 |-> Append(rpage[g], 0)]
  /\ UNCHANGED <<senderVars, snapVars, node, rcommit, rlast, begun, unsaved, deaths>>

\* Killed, or an error of ApplySnapshot, on which the main loop panics.
Dies ==
  /\ node \notin {"running", "down", "refused"} /\ deaths < MaxDeaths
  /\ node' = "down" /\ deaths' = deaths + 1
  /\ UNCHANGED <<senderVars, snapVars, rpage, rapplied, rcommit, rlast, rnext, begun, unsaved>>

\* Start.  InitialState and LastIndex: raft refuses a commit index beyond the
\* log.  A journal may have been among the files already written.
Restarts ==
  /\ node = "down"
  /\ PlayBack \/ UNCHANGED <<rpage, rapplied, rcommit>>
  /\ node' = IF rcommit' <= rlast THEN "running" ELSE "refused"
  /\ rnext' = rapplied'
  /\ UNCHANGED <<senderVars, snapVars, rlast, begun, unsaved, deaths>>

ReceiverStep ==
  \/ SaveHardState \/ SaveHardStateFails \/ Reopen \/ FinishRestore
  \/ CommittedEntry \/ StaleEntry \/ Dies \/ Restarts
  \/ \E g \in 1..2 : ExtractPage(g)

Next == LoopStep \/ SnapshotStep \/ ReceiverStep

Spec == Init /\ [][Next]_vars

-----------------------------------------------------------------------------
(* Properties.                                                             *)

\* Type invariant.
TypeOK ==
  /\ loop \in {"idle", "journal", "half", "written", "executed", "saving"}
  /\ page \in [1..2 -> 0..MaxLog] /\ applied \in 0..MaxLog
  /\ snap \in {"none", "listed", "opened", "indexed", "half", "sent", "failed"}
  /\ listed \subseteq {"db", "raft"} /\ sizeAt \in 0..MaxLog /\ meta \in 0..MaxLog
  /\ tar \in [pages : [1..2 -> 0..None], db : 0..None, raft : 0..None]
  /\ node \in {"running", "restoring", "half", "extracted", "reopened", "down", "refused"}
  /\ rpage \in [1..2 -> Seq(0..MaxLog)] /\ rnext \in 0..MaxLog
  /\ rapplied \in 0..MaxLog /\ rcommit \in 0..MaxLog /\ rlast \in 0..MaxLog
  /\ quiet \in BOOLEAN /\ begun \in BOOLEAN /\ unsaved \in BOOLEAN
  /\ deaths \in 0..MaxDeaths

\* The index is read before the pages are copied: whatever the sender executes
\* meanwhile, every page of a node that runs has seen every statement up to
\* the applied index, unless a journal got into the archive or the node was
\* restarted out of a restore that did not finish.
NothingLost ==
  node = "running" /\ tar.db = None /\ ~begun =>
    \A g \in 1..2, i \in 1..rnext : i \in Range(rpage[g])

\* A snapshot taken between two statements is exact: once restored, the
\* database executes every statement once and in order.
QuietSnapshotExact ==
  node = "running" /\ snap = "sent" /\ quiet /\ ~begun =>
    \A g \in 1..2 : rpage[g] = Upto(rnext)

\* The receiver's own rows reach a commit index that the restore left: the
\* snapshot's, or one a journal of the sender's raft.sqlite brought along.
OwnRowsReach == meta <= rlast \/ tar.raft < rlast

\* When does a node run on half a restore?  The commit index is saved before
\* the first file is written and raft refuses to load one beyond the log, so
\* only when that statement failed and its error was dropped, or when
\* uncommitted rows of the node's own log reach as far.
HalfRestoreRefused == node = "running" /\ begun => unsaved \/ OwnRowsReach
=============================================================================
