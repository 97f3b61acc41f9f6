------------------------------ MODULE LogStore ------------------------------
(***************************************************************************)
(* The durable Raft log of one node: the `entries` and `state` tables of   *)
(* internal/backend/{mysql,sqlite}/backend.go, the raft.Storage readers of *)
(* storage.go beside them, and the storage side of the main loop           *)
(* (internal/node/node.go, runMainLoop and saveToStorage).                 *)
(*                                                                         *)
(* Three actors share the tables.  The main loop executes one SQL          *)
(* statement per step, with no transaction around them.  The goroutine of  *)
(* the raft library (etcd raft v3.5.9, external) changes its in-memory log *)
(* while a Ready is being saved and reads the tables through the Storage   *)
(* interface.  The process may be killed between any two statements and    *)
(* come back with the tables only.                                         *)
(*                                                                         *)
(* An entry is identified by its index and term, so its data is left out.  *)
(***************************************************************************)
EXTENDS Integers, FiniteSetsExt

CONSTANTS
  MaxIndex,       \* bound: indexes used, 1..MaxIndex
  MaxTerm,        \* bound: terms used, 1..MaxTerm
  Retain,         \* backend.entriesToRetain; 0 keeps everything
  MaxSize,        \* maxSize the raft library passes to Entries, in rows
  MaxUnapplied,   \* how far raft's log may run ahead of what was executed
  MaxFaults       \* bound: process crashes and SQL statements that fail

ASSUME BoundsAssumption ==
  /\ MaxIndex \in Nat /\ MaxTerm \in Nat
  /\ Retain \in Nat /\ MaxSize \in Nat /\ MaxUnapplied \in Nat
  /\ MaxFaults \in Nat

Index == 1..MaxIndex
Term == 1..MaxTerm
NoRow == 0          \* no row, or no entry, with that index
UnknownError == -1  \* an error that is neither ErrCompacted nor ErrUnavailable

VARIABLES
  \* tables
  entries,      \* [Index -> term of the row, or NoRow]
  hsCommit,     \* state.hardstate_commit
  appliedRow,   \* state.idx, the index of SaveApplied
  \* the raft library's memory (external)
  log, last,    \* its view of the log: terms of 1..last
  stable,       \* entries up to here are believed to be in Storage
  commit, raftApplied,
  readLo,       \* start of a slice() between FirstIndex and Entries, or 0
  \* the main loop
  pc,
  rdLo, rdHi, rdLog, rdCommit,  \* rd.Entries and rd.HardState
  next,                         \* row being inserted
  applyNext, applyHi,           \* what is left of rd.CommittedEntries
  \* history and bounds
  promised,     \* [Index -> term acknowledged to the leader, or NoRow]
  executed,     \* highest index handed to processCommittedData so far
  replaced,     \* raft has replaced entries of a Ready being saved
  panicked,     \* raft panicked on an answer of Storage
  crashes, failures

tables == <<entries, hsCommit, appliedRow>>
raftVars == <<log, last, stable, commit, raftApplied>>
readVars == <<readLo, panicked>>
rdVars == <<rdLo, rdHi, rdLog, rdCommit, next, applyNext, applyHi>>
history == <<promised, executed, replaced, crashes, failures>>
vars == <<tables, raftVars, readVars, pc, rdVars, history>>

NoLog == [i \in Index |-> NoRow]

Init ==
  /\ entries = NoLog /\ hsCommit = 0 /\ appliedRow = 0
  /\ log = NoLog /\ last = 0 /\ stable = 0 /\ commit = 0 /\ raftApplied = 0
  /\ readLo = 0 /\ panicked = FALSE
  /\ pc = "ready"
  /\ rdLo = 1 /\ rdHi = 0 /\ rdLog = NoLog /\ rdCommit = 0
  /\ next = 1 /\ applyNext = 1 /\ applyHi = 0
  /\ promised = NoLog /\ executed = 0 /\ replaced = FALSE
  /\ crashes = 0 /\ failures = 0

-----------------------------------------------------------------------------
(* The readers of storage.go.                                              *)

Rows == {i \in Index : entries[i] # NoRow}

FirstIndex == IF Rows = {} THEN 1 ELSE Min(Rows)

LastIndex == IF Rows = {} THEN 0 ELSE Max(Rows)

\* Term(i): queryInteger wraps sql.ErrNoRows, so the comparison with it never
\* succeeds and a missing row is an error the raft library does not know.
TermOf(i) ==
  IF i = 0 THEN 0 ELSE IF i \in Rows THEN entries[i] ELSE UnknownError

\* Mutants of Entries: the upper check off by one; the lower check missing.
EntriesOffByOne(lo, hi) ==
  LET result == {i \in Rows : lo <= i /\ i < hi}
      loIdx == IF result = {} THEN 0 ELSE Min(result)
      hiIdx == IF result = {} THEN 0 ELSE Max(result)
  IN CASE lo < loIdx -> [err |-> "ErrCompacted", rows |-> {}]
       [] lo >= loIdx /\ hi > hiIdx -> [err |-> "ErrUnavailable", rows |-> {}]
       [] OTHER -> [err |-> "nil", rows |-> result]
EntriesNoLowCheck(lo, hi) ==
  LET result == {i \in Rows : lo <= i /\ i < hi}
      hiIdx == IF result = {} THEN 0 ELSE Max(result)
  IN IF hi > hiIdx + 1 THEN [err |-> "ErrUnavailable", rows |-> {}]
                       ELSE [err |-> "nil", rows |-> result]

\* Entries(lo, hi, maxSize): the rows selected, LIMIT maxSize of them, then
\* the two range checks on the first and the last one.
Entries(lo, hi) ==
  LET selected == {i \in Rows : lo <= i /\ i < hi}
      result == {i \in selected : Cardinality({j \in selected : j <= i}) <= MaxSize}
      loIdx == IF result = {} THEN 0 ELSE Min(result)
      hiIdx == IF result = {} THEN 0 ELSE Max(result)
  IN CASE lo < loIdx -> [err |-> "ErrCompacted", rows |-> {}]
       [] lo >= loIdx /\ hi > hiIdx + 1 -> [err |-> "ErrUnavailable", rows |-> {}]
       [] OTHER -> [err |-> "nil", rows |-> result]

-----------------------------------------------------------------------------
(* The raft library.  All of it runs in one goroutine, so nothing of it    *)
(* happens between the two storage reads of slice().                       *)

RaftIdle == pc # "down" /\ readLo = 0 /\ ~panicked

\* Raft's Log Matching property, which the library guarantees: an index and a
\* term identify an entry and everything before it.
Mismatched(f, g) ==
  {i \in Index :
     /\ f[i] # NoRow /\ f[i] = g[i]
     /\ \E j \in 1..i : f[j] # NoRow /\ g[j] # NoRow /\ f[j] # g[j]}

LogMatching(f) == Mismatched(f, entries) \cup Mismatched(f, rdLog) = {}

\* Propose on the leader, MsgApp on a follower.
RaftAppend(t) ==
  /\ RaftIdle
  /\ last < MaxIndex /\ last - executed < MaxUnapplied
  /\ last > 0 => log[last] <= t
  /\ last' = last + 1
  /\ log' = [log EXCEPT ![last + 1] = t]
  /\ LogMatching(log')
  /\ UNCHANGED <<tables, stable, commit, raftApplied, readVars, pc, rdVars, history>>

\* MsgApp of a new leader conflicting at an uncommitted index
\* (unstable.truncateAndAppend).  What was acknowledged from there on was
\* acknowledged to a deposed leader and binds nobody any more.
RaftTruncate(at, t) ==
  /\ RaftIdle
  /\ commit < at /\ at <= last /\ t # log[at]
  /\ at > 1 => log[at - 1] <= t
  /\ last' = at
  /\ log' = [i \in Index |->
               IF i < at THEN log[i] ELSE IF i = at THEN t ELSE NoRow]
  /\ LogMatching(log')
  /\ stable' = IF at <= stable THEN at - 1 ELSE stable
  /\ promised' = [i \in Index |-> IF i < at THEN promised[i] ELSE NoRow]
  /\ replaced' = (replaced \/ (pc # "ready" /\ rdLo <= rdHi /\ at <= rdHi))
  /\ UNCHANGED <<tables, commit, raftApplied, readVars, pc, rdVars,
                 executed, crashes, failures>>

RaftCommit(c) ==
  /\ RaftIdle
  /\ commit < c /\ c <= last
  /\ commit' = c
  /\ UNCHANGED <<tables, log, last, stable, raftApplied, readVars, pc, rdVars, history>>

\* raftLog.entries, for a follower that is behind: mustCheckOutOfBounds asks
\* for FirstIndex ...
RaftReadFirst(lo) ==
  /\ RaftIdle
  /\ FirstIndex <= lo /\ lo <= stable
  /\ readLo' = lo
  /\ UNCHANGED <<tables, raftVars, panicked, pc, rdVars, history>>

\* ... then Storage.Entries is read up to the end of what is stored;
\* ErrCompacted is answered with a snapshot, any other error panics.
RaftReadEntries ==
  /\ readLo # 0
  /\ panicked' = (Entries(readLo, stable + 1).err = "ErrUnavailable")
  /\ readLo' = 0
  /\ UNCHANGED <<tables, raftVars, pc, rdVars, history>>

-----------------------------------------------------------------------------
(* The main loop: one Ready.                                               *)

\* raftLog.nextEnts: committed entries from max(applied + 1, FirstIndex) on,
\* as many as fit MaxCommittedSizePerReady.
NextOffset == IF raftApplied + 1 > FirstIndex THEN raftApplied + 1 ELSE FirstIndex

\* Mutants of TakeReady: acknowledgements sent, or the hard state saved,
\* before AppendEntries.
ReadySendsFirst(page) ==
  /\ pc = "ready" /\ RaftIdle
  /\ stable < last \/ commit # hsCommit \/ NextOffset <= commit
  /\ IF NextOffset <= commit THEN page \in NextOffset..commit ELSE page = 0
  /\ rdLo' = stable + 1 /\ rdHi' = last /\ rdLog' = log /\ rdCommit' = commit
  /\ next' = stable + 1
  /\ applyNext' = NextOffset /\ applyHi' = page
  /\ pc' = IF stable < last THEN "insert" ELSE "hardstate"
  /\ promised' = log
  /\ UNCHANGED <<tables, raftVars, readVars, executed, replaced, crashes, failures>>
ReadySavesStateFirst(page) ==
  /\ pc = "ready" /\ RaftIdle
  /\ stable < last \/ commit # hsCommit \/ NextOffset <= commit
  /\ IF NextOffset <= commit THEN page \in NextOffset..commit ELSE page = 0
  /\ rdLo' = stable + 1 /\ rdHi' = last /\ rdLog' = log /\ rdCommit' = commit
  /\ next' = stable + 1
  /\ applyNext' = NextOffset /\ applyHi' = page
  /\ hsCommit' = commit
  /\ pc' = IF stable < last THEN "insert" ELSE "hardstate"
  /\ UNCHANGED <<entries, appliedRow, raftVars, readVars, history>>

TakeReady(page) ==
  /\ pc = "ready" /\ RaftIdle
  /\ stable < last \/ commit # hsCommit \/ NextOffset <= commit
  /\ IF NextOffset <= commit THEN page \in NextOffset..commit ELSE page = 0
  /\ rdLo' = stable + 1 /\ rdHi' = last /\ rdLog' = log /\ rdCommit' = commit
  /\ next' = stable + 1
  /\ applyNext' = NextOffset /\ applyHi' = page
  /\ pc' = IF stable < last THEN "insert" ELSE "hardstate"
  /\ UNCHANGED <<tables, raftVars, readVars, history>>

AfterRow == IF next < rdHi THEN "insert" ELSE IF Retain = 0 THEN "hardstate" ELSE "trim"

\* tryInsert succeeds.
InsertRow ==
  /\ pc = "insert" /\ ~panicked
  /\ entries[next] = NoRow
  /\ entries' = [entries EXCEPT ![next] = rdLog[next]]
  /\ next' = next + 1
  /\ pc' = AfterRow
  /\ UNCHANGED <<hsCommit, appliedRow, raftVars, readVars, rdLo, rdHi, rdLog,
                 rdCommit, applyNext, applyHi, history>>

\* Mutant of DeleteConflicting: only the row with that index is deleted.
DeleteOneRow ==
  /\ pc = "insert" /\ ~panicked
  /\ entries[next] # NoRow
  /\ entries' = [entries EXCEPT ![next] = NoRow]
  /\ pc' = "reinsert"
  /\ UNCHANGED <<hsCommit, appliedRow, raftVars, readVars, rdVars, history>>

\* tryInsert finds the index taken: DELETE FROM entries WHERE idx >= ?
DeleteConflicting ==
  /\ pc = "insert" /\ ~panicked
  /\ entries[next] # NoRow
  /\ entries' = [i \in Index |-> IF i >= next THEN NoRow ELSE entries[i]]
  /\ pc' = "reinsert"
  /\ UNCHANGED <<hsCommit, appliedRow, raftVars, readVars, rdVars, history>>

\* the second tryInsert
ReinsertRow ==
  /\ pc = "reinsert" /\ ~panicked
  /\ entries' = [entries EXCEPT ![next] = rdLog[next]]
  /\ next' = next + 1
  /\ pc' = AfterRow
  /\ UNCHANGED <<hsCommit, appliedRow, raftVars, readVars, rdLo, rdHi, rdLog,
                 rdCommit, applyNext, applyHi, history>>

\* DELETE FROM entries WHERE idx + retain <= lastIdx
TrimOld ==
  /\ pc = "trim" /\ ~panicked
  /\ entries' = [i \in Index |-> IF i + Retain <= rdHi THEN NoRow ELSE entries[i]]
  /\ pc' = "hardstate"
  /\ UNCHANGED <<hsCommit, appliedRow, raftVars, readVars, rdVars, history>>

\* A statement of AppendEntries fails: the rest of the batch is not written
\* and saveToStorage drops the error.
AppendFails ==
  /\ pc \in {"insert", "reinsert", "trim"} /\ ~panicked
  /\ crashes + failures < MaxFaults
  /\ failures' = failures + 1
  /\ pc' = "hardstate"
  /\ UNCHANGED <<tables, raftVars, readVars, rdVars, promised, executed,
                 replaced, crashes>>

SaveHardState ==
  /\ pc = "hardstate" /\ ~panicked
  /\ hsCommit' = rdCommit
  /\ pc' = "send"
  /\ UNCHANGED <<entries, appliedRow, raftVars, readVars, rdVars, history>>

\* saveToStorage drops the error of SaveHardState as well.
HardStateFails ==
  /\ pc = "hardstate" /\ ~panicked
  /\ crashes + failures < MaxFaults
  /\ failures' = failures + 1
  /\ pc' = "send"
  /\ UNCHANGED <<tables, raftVars, readVars, rdVars, promised, executed,
                 replaced, crashes>>

\* sendMessages: the acknowledgements of the entries just saved go out.
SendMessages ==
  /\ pc = "send" /\ ~panicked
  /\ promised' = [i \in Index |->
                    IF rdLo <= i /\ i <= rdHi /\ log[i] = rdLog[i]
                    THEN rdLog[i] ELSE promised[i]]
  /\ pc' = IF applyNext <= applyHi THEN "apply" ELSE "advance"
  /\ UNCHANGED <<tables, raftVars, readVars, rdVars, executed, replaced,
                 crashes, failures>>

\* Mutant of ApplyEntry: one entry too many.
ApplyOneMore ==
  /\ pc = "apply" /\ ~panicked
  /\ appliedRow' \in {appliedRow, applyNext}
  /\ executed' = IF applyNext > executed THEN applyNext ELSE executed
  /\ applyNext' = applyNext + 1
  /\ pc' = IF applyNext <= applyHi THEN "apply" ELSE "advance"
  /\ UNCHANGED <<entries, hsCommit, raftVars, readVars, rdLo, rdHi, rdLog,
                 rdCommit, next, applyHi, promised, replaced, crashes, failures>>

\* One committed entry.  Only an entry that ran without an error moves the
\* applied index: empty entries, configuration changes and statements the
\* database rejected leave it alone.
ApplyEntry ==
  /\ pc = "apply" /\ ~panicked
  /\ appliedRow' \in {appliedRow, applyNext}
  /\ executed' = IF applyNext > executed THEN applyNext ELSE executed
  /\ applyNext' = applyNext + 1
  /\ pc' = IF applyNext < applyHi THEN "apply" ELSE "advance"
  /\ UNCHANGED <<entries, hsCommit, raftVars, readVars, rdLo, rdHi, rdLog,
                 rdCommit, next, applyHi, promised, replaced, crashes, failures>>

\* raftNode.Advance: raftLog.appliedTo and stableTo (only when the last saved
\* entry is still the one in raft's log).
Advance ==
  /\ pc = "advance" /\ RaftIdle
  /\ stable' = IF rdLo <= rdHi /\ rdHi <= last /\ log[rdHi] = rdLog[rdHi]
               THEN rdHi ELSE stable
  /\ raftApplied' = IF applyHi # 0 THEN applyHi ELSE raftApplied
  /\ rdLo' = 1 /\ rdHi' = 0 /\ rdLog' = NoLog /\ rdCommit' = 0
  /\ next' = 1 /\ applyNext' = 1 /\ applyHi' = 0
  /\ pc' = "ready"
  /\ UNCHANGED <<tables, log, last, commit, readVars, history>>

-----------------------------------------------------------------------------
(* Crash and restart.                                                      *)

Crash ==
  /\ pc # "down" /\ ~panicked
  /\ crashes + failures < MaxFaults
  /\ crashes' = crashes + 1
  /\ log' = NoLog /\ last' = 0 /\ stable' = 0 /\ commit' = 0 /\ raftApplied' = 0
  /\ readLo' = 0
  /\ rdLo' = 1 /\ rdHi' = 0 /\ rdLog' = NoLog /\ rdCommit' = 0
  /\ next' = 1 /\ applyNext' = 1 /\ applyHi' = 0
  /\ pc' = "down"
  /\ UNCHANGED <<tables, panicked, promised, executed, replaced, failures>>

\* Mutant of LoadState: the saved commit index is not loaded.
LoadNoHardState ==
  /\ pc = "down"
  /\ FirstIndex - 1 <= hsCommit /\ hsCommit <= LastIndex
  /\ log' = entries
  /\ last' = LastIndex /\ stable' = LastIndex
  /\ commit' = FirstIndex - 1
  /\ pc' = "ready"
  /\ UNCHANGED <<tables, readVars, rdVars, history>>

\* raft.newRaft over the tables: loadState panics on a commit index outside
\* [FirstIndex - 1, LastIndex].
LoadState ==
  /\ pc = "down"
  /\ FirstIndex - 1 <= hsCommit /\ hsCommit <= LastIndex
  /\ log' = entries
  /\ last' = LastIndex /\ stable' = LastIndex
  /\ commit' = hsCommit
  /\ pc' = "ready"
  /\ UNCHANGED <<tables, readVars, rdVars, history>>

\* Mutant of Start: everything committed is taken for applied.
StartAtCommit == LoadState /\ raftApplied' = hsCommit

\* Node.Start leaves config.Applied unset.
Start == LoadState /\ raftApplied' = FirstIndex - 1

\* Node.Restart sets config.Applied from the state row; raftLog.appliedTo
\* panics outside [FirstIndex - 1, commit].
Restart ==
  /\ LoadState
  /\ appliedRow # 0
  /\ FirstIndex - 1 <= appliedRow /\ appliedRow <= hsCommit
  /\ raftApplied' = appliedRow

-----------------------------------------------------------------------------

RaftNext ==
  \/ \E t \in Term : RaftAppend(t)
  \/ \E at \in Index, t \in Term : RaftTruncate(at, t)
  \/ \E c \in Index : RaftCommit(c)
  \/ \E lo \in Index : RaftReadFirst(lo)
  \/ RaftReadEntries

LoopNext ==
  \/ \E page \in 0..MaxIndex : TakeReady(page)
  \/ InsertRow \/ DeleteConflicting \/ ReinsertRow \/ TrimOld \/ AppendFails
  \/ SaveHardState \/ HardStateFails \/ SendMessages \/ ApplyEntry \/ Advance

Next == RaftNext \/ LoopNext \/ Crash \/ Start \/ Restart

Spec == Init /\ [][Next]_vars
-----------------------------------------------------------------------------
(* Properties.                                                             *)

Pc == {"ready", "insert", "reinsert", "trim", "hardstate", "send", "apply",
       "advance", "down"}
LogType == [Index -> 0..MaxTerm]

\* Type invariant of the tables, raft's memory and the loop's locals.
TypeOK ==
  /\ entries \in LogType /\ hsCommit \in 0..MaxIndex /\ appliedRow \in 0..MaxIndex
  /\ log \in LogType /\ last \in 0..MaxIndex /\ stable \in 0..MaxIndex
  /\ commit \in 0..MaxIndex /\ raftApplied \in 0..MaxIndex
  /\ readLo \in 0..MaxIndex /\ panicked \in BOOLEAN
  /\ pc \in Pc
  /\ rdLo \in 1..(MaxIndex + 1) /\ rdHi \in 0..MaxIndex /\ rdLog \in LogType
  /\ rdCommit \in 0..MaxIndex /\ next \in 1..(MaxIndex + 1)
  /\ applyNext \in 1..(MaxIndex + 1) /\ applyHi \in 0..MaxIndex
  /\ promised \in LogType /\ executed \in 0..MaxIndex /\ replaced \in BOOLEAN
  /\ crashes \in 0..MaxFaults /\ failures \in 0..MaxFaults

\* No SQL statement has failed so far (saveToStorage would have dropped its
\* error) and raft has replaced no entry of a Ready while it was being saved.
\* From then on the table may have holes, see EntriesReturnsRange.
Calm == failures = 0 /\ ~replaced

\* The rows of the entries table are consecutive indexes at every moment, a
\* crash between two statements of AppendEntries included.  Storage.Entries
\* and FirstIndex/LastIndex look at the ends of the table only and rely on it.
NoGaps ==
  Calm => \A i, j \in Rows : \A k \in Index : i <= k /\ k <= j => k \in Rows

\* An entry acknowledged to the leader stays in the entries table, with the
\* term it was acknowledged with, until it was executed and retired from the
\* old end or replaced by a new leader: a crash at any statement, the DELETE
\* of conflicting rows included, never loses it.
AckedSurvive ==
  Calm =>
    \A i \in Index :
      promised[i] # NoRow =>
        entries[i] = promised[i] \/ (i < FirstIndex /\ i <= executed)

\* Whatever statement a crash interrupts, raft.loadState accepts the tables:
\* the saved commit index lies within [FirstIndex - 1, LastIndex].
RestartLoads == Calm => FirstIndex - 1 <= hsCommit /\ hsCommit <= LastIndex

\* Once AppendEntries has returned, and no statement ever failed, the table is
\* the tail of raft's log as of that Ready: nothing stale above it, nothing
\* missing or replaced below, also when raft has replaced entries since.
SavedIsReadyLog ==
  failures = 0 /\ pc \in {"hardstate", "send"} /\ rdLo <= rdHi =>
    \A i \in Index :
      IF i > rdHi THEN i \notin Rows
      ELSE i >= FirstIndex => entries[i] = rdLog[i]

\* A range the raft goroutine found readable is served or reported as
\* compacted, even when the main loop deletes rows between its two queries:
\* Storage.Entries answers ErrUnavailable, on which raft panics, only for a
\* range of more rows than the limit raft passed as maxSize.
ReadsServed ==
  [][panicked' /\ ~panicked => ~Calm \/ stable + 1 - readLo > MaxSize]_vars

\* The saved commit index never moves back, whatever statements fail, the
\* process crashing and the next incarnation saving a hard state of its own
\* included: what was once known to be committed stays known.
CommitMonotone == [][hsCommit' >= hsCommit]_vars

\* Committed entries reach processCommittedData in order without a hole:
\* until an insert fails and its error is dropped, the table never begins
\* above an entry that was not executed.
NoneSkipped == [][failures' = 0 => executed' <= executed + 1]_vars

\* The comment on Term (storage.go): it "returns the term of entry i, which
\* must be in the range [FirstIndex()-1, LastIndex()].  The term of the entry
\* before FirstIndex is retained for matching purposes even though the rest of
\* that entry may not be available."
TermRetained == Calm => \A i \in (FirstIndex - 1)..LastIndex : TermOf(i) # UnknownError

\* The comment on Entries (storage.go): it returns the log entries in the
\* range [lo,hi).  Stated for every range raft believes to be stored.  Entries
\* looks at the first and the last row only, so this is about the table: it
\* holds until a statement fails and its error is dropped, or a crash cuts off
\* a batch that goes over retired indexes again.
EntriesReturnsRange ==
  \A lo \in Index, hi \in 1..(MaxIndex + 1) :
    /\ failures = 0 /\ crashes = 0
    /\ lo < hi /\ hi <= stable + 1 /\ Entries(lo, hi).err = "nil"
    => Entries(lo, hi).rows = lo..(hi - 1)
=============================================================================
