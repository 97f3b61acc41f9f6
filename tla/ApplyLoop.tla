------------------------------ MODULE ApplyLoop ------------------------------
(***************************************************************************)
(* How one node's database follows the committed log: the part of          *)
(* runMainLoop and processCommittedData (internal/node/node.go) that       *)
(* executes committed entries, ExecSQL and SaveApplied of the backends     *)
(* (two statements, no transaction), connection errors, a crash between    *)
(* any two steps, and the two ways a node comes back, Start and Restart.   *)
(* The result of a write of this node goes to its caller over a channel    *)
(* without a buffer, so the loop waits for the caller.                     *)
(***************************************************************************)
EXTENDS Naturals, Sequences, FiniteSets

CONSTANTS
  MaxLog,       \* bound: committed entries
  MaxFailures,  \* bound: statements lost to an error that was passed over
  MaxCrashes,   \* bound: crashes of the process
  Compaction    \* does AppendEntries retire old entries (entriesToRetain # 0)

ASSUME ConstantsAssumption ==
  /\ MaxLog \in Nat /\ MaxFailures \in Nat /\ MaxCrashes \in Nat
  /\ Compaction \in BOOLEAN

VARIABLES
  log,         \* kinds of the committed entries, the same on every node
  db,          \* history of the main database: statements that took effect
  appliedRow,  \* state.idx
  first,       \* FirstIndex of the stored log
  cursor,      \* raftLog.applied, in raft's memory
  pc, pos, hi, \* the loop: the entry at hand and the end of rd.CommittedEntries;
               \* "sendNil", "sendErr": at the send, "stuck": nobody receives
  started,     \* history: was the node ever brought back by Node.Start
  failures, crashes

loopVars == <<cursor, pc, pos, hi>>
faults == <<started, failures, crashes>>
vars == <<log, db, appliedRow, first, loopVars, faults>>

\* The promise this module is measured against.
DB == INSTANCE ReplicatedDB WITH hit <- failures + crashes > 0

Init ==
  /\ log = << >> /\ db = << >> /\ appliedRow = 0 /\ first = 1
  /\ cursor = 0 /\ pc = "ready" /\ pos = 0 /\ hi = 0
  /\ started = FALSE /\ failures = 0 /\ crashes = 0

-----------------------------------------------------------------------------
(* Raft (external).                                                        *)

Commit(k) ==
  /\ Len(log) < MaxLog
  /\ log' = Append(log, k)
  /\ UNCHANGED <<db, appliedRow, first, loopVars, faults>>

\* Retention of AppendEntries, at a distance at which it reaches only entries
\* that raft has handed over (module LogStore shows when that is so).
RetireOld ==
  /\ Compaction /\ pc = "ready" /\ first <= cursor
  /\ first' = first + 1
  /\ UNCHANGED <<log, db, appliedRow, loopVars, faults>>

-----------------------------------------------------------------------------
(* The main loop.                                                          *)

\* case rd := <-n.raftNode.Ready(): raft hands over a run of committed entries.
TakeReady(last) ==
  /\ pc = "ready"
  /\ cursor < last /\ last <= Len(log)
  /\ pos' = cursor + 1 /\ hi' = last
  /\ pc' = "entry"
  /\ UNCHANGED <<log, db, appliedRow, first, cursor, faults>>

\* Mutant of Proceed: Advance reports one entry less than was processed.
ProceedShort ==
  IF pos < hi
  THEN pos' = pos + 1 /\ pc' = "entry" /\ UNCHANGED <<cursor, hi>>
  ELSE pos' = 0 /\ hi' = 0 /\ pc' = "ready" /\ cursor' = hi - 1

\* On to the next entry of the Ready; after the last one Advance tells raft.
Proceed ==
  IF pos < hi
  THEN pos' = pos + 1 /\ pc' = "entry" /\ UNCHANGED <<cursor, hi>>
  ELSE pos' = 0 /\ hi' = 0 /\ pc' = "ready" /\ cursor' = hi

\* The end of processCommittedData.  If the entry is a write of a caller on this
\* node (its channel is in pendingWrites), the result is sent to it first.
Release(send) == Proceed \/ (pc' = send /\ UNCHANGED <<cursor, pos, hi>>)

\* backend.ExecSQL: the statement takes effect ...
ExecSQL ==
  /\ pc = "entry" /\ log[pos] = "ok"
  /\ db' = Append(db, pos)
  /\ pc' = "saveApplied"
  /\ UNCHANGED <<log, appliedRow, first, cursor, pos, hi, faults>>

\* Mutant of SaveApplied: the index of the last entry handed over is saved.
SaveAppliedBatch ==
  /\ pc = "saveApplied"
  /\ appliedRow' = hi
  /\ Release("sendNil")
  /\ UNCHANGED <<log, db, first, faults>>

\* ... and the applied index is saved by a statement of its own.
SaveApplied ==
  /\ pc = "saveApplied"
  /\ appliedRow' = pos
  /\ Release("sendNil")
  /\ UNCHANGED <<log, db, first, faults>>

\* DBError: the statement counts as executed, the applied index stays.
RejectedByDB ==
  /\ pc = "entry" /\ log[pos] = "bad"
  /\ Release("sendErr")
  /\ UNCHANGED <<log, db, appliedRow, first, faults>>

\* ch <- err: the caller receives.
Send ==
  /\ pc \in {"sendNil", "sendErr"}
  /\ Proceed
  /\ UNCHANGED <<log, db, appliedRow, first, faults>>

\* The caller's context ended after the loop had taken its channel: it does not
\* receive any more, and the loop is blocked in the send.
CallerGone ==
  /\ pc \in {"sendNil", "sendErr"}
  /\ pc' = "stuck"
  /\ UNCHANGED <<log, db, appliedRow, first, cursor, pos, hi, faults>>

\* Empty entries and configuration changes do not reach the main database.
OtherEntry ==
  /\ pc = "entry" /\ log[pos] \in {"conf", "empty"}
  /\ Proceed
  /\ UNCHANGED <<log, db, appliedRow, first, faults>>

\* Any other error of ExecSQL, of the statement itself or of SaveApplied:
\* processCommittedData returns it and the loop goes on to the next entry.
ConnectionError ==
  /\ pc = "saveApplied" \/ (pc = "entry" /\ log[pos] \in {"ok", "bad"})
  /\ failures < MaxFailures
  /\ failures' = failures + 1
  /\ Proceed
  /\ UNCHANGED <<log, db, appliedRow, first, started, crashes>>

-----------------------------------------------------------------------------
(* Crash and restart.                                                      *)

Crash ==
  /\ pc # "down" /\ crashes < MaxCrashes
  /\ crashes' = crashes + 1
  /\ pc' = "down" /\ cursor' = 0 /\ pos' = 0 /\ hi' = 0
  /\ UNCHANGED <<log, db, appliedRow, first, started, failures>>

\* Node.Start: config.Applied is not set, so raft starts at FirstIndex - 1.
Start ==
  /\ pc = "down"
  /\ cursor' = first - 1
  /\ pc' = "ready"
  /\ started' = TRUE
  /\ UNCHANGED <<log, db, appliedRow, first, pos, hi, failures, crashes>>

\* Mutant of Restart: config.Applied is not set.
RestartUnset ==
  /\ pc = "down"
  /\ cursor' = first - 1
  /\ pc' = "ready"
  /\ UNCHANGED <<log, db, appliedRow, first, pos, hi, faults>>

\* Node.Restart: config.Applied = GetAppliedIndex.  Zero counts as not set;
\* raftLog.appliedTo panics when the index lies before FirstIndex - 1.
Restart ==
  /\ pc = "down"
  /\ appliedRow = 0 \/ first - 1 <= appliedRow
  /\ cursor' = IF appliedRow = 0 THEN first - 1 ELSE appliedRow
  /\ pc' = "ready"
  /\ UNCHANGED <<log, db, appliedRow, first, pos, hi, faults>>

-----------------------------------------------------------------------------

LoopStep ==
  \/ \E last \in 1..Len(log) : TakeReady(last)
  \/ ExecSQL \/ SaveApplied \/ RejectedByDB \/ Send \/ OtherEntry \/ ConnectionError

Next ==
  \/ \E k \in DB!Kind : Commit(k)
  \/ RetireOld \/ LoopStep \/ CallerGone
  \/ Crash \/ Start \/ Restart

Spec == Init /\ [][Next]_vars

\* The main loop's goroutine runs, and a crashed process is started again
\* (the pods of the StatefulSet restart).
FairSpec == Spec /\ WF_vars(LoopStep) /\ WF_vars(Start \/ Restart)

-----------------------------------------------------------------------------
(* Properties.                                                             *)

\* Type invariant: every index is one of the committed log.
TypeOK ==
  /\ log \in Seq(DB!Kind) /\ Len(log) <= MaxLog
  /\ db \in Seq(DOMAIN log) /\ appliedRow \in 0..Len(log)
  /\ first \in 1..(Len(log) + 1) /\ cursor \in 0..Len(log)
  /\ pc \in {"ready", "entry", "saveApplied", "sendNil", "sendErr", "stuck", "down"}
  /\ pos \in 0..hi /\ hi \in 0..Len(log)
  /\ started \in BOOLEAN /\ failures \in 0..MaxFailures /\ crashes \in 0..MaxCrashes

\* The README's promise ("Deterministic application of database changes
\* across all nodes"): until the first statement lost to a connection error or
\* to a busy database, or the first crash, the database executes the accepted
\* statements of the committed log, each once, in order.  Refinement of
\* ReplicatedDB.
ImplementsReplicatedDB == DB!Spec

\* The same sentence of the README for one node: a statement that every database
\* accepts and this loop has passed took effect here.
AllApplied ==
  \A i \in 1..Len(log) :
    log[i] = "ok" /\ (i <= cursor \/ i < pos) => \E n \in 1..Len(db) : db[n] = i

\* No batch boundary, crash or restart loses a committed write; only an error of
\* the connection or of a busy database does.
NoneMissing == failures = 0 => AllApplied

\* A node brought back by Node.Restart only: the database moves along the log
\* one accepted statement at a time, and all a crash can do is repeat the one
\* statement whose SaveApplied it cut off.
AtMostLastRepeated ==
  failures = 0 /\ ~started =>
    \A n \in 1..(Len(db) - 1) : db[n + 1] = db[n] \/ DB!Follows(db[n], db[n + 1])

\* Every committed entry is eventually passed by the loop, and stays passed or
\* is passed again after a restart, whatever fails in between, unless the loop
\* is blocked in the send to a caller that has given up.
CatchesUp == \A i \in 1..MaxLog : i <= Len(log) ~> cursor >= i \/ pc = "stuck"
=============================================================================
