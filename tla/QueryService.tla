---------------------------- MODULE QueryService ----------------------------
(***************************************************************************)
(* Reads beside the main loop: QuerySQL of internal/server/control.go over *)
(* ReadQuery of the node and QuerySQL of the SQLite backend.  A query runs *)
(* in the goroutine of its RPC and reads the local database.  While its    *)
(* rows are open it holds SQLite's shared lock, for as long as the client  *)
(* takes to receive them; a statement of the main loop waits for the lock  *)
(* five seconds and then fails with an error of the database (SQLITE_BUSY).*)
(***************************************************************************)
EXTENDS ApplyLoop, Cells

CONSTANTS
  Queries,  \* the streams of QuerySQL that can be open at once
  Columns   \* the columns asked for: what the driver and the database call the type

\* The counter of failures stops at its bound; at 0 it could not count one.
ASSUME QueryAssumption ==
  /\ IsFiniteSet(Queries) /\ \A c \in Columns : c \in [driver : STRING, name : STRING]
  /\ MaxFailures > 0

VARIABLES
  query,   \* [Queries -> its handler]
  acked    \* history: writes answered with success on this node

queryVars == <<query, acked>>
allVars == <<vars, queryVars>>

\* pc; rows sent; rows there were at the first step; acked when it was opened
Handler(p, n, all, due) == [pc |-> p, sent |-> n, rows |-> all, due |-> due]

\* Before a call, and after one that returned an error.
NoCall == Handler("none", 0, 0, {})

QueryInit == Init /\ query = [q \in Queries |-> NoCall] /\ acked = {}

\* The queries that hold the shared lock.
Reading == {q \in Queries : query[q].pc = "reading"}

-----------------------------------------------------------------------------
(* QuerySQL.  Every statement executed adds a row to the table.            *)

\* ReadQuery asks the local database; the statement is not stepped yet.
ReadQuery == Handler("open", 0, 0, acked)

\* ReadQuery and ColumnTypes.
Open(q) ==
  /\ query[q].pc \notin {"open", "reading"} /\ pc # "down"
  /\ query' = [query EXCEPT ![q] = ReadQuery]
  /\ UNCHANGED <<vars, acked>>

\* rows.Next: the lock is taken at the first step.
NextRow(q) ==
  /\ query[q].pc = "open"
  /\ query' = [query EXCEPT ![q].pc = "reading", ![q].rows = Len(db)]
  /\ UNCHANGED <<vars, acked>>

\* rows.Scan, the cells, and srv.Send of the row.
SendRow(q, c) ==
  /\ query[q].pc = "reading" /\ query[q].sent < Len(db)
  /\ ScanTypeOf(c.driver, c.name) \notin {"nil", "float64"}
  /\ query' = [query EXCEPT ![q].sent = @ + 1]
  /\ UNCHANGED <<vars, acked>>

\* A NULL in a type that takes none, a type without a cell, or a client that
\* is gone: the handler returns and the end of its context closes the rows.
RowFails(q, c) ==
  /\ query[q].pc = "reading" /\ query[q].sent < Len(db)
  /\ ScanTypeOf(c.driver, c.name) # "nil"
  /\ query' = [query EXCEPT ![q] = NoCall]
  /\ UNCHANGED <<vars, acked>>

\* Mutant of RowsEnd: rows.Err() is not looked at.
RowsEndAnyway(q, err) ==
  /\ query[q].pc = "reading"
  /\ err \/ query[q].sent = Len(db)
  /\ query' = [query EXCEPT ![q].pc = "ok", ![q].due = {}]
  /\ UNCHANGED <<vars, acked>>

\* rows.Next is false at the end of the rows, and when the context has ended
\* or the database fails; rows.Err() tells.
RowsEnd(q, err) ==
  /\ query[q].pc = "reading"
  /\ err \/ query[q].sent = Len(db)
  /\ query' = [query EXCEPT ![q] = IF err THEN NoCall ELSE [@ EXCEPT !.pc = "ok", !.due = {}]]
  /\ UNCHANGED <<vars, acked>>

\* The process ends, and with it the RPCs.
Cut == [q \in Queries |-> IF query[q].pc \in {"open", "reading"} THEN NoCall ELSE query[q]]

\* reflect.New of no type panics; nothing recovers, and the process ends.
NoScanType(q, c) ==
  /\ query[q].pc = "reading" /\ query[q].sent < Len(db)
  /\ ScanTypeOf(c.driver, c.name) = "nil"
  /\ Crash
  /\ query' = Cut /\ UNCHANGED acked

QueryStep(q) ==
  \/ Open(q) \/ NextRow(q)
  \/ \E err \in BOOLEAN : RowsEnd(q, err)
  \/ \E c \in Columns : SendRow(q, c) \/ RowFails(q, c) \/ NoScanType(q, c)

-----------------------------------------------------------------------------
(* The main loop, with the lock and the answer to the writer.              *)

\* SQLite grants the write lock when nobody reads.
Execute == Reading = {} /\ ExecSQL /\ UNCHANGED queryVars

\* Mutants of BusyTimeout: the writer is told that the statement was executed;
\* the statement is tried again until it gets the lock.
BusyAcked ==
  /\ Reading # {} /\ pc = "entry" /\ log[pos] = "ok"
  /\ failures' = IF failures < MaxFailures THEN failures + 1 ELSE failures
  /\ Release("sendNil") /\ UNCHANGED acked
  /\ UNCHANGED <<log, db, appliedRow, first, started, crashes, query>>
BusyRetried ==
  /\ Reading # {} /\ pc = "entry" /\ log[pos] = "ok"
  /\ UNCHANGED allVars

\* SQLITE_BUSY is a DBError: "treated as executed", though it was not, but the
\* writer is told.  The count of failures stops at its bound.
BusyTimeout ==
  /\ Reading # {} /\ pc = "entry" /\ log[pos] = "ok"
  /\ failures' = IF failures < MaxFailures THEN failures + 1 ELSE failures
  /\ Release("sendErr")
  /\ UNCHANGED <<log, db, appliedRow, first, started, crashes, queryVars>>

\* The result reaches the writer.
Acknowledge ==
  /\ Send
  /\ acked' = IF pc = "sendNil" THEN acked \cup {pos} ELSE acked
  /\ UNCHANGED query

LoopNext ==
  \/ Execute \/ BusyTimeout \/ Acknowledge
  \/ /\ \/ \E last \in 1..Len(log) : TakeReady(last)
        \/ SaveApplied \/ RejectedByDB \/ OtherEntry \/ ConnectionError
     /\ UNCHANGED queryVars

Die == Crash /\ query' = Cut /\ UNCHANGED acked
ComeBack == (Start \/ Restart) /\ UNCHANGED queryVars

QueryNext ==
  \/ \E q \in Queries : QueryStep(q)
  \/ LoopNext \/ Die \/ ComeBack
  \/ (RetireOld \/ CallerGone \/ \E k \in DB!Kind : Commit(k)) /\ UNCHANGED queryVars

\* As in ApplyLoop.  Nothing is assumed of the queries: a client may stop
\* receiving and keep the rows open for ever.  A caller that waits for the result
\* of its write receives it, or is gone.
QuerySpec ==
  /\ QueryInit /\ [][QueryNext]_allVars
  /\ WF_allVars(LoopNext) /\ WF_allVars(ComeBack)

-----------------------------------------------------------------------------
(* Properties.                                                             *)

\* Type invariant.
QueryTypeOK ==
  /\ TypeOK
  /\ query \in [Queries -> [pc : {"open", "reading", "ok", "none"},
                            sent : Nat, rows : Nat, due : SUBSET (1..MaxLog)]]
  /\ \A q \in Queries : query[q].sent <= Len(db)
  /\ acked \subseteq 1..Len(log)

\* The rows a query has sent tell the client what is in the database, but for
\* the values that have no exact cell (CellsKept).
RowsKept == \A q \in Queries : query[q].sent > 0 => CellsKept

\* A query that ended without an error sent every row, and the rows it sent
\* are those of one state of the database: what the main loop executes in
\* between neither adds to them nor is missed.
StreamComplete ==
  \A q \in Queries : query[q].pc = "ok" => query[q].sent = query[q].rows

\* The comment on ReadQuery (node.go) allows a follower's read to be stale.
\* On the node that answered the write a read is not: a query opened after
\* the answer reads a database with the statement in it, whatever failed,
\* timed out or was restarted in between.
ReadYourWrites ==
  \A q \in Reading : \A i \in query[q].due : \E n \in 1..Len(db) : db[n] = i
=============================================================================
