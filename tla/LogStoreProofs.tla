--------------------------- MODULE LogStoreProofs ---------------------------
(***************************************************************************)
(* Proofs about LogStore, for every value of the bounds.  Consecutive rows,*)
(* acknowledged entries and restarts are about the time before the first   *)
(* failure or replacement of an entry that is being saved (Calm), and need *)
(* a retention of more rows than raft's log may run ahead of execution     *)
(* (SafeRetention).  What a saved Ready leaves in the table, what Entries  *)
(* returns of it, and that no entry is skipped hold with entries replaced  *)
(* as well and need of retention only KeepsUnapplied; neither the types    *)
(* nor the saved commit index need a condition at all.                     *)
(***************************************************************************)
EXTENDS LogStore, FiniteSetTheorems, WellFoundedInduction, TLAPS

SafeRetention == Retain = 0 \/ MaxUnapplied < Retain

-----------------------------------------------------------------------------
(* The inductive invariant.  Its parts avoid FirstIndex and LastIndex and  *)
(* speak of rows directly.                                                 *)

Row(i) == entries[i] # NoRow
Up == pc # "down"
Batch == rdLo <= rdHi
Saving == pc \in {"insert", "reinsert", "trim", "hardstate"}
Saved == pc \in {"send", "apply", "advance"}

\* Raft's memory: nothing above last, an entry at every unstable index.
LogInv == Up =>
  /\ stable <= last /\ hsCommit <= commit /\ commit <= last
  /\ last <= executed + MaxUnapplied
  /\ \A i \in Index : i > last => log[i] = NoRow
  /\ \A i \in Index : stable < i /\ i <= last => log[i] # NoRow

\* The Ready at hand is still what raft has in memory.
ReadyInv ==
  /\ Saving \/ Saved =>
       /\ rdCommit <= commit /\ hsCommit <= rdCommit /\ applyHi <= rdCommit
       /\ Batch =>
            /\ rdLo = stable + 1 /\ rdHi <= last /\ rdCommit <= rdHi
            /\ \A i \in Index : i <= rdHi => rdLog[i] = log[i]
       /\ ~Batch => rdCommit <= stable /\ pc \notin {"insert", "reinsert", "trim"}
  /\ pc \in {"insert", "reinsert"} => rdLo <= next /\ next <= rdHi
  /\ pc = "trim" => Retain # 0
  /\ Saved => hsCommit = rdCommit
  /\ Up /\ ~Saved => hsCommit <= stable

\* What has been executed is saved as committed, and nothing is left out.
ExecInv ==
  /\ executed <= hsCommit /\ appliedRow <= executed
  /\ Up => raftApplied <= executed
  /\ Saving \/ pc \in {"send", "apply"} => applyNext <= executed + 1
  /\ pc = "apply" => applyNext <= applyHi
  /\ pc = "advance" => applyHi <= executed

\* The rows: the last executed, the commit and the stable index are among
\* them, and below any row only executed entries are missing.
RowsInv ==
  /\ executed > 0 => Row(executed)
  /\ hsCommit > 0 => Row(hsCommit)
  /\ Up /\ stable > 0 => Row(stable)
  /\ \A r \in Index : Row(r) => r <= executed + MaxUnapplied
  /\ \A r, k \in Index : Row(r) /\ k < r => Row(k) \/ k < executed
  /\ \A i, j, k \in Index : Row(i) /\ Row(j) /\ i <= k /\ k <= j => Row(k)

\* How far AppendEntries has come with the batch.
BatchInv ==
  /\ pc \in {"insert", "reinsert"} =>
       /\ \A i \in Index : rdLo <= i /\ i < next => entries[i] = rdLog[i]
       /\ next > rdLo \/ pc = "reinsert" => \A r \in Index : Row(r) => r < next
  /\ pc \in {"trim", "hardstate", "send", "apply", "advance"} /\ Batch =>
       /\ \A i \in Index : rdLo <= i /\ i <= rdHi => entries[i] = rdLog[i]
       /\ \A r \in Index : Row(r) => r <= rdHi

\* What raft believes stored, and what was acknowledged, is in the table
\* unless it was executed and retired.
StoredInv ==
  /\ Up => \A i \in Index : i <= stable =>
       entries[i] = log[i] \/ (entries[i] = NoRow /\ i < executed)
  /\ \A i \in Index : promised[i] # NoRow =>
       /\ entries[i] = promised[i] \/ (entries[i] = NoRow /\ i < executed)
       /\ Up => i <= stable \/ (pc \in {"apply", "advance"} /\ i <= rdHi /\ Batch)

IInv == TypeOK /\ LogInv /\ ReadyInv /\ ExecInv /\ RowsInv /\ BatchInv /\ StoredInv

-----------------------------------------------------------------------------
(* The ends of the table.                                                  *)

\* A non-empty set of natural numbers has a least element, Min.
LEMMA MinOfNats ==
  ASSUME NEW S \in SUBSET Nat, S # {}
  PROVE  Min(S) \in S /\ \A y \in S : Min(S) <= y
<1>1. IsWellFoundedOn(OpToRel(<, Nat), Nat)
  BY NatLessThanWellFounded
<1>2. PICK x \in S : \A y \in S : ~(<<y, x>> \in OpToRel(<, Nat))
  BY <1>1, WFMin, Zenon
<1>3. \A y \in S : <<y, x>> \notin OpToRel(<, Nat) => x <= y
  BY DEF OpToRel
<1>4. \E m \in S : \A y \in S : m <= y
  BY <1>2, <1>3
<1> QED
  BY <1>4 DEF Min

\* A non-empty set of numbers up to n has a greatest element, Max.
LEMMA MaxOfBounded ==
  ASSUME NEW n \in Nat, NEW S \in SUBSET (0..n), S # {}
  PROVE  Max(S) \in S /\ \A y \in S : y <= Max(S)
<1> DEFINE T == {k \in 0..n : n - k \in S}
<1>1. PICK s \in S : TRUE
  OBVIOUS
<1>2. n - s \in T
  BY <1>1
<1>3. T \in SUBSET Nat /\ T # {}
  BY <1>2
<1> DEFINE m == Min(T)
<1>4. m \in T /\ \A y \in T : m <= y
  BY <1>3, MinOfNats
<1> HIDE DEF m
<1>5. \A y \in S : n - y \in T
  OBVIOUS
<1>6. \A y \in S : y <= n - m
  BY <1>4, <1>5
<1>7. \E x \in S : \A y \in S : x >= y
  BY <1>4, <1>6
<1> QED
  BY <1>7 DEF Max

\* The first and the last row, in terms of rows.
LEMMA TableEnds ==
  ASSUME TypeOK
  PROVE  /\ FirstIndex \in 1..(MaxIndex + 1) /\ LastIndex \in 0..MaxIndex
         /\ \A r \in Index : Row(r) => FirstIndex <= r /\ r <= LastIndex
         /\ LastIndex # 0 => LastIndex \in Index /\ Row(LastIndex)
         /\ FirstIndex # 1 => FirstIndex \in Index /\ Row(FirstIndex)
<1>1. \A r \in Index : r \in Rows <=> Row(r)
  BY DEF Rows, Row
<1>2. CASE Rows = {}
  <2>1. FirstIndex = 1 /\ LastIndex = 0
    BY <1>2 DEF FirstIndex, LastIndex
  <2> QED
    BY <1>1, <1>2, <2>1, BoundsAssumption DEF Index
<1>3. CASE Rows # {}
  <2>1. Rows \in SUBSET Nat /\ Rows \in SUBSET (0..MaxIndex) /\ Rows \in SUBSET Index
    BY BoundsAssumption DEF Rows, Index
  <2>2. FirstIndex = Min(Rows) /\ LastIndex = Max(Rows)
    BY <1>3 DEF FirstIndex, LastIndex
  <2>3. FirstIndex \in Rows /\ \A y \in Rows : FirstIndex <= y
    BY <1>3, <2>1, <2>2, MinOfNats
  <2>4. LastIndex \in Rows /\ \A y \in Rows : y <= LastIndex
    BY <1>3, <2>1, <2>2, MaxOfBounded, BoundsAssumption
  <2>5. FirstIndex \in Index /\ LastIndex \in Index
    BY <2>1, <2>3, <2>4
  <2>6. FirstIndex \in 1..(MaxIndex + 1) /\ LastIndex \in 0..MaxIndex
    BY <2>5, BoundsAssumption DEF Index
  <2> QED
    BY <1>1, <2>3, <2>4, <2>5, <2>6
<1> QED
  BY <1>2, <1>3

\* FirstIndex is a row unless the table is empty.
LEMMA FirstIsRow ==
  ASSUME TypeOK, NEW r \in Index, Row(r)
  PROVE  FirstIndex \in Rows
<1>1. Rows # {} /\ Rows \in SUBSET Nat
  BY BoundsAssumption DEF Rows, Row, Index
<1> QED
  BY <1>1, MinOfNats DEF FirstIndex

\* The empty log and one more entry are logs.
LEMMA LogUpdate ==
  /\ NoLog \in LogType
  /\ \A f \in LogType, t \in 0..MaxTerm : \A i : [f EXCEPT ![i] = t] \in LogType
<1>1. NoLog \in LogType
  BY BoundsAssumption DEF NoLog, LogType, NoRow
<1>2. ASSUME NEW f \in LogType, NEW t \in 0..MaxTerm, NEW i
      PROVE  [f EXCEPT ![i] = t] \in LogType
  BY <1>2 DEF LogType
<1> QED
  BY <1>1, <1>2

\* Retention has not passed the last executed entry.
LEMMA FirstNotPastExecuted ==
  ASSUME IInv
  PROVE  FirstIndex <= executed + 1
<1>1. CASE executed > 0
  BY <1>1, TableEnds, BoundsAssumption DEF IInv, TypeOK, RowsInv, Index
<1>2. CASE executed = 0
  <2>1. SUFFICES ASSUME FirstIndex > 1 PROVE FALSE
    BY <1>2, TableEnds, BoundsAssumption DEF IInv
  <2>2. FirstIndex \in Index /\ 1 \in Index /\ Row(FirstIndex)
    BY <2>1, TableEnds, BoundsAssumption DEF IInv, Index
  <2>3. Row(1)
    BY <1>2, <2>1, <2>2, BoundsAssumption DEF IInv, RowsInv, Index
  <2> QED
    BY <2>1, <2>2, <2>3, TableEnds, BoundsAssumption DEF IInv, Index
<1> QED
  BY <1>1, <1>2, BoundsAssumption DEF IInv, TypeOK

-----------------------------------------------------------------------------
(* The invariant holds initially and every action keeps it.                *)

\* The invariant holds of the empty tables a node starts with.
LEMMA InitInv == Init => IInv
<1> SUFFICES ASSUME Init PROVE IInv
  OBVIOUS
<1>1. panicked \in BOOLEAN /\ replaced \in BOOLEAN /\ pc \in Pc
  BY DEF Init, Pc
<1>2. TypeOK
  BY <1>1, LogUpdate, BoundsAssumption DEF Init, TypeOK
<1>3. \A i \in Index : entries[i] = NoRow /\ log[i] = NoRow /\ promised[i] = NoRow
  BY DEF Init, NoLog
<1>4. LogInv /\ ReadyInv /\ ExecInv
  BY <1>3, BoundsAssumption DEF Init, LogInv, ReadyInv, ExecInv, Saving, Saved, Index
<1>5. RowsInv /\ BatchInv /\ StoredInv
  BY <1>3, BoundsAssumption DEF Init, RowsInv, BatchInv, StoredInv, Row, Index
<1> QED
  BY <1>2, <1>4, <1>5 DEF IInv

\* A new entry in raft's memory is above everything stored.
LEMMA RaftAppendInv ==
  ASSUME SafeRetention, IInv, NEW t \in Term, RaftAppend(t)
  PROVE  IInv'
<1>1. TypeOK'
  <2>1. log \in LogType /\ t \in 0..MaxTerm /\ log' = [log EXCEPT ![last + 1] = t]
    BY BoundsAssumption DEF IInv, TypeOK, RaftAppend, Term
  <2>2. log' \in LogType
    BY <2>1, LogUpdate
  <2> QED
    BY <2>2, BoundsAssumption
    DEF IInv, TypeOK, RaftAppend, tables, readVars, rdVars, history
<1>2. LogInv'
  BY BoundsAssumption
  DEF IInv, RaftAppend, TypeOK, LogInv, LogType, Up, Index, Term, NoRow,
      tables, history
<1>3. ReadyInv'
  BY DEF IInv, RaftAppend, TypeOK, ReadyInv, Up, Batch, Saving, Saved, tables,
    rdVars
<1>4. ExecInv'
  BY DEF IInv, RaftAppend, ExecInv, Up, Saving, tables, rdVars, history
<1>5. RowsInv'
  BY DEF IInv, RaftAppend, RowsInv, Row, Up, tables, history
<1>6. BatchInv'
  BY DEF IInv, RaftAppend, BatchInv, Row, Batch, tables, rdVars
<1>7. StoredInv'
  BY DEF IInv, RaftAppend, TypeOK, LogInv, StoredInv, Up, Batch, tables, rdVars,
    history
<1> QED
  BY <1>1, <1>2, <1>3, <1>4, <1>5, <1>6, <1>7 DEF IInv

\* As long as a conflicting MsgApp replaces nothing of a Ready being saved, what
\* was acknowledged from there on binds nobody any more.
LEMMA RaftTruncateInv ==
  ASSUME SafeRetention, IInv, NEW at \in Index, NEW t \in Term, RaftTruncate(at, t),
         ~replaced'
  PROVE  IInv'
<1>1. TypeOK'
  <2>1. log' \in LogType /\ promised' \in LogType
    BY BoundsAssumption
    DEF IInv, TypeOK, RaftTruncate, LogType, Term, NoRow
  <2>2. stable' \in 0..MaxIndex /\ last' \in 0..MaxIndex
    BY BoundsAssumption DEF IInv, TypeOK, RaftTruncate, Index
  <2>3. UNCHANGED <<tables, commit, raftApplied, readVars, pc, rdVars, executed, crashes, failures>>
    BY DEF RaftTruncate
  <2> QED
    BY <2>1, <2>2, <2>3 DEF IInv, TypeOK, RaftTruncate, tables, readVars, rdVars
<1>2. LogInv'
  BY BoundsAssumption
  DEF IInv, RaftTruncate, TypeOK, LogInv, Up, Index, Term, NoRow, tables
<1>3. ReadyInv'
  <2>1. UNCHANGED <<hsCommit, commit, pc, rdVars>> /\ commit < at /\ last' = at
    BY DEF RaftTruncate, tables
  <2>2. stable' = IF at <= stable THEN at - 1 ELSE stable
    BY DEF RaftTruncate
  <2>3. (Saving \/ Saved) /\ Batch => rdHi < at
    <3>1. ~(pc # "ready" /\ rdLo <= rdHi /\ at <= rdHi)
      BY Zenon DEF RaftTruncate
    <3> QED
      BY <3>1 DEF IInv, TypeOK, Saving, Saved, Batch, Index
  <2>4. \A i \in Index : i < at => log'[i] = log[i]
    BY DEF RaftTruncate
  <2>5. hsCommit <= commit
    BY DEF IInv, LogInv, RaftTruncate, RaftIdle, Up
  <2>6. ASSUME Saving \/ Saved, Batch
        PROVE  /\ rdLo = stable' + 1 /\ rdHi <= at /\ rdCommit <= rdHi
               /\ \A i \in Index : i <= rdHi => rdLog[i] = log'[i]
    BY <2>2, <2>3, <2>4, <2>6, BoundsAssumption DEF IInv, TypeOK, ReadyInv, Batch, Index
  <2>7. ASSUME Saving \/ Saved, ~Batch
        PROVE  rdCommit <= stable'
    BY <2>1, <2>2, <2>7, BoundsAssumption DEF IInv, TypeOK, ReadyInv, Index
  <2>8. Up /\ ~Saved => hsCommit <= stable'
    BY <2>1, <2>2, <2>5, BoundsAssumption DEF IInv, TypeOK, ReadyInv, Index
  <2> QED
    BY <2>1, <2>6, <2>7, <2>8 DEF IInv, ReadyInv, Saving, Saved, Batch, Up, rdVars
<1>4. ExecInv'
  BY DEF IInv, RaftTruncate, ExecInv, Up, Saving, tables, rdVars
<1>5. RowsInv'
  <2>1. stable' = stable \/ (stable' = at - 1 /\ at <= stable)
    BY DEF RaftTruncate
  <2>2. ASSUME at <= stable, at > 1
        PROVE  Row(at - 1)
    <3>1. at - 1 \in Index /\ stable \in Index /\ Row(stable) /\ at - 1 < stable
      BY <2>2, BoundsAssumption DEF IInv, RaftTruncate, RaftIdle, RowsInv, Up, TypeOK, Index
    <3>2. ~(at - 1 < executed)
      BY BoundsAssumption
      DEF IInv, RaftTruncate, RaftIdle, LogInv, ExecInv, Up, TypeOK, Index
    <3> QED
      BY <3>1, <3>2 DEF IInv, RowsInv
  <2>3. Up' /\ stable' > 0 => Row(stable)'
    BY <2>1, <2>2, BoundsAssumption
    DEF IInv, RaftTruncate, TypeOK, RowsInv, Up, Row, RaftIdle, Index, tables
  <2> QED
    BY <2>3 DEF IInv, RaftTruncate, RowsInv, Row, tables
<1>6. BatchInv'
  BY DEF IInv, RaftTruncate, BatchInv, Row, Batch, tables, rdVars
<1>7. StoredInv'
  <2>1. \A i \in Index : i < at => log'[i] = log[i] /\ promised'[i] = promised[i]
    BY DEF RaftTruncate
  <2>2. \A i \in Index : i >= at => promised'[i] = NoRow
    BY BoundsAssumption DEF RaftTruncate, Index
  <2>9. stable' = IF at <= stable THEN at - 1 ELSE stable
    BY DEF RaftTruncate
  <2>3. Up
    BY DEF RaftTruncate, RaftIdle, Up
  <2>4. \A i \in Index : i < at /\ i <= stable => i <= stable'
    BY BoundsAssumption DEF IInv, RaftTruncate, TypeOK, Index
  <2>6. UNCHANGED <<entries, executed, pc, rdLo, rdHi>>
    BY DEF RaftTruncate, tables, rdVars
  <2>7. \A i \in Index : i <= stable' =>
          entries'[i] = log'[i] \/ (entries'[i] = NoRow /\ i < executed')
    <3> SUFFICES ASSUME NEW i \in Index, i <= stable'
                 PROVE  entries'[i] = log'[i] \/ (entries'[i] = NoRow /\ i < executed')
      OBVIOUS
    <3>1. i < at /\ i <= stable
      BY <2>9, BoundsAssumption DEF IInv, TypeOK, Index
    <3> QED
      BY <2>1, <2>3, <2>6, <3>1 DEF IInv, StoredInv
  <2>8. ASSUME NEW i \in Index, promised'[i] # NoRow
        PROVE  /\ entries'[i] = promised'[i] \/ (entries'[i] = NoRow /\ i < executed')
               /\ i <= stable' \/ (pc' \in {"apply", "advance"} /\ i <= rdHi' /\ Batch')
    <3>1. i < at /\ promised[i] # NoRow
      BY <2>1, <2>2, <2>8, BoundsAssumption DEF Index
    <3> QED
      BY <2>1, <2>3, <2>4, <2>6, <3>1 DEF IInv, StoredInv, Batch
  <2> QED
    BY <2>7, <2>8 DEF StoredInv
<1> QED
  BY <1>1, <1>2, <1>3, <1>4, <1>5, <1>6, <1>7 DEF IInv

\* Raft's commit index moves within its log.
LEMMA RaftCommitInv ==
  ASSUME SafeRetention, IInv, NEW c \in Index, RaftCommit(c)
  PROVE  IInv'
<1>1. TypeOK'
  BY DEF IInv, RaftCommit, TypeOK, Index, tables, readVars, rdVars, history
<1>2. LogInv'
  BY DEF IInv, RaftCommit, TypeOK, LogInv, Up, Index, tables, history
<1>3. ReadyInv'
  BY DEF IInv, RaftCommit, TypeOK, ReadyInv, Up, Batch, Saving, Saved, Index,
    tables, rdVars
<1>4. ExecInv'
  BY DEF IInv, RaftCommit, ExecInv, Up, Saving, tables, rdVars, history
<1>5. RowsInv'
  BY DEF IInv, RaftCommit, RowsInv, Row, Up, tables, history
<1>6. BatchInv'
  BY DEF IInv, RaftCommit, BatchInv, Row, Batch, tables, rdVars
<1>7. StoredInv'
  BY DEF IInv, RaftCommit, StoredInv, Up, Batch, tables, rdVars, history
<1> QED
  BY <1>1, <1>2, <1>3, <1>4, <1>5, <1>6, <1>7 DEF IInv

\* The first half of slice() only reads.
LEMMA RaftReadFirstInv ==
  ASSUME SafeRetention, IInv, NEW lo \in Index, RaftReadFirst(lo)
  PROVE  IInv'
<1>1. TypeOK'
  BY BoundsAssumption
  DEF IInv, RaftReadFirst, TypeOK, Index, tables, raftVars, rdVars, history
<1>2. LogInv'
  BY DEF IInv, RaftReadFirst, LogInv, Up, tables, raftVars, history
<1>3. ReadyInv'
  BY DEF IInv, RaftReadFirst, ReadyInv, Up, Batch, Saving, Saved, tables,
    raftVars, rdVars
<1>4. ExecInv'
  BY DEF IInv, RaftReadFirst, ExecInv, Up, Saving, tables, raftVars, rdVars,
    history
<1>5. RowsInv'
  BY DEF IInv, RaftReadFirst, RowsInv, Row, Up, tables, raftVars, history
<1>6. BatchInv'
  BY DEF IInv, RaftReadFirst, BatchInv, Row, Batch, tables, rdVars
<1>7. StoredInv'
  BY DEF IInv, RaftReadFirst, StoredInv, Up, Batch, tables, raftVars, rdVars,
    history
<1> QED
  BY <1>1, <1>2, <1>3, <1>4, <1>5, <1>6, <1>7 DEF IInv

\* The second half of slice() only reads.
LEMMA RaftReadEntriesInv ==
  ASSUME SafeRetention, IInv, RaftReadEntries
  PROVE  IInv'
<1>1. TypeOK'
  BY BoundsAssumption
  DEF IInv, RaftReadEntries, TypeOK, tables, raftVars, rdVars, history
<1>2. LogInv'
  BY DEF IInv, RaftReadEntries, LogInv, Up, tables, raftVars, history
<1>3. ReadyInv'
  BY DEF IInv, RaftReadEntries, ReadyInv, Up, Batch, Saving, Saved, tables,
    raftVars, rdVars
<1>4. ExecInv'
  BY DEF IInv, RaftReadEntries, ExecInv, Up, Saving, tables, raftVars, rdVars,
    history
<1>5. RowsInv'
  BY DEF IInv, RaftReadEntries, RowsInv, Row, Up, tables, raftVars, history
<1>6. BatchInv'
  BY DEF IInv, RaftReadEntries, BatchInv, Row, Batch, tables, rdVars
<1>7. StoredInv'
  BY DEF IInv, RaftReadEntries, StoredInv, Up, Batch, tables, raftVars, rdVars,
    history
<1> QED
  BY <1>1, <1>2, <1>3, <1>4, <1>5, <1>6, <1>7 DEF IInv

\* A Ready starts after the stable index and hands over entries from the next
\* one to execute on.
LEMMA TakeReadyInv ==
  ASSUME SafeRetention, IInv, NEW page \in 0..MaxIndex, TakeReady(page)
  PROVE  IInv'
<1>1. TypeOK'
  <2>1. FirstIndex \in 1..(MaxIndex + 1)
    BY TableEnds DEF IInv
  <2>2. NextOffset \in 1..(MaxIndex + 1) /\ NextOffset <= executed + 1
    BY <2>1, FirstNotPastExecuted, BoundsAssumption
    DEF IInv, TypeOK, NextOffset, ExecInv, TakeReady, Up
  <2>3. pc' \in Pc
    BY DEF TakeReady, Pc
  <2> QED
    BY <2>2, <2>3, BoundsAssumption
    DEF IInv, TypeOK, TakeReady, tables, raftVars, readVars, history
<1>2. LogInv'
  BY DEF IInv, TakeReady, NextOffset, LogInv, Up, tables, raftVars, history
<1>3. ReadyInv'
  <2>1. page <= commit
    BY BoundsAssumption DEF IInv, TypeOK, TakeReady
  <2>2. UNCHANGED <<hsCommit, log, last, stable, commit>> /\ pc = "ready"
    BY DEF TakeReady, tables, raftVars
  <2>3. pc' = (IF stable < last THEN "insert" ELSE "hardstate")
    BY DEF TakeReady
  <2> QED
    BY <2>1, <2>2, <2>3, BoundsAssumption
    DEF IInv, TypeOK, LogInv, ReadyInv, TakeReady, Saving, Saved, Batch, Up
<1>4. ExecInv'
  <2>1. FirstIndex \in 1..(MaxIndex + 1)
    BY TableEnds DEF IInv
  <2>2. NextOffset \in 1..(MaxIndex + 1) /\ NextOffset <= executed + 1
    BY <2>1, FirstNotPastExecuted, BoundsAssumption
    DEF IInv, TypeOK, NextOffset, ExecInv, TakeReady, Up
  <2>3. pc' \in {"insert", "hardstate"}
    BY DEF TakeReady
  <2> QED
    BY <2>2, <2>3 DEF IInv, ExecInv, TakeReady, Up, tables, raftVars, history
<1>5. RowsInv'
  BY DEF IInv, TakeReady, NextOffset, RowsInv, Row, Up, tables, raftVars,
    history
<1>6. BatchInv'
  BY DEF IInv, TakeReady, NextOffset, TypeOK, BatchInv, Batch, Index
<1>7. StoredInv'
  BY DEF IInv, TakeReady, NextOffset, StoredInv, Up, tables, raftVars, history
<1> QED
  BY <1>1, <1>2, <1>3, <1>4, <1>5, <1>6, <1>7 DEF IInv

\* tryInsert of the next row of the batch keeps the rows consecutive.
LEMMA InsertRowInv ==
  ASSUME SafeRetention, IInv, InsertRow
  PROVE  IInv'
<1>1. TypeOK'
  BY BoundsAssumption
  DEF IInv, InsertRow, AfterRow, TypeOK, ReadyInv, RowsInv, LogType, Pc, Row,
      Saving, Index, raftVars, readVars, history
<1>2. LogInv'
  BY DEF IInv, InsertRow, LogInv, Up, raftVars, history
<1>3. ReadyInv'
  BY DEF IInv, InsertRow, AfterRow, TypeOK, ReadyInv, Up, Batch, Saving, Saved,
    raftVars
<1>4. ExecInv'
  BY DEF IInv, InsertRow, AfterRow, ExecInv, Up, Saving, raftVars, history
<1>5. RowsInv'
  <2>1. /\ next \in Index /\ rdLog[next] # NoRow /\ rdLo <= next /\ rdLo = stable + 1
        /\ executed <= stable /\ next <= executed + MaxUnapplied /\ hsCommit <= stable
    BY BoundsAssumption
    DEF IInv, InsertRow, TypeOK, LogInv, ReadyInv, ExecInv, Saving, Saved, Up, Batch, Index
  <2>2. \A i \in Index : entries'[i] = IF i = next THEN rdLog[next] ELSE entries[i]
    BY <2>1 DEF IInv, TypeOK, LogType, InsertRow
  <2>3. \A i \in Index : Row(i)' <=> Row(i) \/ i = next
    BY <2>1, <2>2 DEF Row
  <2>4. \A r \in Index : Row(r) => r < next
    <3> SUFFICES ASSUME NEW r \in Index, Row(r), r >= next PROVE FALSE
      BY <2>1, BoundsAssumption DEF Index
    <3>1. r # next /\ ~(next < executed)
      BY <2>1, BoundsAssumption DEF InsertRow, Row, IInv, TypeOK, Index
    <3>2. Row(next)
      BY <2>1, <3>1, BoundsAssumption DEF IInv, RowsInv, Index
    <3> QED
      BY <3>2 DEF InsertRow, Row
  <2>5. next > 1 => next - 1 \in Index /\ Row(next - 1)
    <3> SUFFICES ASSUME next > 1 PROVE next - 1 \in Index /\ Row(next - 1)
      OBVIOUS
    <3>1. next - 1 \in Index
      BY <2>1, BoundsAssumption DEF Index
    <3>2. CASE next = rdLo
      BY <2>1, <3>1, <3>2, BoundsAssumption DEF IInv, RowsInv, InsertRow, Up, TypeOK, Index
    <3>3. CASE next > rdLo
      <4>1. rdLo <= next - 1 /\ next - 1 < next /\ next - 1 <= rdHi
        BY <2>1, <3>1, <3>3, BoundsAssumption
        DEF IInv, ReadyInv, InsertRow, Saving, TypeOK, Index
      <4>2. entries[next - 1] = rdLog[next - 1]
        BY <3>1, <4>1 DEF IInv, BatchInv, InsertRow
      <4>3. rdLog[next - 1] # NoRow
        BY <2>1, <3>1, <4>1, BoundsAssumption
        DEF IInv, ReadyInv, LogInv, InsertRow, Saving, Batch, Up, TypeOK, Index
      <4> QED
        BY <3>1, <4>2, <4>3 DEF Row
    <3> QED
      BY <2>1, <3>2, <3>3, BoundsAssumption DEF IInv, TypeOK, Index
  <2>6. UNCHANGED <<executed, hsCommit, stable>> /\ Up /\ Up'
    BY DEF InsertRow, AfterRow, Up, raftVars, history
  <2>7. /\ executed' > 0 => Row(executed)'
        /\ hsCommit' > 0 => Row(hsCommit)'
        /\ stable' > 0 => Row(stable)'
    BY <2>3, <2>6, BoundsAssumption DEF IInv, RowsInv, TypeOK, Index
  <2>8. \A r \in Index : Row(r)' => r <= executed' + MaxUnapplied
    BY <2>1, <2>3, <2>6, BoundsAssumption DEF IInv, RowsInv, Index
  <2>9. \A r, k \in Index : Row(r)' /\ k < r => Row(k)' \/ k < executed'
    BY <2>1, <2>3, <2>5, <2>6, BoundsAssumption DEF IInv, RowsInv, Index
  <2>10. \A i, j, k \in Index : Row(i)' /\ Row(j)' /\ i <= k /\ k <= j => Row(k)'
    BY <2>1, <2>3, <2>4, <2>5, BoundsAssumption DEF IInv, RowsInv, Index
  <2> QED
    BY <2>6, <2>7, <2>8, <2>9, <2>10 DEF RowsInv
<1>6. BatchInv'
  <2>1. /\ next \in Index /\ rdLog[next] # NoRow /\ rdLo <= next /\ rdLo = stable + 1
        /\ executed <= stable /\ next <= executed + MaxUnapplied /\ hsCommit <= stable
    BY BoundsAssumption
    DEF IInv, InsertRow, TypeOK, LogInv, ReadyInv, ExecInv, Saving, Saved, Up, Batch, Index
  <2>2. \A i \in Index : entries'[i] = IF i = next THEN rdLog[next] ELSE entries[i]
    BY <2>1 DEF IInv, TypeOK, LogType, InsertRow
  <2>3. \A i \in Index : Row(i)' <=> Row(i) \/ i = next
    BY <2>1, <2>2 DEF Row
  <2>4. \A r \in Index : Row(r) => r < next
    <3> SUFFICES ASSUME NEW r \in Index, Row(r), r >= next PROVE FALSE
      BY <2>1, BoundsAssumption DEF Index
    <3>1. r # next /\ ~(next < executed)
      BY <2>1, BoundsAssumption DEF InsertRow, Row, IInv, TypeOK, Index
    <3>2. Row(next)
      BY <2>1, <3>1, BoundsAssumption DEF IInv, RowsInv, Index
    <3> QED
      BY <3>2 DEF InsertRow, Row
  <2>6. UNCHANGED <<rdLo, rdHi, rdLog>> /\ next' = next + 1
    BY DEF InsertRow
  <2>7. pc' = "insert" \/ (pc' \in {"trim", "hardstate"} /\ next = rdHi)
    BY <2>1, BoundsAssumption DEF IInv, ReadyInv, InsertRow, AfterRow, TypeOK
  <2>8. \A i \in Index : rdLo <= i /\ i <= next => entries'[i] = rdLog[i]
    BY <2>1, <2>2, BoundsAssumption DEF IInv, BatchInv, InsertRow, TypeOK, Index
  <2>9. \A r \in Index : Row(r)' => r <= next
    BY <2>1, <2>3, <2>4, BoundsAssumption DEF Index
  <2> QED
    BY <2>1, <2>6, <2>7, <2>8, <2>9, BoundsAssumption DEF BatchInv, Index
<1>7. StoredInv'
  <2>1. /\ next \in Index /\ rdLog[next] # NoRow /\ rdLo <= next /\ rdLo = stable + 1
        /\ executed <= stable /\ next <= executed + MaxUnapplied /\ hsCommit <= stable
    BY BoundsAssumption
    DEF IInv, InsertRow, TypeOK, LogInv, ReadyInv, ExecInv, Saving, Saved, Up, Batch, Index
  <2>2. \A i \in Index : entries'[i] = IF i = next THEN rdLog[next] ELSE entries[i]
    BY <2>1 DEF IInv, TypeOK, LogType, InsertRow
  <2>4. UNCHANGED <<executed, stable, log, promised, rdHi, rdLo>>
    BY DEF InsertRow, raftVars, history
  <2>5. pc \in {"insert", "reinsert"} /\ pc' \in {"insert", "trim", "hardstate"}
    BY DEF InsertRow, AfterRow
  <2>6. \A i \in Index : i <= stable =>
          entries'[i] = log[i] \/ (entries'[i] = NoRow /\ i < executed)
    BY <2>1, <2>2, <2>5, BoundsAssumption DEF IInv, StoredInv, Up, TypeOK, Index
  <2>7. \A i \in Index : promised[i] # NoRow =>
          i <= stable /\ (entries'[i] = promised[i] \/ (entries'[i] = NoRow /\ i < executed))
    BY <2>1, <2>2, <2>5, BoundsAssumption DEF IInv, StoredInv, Up, TypeOK, Index
  <2> QED
    BY <2>4, <2>5, <2>6, <2>7 DEF StoredInv, Up
<1> QED
  BY <1>1, <1>2, <1>3, <1>4, <1>5, <1>6, <1>7 DEF IInv

\* The DELETE of conflicting rows reaches neither executed nor acknowledged
\* entries: they lie at or below the stable index, below the batch.
LEMMA DeleteConflictingInv ==
  ASSUME SafeRetention, IInv, DeleteConflicting
  PROVE  IInv'
<1>1. TypeOK'
  <2>1. entries' \in LogType
    BY BoundsAssumption
    DEF DeleteConflicting, IInv, TypeOK, LogType, NoRow
  <2> QED
    BY <2>1, BoundsAssumption
    DEF IInv, TypeOK, DeleteConflicting, Pc, raftVars, readVars, rdVars,
        history
<1>2. LogInv'
  BY DEF IInv, DeleteConflicting, LogInv, Up, raftVars, history
<1>3. ReadyInv'
  BY DEF IInv, DeleteConflicting, ReadyInv, Up, Batch, Saving, Saved, raftVars,
    rdVars
<1>4. ExecInv'
  BY DEF IInv, DeleteConflicting, ExecInv, Up, Saving, raftVars, rdVars, history
<1>5. RowsInv'
  <2>1. /\ next \in Index /\ rdLo <= next /\ rdLo = stable + 1
        /\ executed <= stable /\ hsCommit <= stable
    BY BoundsAssumption
    DEF IInv, DeleteConflicting, TypeOK, LogInv, ReadyInv, ExecInv, Saving, Saved, Up, Batch, Index
  <2>2. \A i \in Index : entries'[i] = IF i >= next THEN NoRow ELSE entries[i]
    BY DEF DeleteConflicting
  <2>3. \A i \in Index : Row(i)' <=> Row(i) /\ i < next
    BY <2>1, <2>2, BoundsAssumption DEF Row, Index
  <2>4. UNCHANGED <<executed, hsCommit, stable>> /\ Up /\ Up'
    BY DEF DeleteConflicting, Up, raftVars, history
  <2>5. /\ executed' > 0 => Row(executed)'
        /\ hsCommit' > 0 => Row(hsCommit)'
        /\ stable' > 0 => Row(stable)'
    BY <2>1, <2>3, <2>4, BoundsAssumption DEF IInv, RowsInv, TypeOK, Index
  <2>6. \A r \in Index : Row(r)' => r <= executed' + MaxUnapplied
    BY <2>3, <2>4 DEF IInv, RowsInv
  <2>7. \A r, k \in Index : Row(r)' /\ k < r => Row(k)' \/ k < executed'
    BY <2>1, <2>3, <2>4, BoundsAssumption DEF IInv, RowsInv, Index
  <2>8. \A i, j, k \in Index : Row(i)' /\ Row(j)' /\ i <= k /\ k <= j => Row(k)'
    BY <2>1, <2>3, BoundsAssumption DEF IInv, RowsInv, Index
  <2> QED
    BY <2>4, <2>5, <2>6, <2>7, <2>8 DEF RowsInv
<1>6. BatchInv'
  BY DEF IInv, DeleteConflicting, TypeOK, BatchInv, Row, Index, rdVars
<1>7. StoredInv'
  <2>1. /\ next \in Index /\ rdLo <= next /\ rdLo = stable + 1
        /\ executed <= stable /\ hsCommit <= stable
    BY BoundsAssumption
    DEF IInv, DeleteConflicting, TypeOK, LogInv, ReadyInv, ExecInv, Saving, Saved, Up, Batch, Index
  <2>2. \A i \in Index : entries'[i] = IF i >= next THEN NoRow ELSE entries[i]
    BY DEF DeleteConflicting
  <2>3. UNCHANGED <<executed, stable, log, promised>>
    BY DEF DeleteConflicting, raftVars, history
  <2>4. pc = "insert" /\ pc' = "reinsert"
    BY DEF DeleteConflicting
  <2>5. \A i \in Index : i <= stable =>
          entries'[i] = log[i] \/ (entries'[i] = NoRow /\ i < executed)
    BY <2>1, <2>2, <2>4, BoundsAssumption DEF IInv, StoredInv, Up, TypeOK, Index
  <2>6. \A i \in Index : promised[i] # NoRow =>
          i <= stable /\ (entries'[i] = promised[i] \/ (entries'[i] = NoRow /\ i < executed))
    BY <2>1, <2>2, <2>4, BoundsAssumption DEF IInv, StoredInv, Up, TypeOK, Index
  <2> QED
    BY <2>3, <2>4, <2>5, <2>6 DEF StoredInv, Up
<1> QED
  BY <1>1, <1>2, <1>3, <1>4, <1>5, <1>6, <1>7 DEF IInv

\* tryInsert after the DELETE puts the row at the end of the table.
LEMMA ReinsertRowInv ==
  ASSUME SafeRetention, IInv, ReinsertRow
  PROVE  IInv'
<1>1. TypeOK'
  <2>1. next \in Index /\ next' = next + 1
    BY BoundsAssumption DEF IInv, ReinsertRow, TypeOK, ReadyInv, Saving, Index
  <2>2. entries' \in LogType
    BY <2>1 DEF IInv, ReinsertRow, TypeOK, LogType
  <2>3. pc' \in Pc
    BY DEF ReinsertRow, AfterRow, Pc
  <2>4. next' \in 1..(MaxIndex + 1)
    BY <2>1, BoundsAssumption DEF Index
  <2> QED
    BY <2>2, <2>3, <2>4 DEF IInv, ReinsertRow, TypeOK, raftVars, readVars, history
<1>2. LogInv'
  BY DEF IInv, ReinsertRow, LogInv, Up, raftVars, history
<1>3. ReadyInv'
  BY DEF IInv, ReinsertRow, AfterRow, TypeOK, ReadyInv, Up, Batch, Saving,
    Saved, raftVars
<1>4. ExecInv'
  BY DEF IInv, ReinsertRow, AfterRow, ExecInv, Up, Saving, raftVars, history
<1>5. RowsInv'
  <2>1. /\ next \in Index /\ rdLog[next] # NoRow /\ rdLo <= next /\ rdLo = stable + 1
        /\ executed <= stable /\ next <= executed + MaxUnapplied /\ hsCommit <= stable
    BY BoundsAssumption
    DEF IInv, ReinsertRow, TypeOK, LogInv, ReadyInv, ExecInv, Saving, Saved, Up, Batch, Index
  <2>2. \A i \in Index : entries'[i] = IF i = next THEN rdLog[next] ELSE entries[i]
    BY <2>1 DEF IInv, TypeOK, LogType, ReinsertRow
  <2>3. \A i \in Index : Row(i)' <=> Row(i) \/ i = next
    BY <2>1, <2>2 DEF Row
  <2>4. \A r \in Index : Row(r) => r < next
    BY DEF IInv, ReinsertRow, BatchInv
  <2>5. next > 1 => next - 1 \in Index /\ Row(next - 1)
    <3> SUFFICES ASSUME next > 1 PROVE next - 1 \in Index /\ Row(next - 1)
      OBVIOUS
    <3>1. next - 1 \in Index
      BY <2>1, BoundsAssumption DEF Index
    <3>2. CASE next = rdLo
      BY <2>1, <3>1, <3>2, BoundsAssumption DEF IInv, RowsInv, ReinsertRow, Up, TypeOK, Index
    <3>3. CASE next > rdLo
      <4>1. rdLo <= next - 1 /\ next - 1 < next /\ next - 1 <= rdHi
        BY <2>1, <3>1, <3>3, BoundsAssumption
        DEF IInv, ReadyInv, ReinsertRow, Saving, TypeOK, Index
      <4>2. entries[next - 1] = rdLog[next - 1]
        BY <3>1, <4>1 DEF IInv, BatchInv, ReinsertRow
      <4>3. rdLog[next - 1] # NoRow
        BY <2>1, <3>1, <4>1, BoundsAssumption
        DEF IInv, ReadyInv, LogInv, ReinsertRow, Saving, Batch, Up, TypeOK, Index
      <4> QED
        BY <3>1, <4>2, <4>3 DEF Row
    <3> QED
      BY <2>1, <3>2, <3>3, BoundsAssumption DEF IInv, TypeOK, Index
  <2>6. UNCHANGED <<executed, hsCommit, stable>> /\ Up /\ Up'
    BY DEF ReinsertRow, AfterRow, Up, raftVars, history
  <2>7. /\ executed' > 0 => Row(executed)'
        /\ hsCommit' > 0 => Row(hsCommit)'
        /\ stable' > 0 => Row(stable)'
    BY <2>3, <2>6, BoundsAssumption DEF IInv, RowsInv, TypeOK, Index
  <2>8. \A r \in Index : Row(r)' => r <= executed' + MaxUnapplied
    BY <2>1, <2>3, <2>6, BoundsAssumption DEF IInv, RowsInv, Index
  <2>9. \A r, k \in Index : Row(r)' /\ k < r => Row(k)' \/ k < executed'
    BY <2>1, <2>3, <2>5, <2>6, BoundsAssumption DEF IInv, RowsInv, Index
  <2>10. \A i, j, k \in Index : Row(i)' /\ Row(j)' /\ i <= k /\ k <= j => Row(k)'
    BY <2>1, <2>3, <2>4, <2>5, BoundsAssumption DEF IInv, RowsInv, Index
  <2> QED
    BY <2>6, <2>7, <2>8, <2>9, <2>10 DEF RowsInv
<1>6. BatchInv'
  BY BoundsAssumption
  DEF IInv, ReinsertRow, AfterRow, TypeOK, ReadyInv, BatchInv, LogType, Row,
      Index
<1>7. StoredInv'
  BY DEF IInv, ReinsertRow, TypeOK, RowsInv, BatchInv, StoredInv, Up, Index,
    raftVars, history
<1> QED
  BY <1>1, <1>2, <1>3, <1>4, <1>5, <1>6, <1>7 DEF IInv

\* Retention deletes executed entries only: this is where SafeRetention is
\* needed.
LEMMA TrimOldInv ==
  ASSUME SafeRetention, IInv, TrimOld
  PROVE  IInv'
<1>1. TypeOK'
  BY BoundsAssumption
  DEF IInv, TrimOld, TypeOK, ReadyInv, ExecInv, LogType, Pc, NoRow, raftVars,
      readVars, rdVars, history
<1>2. LogInv'
  BY DEF IInv, TrimOld, LogInv, Up, raftVars, history
<1>3. ReadyInv'
  BY DEF IInv, TrimOld, ReadyInv, Up, Batch, Saving, Saved, raftVars, rdVars
<1>4. ExecInv'
  BY DEF IInv, TrimOld, ExecInv, Up, Saving, raftVars, rdVars, history
<1>5. RowsInv'
  <2>1. /\ Batch /\ Retain > 0 /\ rdHi <= executed + MaxUnapplied /\ MaxUnapplied < Retain
        /\ executed <= stable /\ executed <= hsCommit /\ executed \in Nat /\ stable \in Nat
    BY BoundsAssumption
    DEF SafeRetention, IInv, TrimOld, TypeOK, LogInv, ReadyInv, ExecInv,
        Saving, Saved, Up
  <2>3. \A i \in Index : Row(i)' <=> Row(i) /\ rdHi < i + Retain
    BY BoundsAssumption DEF Row, TrimOld, IInv, TypeOK, Index
  <2>4. UNCHANGED <<executed, hsCommit, stable>> /\ Up /\ Up'
    BY DEF TrimOld, Up, raftVars, history
  <2>5. /\ executed' > 0 => Row(executed)'
        /\ hsCommit' > 0 => Row(hsCommit)'
        /\ stable' > 0 => Row(stable)'
    BY <2>1, <2>3, <2>4, BoundsAssumption DEF IInv, RowsInv, TypeOK, Index
  <2>6. \A r \in Index : Row(r)' => r <= executed' + MaxUnapplied
    BY <2>3, <2>4 DEF IInv, RowsInv
  <2>7. \A r, k \in Index : Row(r)' /\ k < r => Row(k)' \/ k < executed'
    BY <2>1, <2>3, <2>4, BoundsAssumption DEF IInv, RowsInv, TypeOK, Index
  <2>8. \A i, j, k \in Index : Row(i)' /\ Row(j)' /\ i <= k /\ k <= j => Row(k)'
    BY <2>1, <2>3, BoundsAssumption DEF IInv, RowsInv, TypeOK, Index
  <2> QED
    BY <2>4, <2>5, <2>6, <2>7, <2>8 DEF RowsInv
<1>6. BatchInv'
  BY BoundsAssumption
  DEF SafeRetention, IInv, TrimOld, TypeOK, LogInv, ReadyInv, ExecInv,
      BatchInv, Row, Up, Saving, Saved, Index, rdVars
<1>7. StoredInv'
  <2>1. /\ Batch /\ Retain > 0 /\ rdHi <= executed + MaxUnapplied /\ MaxUnapplied < Retain
        /\ executed <= stable /\ executed <= hsCommit /\ executed \in Nat /\ stable \in Nat
    BY BoundsAssumption
    DEF SafeRetention, IInv, TrimOld, TypeOK, LogInv, ReadyInv, ExecInv,
        Saving, Saved, Up
  <2>2. \A i \in Index : entries'[i] = entries[i] \/ (entries'[i] = NoRow /\ i < executed)
    BY <2>1, BoundsAssumption DEF TrimOld, IInv, TypeOK, Index
  <2>3. UNCHANGED <<executed, stable, log, promised>>
    BY DEF TrimOld, raftVars, history
  <2>4. pc = "trim" /\ pc' = "hardstate"
    BY DEF TrimOld
  <2> QED
    BY <2>2, <2>3, <2>4 DEF IInv, StoredInv, Up
<1> QED
  BY <1>1, <1>2, <1>3, <1>4, <1>5, <1>6, <1>7 DEF IInv

\* The commit index is saved when its row is.
LEMMA SaveHardStateInv ==
  ASSUME SafeRetention, IInv, SaveHardState
  PROVE  IInv'
<1>1. TypeOK'
  BY DEF IInv, SaveHardState, TypeOK, Pc, raftVars, readVars, rdVars, history
<1>2. LogInv'
  BY DEF IInv, SaveHardState, LogInv, ReadyInv, Up, Saving, raftVars, history
<1>3. ReadyInv'
  BY DEF IInv, SaveHardState, TypeOK, ReadyInv, Batch, Saving, Saved, raftVars,
    rdVars
<1>4. ExecInv'
  BY DEF IInv, SaveHardState, TypeOK, ReadyInv, ExecInv, Up, Saving, raftVars,
    rdVars, history
<1>5. RowsInv'
  BY DEF IInv, SaveHardState, TypeOK, LogInv, ReadyInv, ExecInv, RowsInv,
    BatchInv, Row, Up, Saving, Index, raftVars, history
<1>6. BatchInv'
  BY DEF IInv, SaveHardState, BatchInv, Row, Batch, rdVars
<1>7. StoredInv'
  BY DEF IInv, SaveHardState, StoredInv, Up, raftVars, history
<1> QED
  BY <1>1, <1>2, <1>3, <1>4, <1>5, <1>6, <1>7 DEF IInv

\* What sendMessages acknowledges was saved before.
LEMMA SendMessagesInv ==
  ASSUME SafeRetention, IInv, SendMessages
  PROVE  IInv'
<1>1. TypeOK'
  BY DEF IInv, SendMessages, TypeOK, LogType, Pc, tables, raftVars, readVars,
    rdVars
<1>2. LogInv'
  BY DEF IInv, SendMessages, LogInv, Up, tables, raftVars
<1>3. ReadyInv'
  BY DEF IInv, SendMessages, ReadyInv, Batch, Saved, tables, raftVars, rdVars
<1>4. ExecInv'
  BY DEF IInv, SendMessages, TypeOK, ExecInv, Up, tables, raftVars, rdVars
<1>5. RowsInv'
  BY DEF IInv, SendMessages, RowsInv, Row, Up, tables, raftVars
<1>6. BatchInv'
  BY DEF IInv, SendMessages, BatchInv, Row, Batch, tables, rdVars
<1>7. StoredInv'
  BY DEF IInv, SendMessages, TypeOK, BatchInv, StoredInv, Up, Batch, Index,
    tables, raftVars, rdVars
<1> QED
  BY <1>1, <1>2, <1>3, <1>4, <1>5, <1>6, <1>7 DEF IInv

\* The entry that is executed is the next one.
LEMMA ApplyEntryInv ==
  ASSUME SafeRetention, IInv, ApplyEntry
  PROVE  IInv'
<1>1. TypeOK'
  BY BoundsAssumption
  DEF IInv, ApplyEntry, ReadyInv, ExecInv, TypeOK, Pc, raftVars, readVars
<1>2. LogInv'
  BY BoundsAssumption DEF IInv, ApplyEntry, TypeOK, LogInv, Up, raftVars
<1>3. ReadyInv'
  BY DEF IInv, ApplyEntry, ReadyInv, Batch, Saved, raftVars
<1>4. ExecInv'
  BY DEF IInv, ApplyEntry, TypeOK, ReadyInv, ExecInv, Up, Saved, raftVars
<1>5. RowsInv'
  <2>1. /\ applyNext \in Index /\ applyNext <= hsCommit /\ executed' \in {executed, applyNext}
        /\ executed <= executed' /\ executed' <= hsCommit
    BY BoundsAssumption
    DEF IInv, ApplyEntry, TypeOK, ReadyInv, ExecInv, Saving, Saved, Index
  <2>2. UNCHANGED <<entries, hsCommit, stable, log, promised, rdLo, rdHi>>
    BY DEF ApplyEntry, raftVars
  <2>3. Up /\ Up' /\ pc = "apply" /\ pc' \in {"apply", "advance"}
    BY DEF ApplyEntry, Up
  <2>4. Row(applyNext) \/ applyNext < executed
    BY <2>1, BoundsAssumption DEF IInv, RowsInv, TypeOK, Index
  <2>5. executed' > 0 => Row(executed')
    BY <2>1, <2>4, BoundsAssumption DEF IInv, RowsInv, TypeOK, Index
  <2>6. \A r \in Index : Row(r) => r <= executed' + MaxUnapplied
    <3>1. executed \in Nat /\ executed' \in Nat /\ executed <= executed' /\ MaxUnapplied \in Nat
      BY <2>1, BoundsAssumption DEF IInv, TypeOK, Index
    <3>2. \A r \in Index : r \in Nat /\ (Row(r) => r <= executed + MaxUnapplied)
      BY BoundsAssumption DEF IInv, RowsInv, Index
    <3>3. \A a, b, m, r \in Nat : a <= b /\ r <= a + m => r <= b + m
      OBVIOUS
    <3> QED
      BY <3>1, <3>2, <3>3
  <2>7. \A r, k \in Index : Row(r) /\ k < r => Row(k) \/ k < executed'
    BY <2>1, BoundsAssumption DEF IInv, RowsInv, TypeOK, Index
  <2> QED
    BY <2>2, <2>3, <2>5, <2>6, <2>7 DEF IInv, RowsInv, Row
<1>6. BatchInv'
  BY DEF IInv, ApplyEntry, BatchInv, Row, Batch
<1>7. StoredInv'
  <2>1. /\ applyNext \in Index /\ applyNext <= hsCommit /\ executed' \in {executed, applyNext}
        /\ executed <= executed' /\ executed' <= hsCommit
    BY BoundsAssumption
    DEF IInv, ApplyEntry, TypeOK, ReadyInv, ExecInv, Saving, Saved, Index
  <2>2. UNCHANGED <<entries, hsCommit, stable, log, promised, rdLo, rdHi>>
    BY DEF ApplyEntry, raftVars
  <2>3. Up /\ Up' /\ pc = "apply" /\ pc' \in {"apply", "advance"}
    BY DEF ApplyEntry, Up
  <2>4. \A i \in Index : i < executed => i < executed'
    BY <2>1, BoundsAssumption DEF IInv, TypeOK, Index
  <2> QED
    BY <2>2, <2>3, <2>4 DEF IInv, StoredInv, Batch
<1> QED
  BY <1>1, <1>2, <1>3, <1>4, <1>5, <1>6, <1>7 DEF IInv

\* What Advance reports as stable is in the table.
LEMMA AdvanceInv ==
  ASSUME SafeRetention, IInv, Advance
  PROVE  IInv'
<1>1. TypeOK'
  <2>1. pc' \in Pc
    BY BoundsAssumption
    DEF Advance, Pc
  <2> QED
    BY <2>1, BoundsAssumption, LogUpdate
    DEF IInv, TypeOK, Advance, tables, readVars, history
<1>2. LogInv'
  BY DEF IInv, Advance, TypeOK, LogInv, RowsInv, BatchInv, Up, Batch, Index,
    tables, history
<1>3. ReadyInv'
  BY DEF IInv, Advance, TypeOK, ReadyInv, Batch, Saving, Saved, Index, tables
<1>4. ExecInv'
  BY DEF IInv, Advance, TypeOK, ExecInv, Up, tables, history
<1>5. RowsInv'
  BY DEF IInv, Advance, TypeOK, LogInv, RowsInv, BatchInv, Row, Up, Batch,
    Index, tables, history
<1>6. BatchInv'
  BY DEF IInv, Advance, BatchInv
<1>7. StoredInv'
  <2>1. stable' = IF Batch THEN rdHi ELSE stable
    BY BoundsAssumption DEF IInv, Advance, TypeOK, ReadyInv, Saved, Batch, Index
  <2>2. UNCHANGED <<entries, executed, log, promised>> /\ Up /\ Up' /\ pc = "advance"
    BY DEF Advance, Up, tables, history
  <2>3. Batch => /\ rdLo = stable + 1
                 /\ \A i \in Index : i <= rdHi => rdLog[i] = log[i]
                 /\ \A i \in Index : rdLo <= i /\ i <= rdHi => entries[i] = rdLog[i]
    BY <2>2 DEF IInv, ReadyInv, BatchInv, Saved
  <2>4. \A i \in Index : i <= stable' =>
          entries[i] = log[i] \/ (entries[i] = NoRow /\ i < executed)
    BY <2>1, <2>2, <2>3, BoundsAssumption DEF IInv, StoredInv, TypeOK, Index
  <2>5. \A i \in Index : promised[i] # NoRow => i <= stable'
    BY <2>1, <2>2, <2>3, BoundsAssumption DEF IInv, StoredInv, Batch, TypeOK, Index
  <2> QED
    BY <2>2, <2>4, <2>5 DEF IInv, StoredInv
<1> QED
  BY <1>1, <1>2, <1>3, <1>4, <1>5, <1>6, <1>7 DEF IInv

\* A crash leaves the tables as the last statement left them.
LEMMA CrashInv ==
  ASSUME SafeRetention, IInv, Crash
  PROVE  IInv'
<1>1. TypeOK'
  BY BoundsAssumption DEF IInv, Crash, TypeOK, LogType, Pc, NoLog, NoRow, tables
<1>2. LogInv'
  BY DEF IInv, Crash, LogInv, Up
<1>3. ReadyInv'
  BY DEF IInv, Crash, ReadyInv, Up, Saving, Saved
<1>4. ExecInv'
  BY DEF IInv, Crash, TypeOK, ExecInv, tables
<1>5. RowsInv'
  BY DEF IInv, Crash, RowsInv, Row, tables
<1>6. BatchInv'
  BY DEF IInv, Crash, BatchInv
<1>7. StoredInv'
  BY DEF IInv, Crash, StoredInv, Up, tables
<1> QED
  BY <1>1, <1>2, <1>3, <1>4, <1>5, <1>6, <1>7 DEF IInv

\* Node.Start loads the tables into raft's memory.
LEMMA StartInv ==
  ASSUME SafeRetention, IInv, Start
  PROVE  IInv'
<1>1. TypeOK'
  <2>1. /\ UNCHANGED <<entries, hsCommit, executed, promised>> /\ pc = "down" /\ pc' = "ready"
        /\ log' = entries /\ last' = LastIndex /\ stable' = LastIndex /\ commit' = hsCommit
        /\ hsCommit <= LastIndex
    BY DEF Start, LoadState, tables, history
  <2>2. /\ LastIndex \in 0..MaxIndex
        /\ \A r \in Index : Row(r) => r <= LastIndex
        /\ LastIndex # 0 => LastIndex \in Index /\ Row(LastIndex)
    BY TableEnds DEF IInv
  <2>3. raftApplied' \in 0..MaxIndex
    BY TableEnds, BoundsAssumption DEF Start, IInv
  <2>4. pc' \in Pc
    BY <2>1 DEF Pc
  <2> QED
    BY <2>1, <2>2, <2>3, <2>4 DEF IInv, TypeOK, Start, LoadState, tables, readVars, rdVars, history
<1>2. LogInv'
  <2>1. /\ UNCHANGED <<entries, hsCommit, executed, promised>> /\ pc = "down" /\ pc' = "ready"
        /\ log' = entries /\ last' = LastIndex /\ stable' = LastIndex /\ commit' = hsCommit
        /\ hsCommit <= LastIndex
    BY DEF Start, LoadState, tables, history
  <2>2. /\ LastIndex \in 0..MaxIndex
        /\ \A r \in Index : Row(r) => r <= LastIndex
        /\ LastIndex # 0 => LastIndex \in Index /\ Row(LastIndex)
    BY TableEnds DEF IInv
  <2>3. last' <= executed' + MaxUnapplied
    BY <2>1, <2>2, BoundsAssumption DEF IInv, RowsInv, TypeOK
  <2>4. \A i \in Index : i > last' => log'[i] = NoRow
    BY <2>1, <2>2, BoundsAssumption DEF Row, Index
  <2> QED
    BY <2>1, <2>2, <2>3, <2>4, BoundsAssumption DEF IInv, TypeOK, LogInv, Index
<1>3. ReadyInv'
  BY DEF IInv, Start, LoadState, ReadyInv, Saving, Saved, tables
<1>4. ExecInv'
  <2>1. /\ UNCHANGED <<entries, hsCommit, executed, promised>> /\ pc = "down" /\ pc' = "ready"
        /\ log' = entries /\ last' = LastIndex /\ stable' = LastIndex /\ commit' = hsCommit
        /\ hsCommit <= LastIndex
    BY DEF Start, LoadState, tables, history
  <2>3. raftApplied' <= executed
    BY FirstNotPastExecuted, TableEnds, BoundsAssumption DEF Start, IInv, TypeOK
  <2> QED
    BY <2>1, <2>3 DEF IInv, ExecInv, Start, LoadState, Saving, Up, tables
<1>5. RowsInv'
  <2>1. /\ UNCHANGED <<entries, hsCommit, executed, promised>> /\ pc = "down" /\ pc' = "ready"
        /\ log' = entries /\ last' = LastIndex /\ stable' = LastIndex /\ commit' = hsCommit
        /\ hsCommit <= LastIndex
    BY DEF Start, LoadState, tables, history
  <2>2. /\ LastIndex \in 0..MaxIndex
        /\ \A r \in Index : Row(r) => r <= LastIndex
        /\ LastIndex # 0 => LastIndex \in Index /\ Row(LastIndex)
    BY TableEnds DEF IInv
  <2>3. \A i : Row(i)' <=> Row(i)
    BY <2>1 DEF Row
  <2>4. stable' > 0 => Row(stable)'
    BY <2>1, <2>2, <2>3 DEF Row
  <2> QED
    BY <2>1, <2>3, <2>4 DEF IInv, RowsInv, Row
<1>6. BatchInv'
  BY DEF IInv, Start, LoadState, BatchInv
<1>7. StoredInv'
  <2>1. /\ UNCHANGED <<entries, hsCommit, executed, promised>> /\ pc = "down" /\ pc' = "ready"
        /\ log' = entries /\ last' = LastIndex /\ stable' = LastIndex /\ commit' = hsCommit
        /\ hsCommit <= LastIndex
    BY DEF Start, LoadState, tables, history
  <2>2. /\ LastIndex \in 0..MaxIndex
        /\ \A r \in Index : Row(r) => r <= LastIndex
        /\ LastIndex # 0 => LastIndex \in Index /\ Row(LastIndex)
    BY TableEnds DEF IInv
  <2>3. \A i \in Index : promised[i] # NoRow => i <= LastIndex
    <3> SUFFICES ASSUME NEW i \in Index, promised[i] # NoRow PROVE i <= LastIndex
      OBVIOUS
    <3>1. CASE entries[i] = promised[i]
      BY <2>2, <3>1 DEF Row
    <3>2. CASE i < executed
      BY <2>1, <2>2, <3>2, BoundsAssumption DEF IInv, ExecInv, TypeOK, Index
    <3> QED
      BY <3>1, <3>2 DEF IInv, StoredInv
  <2> QED
    BY <2>1, <2>3 DEF IInv, StoredInv
<1> QED
  BY <1>1, <1>2, <1>3, <1>4, <1>5, <1>6, <1>7 DEF IInv

\* Node.Restart loads the tables into raft's memory.
LEMMA RestartInv ==
  ASSUME SafeRetention, IInv, Restart
  PROVE  IInv'
<1>1. TypeOK'
  <2>1. /\ UNCHANGED <<entries, hsCommit, executed, promised>> /\ pc = "down" /\ pc' = "ready"
        /\ log' = entries /\ last' = LastIndex /\ stable' = LastIndex /\ commit' = hsCommit
        /\ hsCommit <= LastIndex
    BY DEF Restart, LoadState, tables, history
  <2>2. /\ LastIndex \in 0..MaxIndex
        /\ \A r \in Index : Row(r) => r <= LastIndex
        /\ LastIndex # 0 => LastIndex \in Index /\ Row(LastIndex)
    BY TableEnds DEF IInv
  <2>3. raftApplied' \in 0..MaxIndex
    BY DEF Restart, IInv, TypeOK
  <2>4. pc' \in Pc
    BY <2>1 DEF Pc
  <2> QED
    BY <2>1, <2>2, <2>3, <2>4
    DEF IInv, TypeOK, Restart, LoadState, tables, readVars, rdVars, history
<1>2. LogInv'
  <2>1. /\ UNCHANGED <<entries, hsCommit, executed, promised>> /\ pc = "down" /\ pc' = "ready"
        /\ log' = entries /\ last' = LastIndex /\ stable' = LastIndex /\ commit' = hsCommit
        /\ hsCommit <= LastIndex
    BY DEF Restart, LoadState, tables, history
  <2>2. /\ LastIndex \in 0..MaxIndex
        /\ \A r \in Index : Row(r) => r <= LastIndex
        /\ LastIndex # 0 => LastIndex \in Index /\ Row(LastIndex)
    BY TableEnds DEF IInv
  <2>3. last' <= executed' + MaxUnapplied
    BY <2>1, <2>2, BoundsAssumption DEF IInv, RowsInv, TypeOK
  <2>4. \A i \in Index : i > last' => log'[i] = NoRow
    BY <2>1, <2>2, BoundsAssumption DEF Row, Index
  <2> QED
    BY <2>1, <2>2, <2>3, <2>4, BoundsAssumption DEF IInv, TypeOK, LogInv, Index
<1>3. ReadyInv'
  BY DEF IInv, Restart, LoadState, ReadyInv, Saving, Saved, tables
<1>4. ExecInv'
  <2>1. /\ UNCHANGED <<entries, hsCommit, executed, promised>> /\ pc = "down" /\ pc' = "ready"
        /\ log' = entries /\ last' = LastIndex /\ stable' = LastIndex /\ commit' = hsCommit
        /\ hsCommit <= LastIndex
    BY DEF Restart, LoadState, tables, history
  <2>3. raftApplied' <= executed
    BY DEF Restart, IInv, ExecInv
  <2> QED
    BY <2>1, <2>3 DEF IInv, ExecInv, Restart, LoadState, Saving, Up, tables
<1>5. RowsInv'
  <2>1. /\ UNCHANGED <<entries, hsCommit, executed, promised>> /\ pc = "down" /\ pc' = "ready"
        /\ log' = entries /\ last' = LastIndex /\ stable' = LastIndex /\ commit' = hsCommit
        /\ hsCommit <= LastIndex
    BY DEF Restart, LoadState, tables, history
  <2>2. /\ LastIndex \in 0..MaxIndex
        /\ \A r \in Index : Row(r) => r <= LastIndex
        /\ LastIndex # 0 => LastIndex \in Index /\ Row(LastIndex)
    BY TableEnds DEF IInv
  <2>3. \A i : Row(i)' <=> Row(i)
    BY <2>1 DEF Row
  <2>4. stable' > 0 => Row(stable)'
    BY <2>1, <2>2, <2>3 DEF Row
  <2> QED
    BY <2>1, <2>3, <2>4 DEF IInv, RowsInv, Row
<1>6. BatchInv'
  BY DEF IInv, Restart, LoadState, BatchInv
<1>7. StoredInv'
  <2>1. /\ UNCHANGED <<entries, hsCommit, executed, promised>> /\ pc = "down" /\ pc' = "ready"
        /\ log' = entries /\ last' = LastIndex /\ stable' = LastIndex /\ commit' = hsCommit
        /\ hsCommit <= LastIndex
    BY DEF Restart, LoadState, tables, history
  <2>2. /\ LastIndex \in 0..MaxIndex
        /\ \A r \in Index : Row(r) => r <= LastIndex
        /\ LastIndex # 0 => LastIndex \in Index /\ Row(LastIndex)
    BY TableEnds DEF IInv
  <2>3. \A i \in Index : promised[i] # NoRow => i <= LastIndex
    <3> SUFFICES ASSUME NEW i \in Index, promised[i] # NoRow PROVE i <= LastIndex
      OBVIOUS
    <3>1. CASE entries[i] = promised[i]
      BY <2>2, <3>1 DEF Row
    <3>2. CASE i < executed
      BY <2>1, <2>2, <3>2, BoundsAssumption DEF IInv, ExecInv, TypeOK, Index
    <3> QED
      BY <3>1, <3>2 DEF IInv, StoredInv
  <2> QED
    BY <2>1, <2>3 DEF IInv, StoredInv
<1> QED
  BY <1>1, <1>2, <1>3, <1>4, <1>5, <1>6, <1>7 DEF IInv

\* A step that changes nothing keeps the invariant.
LEMMA StutterInv ==
  ASSUME IInv, UNCHANGED vars
  PROVE  IInv'
<1> USE DEF vars, tables, raftVars, readVars, rdVars, history
<1>1. TypeOK' /\ LogInv'
  BY DEF IInv, TypeOK, LogInv, Up
<1>2. ReadyInv' /\ ExecInv'
  BY DEF IInv, ReadyInv, ExecInv, Up, Saving, Saved, Batch
<1>3. RowsInv' /\ BatchInv' /\ StoredInv'
  BY DEF IInv, RowsInv, BatchInv, StoredInv, Up, Row, Batch
<1> QED
  BY <1>1, <1>2, <1>3 DEF IInv

\* What was disturbed once stays disturbed: Calm holds up to some state and
\* never again.
LEMMA CalmBefore ==
  ASSUME failures \in Nat, [Next]_vars
  PROVE  /\ failures' \in Nat /\ (failures' = 0 => failures = 0)
         /\ Calm' => Calm
<1>1. CASE RaftNext
  <2>1. ASSUME NEW at \in Index, NEW t \in Term, RaftTruncate(at, t)
        PROVE  (replaced => replaced') /\ failures' = failures
    BY <2>1, Zenon DEF RaftTruncate
  <2> QED
    BY <1>1, <2>1 DEF RaftNext, RaftAppend, RaftCommit, RaftReadFirst, RaftReadEntries, Calm,
      history
<1>2. CASE LoopNext
  BY <1>2 DEF LoopNext, TakeReady, InsertRow, DeleteConflicting, ReinsertRow, TrimOld,
    AppendFails, SaveHardState, HardStateFails, SendMessages, ApplyEntry, Advance, Calm, history
<1>3. CASE Crash \/ Start \/ Restart \/ UNCHANGED vars
  BY <1>3 DEF Crash, Start, Restart, LoadState, Calm, vars, history
<1> QED
  BY <1>1, <1>2, <1>3 DEF Next

\* Every step that leaves the store calm keeps the invariant.
LEMMA NextInv ==
  ASSUME SafeRetention, IInv, [Next]_vars, Calm'
  PROVE  IInv'
<1>1. CASE RaftNext
  BY <1>1, RaftAppendInv, RaftTruncateInv, RaftCommitInv, RaftReadFirstInv,
     RaftReadEntriesInv DEF RaftNext, Calm
<1>2. ~AppendFails /\ ~HardStateFails
  BY BoundsAssumption DEF IInv, TypeOK, AppendFails, HardStateFails, Calm
<1>3. CASE LoopNext
  BY <1>2, <1>3, TakeReadyInv, InsertRowInv, DeleteConflictingInv, ReinsertRowInv,
     TrimOldInv, SaveHardStateInv, SendMessagesInv, ApplyEntryInv, AdvanceInv DEF LoopNext
<1>4. CASE Crash \/ Start \/ Restart
  BY <1>4, CrashInv, StartInv, RestartInv
<1>5. CASE UNCHANGED vars
  BY <1>5, StutterInv
<1> QED
  BY <1>1, <1>3, <1>4, <1>5 DEF Next

-----------------------------------------------------------------------------
(* The theorems.                                                           *)

\* The invariant, up to the first failure or replacement.
CalmInv == failures \in Nat /\ (Calm => IInv)

\* Of every instance whose retention is safe: the invariant holds in every
\* state before the first failure of a statement and the first replacement of
\* an entry that is being saved, whatever crashes there were.
THEOREM InductiveInvariant == SafeRetention => (Spec => []CalmInv)
<1> SUFFICES ASSUME SafeRetention PROVE Spec => []CalmInv
  OBVIOUS
<1>1. Init => CalmInv
  BY InitInv DEF Init, CalmInv
<1>2. CalmInv /\ [Next]_vars => CalmInv'
  BY CalmBefore, NextInv DEF CalmInv
<1> QED
  BY <1>1, <1>2, PTL DEF Spec

\* The rows of the entries table are consecutive after every statement of
\* AppendEntries and whichever of them a crash interrupts.
THEOREM RowsConsecutive == SafeRetention => (Spec => []NoGaps)
<1>1. CalmInv => NoGaps
  BY DEF CalmInv, IInv, RowsInv, NoGaps, Rows, Row
<1> QED
  BY <1>1, InductiveInvariant, PTL

\* No acknowledged entry is lost before it is executed: every row the
\* DELETE of conflicting entries or the trimming of old ones removes was
\* either replaced by a new leader or executed.
THEOREM AcknowledgedSurvive == SafeRetention => (Spec => []AckedSurvive)
<1>1. ASSUME CalmInv PROVE AckedSurvive
  <2> SUFFICES ASSUME IInv, NEW i \in Index, promised[i] # NoRow, entries[i] # promised[i]
               PROVE  i < FirstIndex /\ i <= executed
    BY <1>1 DEF AckedSurvive, CalmInv
  <2>1. ~Row(i) /\ i < executed
    BY DEF IInv, StoredInv, Row
  <2>2. executed \in Index /\ Row(executed)
    BY <2>1, BoundsAssumption DEF IInv, TypeOK, RowsInv, Index
  <2>3. \A r \in Index : Row(r) => i < r
    BY <2>1, <2>2, BoundsAssumption DEF IInv, RowsInv, Index
  <2>4. FirstIndex \in Rows
    BY <2>2, FirstIsRow DEF IInv
  <2>5. i < FirstIndex
    BY <2>3, <2>4 DEF Rows, Row
  <2> QED
    BY <2>1, <2>5, BoundsAssumption DEF IInv, TypeOK, Index
<1> QED
  BY <1>1, InductiveInvariant, PTL

\* Whatever statement a crash interrupts, the saved commit index lies within
\* the table, so raft.loadState accepts it.
THEOREM RestartAlwaysLoads == SafeRetention => (Spec => []RestartLoads)
<1>1. ASSUME CalmInv PROVE RestartLoads
  <2> SUFFICES ASSUME IInv PROVE FirstIndex - 1 <= hsCommit /\ hsCommit <= LastIndex
    BY <1>1 DEF RestartLoads, CalmInv
  <2>1. FirstIndex - 1 <= hsCommit
    BY FirstNotPastExecuted, TableEnds, BoundsAssumption DEF IInv, ExecInv, TypeOK
  <2>2. hsCommit <= LastIndex
    BY TableEnds, BoundsAssumption DEF IInv, RowsInv, TypeOK, Index
  <2> QED
    BY <2>1, <2>2
<1> QED
  BY <1>1, InductiveInvariant, PTL

-----------------------------------------------------------------------------
(* What the readers of storage.go answer.                                  *)

\* What Entries selects, and how LIMIT cuts it off.
Selected(lo, hi) == {i \in Rows : lo <= i /\ i < hi}
Limited(lo, hi) ==
  {i \in Selected(lo, hi) : Cardinality({j \in Selected(lo, hi) : j <= i}) <= MaxSize}

\* LIMIT keeps the rows below any row it keeps, and all rows of a range that
\* is no longer than it.
LEMMA LimitKeepsLower ==
  ASSUME NEW lo, NEW hi
  PROVE  /\ Limited(lo, hi) \subseteq Selected(lo, hi)
         /\ \A i \in Limited(lo, hi), j \in Selected(lo, hi) : j <= i => j \in Limited(lo, hi)
         /\ lo \in Int /\ hi \in Int /\ lo < hi /\ hi - lo <= MaxSize
              => Limited(lo, hi) = Selected(lo, hi)
<1> DEFINE S == Selected(lo, hi)
           Upto(i) == {j \in S : j <= i}
<1>1. S \subseteq 1..MaxIndex /\ S \subseteq Int
  BY BoundsAssumption DEF Selected, Rows, Index
<1>2. IsFiniteSet(1..MaxIndex) /\ Cardinality(1..MaxIndex) = MaxIndex
  BY FS_Interval, BoundsAssumption
<1> HIDE DEF S
<1>3. ASSUME NEW i
      PROVE  /\ IsFiniteSet(Upto(i)) /\ Cardinality(Upto(i)) \in Nat
             /\ Cardinality(Upto(i)) <= MaxIndex
  <2>1. Upto(i) \in SUBSET (1..MaxIndex)
    BY <1>1
  <2>2. IsFiniteSet(Upto(i)) /\ Cardinality(Upto(i)) <= MaxIndex
    <3>1. ASSUME NEW A, NEW B \in SUBSET A, IsFiniteSet(A), Cardinality(A) = MaxIndex
          PROVE  IsFiniteSet(B) /\ Cardinality(B) <= MaxIndex
      BY <3>1, FS_Subset
    <3> QED
      BY <1>2, <2>1, <3>1
  <2> QED
    BY <2>2, FS_CardinalityType
<1>4. ASSUME NEW i \in S, NEW j \in S, j <= i
      PROVE  Cardinality(Upto(j)) <= Cardinality(Upto(i))
  <2>1. \A k \in S : k <= j => k <= i
    BY <1>1, <1>4
  <2>2. Upto(j) \in SUBSET Upto(i)
    BY <2>1
  <2> QED
    BY <1>3, <2>2, FS_Subset
<1>5. Limited(lo, hi) = {i \in S : Cardinality(Upto(i)) <= MaxSize}
  BY DEF Limited, S
<1> HIDE DEF Upto
<1>6. \A i \in Limited(lo, hi), j \in S : j <= i => j \in Limited(lo, hi)
  BY <1>3, <1>4, <1>5, BoundsAssumption
<1>7. ASSUME lo \in Int, hi \in Int, lo < hi, hi - lo <= MaxSize
      PROVE  Limited(lo, hi) = S
  <2>1. IsFiniteSet(lo..(hi - 1)) /\ Cardinality(lo..(hi - 1)) = hi - lo
    BY <1>7, FS_Interval
  <2>2. ASSUME NEW i PROVE Cardinality(Upto(i)) <= hi - lo
    <3>1. Upto(i) \in SUBSET (lo..(hi - 1))
      BY <1>1, <1>7 DEF Upto, S, Selected
    <3> QED
      BY <2>1, <3>1, FS_Subset
  <2> QED
    BY <1>3, <1>5, <1>7, <2>2, BoundsAssumption
<1> QED
  BY <1>5, <1>6, <1>7 DEF S

\* The ends of what Entries found decide its answer.
LEMMA EntriesAnswer ==
  ASSUME TypeOK, NEW lo \in Index, NEW hi \in 1..(MaxIndex + 1), lo < hi
  PROVE  /\ Entries(lo, hi).err = "nil" =>
              /\ Entries(lo, hi).rows = Limited(lo, hi)
              /\ lo \in Limited(lo, hi) /\ hi - 1 \in Limited(lo, hi)
         /\ hi - 1 \in Limited(lo, hi) => Entries(lo, hi).err # "ErrUnavailable"
<1>1. PICK S : S = Limited(lo, hi)
  OBVIOUS
<1>2. S \in SUBSET Index /\ \A i \in S : lo <= i /\ i < hi
  BY <1>1, LimitKeepsLower DEF Selected, Rows
<1>3. PICK a : a = IF S = {} THEN 0 ELSE Min(S)
  OBVIOUS
<1>4. PICK b : b = IF S = {} THEN 0 ELSE Max(S)
  OBVIOUS
<1>5. Entries(lo, hi) = CASE lo < a -> [err |-> "ErrCompacted", rows |-> {}]
                          [] lo >= a /\ hi > b + 1 -> [err |-> "ErrUnavailable", rows |-> {}]
                          [] OTHER -> [err |-> "nil", rows |-> S]
  BY <1>1, <1>3, <1>4 DEF Entries, Limited, Selected
<1>6. CASE S = {}
  <2>1. a = 0 /\ b = 0 /\ lo >= a /\ ~(lo < a) /\ hi > b + 1
    BY <1>3, <1>4, <1>6, BoundsAssumption DEF Index
  <2>2. Entries(lo, hi).err = "ErrUnavailable"
    BY <1>5, <2>1
  <2> QED
    BY <1>1, <1>6, <2>2
<1>7. CASE S # {}
  <2>1. S \in SUBSET Nat /\ S \in SUBSET (0..MaxIndex) /\ MaxIndex \in Nat
    BY <1>2, BoundsAssumption DEF Index
  <2>2. a \in S /\ \A y \in S : a <= y
    BY <1>3, <1>7, <2>1, MinOfNats
  <2>3. b \in S /\ \A y \in S : y <= b
    BY <1>4, <1>7, <2>1, MaxOfBounded
  <2>4. a \in Index /\ b \in Index /\ lo <= a /\ b < hi
    BY <1>2, <2>2, <2>3
  <2>5. ASSUME Entries(lo, hi).err = "nil"
        PROVE  Entries(lo, hi).rows = S /\ lo \in S /\ hi - 1 \in S
    <3>1. ~(lo < a) /\ ~(lo >= a /\ hi > b + 1)
      BY <1>5, <2>5
    <3>2. a = lo /\ b = hi - 1
      BY <2>4, <3>1, BoundsAssumption DEF Index
    <3> QED
      BY <1>5, <2>2, <2>3, <3>1, <3>2
  <2>6. ASSUME hi - 1 \in S
        PROVE  Entries(lo, hi).err # "ErrUnavailable"
    <3>1. ~(hi > b + 1)
      BY <2>3, <2>4, <2>6, BoundsAssumption DEF Index
    <3> QED
      BY <1>5, <3>1
  <2> QED
    BY <1>1, <2>5, <2>6
<1> QED
  BY <1>6, <1>7

\* Between the two reads of slice() raft's memory stands still, so the end of
\* the range stays what is believed to be stored.
ReadInv == readLo # 0 => Up /\ readLo <= stable

\* The raft goroutine meets ErrUnavailable only where it asks for more rows than
\* the limit it passes: whatever the main loop deletes between its two queries,
\* the last stored row is there.
THEOREM ReadsAnswered == SafeRetention => (Spec => ReadsServed)
<1> SUFFICES ASSUME SafeRetention PROVE Spec => ReadsServed
  OBVIOUS
<1>1. Init => ReadInv
  BY DEF Init, ReadInv
<1>2. ASSUME ReadInv, [Next]_vars
      PROVE  ReadInv'
  <2>1. CASE RaftReadEntries \/ Crash
    BY <2>1 DEF RaftReadEntries, Crash, ReadInv
  <2>2. ASSUME NEW lo \in Index, RaftReadFirst(lo)
        PROVE  ReadInv'
    BY <2>2 DEF RaftReadFirst, RaftIdle, ReadInv, Up, raftVars
  <2>4. CASE UNCHANGED readVars /\ readLo = 0
    BY <2>4 DEF readVars, ReadInv
  <2>5. CASE UNCHANGED <<readVars, stable>> /\ (Up => Up')
    BY <1>2, <2>5 DEF readVars, ReadInv
  <2>6. CASE Start \/ Restart
    BY <1>2, <2>6 DEF Start, Restart, LoadState, ReadInv, Up, readVars
  <2>7. CASE RaftNext
    BY <2>1, <2>2, <2>4, <2>7 DEF RaftNext, RaftAppend, RaftTruncate, RaftCommit, RaftIdle
  <2>8. CASE LoopNext
    <3>1. CASE Advance
      BY <2>4, <3>1 DEF Advance, RaftIdle
    <3> QED
      BY <2>5, <2>8, <3>1 DEF LoopNext, TakeReady, InsertRow, DeleteConflicting, ReinsertRow,
        TrimOld, AppendFails, SaveHardState, HardStateFails, SendMessages, ApplyEntry,
        AfterRow, raftVars, Up
  <2>9. CASE UNCHANGED vars
    BY <2>5, <2>9 DEF vars, raftVars, Up
  <2> QED
    BY <1>2, <2>1, <2>6, <2>7, <2>8, <2>9 DEF Next
<1>3. ASSUME CalmInv, ReadInv, [Next]_vars
      PROVE  panicked' /\ ~panicked => ~Calm \/ stable + 1 - readLo > MaxSize
  <2>1. CASE RaftReadEntries
    <3> SUFFICES ASSUME IInv, stable + 1 - readLo <= MaxSize PROVE ~panicked'
      BY <1>3, BoundsAssumption DEF CalmInv, IInv, TypeOK
    <3>1. readLo \in Index /\ stable + 1 \in 1..(MaxIndex + 1) /\ readLo < stable + 1 /\ Up
      BY <1>3, <2>1, BoundsAssumption DEF IInv, TypeOK, ReadInv, RaftReadEntries, Index
    <3>2. stable \in Index /\ stable \in Rows /\ readLo <= stable
      BY <3>1, BoundsAssumption DEF IInv, TypeOK, RowsInv, Rows, Row, Index
    <3>3. (stable + 1) - 1 = stable /\ stable < stable + 1
      BY <3>2, BoundsAssumption DEF Index
    <3>4. stable \in Selected(readLo, stable + 1)
      BY <3>2, <3>3 DEF Selected
    <3>5. stable \in Limited(readLo, stable + 1)
      <4>1. PICK lo, hi : /\ lo = readLo /\ hi = stable + 1 /\ lo \in Int /\ hi \in Int
                          /\ lo < hi /\ hi - lo <= MaxSize
        BY <3>1, <3>2 DEF Index
      <4>2. Limited(lo, hi) = Selected(lo, hi)
        BY <4>1, LimitKeepsLower, Zenon
      <4> QED
        BY <3>4, <4>1, <4>2
    <3>6. Entries(readLo, stable + 1).err # "ErrUnavailable"
      BY <3>1, <3>3, <3>5, EntriesAnswer DEF IInv
    <3> QED
      BY <2>1, <3>6 DEF RaftReadEntries
  <2>2. CASE UNCHANGED panicked
    BY <2>2
  <2>3. CASE RaftNext
    BY <2>1, <2>2, <2>3 DEF RaftNext, RaftAppend, RaftTruncate, RaftCommit, RaftReadFirst, readVars
  <2>4. CASE LoopNext
    BY <2>2, <2>4 DEF LoopNext, TakeReady, InsertRow, DeleteConflicting, ReinsertRow, TrimOld,
      AppendFails, SaveHardState, HardStateFails, SendMessages, ApplyEntry, Advance, readVars
  <2>5. CASE Crash \/ Start \/ Restart \/ UNCHANGED vars
    BY <2>2, <2>5 DEF Crash, Start, Restart, LoadState, vars, readVars
  <2> QED
    BY <1>3, <2>3, <2>4, <2>5 DEF Next
<1>4. ReadInv /\ [Next]_vars => ReadInv'
  BY <1>2
<1>5. CalmInv /\ ReadInv /\ [Next]_vars =>
        [panicked' /\ ~panicked => ~Calm \/ stable + 1 - readLo > MaxSize]_vars
  BY <1>3
<1>6. SafeRetention
  OBVIOUS
<1> QED
  BY <1>1, <1>4, <1>5, <1>6, InductiveInvariant, PTL DEF Spec, ReadsServed

-----------------------------------------------------------------------------
(* The saved commit index, whatever fails.                                 *)

\* Raft's commit index is not behind the saved one, and neither is that of the
\* Ready being saved.
CommitInv ==
  /\ hsCommit \in Nat /\ commit \in Nat /\ rdCommit \in Nat
  /\ Up => hsCommit <= commit
  /\ Saving \/ Saved => hsCommit <= rdCommit /\ rdCommit <= commit

\* The saved commit index never moves back.  This needs no condition:
\* statements may fail, entries may be replaced while they are being saved.
THEOREM CommitNeverBack == Spec => CommitMonotone
<1>1. Init => CommitInv
  BY DEF Init, CommitInv, Saving, Saved
<1>2. ASSUME CommitInv, [Next]_vars
      PROVE  CommitInv' /\ hsCommit' >= hsCommit
  <2> USE <1>2 DEF CommitInv, Saving, Saved, Up
  <2>1. ASSUME NEW t \in Term, RaftAppend(t) PROVE CommitInv' /\ hsCommit' >= hsCommit
    BY <2>1 DEF RaftAppend, tables, rdVars
  <2>2. ASSUME NEW at \in Index, NEW t \in Term, RaftTruncate(at, t)
        PROVE  CommitInv' /\ hsCommit' >= hsCommit
    BY <2>2 DEF RaftTruncate, tables, rdVars
  <2>3. ASSUME NEW c \in Index, RaftCommit(c) PROVE CommitInv' /\ hsCommit' >= hsCommit
    BY <2>3 DEF RaftCommit, tables, rdVars, Index
  <2>4. ASSUME NEW lo \in Index, RaftReadFirst(lo) PROVE CommitInv' /\ hsCommit' >= hsCommit
    BY <2>4 DEF RaftReadFirst, tables, raftVars, rdVars
  <2>5. CASE RaftReadEntries
    BY <2>5 DEF RaftReadEntries, tables, raftVars, rdVars
  <2>6. ASSUME NEW page \in 0..MaxIndex, TakeReady(page) PROVE CommitInv' /\ hsCommit' >= hsCommit
    BY <2>6 DEF TakeReady, tables, raftVars
  <2>7. CASE InsertRow \/ ReinsertRow
    BY <2>7 DEF InsertRow, ReinsertRow, AfterRow, raftVars
  <2>8. CASE DeleteConflicting \/ TrimOld
    BY <2>8 DEF DeleteConflicting, TrimOld, raftVars, rdVars
  <2>9. CASE AppendFails \/ HardStateFails
    BY <2>9 DEF AppendFails, HardStateFails, tables, raftVars, rdVars
  <2>10. CASE SaveHardState
    BY <2>10 DEF SaveHardState, raftVars, rdVars
  <2>11. CASE SendMessages
    BY <2>11 DEF SendMessages, tables, raftVars, rdVars
  <2>12. CASE ApplyEntry
    BY <2>12 DEF ApplyEntry, raftVars
  <2>13. CASE Advance
    BY <2>13 DEF Advance, tables
  <2>14. CASE Crash
    BY <2>14 DEF Crash, tables
  <2>15. CASE Start \/ Restart
    BY <2>15 DEF Start, Restart, LoadState, tables, rdVars
  <2>16. CASE UNCHANGED vars
    BY <2>16 DEF vars, tables, raftVars, rdVars
  <2> QED
    BY <2>1, <2>2, <2>3, <2>4, <2>5, <2>6, <2>7, <2>8, <2>9, <2>10, <2>11, <2>12,
       <2>13, <2>14, <2>15, <2>16 DEF Next, RaftNext, LoopNext
<1>3. CommitInv /\ [Next]_vars => CommitInv'
  BY <1>2
<1>4. CommitInv /\ [Next]_vars => [hsCommit' >= hsCommit]_vars
  BY <1>2
<1> QED
  BY <1>1, <1>3, <1>4, PTL DEF Spec, CommitMonotone

-----------------------------------------------------------------------------
(* A new leader may replace entries of the Ready that is being saved       *)
(* and statements may fail: what still holds of the table.                 *)

\* Retention keeps the entries that raft has and the loop has not executed.
KeepsUnapplied == Retain = 0 \/ MaxUnapplied <= Retain

Writing == pc \in {"insert", "reinsert"}
Written == pc \in {"trim", "hardstate", "send", "apply", "advance"}

\* The loop's locals, whatever fails.
LocalsInv ==
  /\ TypeOK
  /\ Writing => rdLo <= next /\ next <= rdHi
  /\ pc = "trim" => Retain # 0 /\ Batch
  /\ pc = "apply" => applyNext <= applyHi
  /\ pc \in {"ready", "down"} => rdLog = NoLog
  /\ pc = "down" => crashes > 0

\* Table e has no row i, but one below it.
Gap(e, i) == e[i] = NoRow /\ \E k \in Index : k < i /\ e[k] # NoRow

\* Table e has, at index i, entry v of a log, unless i is one of the x entries
\* executed; an index missing between rows is missing in the log as well.
Mirrors(e, x, i, v) ==
  /\ e[i] # NoRow \/ i <= x
  /\ e[i] # NoRow => e[i] = v
  /\ Gap(e, i) => v = NoRow

\* Raft's memory: the table mirrors it up to the stable index; when nothing is
\* unstable, or all is executed, nothing stale is above it.
RaftInv == Up =>
  /\ stable <= last /\ hsCommit <= commit /\ commit <= last /\ last <= executed + MaxUnapplied
  /\ \A i \in Index : i > last => log[i] = NoRow
  /\ \A i \in Index : i <= last /\ (stable < i \/ crashes = 0) => log[i] # NoRow
  /\ \A i \in Index : i <= stable => Mirrors(entries, executed, i, log[i])
  /\ stable = last \/ last <= executed => \A r \in Index : Row(r) => r <= last
  /\ Mismatched(log, rdLog) = {}

\* The Ready at hand may have been overtaken, but not in what it has committed.
OvertakenInv == Saving \/ Saved =>
  /\ hsCommit <= rdCommit /\ rdCommit <= commit /\ rdCommit <= rdHi /\ applyHi <= rdCommit
  /\ Saved => hsCommit = rdCommit
  /\ stable < rdLo /\ rdHi <= executed + MaxUnapplied
  /\ Batch => stable < last
  /\ rdCommit < last \/ rdHi <= last
  /\ \A i \in Index : i <= rdCommit => rdLog[i] = log[i]
  /\ \A i \in Index : rdLo <= i /\ i <= rdHi => rdLog[i] # NoRow
  /\ \A i \in Index : i < rdLo => Mirrors(entries, executed, i, rdLog[i])

\* How far AppendEntries has come, over retired indexes perhaps.
ProgressInv ==
  /\ Writing => \A i \in Index : rdLo <= i /\ i < next => entries[i] = rdLog[i]
  /\ pc = "insert" /\ rdHi <= executed => \A r \in Index : Row(r) => r <= rdHi
  /\ pc = "reinsert" => \A r \in Index : Row(r) => r < next
  /\ Written => \A r \in Index : Row(r) => r <= rdHi
  /\ Written => \A i \in Index : rdLo <= i /\ i <= rdHi =>
       entries[i] = rdLog[i] \/ (i < rdHi /\ i <= executed /\ ~Row(i) /\ ~Gap(entries, i))

\* Below any row only executed entries are missing.
TableInv ==
  /\ executed <= hsCommit
  /\ \A r \in Index : Row(r) => r <= executed + MaxUnapplied
  /\ \A r, k \in Index : Row(r) /\ k < r => Row(k) \/ k <= executed

OverInv == RaftInv /\ OvertakenInv /\ ProgressInv /\ TableInv

FInv == LocalsInv /\ (failures = 0 => OverInv)

\* The loop's locals have their types and stay in range, with statements that
\* fail and with any retention.
LEMMA LocalsStep ==
  ASSUME LocalsInv, [Next]_vars
  PROVE  LocalsInv'
<1> USE BoundsAssumption
<1>0. /\ TypeOK /\ FirstIndex \in 1..(MaxIndex + 1) /\ LastIndex \in 0..MaxIndex
      /\ NextOffset \in 1..(MaxIndex + 1)
  <2>1. TypeOK /\ FirstIndex \in 1..(MaxIndex + 1) /\ LastIndex \in 0..MaxIndex
    BY TableEnds DEF LocalsInv
  <2> QED
    BY <2>1 DEF TypeOK, NextOffset
<1> USE DEF LocalsInv, TypeOK, Writing, Batch, Pc, Index, Term
<1>1. ASSUME NEW t \in Term, RaftAppend(t) PROVE LocalsInv'
  <2>1. log \in LogType /\ t \in 0..MaxTerm /\ log' = [log EXCEPT ![last + 1] = t]
    BY <1>1 DEF RaftAppend
  <2>2. log' \in LogType
    BY <2>1, LogUpdate
  <2> QED
    BY <1>1, <2>2 DEF RaftAppend, tables, readVars, rdVars, history
<1>2. ASSUME NEW at \in Index, NEW t \in Term, RaftTruncate(at, t) PROVE LocalsInv'
  <2>1. log' \in LogType /\ promised' \in LogType
    <3>1. /\ NoRow \in 0..MaxTerm /\ t \in 0..MaxTerm
          /\ \A i \in Index : log[i] \in 0..MaxTerm /\ promised[i] \in 0..MaxTerm
      BY DEF LogType, NoRow
    <3> QED
      BY <1>2, <3>1 DEF RaftTruncate, LogType
  <2>2. last' \in 0..MaxIndex /\ stable' \in 0..MaxIndex
    BY <1>2 DEF RaftTruncate
  <2>3. UNCHANGED <<tables, commit, raftApplied, readVars, pc, rdVars, executed, crashes, failures>>
    BY <1>2 DEF RaftTruncate
  <2>4. replaced' \in BOOLEAN
    BY <1>2, Zenon DEF RaftTruncate
  <2> QED
    BY <2>1, <2>2, <2>3, <2>4 DEF tables, readVars, rdVars
<1>3. ASSUME NEW c \in Index, RaftCommit(c) PROVE LocalsInv'
  BY <1>3 DEF RaftCommit, tables, readVars, rdVars, history
<1>4. ASSUME NEW lo \in Index, RaftReadFirst(lo) PROVE LocalsInv'
  BY <1>4 DEF RaftReadFirst, tables, raftVars, rdVars, history
<1>5. CASE RaftReadEntries
  BY <1>5 DEF RaftReadEntries, tables, raftVars, rdVars, history
<1>6. ASSUME NEW page \in 0..MaxIndex, TakeReady(page) PROVE LocalsInv'
  BY <1>0, <1>6 DEF TakeReady, RaftIdle, tables, raftVars, readVars, history
<1>7. CASE InsertRow \/ ReinsertRow
  <2>1. next \in Index /\ rdLog[next] \in 0..MaxTerm
    BY <1>7 DEF InsertRow, ReinsertRow, LogType
  <2>2. entries' \in LogType
    BY <1>7, <2>1, LogUpdate DEF InsertRow, ReinsertRow
  <2> QED
    BY <1>7, <2>1, <2>2 DEF InsertRow, ReinsertRow, AfterRow, raftVars, readVars, history
<1>8. CASE DeleteConflicting \/ TrimOld
  <2>1. entries' \in LogType
    <3>1. CASE DeleteConflicting
      BY <3>1 DEF DeleteConflicting, LogType, NoRow
    <3>2. CASE TrimOld
      BY <3>2 DEF TrimOld, LogType, NoRow
    <3> QED
      BY <1>8, <3>1, <3>2
  <2> QED
    BY <1>8, <2>1 DEF DeleteConflicting, TrimOld, raftVars, readVars, rdVars, history
<1>9. CASE AppendFails \/ HardStateFails
  BY <1>9 DEF AppendFails, HardStateFails, tables, raftVars, readVars, rdVars
<1>10. CASE SaveHardState
  BY <1>10 DEF SaveHardState, raftVars, readVars, rdVars, history
<1>11. CASE SendMessages
  <2>1. promised' \in LogType
    BY <1>11 DEF SendMessages, LogType
  <2> QED
    BY <1>11, <2>1 DEF SendMessages, tables, raftVars, readVars, rdVars
<1>12. CASE ApplyEntry
  BY <1>12 DEF ApplyEntry, raftVars, readVars
<1>13. CASE Advance
  BY <1>13, LogUpdate DEF Advance, tables, readVars, history
<1>14. CASE Crash
  BY <1>14, LogUpdate DEF Crash, tables
<1>15. CASE Start \/ Restart
  BY <1>0, <1>15 DEF Start, Restart, LoadState, tables, readVars, rdVars, history
<1>16. CASE UNCHANGED vars
  BY <1>16 DEF vars, tables, raftVars, readVars, rdVars, history
<1> QED
  BY <1>1, <1>2, <1>3, <1>4, <1>5, <1>6, <1>7, <1>8, <1>9, <1>10, <1>11, <1>12,
     <1>13, <1>14, <1>15, <1>16 DEF Next, RaftNext, LoopNext

\* More executed entries, or a table that is the same up to there, change
\* nothing; neither does retention of the first c executed ones.
LEMMA MirrorsKept ==
  ASSUME NEW e \in LogType, NEW f \in LogType, NEW x \in Nat, NEW y \in Nat, NEW c \in Int,
         x <= y, c <= x, NEW i \in Index, NEW v, Mirrors(e, x, i, v),
         \/ \A k \in Index : k <= i => f[k] = e[k]
         \/ \A k \in Index : f[k] = IF k <= c THEN NoRow ELSE e[k]
  PROVE  Mirrors(f, y, i, v)
<1>1. \A k \in Index : k <= i => f[k] = e[k] \/ (f[k] = NoRow /\ k <= x)
  BY DEF Index
<1>2. Gap(f, i) => Gap(e, i)
  BY DEF Gap, Index
<1> QED
  BY <1>1, <1>2 DEF Mirrors, Index

\* Retention leaves no gap that was not there.
LEMMA GapKept ==
  ASSUME NEW e \in LogType, NEW f \in LogType, NEW c \in Int, NEW i \in Index, Gap(f, i),
         \A k \in Index : f[k] = IF k <= c THEN NoRow ELSE e[k]
  PROVE  i > c /\ Gap(e, i)
BY DEF Gap, Index

\* The invariant holds of the empty tables a node starts with.
LEMMA OverInit == Init => FInv
<1> SUFFICES ASSUME Init PROVE FInv
  OBVIOUS
<1>1. TypeOK
  BY InitInv DEF IInv
<1>2. \A i \in Index : entries[i] = NoRow /\ log[i] = NoRow /\ rdLog[i] = NoRow
  BY DEF Init, NoLog
<1>3. LocalsInv
  BY <1>1 DEF Init, LocalsInv, Writing
<1>4. RaftInv
  BY <1>2, BoundsAssumption DEF Init, RaftInv, Mismatched, Row, Index
<1>5. OvertakenInv /\ ProgressInv /\ TableInv
  BY <1>2, BoundsAssumption
  DEF Init, OvertakenInv, ProgressInv, TableInv, Saving, Saved, Writing, Written, Row, Index
<1> QED
  BY <1>3, <1>4, <1>5 DEF FInv, OverInv

\* A new entry is above everything raft or the loop has.
LEMMA OverRaftAppend ==
  ASSUME LocalsInv, OverInv, NEW t \in Term, RaftAppend(t)
  PROVE  OverInv'
<1> USE BoundsAssumption
<1>1. /\ TypeOK /\ Up /\ RaftInv /\ executed <= hsCommit
      /\ last' = last + 1 /\ last < MaxIndex /\ last - executed < MaxUnapplied
      /\ UNCHANGED <<tables, stable, commit, raftApplied, readVars, pc, rdVars, history>>
  BY DEF LocalsInv, OverInv, TableInv, RaftAppend, RaftIdle, Up
<1>2. \A i \in Index : log'[i] = IF i = last + 1 THEN t ELSE log[i]
  BY <1>1 DEF RaftAppend, TypeOK, LogType, Index
<1>3. t # NoRow
  BY DEF Term, NoRow
<1>4. Mismatched(log', rdLog') = {}
  BY <1>1 DEF RaftAppend, LogMatching, rdVars
<1>5. RaftInv'
  <2>1. \A i \in Index : i <= stable => Mirrors(entries, executed, i, log'[i])
    BY <1>1, <1>2 DEF RaftInv, TypeOK, Index
  <2>2. \A i \in Index : i <= last' /\ (stable < i \/ crashes = 0) => log'[i] # NoRow
    BY <1>1, <1>2, <1>3 DEF RaftInv, TypeOK, Index
  <2>3. \A i \in Index : i > last' => log'[i] = NoRow
    BY <1>1, <1>2 DEF RaftInv, TypeOK, Index
  <2>4. /\ stable < last' /\ hsCommit <= commit /\ commit <= last'
        /\ executed < last' /\ last' <= executed + MaxUnapplied
    BY <1>1 DEF RaftInv, TypeOK
  <2>5. Mismatched(log, rdLog)' = {}
    BY <1>4 DEF Mismatched
  <2> QED
    BY <1>1, <2>1, <2>2, <2>3, <2>4, <2>5 DEF RaftInv, TypeOK, tables, history
<1>6. OvertakenInv'
  <2>1. \A i \in Index : i <= commit => log'[i] = log[i]
    BY <1>1, <1>2 DEF RaftInv, TypeOK, Index
  <2> QED
    BY <1>1, <2>1
    DEF OverInv, OvertakenInv, RaftInv, TypeOK, Saving, Saved, Batch, Index,
        tables, rdVars, history
<1>7. ProgressInv' /\ TableInv'
  BY <1>1
  DEF OverInv, ProgressInv, TableInv, Writing, Written, Row, Gap, tables, rdVars, history
<1> QED
  BY <1>5, <1>6, <1>7 DEF OverInv

\* A new leader's entry replaces nothing that the Ready has committed.
LEMMA OverRaftTruncate ==
  ASSUME LocalsInv, OverInv, NEW at \in Index, NEW t \in Term, RaftTruncate(at, t)
  PROVE  OverInv'
<1> USE BoundsAssumption
<1>1. /\ TypeOK /\ Up /\ RaftInv /\ executed <= hsCommit
      /\ commit < at /\ at <= last /\ last' = at
      /\ UNCHANGED <<tables, commit, raftApplied, readVars, pc, rdVars,
                     executed, crashes, failures>>
  BY DEF LocalsInv, OverInv, TableInv, RaftTruncate, RaftIdle, Up
<1>2. \A i \in Index : log'[i] = IF i < at THEN log[i] ELSE IF i = at THEN t ELSE NoRow
  BY DEF RaftTruncate
<1>3. t # NoRow
  BY DEF Term, NoRow
<1>4. Mismatched(log', rdLog') = {}
  BY <1>1 DEF RaftTruncate, LogMatching, rdVars
<1>5. /\ stable' \in 0..MaxIndex /\ stable' <= stable /\ stable' < at
      /\ (stable < at => stable' = stable) /\ (at <= stable => stable' = at - 1)
  BY <1>1 DEF RaftTruncate, TypeOK, Index
<1>6. RaftInv'
  <2>1. \A i \in Index : i <= stable' => Mirrors(entries, executed, i, log'[i])
    BY <1>1, <1>2, <1>5 DEF RaftInv, TypeOK, Index
  <2>2. \A i \in Index : i <= last' /\ (stable' < i \/ crashes = 0) => log'[i] # NoRow
    BY <1>1, <1>2, <1>3, <1>5 DEF RaftInv, TypeOK, Index
  <2>3. \A i \in Index : i > last' => log'[i] = NoRow
    BY <1>1, <1>2 DEF TypeOK, Index
  <2>4. /\ stable' < last' /\ hsCommit <= commit /\ commit <= last'
        /\ executed < last' /\ last' <= executed + MaxUnapplied
    BY <1>1, <1>5 DEF RaftInv, TypeOK, Index
  <2>5. Mismatched(log, rdLog)' = {}
    BY <1>4 DEF Mismatched
  <2> QED
    BY <1>1, <1>5, <2>1, <2>2, <2>3, <2>4, <2>5 DEF RaftInv, TypeOK, tables, Index
<1>7. OvertakenInv'
  <2>1. \A i \in Index : i <= commit => log'[i] = log[i]
    BY <1>1, <1>2 DEF TypeOK, Index
  <2> QED
    BY <1>1, <1>5, <2>1
    DEF OverInv, OvertakenInv, TypeOK, Saving, Saved, Batch, Index, tables, rdVars
<1>8. ProgressInv' /\ TableInv'
  BY <1>1
  DEF OverInv, ProgressInv, TableInv, Writing, Written, Row, Gap, tables, rdVars
<1> QED
  BY <1>6, <1>7, <1>8 DEF OverInv

\* Raft's commit index moves within its log.
LEMMA OverRaftCommit ==
  ASSUME LocalsInv, OverInv, NEW c \in Index, RaftCommit(c)
  PROVE  OverInv'
<1> USE BoundsAssumption
<1>1. /\ TypeOK /\ Up /\ commit < c /\ c <= last /\ commit' = c
      /\ UNCHANGED <<tables, log, last, stable, pc, rdVars, history>>
  BY DEF LocalsInv, RaftCommit, RaftIdle, Up
<1>2. RaftInv'
  BY <1>1
  DEF OverInv, RaftInv, TypeOK, Mirrors, Gap, Mismatched, Row, Index, tables, rdVars, history
<1>3. OvertakenInv'
  BY <1>1
  DEF OverInv, OvertakenInv, TypeOK, Mirrors, Gap, Saving, Saved, Batch, Index,
      tables, rdVars, history
<1>4. ProgressInv' /\ TableInv'
  BY <1>1
  DEF OverInv, ProgressInv, TableInv, Writing, Written, Row, Gap, tables, rdVars, history
<1> QED
  BY <1>2, <1>3, <1>4 DEF OverInv

\* Steps that change nothing the invariant speaks of.
LEMMA OverIdle ==
  ASSUME OverInv, UNCHANGED <<tables, raftVars, pc, rdVars, executed, crashes>>
  PROVE  OverInv'
<1>1. RaftInv'
  BY DEF OverInv, RaftInv, Up, Mirrors, Gap, Mismatched, Row, tables, raftVars, rdVars
<1>2. OvertakenInv'
  BY DEF OverInv, OvertakenInv, Mirrors, Gap, Saving, Saved, Batch, tables, raftVars, rdVars
<1>3. ProgressInv' /\ TableInv'
  BY DEF OverInv, ProgressInv, TableInv, Writing, Written, Row, Gap, tables, raftVars, rdVars
<1> QED
  BY <1>1, <1>2, <1>3 DEF OverInv

\* A Ready is a copy of what raft has; without entries nothing is stale.
LEMMA OverTakeReady ==
  ASSUME LocalsInv, OverInv, NEW page \in 0..MaxIndex, TakeReady(page)
  PROVE  OverInv'
<1> USE BoundsAssumption
<1>1. /\ TypeOK /\ Up /\ RaftInv /\ TableInv
      /\ rdLo' = stable + 1 /\ rdHi' = last /\ rdLog' = log /\ rdCommit' = commit
      /\ next' = stable + 1 /\ applyHi' = page
      /\ pc' = IF stable < last THEN "insert" ELSE "hardstate"
      /\ UNCHANGED <<tables, raftVars, executed, crashes>>
  BY DEF LocalsInv, OverInv, TakeReady, Up, history
<1>2. page <= commit
  BY <1>1 DEF TakeReady, TypeOK, NextOffset
<1>3. Mismatched(log', rdLog') = {}
  BY <1>1 DEF Mismatched, raftVars
<1>4. RaftInv'
  <2>1. Mismatched(log, rdLog)' = {}
    BY <1>3 DEF Mismatched
  <2> QED
    BY <1>1, <2>1 DEF RaftInv, Mirrors, Gap, Row, tables, raftVars
<1>5. OvertakenInv'
  <2>1. \A i \in Index : i < rdLo' => Mirrors(entries, executed, i, log[i])
    BY <1>1 DEF RaftInv, TypeOK, Index
  <2>2. pc' \notin {"send", "apply", "advance"}
    BY <1>1
  <2> QED
    BY <1>1, <1>2, <2>1, <2>2
    DEF RaftInv, OvertakenInv, TypeOK, Mirrors, Gap, Saved, Batch, Index, tables, raftVars
<1>6. ProgressInv' /\ TableInv'
  BY <1>1
  DEF RaftInv, ProgressInv, TableInv, TypeOK, Writing, Written, Row, Index, tables, raftVars
<1> QED
  BY <1>4, <1>5, <1>6 DEF OverInv

\* A row inserted where there is none: the batch goes on above the rows it has,
\* and its last row is the last row of the table.
LEMMA OverPutRow ==
  ASSUME LocalsInv, OverInv, InsertRow \/ ReinsertRow
  PROVE  OverInv'
<1> USE BoundsAssumption
<1>1. /\ TypeOK /\ Up /\ Saving /\ RaftInv /\ OvertakenInv /\ ProgressInv /\ TableInv
      /\ rdLo <= next /\ next <= rdHi /\ next \in Index /\ Batch
      /\ entries' = [entries EXCEPT ![next] = rdLog[next]]
      /\ next' = next + 1 /\ pc' = AfterRow
      /\ UNCHANGED <<hsCommit, raftVars, rdLo, rdHi, rdLog, rdCommit, applyHi, executed, crashes>>
  BY DEF LocalsInv, OverInv, TypeOK, InsertRow, ReinsertRow, Writing, Up, Saving, Batch,
    Index, history
<1>2. entries[next] = NoRow /\ rdLog[next] # NoRow
  BY <1>1 DEF InsertRow, ReinsertRow, OvertakenInv, ProgressInv, Row, TypeOK, Index
<1>3. \A i \in Index : entries'[i] = IF i = next THEN rdLog[next] ELSE entries[i]
  BY <1>1 DEF TypeOK, LogType
<1>4. entries \in LogType /\ entries' \in LogType
  <2>1. rdLog[next] \in 0..MaxTerm
    BY <1>1 DEF TypeOK, LogType
  <2> QED
    BY <1>1, <2>1, LogUpdate DEF TypeOK
<1>5. ASSUME NEW i \in Index, NEW v, i < rdLo, Mirrors(entries, executed, i, v)
      PROVE  Mirrors(entries', executed, i, v)
  <2>1. \A k \in Index : k <= i => entries'[k] = entries[k]
    BY <1>1, <1>3, <1>5 DEF TypeOK, Index
  <2>2. executed \in Nat /\ executed \in Int /\ executed <= executed
    BY <1>1 DEF TypeOK
  <2> QED
    BY <1>4, <1>5, <2>1, <2>2, MirrorsKept
<1>6. RaftInv'
  <2>1. \A i \in Index : i <= stable => Mirrors(entries', executed, i, log[i])
    <3>1. \A i \in Index : i <= stable => i < rdLo /\ Mirrors(entries, executed, i, log[i])
      BY <1>1 DEF RaftInv, OvertakenInv, TypeOK, Index
    <3> QED
      BY <1>5, <3>1
  <2>2. stable = last \/ last <= executed => \A r \in Index : entries'[r] # NoRow => r <= last
    <3>1. stable = last \/ last <= executed => rdHi <= last
      BY <1>1 DEF RaftInv, OvertakenInv, TableInv, TypeOK
    <3> QED
      BY <1>1, <1>3, <3>1 DEF RaftInv, Row, TypeOK, Index
  <2> QED
    BY <1>1, <2>1, <2>2 DEF RaftInv, Up, Row, Mismatched, raftVars
<1>7. OvertakenInv'
  <2>1. pc' \notin {"send", "apply", "advance"}
    BY <1>1 DEF AfterRow
  <2>2. \A i \in Index : i < rdLo => Mirrors(entries', executed, i, rdLog[i])
    BY <1>1, <1>5 DEF OvertakenInv
  <2> QED
    BY <1>1, <2>1, <2>2 DEF OvertakenInv, Saved, Batch, raftVars
<1>8. ProgressInv'
  <2>1. \A i \in Index : rdLo <= i /\ i <= next => entries'[i] = rdLog[i]
    BY <1>1, <1>3 DEF ProgressInv, Writing, InsertRow, ReinsertRow, TypeOK, Index
  <2>2. rdHi <= executed => \A r \in Index : Row(r) => r <= rdHi
    BY <1>1 DEF ProgressInv, InsertRow, ReinsertRow, TypeOK, Index
  <2>3. rdHi <= executed => \A r \in Index : entries'[r] # NoRow => r <= rdHi
    BY <1>1, <1>3, <2>2 DEF Row
  <2>4. CASE next < rdHi
    <3>1. pc' = "insert"
      BY <1>1, <2>4 DEF AfterRow
    <3> QED
      BY <1>1, <2>1, <2>3, <3>1 DEF ProgressInv, Written, Row, TypeOK, Index
  <2>5. CASE next = rdHi
    <3>1. pc' \in {"hardstate", "trim"}
      BY <1>1, <2>5 DEF AfterRow, TypeOK, Index
    <3>2. ASSUME NEW r \in Index, Row(r) PROVE r <= rdHi
      BY <1>1, <1>2, <2>2, <2>5, <3>2 DEF TableInv, Row, TypeOK, Index
    <3>3. \A r \in Index : entries'[r] # NoRow => r <= rdHi
      BY <1>1, <1>3, <3>2 DEF Row
    <3> QED
      BY <1>1, <2>1, <2>5, <3>1, <3>3 DEF ProgressInv, Writing, Row
  <2> QED
    BY <1>1, <2>4, <2>5 DEF TypeOK, Index
<1>9. TableInv'
  <2>1. \A r \in Index : entries'[r] # NoRow => r <= executed + MaxUnapplied
    BY <1>1, <1>3 DEF TableInv, OvertakenInv, Row, TypeOK, Index
  <2>2. \A k \in Index : k < next => Row(k) \/ k <= executed
    <3>1. \A k \in Index : k < rdLo => Row(k) \/ k <= executed
      BY <1>1 DEF OvertakenInv, Mirrors, Row
    <3>2. \A k \in Index : rdLo <= k /\ k < next => Row(k)
      BY <1>1 DEF ProgressInv, OvertakenInv, Writing, InsertRow, ReinsertRow, Row, TypeOK, Index
    <3> QED
      BY <1>1, <3>1, <3>2 DEF TypeOK, Index
  <2>3. \A r, k \in Index : entries'[r] # NoRow /\ k < r => entries'[k] # NoRow \/ k <= executed
    BY <1>1, <1>2, <1>3, <2>2 DEF TableInv, Row
  <2> QED
    BY <1>1, <2>1, <2>3 DEF TableInv, Row
<1> QED
  BY <1>6, <1>7, <1>8, <1>9 DEF OverInv

\* The DELETE of conflicting rows leaves what is below the batch.
LEMMA OverDelete ==
  ASSUME LocalsInv, OverInv, DeleteConflicting
  PROVE  OverInv'
<1> USE BoundsAssumption
<1>1. /\ TypeOK /\ Up /\ Saving /\ Writing
      /\ RaftInv /\ OvertakenInv /\ ProgressInv /\ TableInv
      /\ rdLo <= next /\ next <= rdHi
      /\ \A i \in Index : entries'[i] = IF i >= next THEN NoRow ELSE entries[i]
      /\ pc' = "reinsert"
      /\ UNCHANGED <<hsCommit, raftVars, rdVars, executed, crashes>>
  BY DEF LocalsInv, OverInv, DeleteConflicting, Writing, Up, Saving, history
<1>2. entries \in LogType /\ entries' \in LogType
  BY DEF LocalsInv, TypeOK, DeleteConflicting, LogType, NoRow
<1>3. ASSUME NEW i \in Index, NEW v, i < rdLo, Mirrors(entries, executed, i, v)
      PROVE  Mirrors(entries', executed, i, v)
  <2>1. \A k \in Index : k <= i => entries'[k] = entries[k]
    BY <1>1, <1>3 DEF TypeOK, Index
  <2> QED
    BY <1>1, <1>2, <1>3, <2>1, MirrorsKept DEF TypeOK
<1>4. RaftInv'
  <2>1. \A i \in Index : i <= stable => Mirrors(entries', executed, i, log[i])
    BY <1>1, <1>3 DEF RaftInv, OvertakenInv, TypeOK, Index
  <2> QED
    BY <1>1, <2>1 DEF RaftInv, Up, Row, Mismatched, raftVars, rdVars
<1>5. OvertakenInv'
  <2>1. \A i \in Index : i < rdLo => Mirrors(entries', executed, i, rdLog[i])
    BY <1>1, <1>3 DEF OvertakenInv
  <2> QED
    BY <1>1, <2>1 DEF OvertakenInv, Saved, Batch, raftVars, rdVars
<1>6. ProgressInv' /\ TableInv'
  BY <1>1 DEF ProgressInv, TableInv, Writing, Written, Row, TypeOK, Index, rdVars
<1> QED
  BY <1>4, <1>5, <1>6 DEF OverInv

\* Retention removes executed entries only, and not the last of the batch.
LEMMA OverTrim ==
  ASSUME KeepsUnapplied, LocalsInv, OverInv, TrimOld
  PROVE  OverInv'
<1> USE BoundsAssumption
<1> DEFINE c == rdHi - Retain
<1>1. /\ TypeOK /\ Up /\ Saving /\ Written /\ Batch /\ Retain # 0
      /\ RaftInv /\ OvertakenInv /\ ProgressInv /\ TableInv
      /\ pc' = "hardstate"
      /\ UNCHANGED <<hsCommit, raftVars, rdVars, executed, crashes>>
  BY DEF LocalsInv, OverInv, TrimOld, Written, Up, Saving, history
<1>2. c \in Int /\ c <= executed /\ c < rdHi
  BY <1>1 DEF KeepsUnapplied, OvertakenInv, TypeOK
<1>3. \A i \in Index : entries'[i] = IF i <= c THEN NoRow ELSE entries[i]
  BY <1>1 DEF TrimOld, TypeOK, Index
<1>4. entries \in LogType /\ entries' \in LogType
  BY DEF LocalsInv, TypeOK, TrimOld, LogType, NoRow
<1> HIDE DEF c
<1>5. ASSUME NEW i \in Index, NEW v, Mirrors(entries, executed, i, v)
      PROVE  Mirrors(entries', executed, i, v)
  BY <1>1, <1>2, <1>3, <1>4, <1>5, MirrorsKept DEF TypeOK
<1>6. RaftInv'
  <2>1. \A i \in Index : i <= stable => Mirrors(entries', executed, i, log[i])
    BY <1>1, <1>5 DEF RaftInv
  <2> QED
    BY <1>1, <1>3, <2>1 DEF RaftInv, Up, Row, Mismatched, raftVars, rdVars
<1>7. OvertakenInv'
  <2>1. \A i \in Index : i < rdLo => Mirrors(entries', executed, i, rdLog[i])
    BY <1>1, <1>5 DEF OvertakenInv
  <2> QED
    BY <1>1, <2>1 DEF OvertakenInv, Saved, Batch, raftVars, rdVars
<1>8. ProgressInv'
  <2>1. ASSUME NEW i \in Index, rdLo <= i, i <= rdHi
        PROVE  \/ entries'[i] = rdLog[i]
               \/ i < rdHi /\ i <= executed /\ entries'[i] = NoRow /\ ~Gap(entries', i)
    <3>1. Gap(entries', i) => i > c /\ Gap(entries, i)
      BY <1>2, <1>3, <1>4, GapKept
    <3>2. CASE i <= c
      BY <1>1, <1>2, <1>3, <3>1, <3>2 DEF TypeOK, Index
    <3>3. CASE ~(i <= c)
      BY <1>1, <1>3, <2>1, <3>1, <3>3 DEF ProgressInv, Row
    <3> QED
      BY <3>2, <3>3
  <2>2. \A r \in Index : entries'[r] # NoRow => r <= rdHi
    BY <1>1, <1>3 DEF ProgressInv, Row
  <2> QED
    BY <1>1, <2>1, <2>2 DEF ProgressInv, Writing, Row, rdVars
<1>9. TableInv'
  BY <1>1, <1>2, <1>3 DEF TableInv, Row, TypeOK, Index
<1> QED
  BY <1>6, <1>7, <1>8, <1>9 DEF OverInv

\* The hard state saved is that of the Ready.
LEMMA OverSaveHardState ==
  ASSUME LocalsInv, OverInv, SaveHardState
  PROVE  OverInv'
<1>1. /\ TypeOK /\ Up /\ Saving /\ Written
      /\ RaftInv /\ OvertakenInv /\ ProgressInv /\ TableInv
      /\ hsCommit' = rdCommit /\ pc' = "send"
      /\ UNCHANGED <<entries, raftVars, rdVars, executed, crashes>>
  BY DEF LocalsInv, OverInv, SaveHardState, Written, Up, Saving, history
<1>2. RaftInv'
  BY <1>1 DEF RaftInv, OvertakenInv, Mirrors, Gap, Mismatched, Row, raftVars, rdVars
<1>3. OvertakenInv'
  BY <1>1 DEF OvertakenInv, Mirrors, Gap, Batch, TypeOK, raftVars, rdVars
<1>4. ProgressInv' /\ TableInv'
  BY <1>1 DEF ProgressInv, TableInv, OvertakenInv, Writing, Written, Row, Gap, TypeOK, rdVars
<1> QED
  BY <1>2, <1>3, <1>4 DEF OverInv

\* Sending touches neither tables nor raft's memory.
LEMMA OverSend ==
  ASSUME LocalsInv, OverInv, SendMessages
  PROVE  OverInv'
<1>1. /\ TypeOK /\ Up /\ Saved /\ Written
      /\ RaftInv /\ OvertakenInv /\ ProgressInv /\ TableInv
      /\ pc' \in {"apply", "advance"}
      /\ UNCHANGED <<tables, raftVars, rdVars, executed, crashes>>
  BY DEF LocalsInv, OverInv, SendMessages, Written, Up, Saved
<1>2. RaftInv'
  BY <1>1 DEF RaftInv, Mirrors, Gap, Mismatched, Row, tables, raftVars, rdVars
<1>3. OvertakenInv'
  BY <1>1 DEF OvertakenInv, Mirrors, Gap, Batch, tables, raftVars, rdVars
<1>4. ProgressInv' /\ TableInv'
  BY <1>1 DEF ProgressInv, TableInv, Writing, Written, Row, Gap, tables, rdVars
<1> QED
  BY <1>2, <1>3, <1>4 DEF OverInv

\* Execution stays within what is saved as committed.
LEMMA OverApply ==
  ASSUME LocalsInv, OverInv, ApplyEntry
  PROVE  OverInv'
<1> USE BoundsAssumption
<1>1. /\ TypeOK /\ Up /\ Saved /\ Written
      /\ RaftInv /\ OvertakenInv /\ ProgressInv /\ TableInv
      /\ pc' \in {"apply", "advance"}
      /\ UNCHANGED <<entries, hsCommit, raftVars, rdLo, rdHi, rdLog, rdCommit, applyHi, crashes>>
  BY DEF LocalsInv, OverInv, ApplyEntry, Written, Up, Saved
<1>2. executed \in Nat /\ executed' \in Nat /\ executed <= executed' /\ executed' <= hsCommit
  BY <1>1 DEF LocalsInv, TypeOK, ApplyEntry, OvertakenInv, TableInv
<1>3. \A n \in Int : n <= executed + MaxUnapplied => n <= executed' + MaxUnapplied
  <2>1. ASSUME NEW x \in Nat, NEW y \in Nat, x <= y, NEW n \in Int, n <= x + MaxUnapplied
        PROVE  n <= y + MaxUnapplied
    BY <2>1
  <2> QED
    BY <1>2, <2>1
<1>4. \A i \in Index : i <= executed => i <= executed'
  BY <1>2 DEF Index
<1>5. ASSUME NEW i \in Index, NEW v, Mirrors(entries, executed, i, v)
      PROVE  Mirrors(entries, executed', i, v)
  BY <1>2, <1>5 DEF Mirrors, Index
<1>6. RaftInv'
  <2>1. \A i \in Index : i <= stable => Mirrors(entries, executed', i, log[i])
    BY <1>1, <1>5 DEF RaftInv
  <2>2. stable = last \/ last <= executed' => \A r \in Index : Row(r) => r <= last
    BY <1>1, <1>2 DEF RaftInv, OvertakenInv, ProgressInv, TypeOK, Index
  <2>3. last <= executed' + MaxUnapplied
    BY <1>1, <1>3 DEF RaftInv, TypeOK
  <2> QED
    BY <1>1, <2>1, <2>2, <2>3 DEF RaftInv, Row, Mismatched, raftVars
<1>7. OvertakenInv'
  <2>1. \A i \in Index : i < rdLo => Mirrors(entries, executed', i, rdLog[i])
    BY <1>1, <1>5 DEF OvertakenInv
  <2>2. rdHi <= executed' + MaxUnapplied
    BY <1>1, <1>3 DEF OvertakenInv, TypeOK
  <2> QED
    BY <1>1, <2>1, <2>2 DEF OvertakenInv, Batch, raftVars
<1>8. ProgressInv' /\ TableInv'
  <2>1. Index \subseteq Int
    BY DEF Index
  <2>2. ProgressInv'
    BY <1>1, <1>4 DEF ProgressInv, Writing, Row, Gap
  <2>3. TableInv'
    BY <1>1, <1>2, <1>3, <1>4, <2>1 DEF TableInv, Row
  <2> QED
    BY <2>2, <2>3
<1> QED
  BY <1>6, <1>7, <1>8 DEF OverInv

\* Raft takes the batch for stored only when its last entry is still the one it
\* has: by Log Matching the entries below are the same as well.
LEMMA OverAdvance ==
  ASSUME LocalsInv, OverInv, Advance
  PROVE  OverInv'
<1> USE BoundsAssumption
<1>1. /\ TypeOK /\ Up /\ Saved /\ Written
      /\ RaftInv /\ OvertakenInv /\ ProgressInv /\ TableInv
      /\ rdLog' = NoLog /\ pc' = "ready"
      /\ UNCHANGED <<entries, hsCommit, log, last, commit, executed, crashes>>
  BY DEF LocalsInv, OverInv, Advance, Written, Up, Saved, tables, history
<1>2. /\ stable < rdLo /\ executed <= rdCommit
      /\ stable' = stable \/
           (stable' = rdHi /\ rdLo <= rdHi /\ rdHi <= last /\ log[rdHi] = rdLog[rdHi])
  BY <1>1 DEF Advance, OvertakenInv, TableInv, TypeOK
<1>3. ASSUME rdLo <= rdHi, rdHi <= last, log[rdHi] = rdLog[rdHi]
      PROVE  \A i \in Index : i <= rdHi => Mirrors(entries, executed, i, log[i])
  <2>1. rdHi \in Index /\ log[rdHi] # NoRow
    BY <1>1, <1>3 DEF OvertakenInv, TypeOK, Index
  <2>2. \A i \in Index : i <= rdHi => log[i] = NoRow \/ rdLog[i] = NoRow \/ log[i] = rdLog[i]
    <3>1. rdHi \notin Mismatched(log, rdLog)
      BY <1>1 DEF RaftInv
    <3> QED
      BY <1>3, <2>1, <3>1 DEF Mismatched, Index
  <2> SUFFICES ASSUME NEW i \in Index, i <= rdHi
               PROVE  Mirrors(entries, executed, i, log[i])
    OBVIOUS
  <2>3. CASE i <= stable
    BY <1>1, <2>3 DEF RaftInv
  <2>4. CASE stable < i /\ i < rdLo
    <3>1. Mirrors(entries, executed, i, rdLog[i])
      BY <1>1, <2>4 DEF OvertakenInv
    <3>2. log[i] # NoRow
      BY <1>1, <1>3, <2>4 DEF RaftInv, TypeOK, Index
    <3>3. log[i] = rdLog[i]
      <4>1. CASE rdLog[i] # NoRow
        BY <2>2, <3>2, <4>1
      <4>2. CASE rdLog[i] = NoRow
        <5>1. i <= executed
          BY <3>1, <4>2 DEF Mirrors
        <5>2. i <= rdCommit
          BY <1>1, <1>2, <5>1 DEF TypeOK, Index
        <5> QED
          BY <1>1, <5>2 DEF OvertakenInv
      <4> QED
        BY <4>1, <4>2
    <3> QED
      BY <3>1, <3>3
  <2>5. CASE stable < i /\ rdLo <= i
    <3>1. rdLog[i] # NoRow /\ log[i] # NoRow
      BY <1>1, <1>3, <2>5 DEF RaftInv, OvertakenInv, TypeOK, Index
    <3>2. log[i] = rdLog[i]
      BY <2>2, <3>1
    <3>3. entries[i] = rdLog[i] \/ (i <= executed /\ ~Row(i) /\ ~Gap(entries, i))
      BY <1>1, <2>5 DEF ProgressInv
    <3> QED
      BY <3>1, <3>2, <3>3 DEF Mirrors, Gap, Row
  <2> QED
    BY <1>1, <2>3, <2>4, <2>5 DEF TypeOK, Index
<1>4. RaftInv'
  <2>1. \A i \in Index : i <= stable' => Mirrors(entries, executed, i, log[i])
    BY <1>1, <1>2, <1>3 DEF RaftInv
  <2>2. stable' <= last /\ stable <= stable' /\ stable' \in 0..MaxIndex
    BY <1>1, <1>2 DEF RaftInv, TypeOK
  <2>3. stable' = last => \A r \in Index : Row(r) => r <= last
    BY <1>1, <1>2 DEF RaftInv, ProgressInv
  <2>4. Mismatched(log, rdLog)' = {}
    BY <1>1 DEF Mismatched, NoLog
  <2>5. \A i \in Index : i <= last /\ (stable' < i \/ crashes = 0) => log[i] # NoRow
    BY <1>1, <2>2 DEF RaftInv, TypeOK, Index
  <2> QED
    BY <1>1, <2>1, <2>2, <2>3, <2>4, <2>5 DEF RaftInv, Row
<1>5. OvertakenInv' /\ ProgressInv' /\ TableInv'
  BY <1>1 DEF OvertakenInv, ProgressInv, TableInv, Saving, Saved, Writing, Written, Row
<1> QED
  BY <1>4, <1>5 DEF OverInv

\* A crash leaves the tables.
LEMMA OverCrash ==
  ASSUME OverInv, Crash
  PROVE  OverInv'
BY DEF OverInv, Crash, RaftInv, OvertakenInv, ProgressInv, TableInv, Up, Saving, Saved,
  Writing, Written, Row, tables

\* Raft starts again from the rows; holes are holes in its memory as well.
LEMMA OverLoad ==
  ASSUME LocalsInv, OverInv, LoadState
  PROVE  OverInv'
<1> USE BoundsAssumption
<1>1. /\ TypeOK /\ TableInv /\ crashes > 0 /\ rdLog = NoLog
      /\ hsCommit <= LastIndex
      /\ log' = entries /\ last' = LastIndex /\ stable' = LastIndex /\ commit' = hsCommit
      /\ pc' = "ready"
      /\ UNCHANGED <<tables, rdVars, executed, crashes>>
  BY DEF LocalsInv, OverInv, LoadState, history
<1>2. /\ LastIndex \in 0..MaxIndex
      /\ \A r \in Index : Row(r) => r <= LastIndex
      /\ LastIndex # 0 => LastIndex \in Index /\ Row(LastIndex)
  BY <1>1, TableEnds
<1>3. \A i \in Index : i <= LastIndex => Row(i) \/ i <= executed
  BY <1>1, <1>2 DEF TableInv, TypeOK, Index
<1>4. \A i \in Index : i <= LastIndex => Mirrors(entries, executed, i, entries[i])
  BY <1>3 DEF Mirrors, Gap, Row
<1>5. LastIndex <= executed + MaxUnapplied
  BY <1>1, <1>2 DEF TableInv, TypeOK
<1>6. RaftInv'
  <2>1. \A i \in Index : i > LastIndex => entries[i] = NoRow
    BY <1>1, <1>2 DEF Row, TypeOK, Index
  <2>2. Mismatched(log, rdLog)' = {}
    BY <1>1 DEF Mismatched, NoLog, rdVars
  <2>3. \A i \in Index : ~(i <= LastIndex /\ (LastIndex < i \/ crashes = 0))
    BY <1>1, <1>2 DEF TypeOK, Index
  <2> QED
    BY <1>1, <1>2, <1>4, <1>5, <2>1, <2>2, <2>3 DEF RaftInv, Row, TypeOK, tables
<1>7. OvertakenInv' /\ ProgressInv' /\ TableInv'
  BY <1>1 DEF OvertakenInv, ProgressInv, TableInv, Saving, Saved, Writing, Written, Row, tables
<1> QED
  BY <1>6, <1>7 DEF OverInv

\* Every step keeps the invariant; the first failure ends what it says.
LEMMA OverStep ==
  ASSUME KeepsUnapplied, FInv, [Next]_vars
  PROVE  FInv'
<1>1. LocalsInv'
  BY LocalsStep DEF FInv
<1>2. ASSUME failures' = 0 PROVE OverInv'
  <2>1. failures = 0
    BY <1>2, CalmBefore, BoundsAssumption DEF FInv, LocalsInv, TypeOK
  <2>2. LocalsInv /\ OverInv
    BY <2>1 DEF FInv
  <2>3. CASE RaftNext
    <3>1. ASSUME NEW t \in Term, RaftAppend(t) PROVE OverInv'
      BY <2>2, <3>1, OverRaftAppend
    <3>2. ASSUME NEW at \in Index, NEW t \in Term, RaftTruncate(at, t) PROVE OverInv'
      BY <2>2, <3>2, OverRaftTruncate
    <3>3. ASSUME NEW c \in Index, RaftCommit(c) PROVE OverInv'
      BY <2>2, <3>3, OverRaftCommit
    <3>4. ASSUME NEW lo \in Index, RaftReadFirst(lo) PROVE OverInv'
      BY <2>2, <3>4, OverIdle DEF RaftReadFirst, history
    <3>5. CASE RaftReadEntries
      BY <2>2, <3>5, OverIdle DEF RaftReadEntries, history
    <3> QED
      BY <2>3, <3>1, <3>2, <3>3, <3>4, <3>5 DEF RaftNext
  <2>4. CASE LoopNext
    <3>1. ASSUME NEW page \in 0..MaxIndex, TakeReady(page) PROVE OverInv'
      BY <2>2, <3>1, OverTakeReady
    <3>2. ~AppendFails /\ ~HardStateFails
      BY <1>2, <2>1 DEF AppendFails, HardStateFails
    <3> QED
      BY <2>2, <2>4, <3>1, <3>2, OverPutRow, OverDelete, OverTrim, OverSaveHardState,
         OverSend, OverApply, OverAdvance DEF LoopNext
  <2>5. CASE Crash
    BY <2>2, <2>5, OverCrash
  <2>6. CASE Start \/ Restart
    BY <2>2, <2>6, OverLoad DEF Start, Restart
  <2>7. CASE UNCHANGED vars
    BY <2>2, <2>7, OverIdle DEF vars, history
  <2> QED
    BY <2>3, <2>4, <2>5, <2>6, <2>7 DEF Next
<1> QED
  BY <1>1, <1>2 DEF FInv

\* The invariant holds in every state, with entries replaced while they are being
\* saved, failing statements and crashes, if retention keeps what was not executed.
THEOREM OvertakenInvariant == KeepsUnapplied => (Spec => []FInv)
<1> SUFFICES ASSUME KeepsUnapplied PROVE Spec => []FInv
  OBVIOUS
<1>1. FInv /\ [Next]_vars => FInv'
  BY OverStep
<1> QED
  BY <1>1, OverInit, PTL DEF Spec

\* The tables, raft's memory and the loop's locals have their types, whatever
\* fails, is replaced or is retired.
THEOREM TypeCorrect == Spec => []TypeOK
<1>1. Init => LocalsInv
  BY OverInit DEF FInv
<1>2. LocalsInv /\ [Next]_vars => LocalsInv'
  BY LocalsStep
<1>3. LocalsInv => TypeOK
  BY DEF LocalsInv
<1> QED
  BY <1>1, <1>2, <1>3, PTL DEF Spec

\* When AppendEntries has returned, the table is the tail of raft's log as of
\* that Ready, also when raft has replaced entries of it in the meantime and
\* whatever crashes went before.
THEOREM SavedMatchesReady == KeepsUnapplied => (Spec => []SavedIsReadyLog)
<1>1. ASSUME FInv PROVE SavedIsReadyLog
  <2> USE BoundsAssumption
  <2> SUFFICES ASSUME failures = 0, pc \in {"hardstate", "send"}, rdLo <= rdHi, NEW i \in Index
               PROVE  IF i > rdHi THEN i \notin Rows
                      ELSE i >= FirstIndex => entries[i] = rdLog[i]
    BY DEF SavedIsReadyLog
  <2>1. TypeOK /\ OvertakenInv /\ ProgressInv /\ Written /\ (Saving \/ Saved)
    BY <1>1 DEF FInv, LocalsInv, OverInv, Written, Saving, Saved
  <2>2. \A r \in Index : Row(r) => r <= rdHi
    BY <2>1 DEF ProgressInv
  <2>3. CASE i > rdHi
    BY <2>1, <2>2, <2>3 DEF Rows, Row, TypeOK, Index
  <2>4. CASE i <= rdHi /\ i >= FirstIndex
    <3>1. rdHi \in Index /\ Row(rdHi)
      BY <2>1 DEF OvertakenInv, ProgressInv, Row, TypeOK, Index
    <3>2. FirstIndex \in Rows
      BY <2>1, <3>1, FirstIsRow
    <3>3. ~Row(i) => Gap(entries, i)
      BY <2>4, <3>2 DEF Gap, Rows, Row, Index
    <3>4. rdLo <= i => entries[i] = rdLog[i]
      BY <2>1, <2>4, <3>3 DEF ProgressInv
    <3>5. i < rdLo => entries[i] = rdLog[i]
      BY <2>1, <3>3 DEF OvertakenInv, Mirrors, Row, Gap
    <3> QED
      BY <2>1, <2>4, <3>4, <3>5 DEF TypeOK, Index
  <2> QED
    BY <2>1, <2>3, <2>4, TableEnds DEF TypeOK, Index
<1> QED
  BY <1>1, OvertakenInvariant, PTL

\* A range of stored entries that Entries returns without an error is complete,
\* whatever limit raft passes: both ends are rows, and as long as nothing has
\* crashed no row is missing in between.
THEOREM RangeComplete == KeepsUnapplied => (Spec => []EntriesReturnsRange)
<1>1. ASSUME FInv PROVE EntriesReturnsRange
  <2> USE BoundsAssumption
  <2> SUFFICES ASSUME NEW lo \in Index, NEW hi \in 1..(MaxIndex + 1), failures = 0, crashes = 0,
                      lo < hi, hi <= stable + 1, Entries(lo, hi).err = "nil"
               PROVE  Entries(lo, hi).rows = lo..(hi - 1)
    BY DEF EntriesReturnsRange
  <2>1. /\ Entries(lo, hi).rows = Limited(lo, hi)
        /\ lo \in Limited(lo, hi) /\ hi - 1 \in Limited(lo, hi)
    BY <1>1, EntriesAnswer DEF FInv, LocalsInv
  <2>2. lo \in Rows /\ hi - 1 \in Rows
    BY <2>1, LimitKeepsLower DEF Selected
  <2>3. TypeOK /\ RaftInv /\ Up
    BY <1>1 DEF FInv, LocalsInv, OverInv, Up
  <2>4. ASSUME NEW i \in lo..(hi - 1) PROVE i \in Limited(lo, hi)
    <3>1. i \in Index /\ lo <= i /\ i <= hi - 1 /\ i < hi
      BY DEF Index
    <3>2. i <= stable /\ i <= last
      BY <2>3, <3>1 DEF RaftInv, TypeOK, Index
    <3>3. log[i] # NoRow /\ Mirrors(entries, executed, i, log[i])
      BY <2>3, <3>1, <3>2 DEF RaftInv
    <3>4. i \in Rows
      <4>1. SUFFICES ASSUME entries[i] = NoRow PROVE FALSE
        BY <3>1 DEF Rows
      <4>2. lo < i /\ entries[lo] # NoRow
        BY <2>2, <3>1, <4>1 DEF Rows, Index
      <4> QED
        BY <3>3, <4>1, <4>2 DEF Mirrors, Gap
    <3>5. i \in Selected(lo, hi)
      BY <3>1, <3>4 DEF Selected
    <3> QED
      BY <2>1, <3>1, <3>5, LimitKeepsLower
  <2>5. ASSUME NEW i \in Limited(lo, hi) PROVE i \in lo..(hi - 1)
    <3>1. i \in Index /\ lo <= i /\ i < hi
      BY LimitKeepsLower DEF Selected, Rows
    <3> QED
      BY <3>1 DEF Index
  <2> QED
    BY <2>1, <2>4, <2>5
<1> QED
  BY <1>1, OvertakenInvariant, PTL

\* The loop comes to no entry above the first it has not executed: the table
\* begins there at the latest.
LEMMA ExecStep ==
  ASSUME LocalsInv, OverInv, ExecInv, LocalsInv', OverInv', [Next]_vars
  PROVE  ExecInv' /\ executed' <= executed + 1
<1> USE BoundsAssumption
<1>1. TypeOK /\ TypeOK' /\ TableInv /\ ExecInv /\ executed' <= hsCommit'
  BY DEF LocalsInv, OverInv, TableInv
<1>2. pc' = "apply" => applyNext' <= applyHi'
  BY DEF LocalsInv
<1>3. FirstIndex \in Nat /\ FirstIndex <= executed + 1
  <2>1. FirstIndex \in 1..(MaxIndex + 1) /\ \A r \in Index : Row(r) => FirstIndex <= r
    BY <1>1, TableEnds
  <2>2. SUFFICES ASSUME FirstIndex > 1 PROVE FirstIndex <= executed + 1
    BY <1>1, <2>1 DEF TypeOK
  <2>3. FirstIndex \in Index /\ Row(FirstIndex)
    BY <1>1, <2>2, TableEnds
  <2>4. FirstIndex - 1 \in Index /\ FirstIndex - 1 < FirstIndex /\ ~Row(FirstIndex - 1)
    BY <2>1, <2>2, <2>3 DEF Index
  <2>5. FirstIndex - 1 <= executed
    BY <1>1, <2>3, <2>4 DEF TableInv
  <2> QED
    BY <1>1, <2>1, <2>5 DEF TypeOK
<1>4. ASSUME UNCHANGED <<appliedRow, raftApplied, applyNext, applyHi, executed>>,
             Up' => Up,
             pc' \in {"insert", "reinsert", "trim", "hardstate", "send", "apply"} =>
               pc \in {"insert", "reinsert", "trim", "hardstate", "send", "apply"},
             pc' = "advance" => pc = "advance" \/ (pc = "send" /\ ~(applyNext <= applyHi))
      PROVE  ExecInv' /\ executed' <= executed + 1
  BY <1>1, <1>2, <1>4 DEF ExecInv, Saving, TypeOK
<1>5. CASE RaftNext
  BY <1>4, <1>5 DEF RaftNext, RaftAppend, RaftTruncate, RaftCommit, RaftReadFirst,
    RaftReadEntries, Up, tables, raftVars, rdVars, history
<1>6. ASSUME NEW page \in 0..MaxIndex, TakeReady(page)
      PROVE  ExecInv' /\ executed' <= executed + 1
  <2>1. /\ Up /\ applyNext' = NextOffset /\ pc' \in {"insert", "hardstate"}
        /\ UNCHANGED <<appliedRow, raftApplied, executed>>
    BY <1>6 DEF TakeReady, Up, tables, raftVars, history
  <2>2. NextOffset <= executed + 1
    BY <1>1, <1>3, <2>1 DEF NextOffset, ExecInv, TypeOK
  <2> QED
    BY <1>1, <2>1, <2>2 DEF ExecInv, Up, TypeOK
<1>7. CASE InsertRow \/ ReinsertRow \/ DeleteConflicting \/ TrimOld \/ AppendFails
           \/ SaveHardState \/ HardStateFails \/ SendMessages
  BY <1>4, <1>7 DEF InsertRow, ReinsertRow, DeleteConflicting, TrimOld, AppendFails,
    SaveHardState, HardStateFails, SendMessages, AfterRow, Up, tables, raftVars, rdVars, history
<1>8. CASE ApplyEntry
  BY <1>1, <1>2, <1>8 DEF ApplyEntry, LocalsInv, ExecInv, Saving, Up, TypeOK, raftVars
<1>9. CASE Advance
  BY <1>1, <1>9 DEF Advance, ExecInv, Saving, Up, TypeOK, tables, history
<1>10. CASE Crash
  BY <1>1, <1>10 DEF Crash, ExecInv, Saving, Up, TypeOK, tables
<1>11. CASE Start \/ Restart
  <2>1. pc' = "ready" /\ UNCHANGED <<appliedRow, executed>>
    BY <1>11 DEF Start, Restart, LoadState, tables, history
  <2>2. raftApplied' <= executed
    BY <1>1, <1>3, <1>11 DEF Start, Restart, ExecInv, TypeOK
  <2> QED
    BY <1>1, <2>1, <2>2 DEF ExecInv, Saving, TypeOK
<1>12. CASE UNCHANGED vars
  BY <1>4, <1>12 DEF vars, Up, tables, raftVars, rdVars, history
<1> QED
  BY <1>5, <1>6, <1>7, <1>8, <1>9, <1>10, <1>11, <1>12 DEF Next, LoopNext

\* Retention never removes a committed entry before it was executed: until a
\* statement fails no step executes an entry while the one before it was never
\* executed, also when entries are replaced while they are being saved and
\* indexes that were retired are written again.
THEOREM NoEntrySkipped == KeepsUnapplied => (Spec => NoneSkipped)
<1> SUFFICES ASSUME KeepsUnapplied PROVE Spec => NoneSkipped
  OBVIOUS
<1> DEFINE Inv == FInv /\ failures \in Nat /\ (failures = 0 => ExecInv)
<1>1. Init => Inv
  BY OverInit, InitInv DEF IInv, Init
<1>2. ASSUME Inv, [Next]_vars
      PROVE  Inv' /\ (failures' = 0 => executed' <= executed + 1)
  <2>1. FInv'
    BY <1>2, OverStep
  <2>2. failures' \in Nat
    BY <1>2, CalmBefore
  <2>3. ASSUME failures' = 0 PROVE ExecInv' /\ executed' <= executed + 1
    <3>1. failures = 0
      BY <1>2, <2>3, CalmBefore
    <3>2. LocalsInv /\ OverInv /\ ExecInv /\ LocalsInv' /\ OverInv'
      BY <1>2, <2>1, <2>3, <3>1 DEF FInv
    <3> QED
      BY <1>2, <3>2, ExecStep
  <2> QED
    BY <2>1, <2>2, <2>3
<1>3. Inv /\ [Next]_vars => Inv'
  BY <1>2
<1>4. Inv /\ [Next]_vars => [failures' = 0 => executed' <= executed + 1]_vars
  BY <1>2
<1> HIDE DEF Inv
<1> QED
  BY <1>1, <1>3, <1>4, PTL DEF Spec, NoneSkipped
=============================================================================
