------------------------- MODULE QueryServiceProofs -------------------------
(***************************************************************************)
(* Proofs about ApplyLoop and QueryService, for every length of the log,   *)
(* every number of failures, crashes and queries, with and without         *)
(* retention: what is executed of the committed log, how often and in      *)
(* which order, and what a query reads.                                    *)
(***************************************************************************)
EXTENDS QueryService, TLAPS

-----------------------------------------------------------------------------
(* The inductive invariant.                                                *)

Executed(i) == \E n \in 1..Len(db) : db[n] = i

\* Every accepted statement up to k was executed.
Passed(k) == \A i \in 1..Len(log) : i <= k /\ log[i] = "ok" => Executed(i)

Last == DB!LastExecuted

\* At the send to a caller: the entry at hand has been processed.
Sending == {"sendNil", "sendErr", "stuck"}

\* Where the loop stands, within one Ready and between two.
LoopInv ==
  /\ pc \in {"ready", "down"} => pos = 0 /\ hi = 0
  /\ pc \in {"entry", "saveApplied"} \cup Sending => cursor < pos
  /\ pc # "down" => first - 1 <= cursor
  /\ pc = "down" => cursor = 0
  /\ pc \in {"saveApplied", "sendNil"} => log[pos] = "ok" /\ Len(db) > 0 /\ db[Len(db)] = pos
  /\ crashes = 0 => ~started /\ pc # "down"

\* Whatever the loop may start from has been executed up to there.
LostInv ==
  /\ \A n \in 1..Len(db) : log[db[n]] = "ok"
  /\ failures = 0 =>
       /\ Passed(cursor) /\ Passed(pos - 1) /\ Passed(first - 1) /\ Passed(appliedRow)
       /\ pc \in Sending => Passed(pos)

\* The entry the loop comes to next.
Coming == IF pc = "entry" THEN pos ELSE IF pc \in Sending THEN pos + 1 ELSE cursor + 1

\* With the loop about to process entry p, the last statement executed is the
\* last one before p, or, after a crash, the first one from p on.
InStep(p) ==
  \A k \in 1..Len(log) : log[k] = "ok" =>
    (k < p => k <= Last) /\ (p <= k /\ k <= Last => k = Last)

\* Nothing was lost and the node was brought back by Restart only: the saved
\* applied index is that of the last statement or of the one before it.
OrderInv ==
  failures = 0 /\ ~started =>
    /\ appliedRow <= Last
    /\ \A k \in 1..Len(log) : log[k] = "ok" => ~(appliedRow < k /\ k < Last)
    /\ appliedRow = 0 /\ Last > 0 => first <= Last
    /\ pc \in {"ready", "entry"} \cup Sending =>
         InStep(Coming) /\ (Last = appliedRow \/ Coming <= Last)
    /\ pc \in {"ready", "entry"} \cup Sending /\ crashes = 0 => Last < Coming
    /\ \A n \in 1..(Len(db) - 1) : db[n + 1] = db[n] \/ DB!Follows(db[n], db[n + 1])

\* What the invariant says of one query.
QueryRecord == [pc : {"open", "reading", "ok", "none"},
                sent : Nat, rows : Nat, due : SUBSET (1..MaxLog)]

QueryFine(r) ==
  /\ r \in QueryRecord /\ r.sent <= Len(db)
  /\ \A i \in r.due : Executed(i)
  /\ r.pc = "reading" => r.rows = Len(db)
  /\ r.pc = "ok" => r.sent = r.rows

\* The queries and what was answered to writers.
ReadInv ==
  /\ acked \subseteq 1..Len(log) /\ \A i \in acked : Executed(i)
  /\ query \in [Queries -> QueryRecord] /\ \A q \in Queries : QueryFine(query[q])

ApplyInv == TypeOK /\ LoopInv /\ LostInv /\ OrderInv
IInv == ApplyInv /\ ReadInv

-----------------------------------------------------------------------------
(* Facts about the operators.                                              *)

USE DEF DB!Kind, Sending

\* What the type invariant says of the elements of the two sequences.
LEMMA Elements ==
  ASSUME TypeOK
  PROVE  /\ Len(log) \in Nat /\ Len(db) \in Nat
         /\ \A i \in 1..Len(log) : log[i] \in DB!Kind
         /\ \A n \in 1..Len(db) : db[n] \in 1..Len(log)
         /\ Last \in 0..Len(log)
         /\ db # << >> <=> Len(db) > 0
         /\ Len(db) > 0 => Last = db[Len(db)]
         /\ Len(db) = 0 => Last = 0
<1>1. /\ Len(log) \in Nat /\ Len(db) \in Nat
      /\ \A i \in 1..Len(log) : log[i] \in DB!Kind
      /\ \A n \in 1..Len(db) : db[n] \in 1..Len(log)
      /\ db # << >> <=> Len(db) > 0
  <2>1. log \in Seq(DB!Kind) /\ db \in Seq(1..Len(log))
    BY DEF TypeOK
  <2>2. Len(log) \in Nat /\ \A i \in 1..Len(log) : log[i] \in DB!Kind
    BY <2>1
  <2>3. Len(db) \in Nat /\ \A n \in 1..Len(db) : db[n] \in 1..Len(log)
    BY <2>1
  <2> QED
    BY <2>2, <2>3
<1>2. Len(db) = 0 => Last = 0
  BY DEF Last, DB!LastExecuted
<1>3. Len(db) > 0 => Last = db[Len(db)]
  BY DEF Last, DB!LastExecuted
<1> QED
  BY <1>1, <1>2, <1>3

-----------------------------------------------------------------------------
(* One lemma per action of ApplyLoop, and one for all that go on to the    *)
(* next entry.                                                             *)

LEMMA CommitStep ==
  ASSUME ApplyInv, NEW k \in DB!Kind, Commit(k)
  PROVE  ApplyInv'
<1> USE ConstantsAssumption
<1>1. /\ Len(log') = Len(log) + 1 /\ log'[Len(log) + 1] = k
      /\ \A i \in 1..Len(log) : log'[i] = log[i]
      /\ UNCHANGED <<db, appliedRow, first, cursor, pc, pos, hi, started, failures, crashes>>
  BY DEF Commit, loopVars, faults
<1>2. TypeOK'
  <2>1. log' \in Seq(DB!Kind) /\ Len(log') <= MaxLog
    BY DEF ApplyInv, Commit, TypeOK
  <2> QED
    BY <1>1, <2>1 DEF ApplyInv, TypeOK
<1>3. Last' = Last /\ Last \in 0..Len(log)
  BY <1>1, Elements DEF ApplyInv, Last, DB!LastExecuted
<1>4. LoopInv'
  BY <1>1, Elements DEF ApplyInv, LoopInv
<1>5. LostInv'
  <2>1. \A i : Executed(i)' = Executed(i)
    BY <1>1 DEF Executed
  <2>2. \A j \in Int : j <= Len(log) /\ Passed(j) => Passed(j)'
    BY <1>1, <2>1 DEF Passed
  <2>3. \A n \in 1..Len(db) : db[n] \in 1..Len(log)
    BY Elements DEF ApplyInv, TypeOK
  <2>4. (\A n \in 1..Len(db) : log[db[n]] = "ok")'
    BY <1>1, <2>3 DEF ApplyInv, LostInv
  <2>5. /\ cursor \in 0..Len(log) /\ pos - 1 \in Int /\ pos - 1 <= Len(log) /\ pos \in 0..Len(log)
        /\ first - 1 \in 0..Len(log) /\ appliedRow \in 0..Len(log)
    BY DEF ApplyInv, TypeOK
  <2> QED
    BY <1>1, <2>2, <2>4, <2>5 DEF ApplyInv, LostInv
<1>6. OrderInv'
  <2> SUFFICES ASSUME failures = 0, ~started
               PROVE  OrderInv'
    BY <1>1 DEF OrderInv
  <2>1. Coming' = Coming /\ (pc \in {"ready", "entry"} \cup Sending => Coming <= Len(log) + 1)
    BY <1>1 DEF Coming, ApplyInv, TypeOK
  <2>2. \A p \in Nat : p <= Len(log) + 1 /\ InStep(p) => InStep(p)'
    BY <1>1, <1>3 DEF InStep
  <2>3. \A i, j \in 1..Len(log) : DB!Follows(i, j) => DB!Follows(i, j)'
    BY <1>1 DEF DB!Follows
  <2>4. Coming \in Nat
    BY DEF Coming, ApplyInv, TypeOK
  <2>5. \A n \in 1..(Len(db) - 1) : (db[n + 1] = db[n] \/ DB!Follows(db[n], db[n + 1]))'
    BY <1>1, <2>3, Elements DEF ApplyInv, OrderInv
  <2> QED
    BY <1>1, <1>3, <2>1, <2>2, <2>4, <2>5 DEF ApplyInv, OrderInv
<1> QED
  BY <1>2, <1>4, <1>5, <1>6 DEF ApplyInv

\* Steps that leave log and db alone leave these alone.
LEMMA SameHistory ==
  ASSUME log' = log, db' = db
  PROVE  /\ Last' = Last
         /\ \A i : Executed(i)' = Executed(i)
         /\ \A j : Passed(j)' = Passed(j)
         /\ \A j : InStep(j)' = InStep(j)
         /\ \A i, j : DB!Follows(i, j)' = DB!Follows(i, j)
<1>1. Last' = Last
  BY DEF Last, DB!LastExecuted
<1>2. \A i : Executed(i)' = Executed(i)
  BY DEF Executed
<1>3. \A j : Passed(j)' = Passed(j)
  BY <1>2 DEF Passed
<1>4. \A j : InStep(j)' = InStep(j)
  BY <1>1 DEF InStep
<1>5. \A i, j : DB!Follows(i, j)' = DB!Follows(i, j)
  BY DEF DB!Follows
<1> QED
  BY <1>1, <1>2, <1>3, <1>4, <1>5

LEMMA RetireStep ==
  ASSUME ApplyInv, RetireOld
  PROVE  ApplyInv'
<1> USE ConstantsAssumption
<1>1. /\ UNCHANGED <<log, db, appliedRow, cursor, pc, pos, hi, started, failures, crashes>>
      /\ first' = first + 1 /\ first <= cursor /\ pc = "ready"
  BY DEF RetireOld, loopVars, faults
<1>2. TypeOK' /\ LoopInv'
  BY <1>1 DEF ApplyInv, TypeOK, LoopInv
<1>3. LostInv'
  BY <1>1, SameHistory DEF ApplyInv, LostInv, Passed, TypeOK
<1>4. OrderInv'
  <2>1. Coming' = Coming /\ Coming = cursor + 1
    BY <1>1 DEF Coming
  <2> QED
    BY <1>1, <2>1, SameHistory, Elements DEF ApplyInv, OrderInv, TypeOK
<1> QED
  BY <1>2, <1>3, <1>4 DEF ApplyInv

LEMMA TakeReadyStep ==
  ASSUME ApplyInv, NEW last \in 1..Len(log), TakeReady(last)
  PROVE  ApplyInv'
<1> USE ConstantsAssumption
<1>1. /\ UNCHANGED <<log, db, appliedRow, first, cursor, started, failures, crashes>>
      /\ pos' = cursor + 1 /\ hi' = last /\ pc = "ready" /\ pc' = "entry"
      /\ cursor < last /\ last <= Len(log)
  BY DEF TakeReady, faults
<1>2. TypeOK' /\ LoopInv'
  BY <1>1 DEF ApplyInv, TypeOK, LoopInv
<1>3. LostInv'
  BY <1>1, SameHistory, Elements DEF ApplyInv, LostInv, TypeOK
<1>4. OrderInv'
  <2>1. Coming' = Coming /\ Coming = cursor + 1
    BY <1>1 DEF Coming
  <2> QED
    BY <1>1, <2>1, SameHistory DEF ApplyInv, OrderInv
<1> QED
  BY <1>2, <1>3, <1>4 DEF ApplyInv

LEMMA ExecStep ==
  ASSUME ApplyInv, ExecSQL
  PROVE  /\ ApplyInv'
         /\ \A i : Executed(i) => Executed(i)'
         /\ failures = 0 /\ crashes = 0 => DB!Follows(Last, pos)
<1> USE ConstantsAssumption
<1>1. /\ UNCHANGED <<log, appliedRow, first, cursor, pos, hi, started, failures, crashes>>
      /\ pc = "entry" /\ pc' = "saveApplied" /\ log[pos] = "ok"
      /\ db' = Append(db, pos)
  BY DEF ExecSQL, faults
<1>2. pos \in 1..Len(log) /\ cursor < pos
  BY <1>1 DEF ApplyInv, TypeOK, LoopInv
<1>3. /\ Len(db') = Len(db) + 1 /\ db'[Len(db) + 1] = pos
      /\ \A n \in 1..Len(db) : db'[n] = db[n]
  BY <1>1
<1>4. TypeOK'
  <2>1. db' \in Seq(DOMAIN log')
    BY <1>1, <1>2 DEF ApplyInv, TypeOK
  <2> QED
    BY <1>1, <2>1 DEF ApplyInv, TypeOK
<1>5. Last' = pos
  BY <1>3 DEF Last, DB!LastExecuted
<1>6. LoopInv'
  BY <1>1 DEF ApplyInv, LoopInv
<1>7. \A i : Executed(i) => Executed(i)'
  BY <1>3 DEF Executed
<1>8. LostInv'
  <2>1. \A j : Passed(j) => Passed(j)'
    BY <1>1, <1>7 DEF Passed
  <2> QED
    BY <1>1, <2>1 DEF ApplyInv, LostInv
<1>9. ASSUME failures = 0, ~started
      PROVE  /\ pos = Last \/ DB!Follows(Last, pos)
             /\ crashes = 0 => DB!Follows(Last, pos)
             /\ pos = Last \/ Last = appliedRow
  <2>1. Coming = pos /\ InStep(pos) /\ (crashes = 0 => Last < pos)
    BY <1>1, <1>9 DEF ApplyInv, OrderInv, Coming
  <2>2. Last = appliedRow \/ pos <= Last
    BY <1>1, <1>9, <2>1 DEF ApplyInv, OrderInv
  <2>3. pos <= Last => pos = Last
    BY <1>1, <1>2, <2>1 DEF InStep
  <2>4. Last < pos => DB!Follows(Last, pos)
    BY <1>1, <1>2, <2>1, Elements DEF InStep, ApplyInv, DB!Follows
  <2> QED
    BY <1>2, <2>1, <2>2, <2>3, <2>4, Elements DEF ApplyInv
<1>10. OrderInv'
  <2> SUFFICES ASSUME failures = 0, ~started
               PROVE  OrderInv'
    BY <1>1 DEF OrderInv
  <2>1. appliedRow <= pos
    BY <1>2, <1>9, Elements DEF ApplyInv, OrderInv, DB!Follows
  <2>2. \A k \in 1..Len(log) : log[k] = "ok" => ~(appliedRow < k /\ k < pos)
    <3>1. CASE pos = Last
      BY <3>1 DEF ApplyInv, OrderInv
    <3>2. CASE DB!Follows(Last, pos) /\ Last = appliedRow
      BY <1>2, <3>2, Elements DEF ApplyInv, DB!Follows
    <3> QED
      BY <1>9, <3>1, <3>2
  <2>3. first <= pos
    BY <1>2 DEF ApplyInv, LoopInv, TypeOK
  <2>4. \A i, j : DB!Follows(i, j)' = DB!Follows(i, j)
    BY <1>1 DEF DB!Follows
  <2>5. \A n \in 1..Len(db) : (db[n + 1] = db[n] \/ DB!Follows(db[n], db[n + 1]))'
    <3> SUFFICES ASSUME NEW n \in 1..Len(db)
                 PROVE  db'[n + 1] = db'[n] \/ DB!Follows(db'[n], db'[n + 1])
      BY <2>4
    <3>1. CASE n = Len(db)
      BY <1>3, <1>9, <3>1, Elements DEF ApplyInv
    <3>2. CASE n \in 1..(Len(db) - 1)
      BY <1>3, <3>2 DEF ApplyInv, OrderInv
    <3> QED
      BY <3>1, <3>2
  <2> QED
    BY <1>1, <1>5, <2>1, <2>2, <2>3, <2>5 DEF OrderInv
<1>11. failures = 0 /\ crashes = 0 => DB!Follows(Last, pos)
  BY <1>9 DEF ApplyInv, LoopInv
<1> QED
  BY <1>4, <1>6, <1>7, <1>8, <1>10, <1>11 DEF ApplyInv

\* The loop is done with an entry and goes on to the next one or to the send.
\* If no failure is counted then the statement at hand was executed and saved,
\* or the entry is none.
LEMMA ProceedStep ==
  ASSUME ApplyInv, pc \in {"entry", "saveApplied"},
         \/ Proceed
         \/ /\ pc' = "sendErr" \/ (pc' = "sendNil" /\ pc = "saveApplied")
            /\ UNCHANGED <<cursor, pos, hi>>,
         UNCHANGED <<log, db, first, started, crashes>>,
         failures' \in 0..MaxFailures, appliedRow' \in {appliedRow, pos},
         failures' = 0 =>
           /\ failures = 0
           /\ \/ pc = "saveApplied" /\ appliedRow' = pos
              \/ pc = "entry" /\ log[pos] # "ok" /\ appliedRow' = appliedRow
  PROVE  ApplyInv'
<1> USE ConstantsAssumption
<1>1. /\ pos \in 1..hi /\ hi \in 1..Len(log) /\ cursor < pos /\ first - 1 <= cursor
      /\ cursor \in 0..Len(log) /\ first \in 1..(Len(log) + 1)
  BY DEF ApplyInv, TypeOK, LoopInv
<1>2. \/ pos < hi /\ pos' = pos + 1 /\ pc' = "entry" /\ cursor' = cursor /\ hi' = hi
      \/ pos = hi /\ pos' = 0 /\ hi' = 0 /\ pc' = "ready" /\ cursor' = pos
      \/ /\ pos' = pos /\ hi' = hi /\ cursor' = cursor
         /\ pc' = "sendErr" \/ (pc' = "sendNil" /\ pc = "saveApplied")
  BY <1>1 DEF Proceed
<1>3. Coming' = pos + 1 /\ pc' \in {"entry", "ready", "sendNil", "sendErr"}
  BY <1>2 DEF Coming
<1>4. TypeOK'
  <2>1. /\ pos' \in 0..hi' /\ hi' \in 0..Len(log) /\ cursor' \in 0..Len(log)
        /\ appliedRow' \in 0..Len(log)
    BY <1>2 DEF ApplyInv, TypeOK
  <2> QED
    BY <1>3, <2>1 DEF ApplyInv, TypeOK
<1>5. LoopInv'
  BY <1>1, <1>2 DEF ApplyInv, LoopInv
<1>6. LostInv'
  <2>1. CASE failures' = 0
    <3>1. log[pos] = "ok" => Executed(pos)
      BY <2>1 DEF ApplyInv, LoopInv, Executed
    <3>2. Passed(pos)
      BY <1>1, <2>1, <3>1 DEF ApplyInv, LostInv, Passed
    <3>4. /\ Passed(pos' - 1) /\ Passed(cursor') /\ Passed(appliedRow') /\ Passed(first - 1)
          /\ pc' \in Sending => Passed(pos')
      BY <1>1, <1>2, <2>1, <3>2 DEF ApplyInv, LostInv, Passed
    <3> QED
      BY <3>4, SameHistory DEF ApplyInv, LostInv
  <2> QED
    BY <2>1 DEF ApplyInv, LostInv
<1>7. OrderInv'
  <2> SUFFICES ASSUME failures' = 0, ~started
               PROVE  OrderInv'
    BY DEF OrderInv
  <2>1. CASE pc = "saveApplied" /\ appliedRow' = pos
    <3>1. Last = pos
      BY <2>1, Elements DEF ApplyInv, LoopInv
    <3>2. InStep(pos + 1)
      BY <1>1, <3>1 DEF InStep
    <3> QED
      BY <1>3, <2>1, <3>1, <3>2, SameHistory, Elements DEF ApplyInv, OrderInv
  <2>2. CASE pc = "entry" /\ log[pos] # "ok" /\ appliedRow' = appliedRow
    <3>1. Coming = pos
      BY <2>2 DEF Coming
    <3>2. InStep(pos) /\ (Last = appliedRow \/ pos <= Last) /\ (crashes = 0 => Last < pos)
      BY <2>2, <3>1 DEF ApplyInv, OrderInv
    <3>3. InStep(pos + 1)
      BY <1>1, <2>2, <3>2 DEF InStep
    <3>4. Last # pos
      BY <1>1, <2>2, Elements DEF ApplyInv, LostInv
    <3>5. Last = appliedRow \/ pos + 1 <= Last
      BY <1>1, <3>2, <3>4, Elements DEF ApplyInv
    <3> QED
      BY <1>1, <1>3, <2>2, <3>2, <3>3, <3>5, SameHistory, Elements DEF ApplyInv, OrderInv
  <2> QED
    BY <2>1, <2>2
<1> QED
  BY <1>4, <1>5, <1>6, <1>7 DEF ApplyInv

LEMMA SendStep ==
  ASSUME ApplyInv, Send
  PROVE  ApplyInv'
<1> USE ConstantsAssumption
<1>1. /\ UNCHANGED <<log, db, appliedRow, first, started, failures, crashes>>
      /\ pc \in {"sendNil", "sendErr"} /\ Proceed
  BY DEF Send, faults
<1>2. /\ pos \in 1..hi /\ hi \in 1..Len(log) /\ cursor < pos /\ cursor \in 0..Len(log)
      /\ first - 1 <= cursor /\ first \in 1..(Len(log) + 1)
  BY <1>1 DEF ApplyInv, TypeOK, LoopInv
<1>3. \/ pos < hi /\ pos' = pos + 1 /\ pc' = "entry" /\ cursor' = cursor /\ hi' = hi
      \/ pos = hi /\ pos' = 0 /\ hi' = 0 /\ pc' = "ready" /\ cursor' = pos
  BY <1>1, <1>2 DEF Proceed
<1>4. TypeOK'
  BY <1>1, <1>2, <1>3 DEF ApplyInv, TypeOK
<1>5. LoopInv'
  BY <1>1, <1>2, <1>3 DEF ApplyInv, LoopInv
<1>6. LostInv'
  <2>1. failures = 0 => Passed(pos' - 1) /\ Passed(cursor')
    BY <1>1, <1>2, <1>3 DEF ApplyInv, LostInv, Passed
  <2> QED
    BY <1>1, <1>3, <2>1, SameHistory DEF ApplyInv, LostInv
<1>7. OrderInv'
  <2>1. Coming' = pos + 1 /\ Coming = pos + 1 /\ pc' \in {"entry", "ready"}
    BY <1>1, <1>3 DEF Coming
  <2> QED
    BY <1>1, <2>1, SameHistory DEF ApplyInv, OrderInv
<1> QED
  BY <1>4, <1>5, <1>6, <1>7 DEF ApplyInv

LEMMA CallerGoneStep ==
  ASSUME ApplyInv, CallerGone
  PROVE  ApplyInv'
<1>1. /\ UNCHANGED <<log, db, appliedRow, first, cursor, pos, hi, started, failures, crashes>>
      /\ pc \in {"sendNil", "sendErr"} /\ pc' = "stuck"
  BY DEF CallerGone, faults
<1>2. TypeOK' /\ LoopInv'
  BY <1>1 DEF ApplyInv, TypeOK, LoopInv
<1>3. LostInv'
  BY <1>1, SameHistory DEF ApplyInv, LostInv
<1>4. OrderInv'
  <2>1. Coming' = Coming
    BY <1>1 DEF Coming
  <2> QED
    BY <1>1, <2>1, SameHistory DEF ApplyInv, OrderInv
<1> QED
  BY <1>2, <1>3, <1>4 DEF ApplyInv

LEMMA CrashStep ==
  ASSUME ApplyInv, Crash
  PROVE  ApplyInv'
<1> USE ConstantsAssumption
<1>1. /\ UNCHANGED <<log, db, appliedRow, first, started, failures>>
      /\ crashes' = crashes + 1 /\ crashes < MaxCrashes
      /\ pc' = "down" /\ cursor' = 0 /\ pos' = 0 /\ hi' = 0
  BY DEF Crash
<1>2. TypeOK' /\ LoopInv'
  BY <1>1 DEF ApplyInv, TypeOK, LoopInv
<1>3. LostInv'
  BY <1>1, SameHistory DEF ApplyInv, LostInv, Passed
<1>4. OrderInv'
  BY <1>1, SameHistory DEF ApplyInv, OrderInv
<1> QED
  BY <1>2, <1>3, <1>4 DEF ApplyInv

LEMMA StartStep ==
  ASSUME ApplyInv, Start
  PROVE  ApplyInv'
<1> USE ConstantsAssumption
<1>1. /\ UNCHANGED <<log, db, appliedRow, first, pos, hi, failures, crashes>>
      /\ pc = "down" /\ cursor' = first - 1 /\ pc' = "ready" /\ started' = TRUE
  BY DEF Start
<1>2. TypeOK' /\ LoopInv'
  BY <1>1 DEF ApplyInv, TypeOK, LoopInv
<1>3. LostInv'
  BY <1>1, SameHistory DEF ApplyInv, LostInv
<1>4. OrderInv'
  BY <1>1 DEF OrderInv
<1> QED
  BY <1>2, <1>3, <1>4 DEF ApplyInv

LEMMA RestartStep ==
  ASSUME ApplyInv, Restart
  PROVE  ApplyInv'
<1> USE ConstantsAssumption
<1>1. /\ UNCHANGED <<log, db, appliedRow, first, pos, hi, started, failures, crashes>>
      /\ pc = "down" /\ pc' = "ready" /\ pos = 0 /\ hi = 0
      /\ \/ appliedRow = 0 /\ cursor' = first - 1
         \/ first - 1 <= appliedRow /\ appliedRow > 0 /\ cursor' = appliedRow
  BY DEF Restart, faults, ApplyInv, TypeOK, LoopInv
<1>2. TypeOK' /\ LoopInv'
  BY <1>1 DEF ApplyInv, TypeOK, LoopInv
<1>3. LostInv'
  BY <1>1, SameHistory DEF ApplyInv, LostInv
<1>4. OrderInv'
  <2> SUFFICES ASSUME failures = 0, ~started
               PROVE  OrderInv'
    BY <1>1 DEF OrderInv
  <2>1. Coming' = cursor' + 1 /\ crashes # 0
    BY <1>1 DEF Coming, ApplyInv, LoopInv
  <2>2. CASE appliedRow > 0 /\ cursor' = appliedRow
    <3>1. InStep(appliedRow + 1) /\ (Last = appliedRow \/ appliedRow + 1 <= Last)
      BY Elements DEF ApplyInv, OrderInv, InStep, TypeOK
    <3> QED
      BY <1>1, <2>1, <2>2, <3>1, SameHistory DEF ApplyInv, OrderInv
  <2>3. CASE appliedRow = 0 /\ cursor' = first - 1
    <3>1. first \in Nat /\ Coming' = first
      BY <2>1, <2>3 DEF ApplyInv, TypeOK
    <3>2. CASE Last = 0
      <4>1. Len(db) = 0
        BY <3>2, Elements DEF ApplyInv
      <4>2. \A k \in 1..Len(log) : k < first => log[k] # "ok"
        BY <3>1, <4>1 DEF ApplyInv, LostInv, Passed, Executed
      <4>3. InStep(first)
        BY <3>2, <4>2 DEF InStep
      <4> QED
        BY <1>1, <2>1, <2>3, <3>1, <3>2, <4>3, SameHistory DEF ApplyInv, OrderInv
    <3>3. CASE Last > 0
      <4>1. first <= Last
        BY <2>3, <3>3 DEF ApplyInv, OrderInv
      <4>2. InStep(first)
        BY <2>3, <3>1, <4>1, Elements DEF ApplyInv, OrderInv, InStep
      <4> QED
        BY <1>1, <2>1, <3>1, <4>1, <4>2, SameHistory DEF ApplyInv, OrderInv
    <3> QED
      BY <3>2, <3>3, Elements DEF ApplyInv
  <2> QED
    BY <1>1, <2>2, <2>3
<1> QED
  BY <1>2, <1>3, <1>4 DEF ApplyInv

\* All steps of the main loop's side together.
LEMMA ApplyStep ==
  ASSUME ApplyInv,
         \/ \E k \in DB!Kind : Commit(k)
         \/ RetireOld \/ LoopStep \/ CallerGone \/ BusyTimeout \/ Crash \/ Start \/ Restart
         \/ UNCHANGED vars
  PROVE  ApplyInv'
<1> USE ConstantsAssumption, QueryAssumption
<1>1. CASE \E k \in DB!Kind : Commit(k)
  BY <1>1, CommitStep
<1>2. CASE RetireOld
  BY <1>2, RetireStep
<1>3. CASE \E last \in 1..Len(log) : TakeReady(last)
  BY <1>3, TakeReadyStep
<1>4. CASE ExecSQL
  BY <1>4, ExecStep
<1>5. CASE SaveApplied
  BY <1>5, ProceedStep DEF SaveApplied, Release, faults, ApplyInv, TypeOK
<1>6. CASE RejectedByDB
  BY <1>6, ProceedStep DEF RejectedByDB, Release, faults, ApplyInv, TypeOK
<1>7. CASE OtherEntry
  BY <1>7, ProceedStep DEF OtherEntry, faults, ApplyInv, TypeOK
<1>8. CASE ConnectionError
  BY <1>8, ProceedStep DEF ConnectionError, ApplyInv, TypeOK
<1>9. CASE BusyTimeout
  BY <1>9, ProceedStep DEF BusyTimeout, Release, ApplyInv, TypeOK
<1>10. CASE Crash
  BY <1>10, CrashStep
<1>11. CASE Start
  BY <1>11, StartStep
<1>12. CASE Restart
  BY <1>12, RestartStep
<1>13. CASE UNCHANGED vars
  <2>1. UNCHANGED <<log, db, appliedRow, first, cursor, pc, pos, hi, started, failures, crashes>>
    BY <1>13 DEF vars, loopVars, faults
  <2>2. TypeOK' /\ LoopInv'
    BY <2>1 DEF ApplyInv, TypeOK, LoopInv
  <2>3. LostInv'
    BY <2>1, SameHistory DEF ApplyInv, LostInv
  <2>4. OrderInv'
    BY <2>1, SameHistory DEF ApplyInv, OrderInv, Coming
  <2> QED
    BY <2>2, <2>3, <2>4 DEF ApplyInv
<1>14. CASE Send
  BY <1>14, SendStep
<1>15. CASE CallerGone
  BY <1>15, CallerGoneStep
<1> QED
  BY <1>1, <1>2, <1>3, <1>4, <1>5, <1>6, <1>7, <1>8, <1>9, <1>10, <1>11, <1>12, <1>13, <1>14, <1>15
     DEF LoopStep

-----------------------------------------------------------------------------
(* The queries.                                                            *)

LEMMA NoCallFine == ApplyInv => QueryFine(NoCall)
BY DEF QueryFine, QueryRecord, NoCall, Handler

\* A step of one query changes its record only.
LEMMA QueryChanges ==
  ASSUME IInv, UNCHANGED <<vars, acked>>, NEW q \in Queries, NEW r,
         query' = [query EXCEPT ![q] = r], QueryFine(r)
  PROVE  IInv'
<1>1. log' = log /\ db' = db
  BY DEF vars
<1>2. ApplyInv'
  BY ApplyStep DEF IInv
<1>3. acked' \subseteq 1..Len(log') /\ \A i \in acked' : Executed(i)'
  BY <1>1, SameHistory DEF IInv, ReadInv
<1>4. query' \in [Queries -> QueryRecord]
  BY DEF IInv, ReadInv, QueryFine
<1>5. ASSUME NEW p \in Queries PROVE QueryFine(query[p])'
  <2>1. QueryFine(query'[p])
    BY DEF IInv, ReadInv
  <2> QED
    BY <1>1, <2>1, SameHistory DEF QueryFine
<1> QED
  BY <1>2, <1>3, <1>4, <1>5 DEF IInv, ReadInv

\* The process ends.
LEMMA DieStep ==
  ASSUME IInv, Die
  PROVE  IInv'
<1>1. log' = log /\ db' = db
  BY DEF Die, Crash
<1>2. ApplyInv'
  BY ApplyStep DEF IInv, Die
<1>3. acked' \subseteq 1..Len(log') /\ \A i \in acked' : Executed(i)'
  BY <1>1, SameHistory DEF IInv, ReadInv, Die
<1>4. \A p \in Queries : QueryFine(query'[p])
  BY NoCallFine DEF IInv, ReadInv, Die, Cut
<1>5. query' \in [Queries -> QueryRecord]
  BY <1>4 DEF Die, Cut, QueryFine
<1>6. ASSUME NEW p \in Queries PROVE QueryFine(query[p])'
  BY <1>1, <1>4, SameHistory DEF QueryFine
<1> QED
  BY <1>2, <1>3, <1>5, <1>6 DEF IInv, ReadInv

LEMMA QueryStepInv ==
  ASSUME IInv, NEW q \in Queries, QueryStep(q)
  PROVE  IInv'
<1>0. ApplyInv /\ query \in [Queries -> QueryRecord] /\ QueryFine(query[q]) /\ QueryFine(NoCall)
  BY NoCallFine DEF IInv, ReadInv
<1>1. CASE Open(q)
  <2>1. QueryFine(ReadQuery)
    BY ConstantsAssumption DEF IInv, ReadInv, ReadQuery, Handler, QueryFine, QueryRecord,
           ApplyInv, TypeOK
  <2> QED
    BY <1>1, <2>1, QueryChanges DEF Open
<1>2. CASE NextRow(q)
  <2> DEFINE r == [query[q] EXCEPT !.pc = "reading", !.rows = Len(db)]
  <2>1. QueryFine(r)
    BY <1>0, Elements DEF QueryFine, QueryRecord, ApplyInv
  <2> QED
    BY <1>2, <2>1, QueryChanges DEF NextRow
<1>3. CASE \E err \in BOOLEAN : RowsEnd(q, err)
  <2>1. PICK err \in BOOLEAN : RowsEnd(q, err)
    BY <1>3
  <2> DEFINE r == IF err THEN NoCall ELSE [query[q] EXCEPT !.pc = "ok", !.due = {}]
  <2>2. QueryFine(r)
    BY <1>0, <2>1 DEF RowsEnd, QueryFine, QueryRecord
  <2> QED
    BY <2>1, <2>2, QueryChanges DEF RowsEnd
<1>4. CASE \E c \in Columns : SendRow(q, c)
  <2>1. PICK c \in Columns : SendRow(q, c)
    BY <1>4
  <2> DEFINE r == [query[q] EXCEPT !.sent = @ + 1]
  <2>2. QueryFine(r)
    <3>1. query[q] \in QueryRecord /\ query[q].pc = "reading" /\ query[q].sent < Len(db)
      BY <1>0, <2>1 DEF SendRow
    <3>2. /\ r \in QueryRecord /\ r.sent = query[q].sent + 1
          /\ r.due = query[q].due /\ r.rows = query[q].rows /\ r.pc = "reading"
      BY <3>1 DEF QueryRecord
    <3> HIDE DEF r
    <3>3. Len(db) \in Nat /\ query[q].sent \in Nat
      BY <3>1 DEF QueryRecord
    <3> QED
      BY <1>0, <3>1, <3>2, <3>3 DEF QueryFine
  <2> QED
    BY <2>1, <2>2, QueryChanges DEF SendRow
<1>5. CASE \E c \in Columns : RowFails(q, c)
  BY <1>0, <1>5, QueryChanges DEF RowFails
<1>6. CASE \E c \in Columns : NoScanType(q, c)
  BY <1>6, DieStep DEF NoScanType, Die
<1> QED
  BY <1>1, <1>2, <1>3, <1>4, <1>5, <1>6 DEF QueryStep

LEMMA ExecuteStep ==
  ASSUME IInv, Execute
  PROVE  IInv'
<1>1. ApplyInv' /\ \A i : Executed(i) => Executed(i)'
  BY ExecStep DEF Execute, IInv
<1>2. /\ log' = log /\ query' = query /\ acked' = acked
      /\ Len(db') = Len(db) + 1 /\ Len(db) \in Nat
  BY DEF Execute, ExecSQL, queryVars
<1>3. ASSUME NEW q \in Queries PROVE QueryFine(query[q])'
  <2>1. query[q].pc # "reading"
    BY DEF Execute, Reading
  <2>2. QueryFine(query[q])
    BY DEF IInv, ReadInv
  <2>3. query[q].sent \in Nat
    BY <2>2 DEF QueryFine, QueryRecord
  <2> QED
    BY <1>1, <1>2, <2>1, <2>2, <2>3 DEF QueryFine
<1> QED
  BY <1>1, <1>2, <1>3 DEF IInv, ReadInv

\* The other steps of the main loop, the process and raft.
LEMMA LoopPartStep ==
  ASSUME IInv, ApplyInv', db' = db, UNCHANGED query,
         Len(log) <= Len(log'),
         acked' = acked \/ (pc = "sendNil" /\ acked' = acked \cup {pos})
  PROVE  IInv'
<1>1. \A i : Executed(i)' = Executed(i)
  BY DEF Executed
<1>2. pc = "sendNil" => Executed(pos) /\ pos \in 1..Len(log)
  <2>1. pc = "sendNil" => Len(db) > 0 /\ db[Len(db)] = pos
    BY DEF IInv, ApplyInv, LoopInv
  <2>2. Len(db) \in Nat /\ \A n \in 1..Len(db) : db[n] \in 1..Len(log)
    BY Elements DEF IInv, ApplyInv
  <2> QED
    BY <2>1, <2>2 DEF Executed
<1>3. acked' \subseteq 1..Len(log)
  BY <1>2 DEF IInv, ReadInv
<1>5. acked' \subseteq 1..Len(log')
  BY <1>3
<1>6. \A i \in acked' : Executed(i)'
  BY <1>1, <1>2 DEF IInv, ReadInv
<1>7. ASSUME NEW q \in Queries PROVE QueryFine(query[q])'
  BY <1>1 DEF IInv, ReadInv, QueryFine
<1> QED
  BY <1>5, <1>6, <1>7 DEF IInv, ReadInv

LEMMA NextInv ==
  ASSUME IInv, [QueryNext]_allVars
  PROVE  IInv'
<1>0. ApplyInv /\ Len(log) \in Nat
  BY DEF IInv
<1>1. CASE \E q \in Queries : QueryStep(q)
  BY <1>1, QueryStepInv
<1>2. CASE Execute
  BY <1>2, ExecuteStep
<1>3. CASE BusyTimeout
  BY <1>0, <1>3, ApplyStep, LoopPartStep DEF BusyTimeout, queryVars
<1>4. CASE Acknowledge
  <2>1. ApplyInv'
    BY <1>0, <1>4, ApplyStep DEF Acknowledge, LoopStep
  <2> QED
    BY <1>4, <2>1, LoopPartStep DEF Acknowledge, Send
<1>5. CASE /\ \/ \E last \in 1..Len(log) : TakeReady(last)
              \/ SaveApplied \/ RejectedByDB \/ OtherEntry \/ ConnectionError
           /\ UNCHANGED queryVars
  <2>1. ApplyInv'
    BY <1>0, <1>5, ApplyStep DEF LoopStep
  <2>2. log' = log /\ db' = db
    BY <1>5 DEF TakeReady, SaveApplied, RejectedByDB, OtherEntry, ConnectionError
  <2> QED
    BY <1>5, <2>1, <2>2, LoopPartStep DEF queryVars
<1>6. CASE Die
  BY <1>6, DieStep
<1>7. CASE ComeBack
  <2>1. ApplyInv'
    BY <1>0, <1>7, ApplyStep DEF ComeBack
  <2>2. log' = log /\ db' = db /\ UNCHANGED <<query, acked>>
    BY <1>7 DEF ComeBack, Start, Restart, queryVars
  <2> QED
    BY <2>1, <2>2, LoopPartStep
<1>8. CASE (RetireOld \/ CallerGone) /\ UNCHANGED queryVars
  BY <1>0, <1>8, ApplyStep, LoopPartStep DEF RetireOld, CallerGone, queryVars
<1>9. CASE (\E k \in DB!Kind : Commit(k)) /\ UNCHANGED queryVars
  <2>1. ApplyInv' /\ db' = db
    BY <1>0, <1>9, ApplyStep DEF Commit
  <2>2. Len(log) <= Len(log')
    BY <1>9 DEF Commit
  <2> QED
    BY <1>9, <2>1, <2>2, LoopPartStep DEF queryVars
<1>10. CASE UNCHANGED allVars
  <2>1. ApplyInv' /\ db' = db /\ log' = log
    BY <1>0, <1>10, ApplyStep DEF allVars, vars
  <2> QED
    BY <1>10, <2>1, LoopPartStep DEF allVars, queryVars
<1> QED
  BY <1>1, <1>2, <1>3, <1>4, <1>5, <1>6, <1>7, <1>8, <1>9, <1>10 DEF QueryNext, LoopNext

LEMMA InitInv == QueryInit => IInv
<1> SUFFICES ASSUME QueryInit PROVE IInv
  OBVIOUS
<1> USE ConstantsAssumption DEF QueryInit, Init
<1>1. TypeOK
  <2>2. /\ appliedRow = 0 /\ first = 1 /\ cursor = 0 /\ pos = 0 /\ hi = 0 /\ pc = "ready"
        /\ failures = 0 /\ crashes = 0 /\ started \in BOOLEAN
    OBVIOUS
  <2> QED
    BY <2>2 DEF TypeOK
<1>2. Last = 0 /\ Len(db) = 0 /\ Len(log) = 0
  BY DEF Last, DB!LastExecuted
<1>3. LoopInv /\ LostInv
  BY DEF LoopInv, LostInv, Passed
<1>4. OrderInv
  BY <1>2 DEF OrderInv, InStep, Coming
<1>5. ReadInv
  BY <1>1, <1>3, <1>4, NoCallFine DEF ReadInv, ApplyInv, QueryFine
<1> QED
  BY <1>1, <1>3, <1>4, <1>5 DEF IInv, ApplyInv

-----------------------------------------------------------------------------
(* The theorems.                                                           *)

\* IInv is an invariant of QueryService.
THEOREM InductiveInvariant == QuerySpec => []IInv
<1>1. QueryInit => IInv
  BY InitInv
<1>2. IInv /\ [QueryNext]_allVars => IInv'
  BY NextInv
<1> QED
  BY <1>1, <1>2, PTL DEF QuerySpec

\* No batch boundary, crash, restart or retention loses a committed statement
\* that runMainLoop has passed; only an error that processCommittedData passes
\* over does.
THEOREM NothingMissing == QuerySpec => []NoneMissing
<1>1. IInv => NoneMissing
  <2> SUFFICES ASSUME IInv, failures = 0, NEW i \in 1..Len(log),
                      log[i] = "ok", i <= cursor \/ i < pos
               PROVE  Executed(i)
    BY DEF NoneMissing, AllApplied, Executed
  <2>1. Passed(cursor) /\ Passed(pos - 1) /\ pos \in Nat
    BY DEF IInv, ApplyInv, LostInv, TypeOK
  <2> QED
    BY <2>1 DEF Passed
<1> QED
  BY <1>1, InductiveInvariant, PTL

\* A node brought back by Node.Restart only executes the accepted statements
\* of the log in order and repeats at most the last one.
THEOREM RepeatsAtMostLast == QuerySpec => []AtMostLastRepeated
<1>1. IInv => AtMostLastRepeated
  BY DEF IInv, ApplyInv, OrderInv, AtMostLastRepeated
<1> QED
  BY <1>1, InductiveInvariant, PTL

\* A query that QuerySQL ended without an error sent all rows of one state.
THEOREM StreamsComplete == QuerySpec => []StreamComplete
<1>1. IInv => StreamComplete
  BY DEF IInv, ReadInv, QueryFine, StreamComplete
<1> QED
  BY <1>1, InductiveInvariant, PTL

\* A query reads every write this node answered before the query was opened.
THEOREM ReadsOwnWrites == QuerySpec => []ReadYourWrites
<1>1. IInv => ReadYourWrites
  BY DEF IInv, ReadInv, QueryFine, ReadYourWrites, Reading, Executed
<1> QED
  BY <1>1, InductiveInvariant, PTL

\* The variables keep their types.
THEOREM TypeCorrect == QuerySpec => []QueryTypeOK
<1>1. IInv => QueryTypeOK
  BY DEF IInv, ApplyInv, ReadInv, QueryFine, QueryRecord, QueryTypeOK
<1> QED
  BY <1>1, InductiveInvariant, PTL

-----------------------------------------------------------------------------
(* The cells of a row.  TLC evaluates CellsKept for scaled widths; here    *)
(* Narrow, Wide and Second are any, 2^31, 2^63 and 10^9 among them.        *)

\* A conversion between integers of one width keeps what the signed type has,
\* and takes 2 * h off the upper half of the unsigned type.
LEMMA WrapFacts ==
  ASSUME NEW h \in Nat \ {0}, NEW v \in Int, -h <= v, v < 2 * h
  PROVE  Wrap(v, h) = IF v < h THEN v ELSE v - 2 * h
<1> DEFINE m == 2 * h
<1>1. m \in Nat \ {0} /\ m = h + h
  OBVIOUS
<1> HIDE DEF m
<1>4. Wrap(v, h) = IF v % m < h THEN v % m ELSE (v % m) - m
  BY DEF Wrap, m
<1>5. CASE v < 0
  BY <1>1, <1>4
<1>6. CASE v >= 0
  BY <1>1, <1>4
<1> QED
  BY <1>5, <1>6

\* Integers, which scan into "i64" and "i32" cells.
LEMMA IntegerCells ==
  ASSUME NEW t \in I64 \cup I32, NEW v \in Stored(t), v # Null
  PROVE  Exact(t, v) <=> ReadCell(t, CellOf(t, v)) = v
<1> USE CellsAssumption
<1> DEFINE h == IF t \in I64 THEN Wide ELSE Narrow
<1>1. /\ t \notin Bool /\ t \notin Text /\ t \notin Time /\ t # "[]byte" /\ t # "RawBytes"
      /\ t # "NullFloat64" /\ (t \in I64 <=> t \notin I32)
  BY DEF I64, I32, Bool, Text, Time
<1>2. CellOf(t, v) = [kind |-> IF t \in I64 THEN "i64" ELSE "i32", val |-> Wrap(v, h), nanos |-> 0]
  BY <1>1 DEF CellOf
<1>3. ReadCell(t, CellOf(t, v)) = Wrap(v, h)
  BY <1>2 DEF ReadCell
<1>4. Exact(t, v) <=> v \in Signed(h)
  BY <1>1 DEF Exact
<1>5. v \in Int /\ -h <= v /\ v < 2 * h
  <2>2. CASE t \in {"int", "int64", "NullInt64"}
    BY <2>2 DEF Stored, Signed, I64, Text, Float
  <2>3. CASE t \in {"uint", "uint64"}
    BY <2>3 DEF Stored, Unsigned, I64, Text, Float
  <2>4. CASE t = "int32"
    BY <2>4 DEF Stored, Signed, Text, Float
  <2>5. CASE t = "uint32"
    BY <2>5 DEF Stored, Unsigned, Text, Float
  <2>6. CASE t \in {"int8", "int16"}
    BY <2>6 DEF Stored, Signed, Text, Float
  <2>7. CASE t \in {"uint8", "uint16"}
    BY <2>7 DEF Stored, Unsigned, Text, Float
  <2> QED
    BY <2>2, <2>3, <2>4, <2>5, <2>6, <2>7 DEF I64, I32
<1>6. h \in Nat \ {0}
  OBVIOUS
<1> HIDE DEF h
<1>7. Wrap(v, h) = IF v < h THEN v ELSE v - 2 * h
  BY <1>5, <1>6, WrapFacts
<1> QED
  BY <1>3, <1>4, <1>5, <1>6, <1>7 DEF Signed

\* Times: the seconds and, cut to 32 bits, all the nanoseconds since 1970.
LEMMA TimeCells ==
  ASSUME NEW t \in Time, NEW v \in Stored(t), v # Null, Exact(t, v)
  PROVE  ReadCell(t, CellOf(t, v)) = v
<1> USE CellsAssumption
<1>1. v \in 0..(Second - 1)
  BY DEF Exact, Time
<1>2. ReadCell(t, CellOf(t, v)) = (v \div Second) * Second + Wrap(v, Narrow)
  BY DEF ReadCell, CellOf, Time
<1>4. Wrap(v, Narrow) = v
  BY <1>1, WrapFacts
<1> QED
  BY <1>1, <1>2, <1>4

\* Floating-point numbers, rounded to the digits that %f prints.
LEMMA FloatCells ==
  ASSUME NEW v \in 0..MaxContent
  PROVE  Exact("NullFloat64", v) <=> ReadCell("NullFloat64", CellOf("NullFloat64", v)) = v
<1> USE CellsAssumption
<1>2. Exact("NullFloat64", v) <=> v % 10 = 0
  BY DEF Exact
<1>3. ReadCell("NullFloat64", CellOf("NullFloat64", v)) = ((v + 5) \div 10) * 10
  BY DEF ReadCell, CellOf, Time
<1> QED
  BY <1>2, <1>3

\* What is sent as it is, and NULL.
LEMMA PlainCells ==
  ASSUME NEW t \in ScanType \ {"float64"}, NEW v \in Stored(t),
         t \in Bool \cup Text \cup {"[]byte"} \/ v = Null
  PROVE  Exact(t, v) <=> ReadCell(t, CellOf(t, v)) = v
<1> USE CellsAssumption
<1>1. CASE v = Null
  <2>1. Exact(t, v) <=> t # "[]byte"
    BY <1>1 DEF Exact
  <2>2. CASE t # "[]byte"
    BY <1>1, <2>1, <2>2 DEF ReadCell, CellOf
  <2>3. CASE t = "[]byte"
    BY <1>1, <2>1 DEF ReadCell, CellOf, Time
  <2> QED
    BY <2>2, <2>3
<1>2. CASE v # Null /\ t \in Bool \cup Text \cup {"[]byte"}
  <2> QED
    BY DEF Exact, ReadCell, CellOf, I64, I32, Bool, Text, Time
<1> QED
  BY <1>1, <1>2

\* For every width of the integers: exactly the values Exact names reach the
\* client as they are in the database (CellsKept, QuerySQL of control.go).
THEOREM CellsExact == CellsKept
<1> SUFFICES ASSUME NEW t \in ScanType \ {"float64"}, NEW v \in Stored(t)
             PROVE  /\ Exact(t, v) => ReadCell(t, CellOf(t, v)) = v
                    /\ ReadCell(t, CellOf(t, v)) = v => Exact(t, v) \/ t \in Time
  BY DEF CellsKept
<1>1. CASE t \in Bool \cup Text \cup {"[]byte"} \/ v = Null
  BY <1>1, PlainCells
<1>2. CASE v # Null /\ t \in I64 \cup I32
  BY <1>2, IntegerCells
<1>3. CASE v # Null /\ t \in Time
  BY <1>3, TimeCells
<1>4. CASE v # Null /\ t = "NullFloat64"
  <2>1. v \in 0..MaxContent
    BY <1>4 DEF Stored, Float
  <2> QED
    BY <1>4, <2>1, FloatCells
<1> QED
  BY <1>1, <1>2, <1>3, <1>4 DEF ScanType, Float

\* The rows a query has sent tell the client what is in the database, but for
\* the values without an exact cell, at the widths the integers really have.
THEOREM RowsTellValues == QuerySpec => []RowsKept
<1>1. RowsKept
  BY CellsExact DEF RowsKept
<1> QED
  BY <1>1, PTL

-----------------------------------------------------------------------------
(* The refinement: a step of the loop, of raft or of a fault is a step of  *)
(* ReplicatedDB, and every other step changes nothing it speaks about.     *)

Hit == failures + crashes > 0

LEMMA RefinesStep ==
  ASSUME IInv, [QueryNext]_allVars
  PROVE  [DB!Next]_<<log, db, Hit>>
<1> USE ConstantsAssumption, QueryAssumption
<1>0. /\ ApplyInv /\ failures \in Nat /\ crashes \in Nat
      /\ pc = "entry" => pos \in 1..Len(log)
  BY DEF IInv, ApplyInv, TypeOK, LoopInv
<1>1. CASE \E k \in DB!Kind : Commit(k)
  BY <1>1 DEF Commit, faults, DB!Next, DB!Commit
<1>2. CASE ExecSQL
  <2>1. IF Hit THEN log[pos] = "ok" ELSE DB!Follows(DB!LastExecuted, pos)
    BY <1>0, <1>2, ExecStep DEF ExecSQL, Hit, Last
  <2>2. db' = Append(db, pos) /\ log' = log /\ Hit' = Hit
    BY <1>2 DEF ExecSQL, faults, Hit
  <2>3. DB!Execute(pos)
    BY <2>1, <2>2 DEF DB!Execute, Hit
  <2>4. pos \in 1..Len(log)
    BY <1>0, <1>2 DEF ExecSQL
  <2> QED
    BY <2>3, <2>4 DEF DB!Next
<1>3. CASE /\ UNCHANGED <<log, db>>
           /\ \/ failures' = failures /\ crashes' = crashes
              \/ failures' = failures + 1 /\ crashes' = crashes
              \/ failures' = failures /\ crashes' = crashes + 1
  <2>1. CASE failures' = failures /\ crashes' = crashes
    BY <1>3, <2>1 DEF Hit
  <2>2. CASE failures' + crashes' = failures + crashes + 1
    <3>1. Hit' = TRUE
      BY <1>0, <2>2 DEF Hit
    <3> QED
      BY <1>3, <3>1 DEF DB!Next, DB!Fault, Hit
  <2> QED
    BY <1>0, <1>3, <2>1, <2>2
<1>4. CASE BusyTimeout /\ failures = MaxFailures
  BY <1>4, <1>3 DEF BusyTimeout
<1>5. CASE BusyTimeout /\ failures < MaxFailures
  BY <1>5, <1>3 DEF BusyTimeout
<1>6. CASE UNCHANGED vars
  BY <1>3, <1>6 DEF vars, faults
<1>7. CASE \/ RetireOld \/ SaveApplied \/ Send \/ CallerGone \/ RejectedByDB \/ OtherEntry \/ ConnectionError
           \/ Crash \/ Start \/ Restart \/ \E last \in 1..Len(log) : TakeReady(last)
  BY <1>3, <1>7 DEF RetireOld, SaveApplied, Send, CallerGone, RejectedByDB, OtherEntry, ConnectionError, Crash,
         Start, Restart, TakeReady, faults
<1>8. BusyTimeout => failures < MaxFailures \/ failures = MaxFailures
  BY <1>0 DEF ApplyInv, TypeOK
<1> QED
  BY <1>1, <1>2, <1>4, <1>5, <1>6, <1>7, <1>8 DEF QueryNext, LoopNext, QueryStep, Open, NextRow,
         RowsEnd, SendRow, RowFails, NoScanType, Execute, Acknowledge, Die, ComeBack, allVars

\* Until the first connection error, busy database or crash the node's
\* database is the replicated state machine of ReplicatedDB: it executes the
\* accepted statements of the committed log, each once and in order.
THEOREM Refinement == QuerySpec => ImplementsReplicatedDB
<1>1. QueryInit => DB!Init
  BY DEF QueryInit, Init, DB!Init
<1>2. IInv /\ [QueryNext]_allVars => [DB!Next]_<<log, db, failures + crashes > 0>>
  BY RefinesStep DEF Hit
<1> QED
  BY <1>1, <1>2, InductiveInvariant, PTL DEF QuerySpec, ImplementsReplicatedDB, DB!Spec

=============================================================================
