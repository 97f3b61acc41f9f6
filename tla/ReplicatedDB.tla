---------------------------- MODULE ReplicatedDB ----------------------------
(***************************************************************************)
(* What state machine replication promises of one node's database: the     *)
(* cluster commits a log of entries, and the database executes the         *)
(* statements in it that the database engine accepts, each exactly once    *)
(* and in log order.  That holds for a node nothing happened to.  Once it  *)
(* was hit by a fault, repetitions and omissions are possible, but still   *)
(* nothing but accepted, committed statements changes the database.        *)
(***************************************************************************)
EXTENDS Naturals, Sequences

VARIABLES
  log,    \* kinds of the committed entries
  db,     \* indexes of the statements that changed the database, in order
  hit     \* has the node been hit by a fault

\* An entry is a statement the database accepts, one it rejects with an error
\* of its own, a configuration change, or raft's empty entry of a new term.
Kind == {"ok", "bad", "conf", "empty"}

\* The next accepted statement after index i is j.
Follows(i, j) ==
  /\ i < j /\ j <= Len(log) /\ log[j] = "ok"
  /\ \A k \in (i + 1)..(j - 1) : log[k] # "ok"

LastExecuted == IF db = << >> THEN 0 ELSE db[Len(db)]

Init == log = << >> /\ db = << >> /\ hit = FALSE

Commit(k) == log' = Append(log, k) /\ UNCHANGED <<db, hit>>

Execute(j) ==
  /\ IF hit THEN log[j] = "ok" ELSE Follows(LastExecuted, j)
  /\ db' = Append(db, j)
  /\ UNCHANGED <<log, hit>>

Fault == hit' = TRUE /\ UNCHANGED <<log, db>>

Next ==
  \/ \E k \in Kind : Commit(k)
  \/ \E j \in 1..Len(log) : Execute(j)
  \/ Fault

Spec == Init /\ [][Next]_<<log, db, hit>>
=============================================================================
