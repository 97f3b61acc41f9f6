-------------------------- MODULE MembershipProofs --------------------------
(***************************************************************************)
(* Proofs about Membership, for every set of nodes and addresses and every *)
(* number of configuration changes, restarts and failures: the members a   *)
(* node counts and the IDs that are removed.                               *)
(***************************************************************************)
EXTENDS Membership, WellFoundedInduction, TLAPS

-----------------------------------------------------------------------------
(* What a log c of configuration changes says.                             *)

\* Is i a member when the changes after the first b, up to the first k, have
\* been applied to the members S: Members is this for all of the log.
Member(c, S, b, i, k) ==
  IF \E j \in (b + 1)..k : c[j].id = i
  THEN \E j \in (b + 1)..k : /\ c[j].id = i /\ c[j].op = "add"
                             /\ \A l \in (j + 1)..k : c[l].id # i
  ELSE i \in S

\* The change at k adds x at the address a; x was replaced at its address by
\* another ID within the first k changes.
Adds(c, k, x, a) == c[k].op = "add" /\ c[k].id = x /\ c[k].addr = a
Replaced(c, x, k) ==
  \E i, j \in 1..k : /\ i < j /\ c[i].op = "add" /\ c[i].id = x
                     /\ c[j].op = "add" /\ c[j].addr = c[i].addr /\ c[j].id # c[i].id

\* About each ID the set T says what S becomes by the changes of some prefix of
\* the log, one with at least the first low changes.
Knows(c, S, b, T, low) ==
  \A i \in ID : \E v \in low..Len(c) : i \in T <=> Member(c, S, b, i, v)

-----------------------------------------------------------------------------
(* The inductive invariant.                                                *)

\* Where the loops stand, and what can be in the log.
LoopInv ==
  /\ leader # NoNode => up[leader]
  /\ \A n \in Nodes : saving[n] => up[n]
  /\ \A n \in Nodes : up[n] => first[n] - 1 <= advanced[n] /\ advanced[n] <= done[n]
  /\ \A n \in Nodes : base[n] <= first[n] - 1
  /\ \A k \in 1..Len(conf) : conf[k].op = "add" => conf[k].addr # NoAddr

\* How many changes what a node has stored reflects at least.
Stored(n) == IF up[n] THEN advanced[n] ELSE first[n] - 1

\* After a restart the changes a node is handed again are older than what it
\* has stored: the members it counts mix prefixes of the log, and none of them
\* is shorter than what the node has processed in this life.
ConfInv ==
  failures = 0 =>
    \A n \in Nodes :
      /\ Knows(conf, boot[n], base[n], row[n], Stored(n))
      /\ up[n] => Knows(conf, boot[n], base[n], mem[n], done[n])
      /\ up[n] /\ ~saving[n] => row[n] = mem[n]

\* The first life of every node: what it has is what the log up to there says.
LifeInv ==
  restarts = 0 =>
    /\ \A n \in Nodes : up[n] \/ done[n] = 0
    /\ \A n \in Nodes, x \in ID : table[n][x] # NoAddr =>
         \E k \in 1..done[n] : Adds(conf, k, x, table[n][x])
    /\ \A r \in removals : Replaced(conf, r.id, Len(conf))
    /\ \A k \in 1..Len(conf) : conf[k].op = "remove" => Replaced(conf, conf[k].id, k - 1)

IInv == TypeOK /\ LoopInv /\ ConfInv /\ LifeInv

-----------------------------------------------------------------------------
(* Lemmas about logs.                                                      *)

\* A non-empty set of numbers has a least element.
LEMMA LeastExists ==
  ASSUME NEW S \in SUBSET Nat, S # {}
  PROVE  \E x \in S : \A y \in S : x <= y
<1>1. IsWellFoundedOn(OpToRel(<, Nat), Nat)
  BY NatLessThanWellFounded
<1>2. PICK x \in S : \A y \in S : ~(<<y, x>> \in OpToRel(<, Nat))
  BY <1>1, WFMin, Zenon
<1>3. \A y \in Nat : <<y, x>> \notin OpToRel(<, Nat) => x <= y
  BY DEF OpToRel
<1> QED
  BY <1>2, <1>3

\* A non-empty set of numbers up to b has a greatest element, and Max is it.
LEMMA MaxOfBounded ==
  ASSUME NEW b \in Nat, NEW S \in SUBSET (0..b), S # {}
  PROVE  Max(S) \in S /\ \A y \in S : y <= Max(S)
<1> DEFINE T == {k \in 0..b : b - k \in S}
<1>1. PICK w \in S : TRUE
  OBVIOUS
<1>2. b - w \in T
  OBVIOUS
<1>3. T \in SUBSET Nat /\ T # {}
  <2>1. \A k \in 0..b : k \in Nat
    OBVIOUS
  <2> QED
    BY <1>2, <2>1
<1>4. PICK m \in T : \A y \in T : m <= y
  BY <1>3, LeastExists
<1>5. \A y \in S : b - y \in T
  OBVIOUS
<1>6. b - m \in S /\ \A y \in S : b - m >= y
  BY <1>4, <1>5
<1> QED
  BY <1>6 DEF Max

\* Before the first of the changes the members are those of S.
LEMMA FirstMember == \A c, S, i : \A b \in Nat : Member(c, S, b, i, b) <=> i \in S
BY DEF Member

\* A change decides whether its own ID is a member, and leaves the others.
LEMMA MemberNext ==
  ASSUME NEW c \in Seq(Entry), NEW S, NEW b \in Nat, NEW k \in b..(Len(c) - 1), NEW i \in ID
  PROVE  Member(c, S, b, i, k + 1) <=>
           IF c[k + 1].id = i THEN c[k + 1].op = "add" ELSE Member(c, S, b, i, k)
<1>1. \A j \in (b + 1)..k : j \in (b + 1)..(k + 1) /\ j < k + 1 /\ k + 1 \in (j + 1)..(k + 1)
  OBVIOUS
<1>2. k + 1 \in (b + 1)..(k + 1) /\ \A j \in (b + 1)..(k + 1) : j \in (b + 1)..k \/ j = k + 1
  OBVIOUS
<1>3. \A l \in (k + 1 + 1)..(k + 1) : FALSE
  OBVIOUS
<1>4. CASE c[k + 1].id = i
  <2>1. \E j \in (b + 1)..(k + 1) : c[j].id = i
    BY <1>2, <1>4
  <2>2. ASSUME NEW j \in (b + 1)..(k + 1), c[j].id = i, c[j].op = "add",
               \A l \in (j + 1)..(k + 1) : c[l].id # i
        PROVE  c[k + 1].op = "add"
    BY <1>1, <1>2, <1>4, <2>2
  <2>3. c[k + 1].op = "add" => \E j \in (b + 1)..(k + 1) : /\ c[j].id = i /\ c[j].op = "add"
                                                    /\ \A l \in (j + 1)..(k + 1) : c[l].id # i
    BY <1>2, <1>3, <1>4
  <2> QED
    BY <1>4, <2>1, <2>2, <2>3 DEF Member
<1>5. CASE c[k + 1].id # i
  <2>1. (\E j \in (b + 1)..(k + 1) : c[j].id = i) <=> (\E j \in (b + 1)..k : c[j].id = i)
    BY <1>1, <1>2, <1>5
  <2>2. ASSUME NEW j \in (b + 1)..k
        PROVE  (\A l \in (j + 1)..(k + 1) : c[l].id # i) <=> (\A l \in (j + 1)..k : c[l].id # i)
    <3>1. \A l \in (j + 1)..(k + 1) : l \in (j + 1)..k \/ l = k + 1
      OBVIOUS
    <3>2. \A l \in (j + 1)..k : l \in (j + 1)..(k + 1)
      OBVIOUS
    <3> QED
      BY <1>5, <3>1, <3>2
  <2>3. (\E j \in (b + 1)..(k + 1) : /\ c[j].id = i /\ c[j].op = "add"
                               /\ \A l \in (j + 1)..(k + 1) : c[l].id # i)
        <=> (\E j \in (b + 1)..k : /\ c[j].id = i /\ c[j].op = "add"
                             /\ \A l \in (j + 1)..k : c[l].id # i)
    BY <1>1, <1>2, <1>5, <2>2
  <2> QED
    BY <1>5, <2>1, <2>3 DEF Member
<1> QED
  BY <1>4, <1>5

\* What the first changes say is not affected by those appended later.
LEMMA AppendKeeps ==
  ASSUME NEW c \in Seq(Entry), NEW e \in Entry
  PROVE  /\ Append(c, e) \in Seq(Entry) /\ Len(Append(c, e)) = Len(c) + 1
         /\ Append(c, e)[Len(c) + 1] = e
         /\ \A k \in 1..Len(c) : Append(c, e)[k] = c[k]
         /\ \A S, i : \A b \in Nat, k \in 0..Len(c) :
              Member(Append(c, e), S, b, i, k) <=> Member(c, S, b, i, k)
         /\ \A x, a : \A k \in 1..Len(c) : Adds(Append(c, e), k, x, a) <=> Adds(c, k, x, a)
<1> DEFINE d == Append(c, e)
<1>1. d \in Seq(Entry) /\ Len(d) = Len(c) + 1 /\ d[Len(c) + 1] = e
  OBVIOUS
<1>2. \A k \in 1..Len(c) : d[k] = c[k]
  OBVIOUS
<1> HIDE DEF d
<1>3. ASSUME NEW S, NEW i, NEW b \in Nat, NEW k \in 0..Len(c)
      PROVE  Member(d, S, b, i, k) <=> Member(c, S, b, i, k)
  <2>1. \A j \in (b + 1)..k : d[j] = c[j]
    BY <1>2
  <2>2. \A j \in (b + 1)..k : \A l \in (j + 1)..k : d[l] = c[l]
    BY <1>2
  <2> QED
    BY <2>1, <2>2 DEF Member
<1>4. \A x, a : \A k \in 1..Len(c) : Adds(d, k, x, a) <=> Adds(c, k, x, a)
  BY <1>2 DEF Adds
<1> QED
  BY <1>1, <1>2, <1>3, <1>4 DEF d

\* A replacement stays one in a longer prefix and in a longer log.
LEMMA ReplacedKept ==
  ASSUME NEW c \in Seq(Entry), NEW e \in Entry, NEW x, NEW k \in 0..Len(c),
         Replaced(c, x, k)
  PROVE  /\ \A l \in k..Len(c) : Replaced(c, x, l)
         /\ \A l \in k..(Len(c) + 1) : Replaced(Append(c, e), x, l)
<1>1. PICK i \in 1..k, j \in 1..k :
        /\ i < j /\ c[i].op = "add" /\ c[i].id = x
        /\ c[j].op = "add" /\ c[j].addr = c[i].addr /\ c[j].id # c[i].id
  BY DEF Replaced
<1>2. \A l \in k..(Len(c) + 1) : i \in 1..l /\ j \in 1..l
  OBVIOUS
<1>3. Append(c, e)[i] = c[i] /\ Append(c, e)[j] = c[j]
  BY AppendKeeps
<1>4. \A l \in k..Len(c) : l \in k..(Len(c) + 1)
  OBVIOUS
<1> QED
  BY <1>1, <1>2, <1>3, <1>4 DEF Replaced

\* What the whole log makes of S.
LEMMA MembersAre ==
  ASSUME TypeOK, NEW S, NEW b \in Nat
  PROVE  \A i \in ID : i \in Members(S, b) <=> Member(conf, S, b, i, Len(conf))
<1> SUFFICES ASSUME NEW i \in ID PROVE i \in Members(S, b) <=> Member(conf, S, b, i, Len(conf))
  OBVIOUS
<1>1. conf \in Seq(Entry) /\ Len(conf) \in Nat /\ DOMAIN conf = 1..Len(conf)
  BY DEF TypeOK
<1>2. \A k : k \in About(i, b) <=> k \in (b + 1)..Len(conf) /\ conf[k].id = i
  BY <1>1 DEF About
<1>3. CASE About(i, b) = {}
  <2>1. ~ \E j \in (b + 1)..Len(conf) : conf[j].id = i
    BY <1>2, <1>3
  <2> QED
    BY <1>3, <2>1 DEF Members, Member
<1>4. CASE About(i, b) # {}
  <2>1. About(i, b) \in SUBSET (0..Len(conf))
    BY <1>1 DEF About
  <2>2. PICK m : m = Max(About(i, b))
    OBVIOUS
  <2>3. m \in About(i, b) /\ \A y \in About(i, b) : y <= m
    BY <1>1, <1>4, <2>1, <2>2, MaxOfBounded
  <2>4. /\ m \in (b + 1)..Len(conf) /\ conf[m].id = i
        /\ \A l \in (b + 1)..Len(conf) : conf[l].id = i => l <= m
    BY <1>2, <2>3
  <2>5. i \in Members(S, b) <=> conf[m].op = "add"
    BY <1>4, <2>2 DEF Members
  <2>6. \A l \in (m + 1)..Len(conf) : conf[l].id # i
    BY <1>1, <2>4
  <2>7. ASSUME NEW j \in (b + 1)..Len(conf), conf[j].id = i,
               \A l \in (j + 1)..Len(conf) : conf[l].id # i
        PROVE  j = m
    BY <1>1, <2>4, <2>7
  <2> QED
    BY <2>4, <2>5, <2>6, <2>7 DEF Member
<1> QED
  BY <1>3, <1>4

\* What T knows is not less for a shorter prefix ...
LEMMA KnowsShorter ==
  ASSUME NEW c \in Seq(Entry), NEW S, NEW b, NEW T, NEW k \in 0..Len(c), NEW l \in 0..k,
         Knows(c, S, b, T, k)
  PROVE  Knows(c, S, b, T, l)
<1>1. \A v \in k..Len(c) : v \in l..Len(c)
  OBVIOUS
<1> QED
  BY <1>1 DEF Knows

\* ... or a longer log.
LEMMA KnowsLonger ==
  ASSUME NEW c \in Seq(Entry), NEW e \in Entry, NEW S, NEW b \in Nat, NEW T,
         NEW k \in 0..Len(c), Knows(c, S, b, T, k)
  PROVE  Knows(Append(c, e), S, b, T, k)
<1> DEFINE d == Append(c, e)
<1>1. /\ Len(d) = Len(c) + 1
      /\ \A i \in ID, v \in 0..Len(c) : Member(d, S, b, i, v) <=> Member(c, S, b, i, v)
  BY AppendKeeps
<1> HIDE DEF d
<1>2. \A v \in k..Len(c) : v \in 0..Len(c) /\ v \in k..(Len(c) + 1)
  OBVIOUS
<1>3. Knows(d, S, b, T, k)
  BY <1>1, <1>2 DEF Knows
<1> QED
  BY <1>3 DEF d

\* A set that a configuration is begun with knows itself.
LEMMA KnowsItself ==
  ASSUME NEW c \in Seq(Entry), NEW S, NEW b \in 0..Len(c)
  PROVE  Knows(c, S, b, S, b)
<1>1. b \in b..Len(c) /\ b \in Nat
  OBVIOUS
<1> QED
  BY <1>1, FirstMember DEF Knows

\* One more change is reflected by what it makes of T.
LEMMA KnowsNext ==
  ASSUME NEW c \in Seq(Entry), NEW b \in Nat, NEW k \in b..(Len(c) - 1),
         NEW S, NEW T, NEW U, Knows(c, S, b, T, k),
         U = IF c[k + 1].op = "add" THEN T \cup {c[k + 1].id} ELSE T \ {c[k + 1].id}
  PROVE  Knows(c, S, b, U, k + 1)
<1>1. ASSUME NEW i \in ID
      PROVE  \E v \in (k + 1)..Len(c) : i \in U <=> Member(c, S, b, i, v)
  <2>1. k + 1 \in (k + 1)..Len(c)
    OBVIOUS
  <2>2. CASE c[k + 1].id = i
    BY <2>1, <2>2, MemberNext
  <2>3. CASE c[k + 1].id # i
    <3>1. i \in U <=> i \in T
      BY <2>3
    <3>2. PICK v \in k..Len(c) : i \in T <=> Member(c, S, b, i, v)
      BY DEF Knows
    <3>3. CASE v = k
      BY <2>1, <2>3, <3>1, <3>2, <3>3, MemberNext
    <3>4. CASE v # k
      <4>1. v \in (k + 1)..Len(c)
        BY <3>4
      <4> QED
        BY <3>1, <3>2, <4>1
    <3> QED
      BY <3>3, <3>4
  <2> QED
    BY <2>2, <2>3
<1> QED
  BY <1>1 DEF Knows

-----------------------------------------------------------------------------
(* Lemmas about states.                                                    *)

\* The type invariant, for one node.
LEMMA Types ==
  ASSUME TypeOK
  PROVE  /\ conf \in Seq(Entry) /\ Len(conf) \in Nat /\ DOMAIN conf = 1..Len(conf)
         /\ \A n \in Nodes : /\ first[n] \in 1..(Len(conf) + 1) /\ first[n] - 1 \in 0..Len(conf)
                             /\ done[n] \in 0..Len(conf) /\ advanced[n] \in 0..Len(conf)
                             /\ up[n] \in BOOLEAN /\ saving[n] \in BOOLEAN
                             /\ mem[n] \in SUBSET ID /\ row[n] \in SUBSET ID
                             /\ table[n] \in [ID -> Address \cup {NoAddr}]
                             /\ boot[n] \in SUBSET ID /\ base[n] \in 0..Len(conf)
                             /\ base[n] \in Nat
<1>1. conf \in Seq(Entry) /\ Len(conf) \in Nat /\ DOMAIN conf = 1..Len(conf)
  BY DEF TypeOK
<1>2. \A n \in Nodes : first[n] \in 1..(Len(conf) + 1) /\ first[n] - 1 \in 0..Len(conf)
  BY <1>1 DEF TypeOK
<1>3. \A n \in Nodes : /\ done[n] \in 0..Len(conf) /\ advanced[n] \in 0..Len(conf)
                       /\ base[n] \in 0..Len(conf) /\ base[n] \in Nat
  BY <1>1 DEF TypeOK
<1>4. \A n \in Nodes : /\ up[n] \in BOOLEAN /\ saving[n] \in BOOLEAN
                       /\ mem[n] \in SUBSET ID /\ row[n] \in SUBSET ID
                       /\ table[n] \in [ID -> Address \cup {NoAddr}]
                       /\ boot[n] \in SUBSET ID
  BY DEF TypeOK
<1> QED
  BY <1>1, <1>2, <1>3, <1>4

\* Every action keeps the invariant: one lemma per action.
LEMMA Stutter ==
  ASSUME IInv, UNCHANGED vars
  PROVE  IInv'
<1>1. UNCHANGED <<conf, leader, removals, up, first, done, advanced, saving, mem, row, table,
                  restarts, failures, boot, base>>
  BY DEF vars, raftVars, loopVars, begun
<1>2. TypeOK'
  BY <1>1 DEF IInv, TypeOK
<1>3. LoopInv'
  BY <1>1 DEF IInv, LoopInv
<1>4. ConfInv'
  BY <1>1 DEF IInv, ConfInv, Stored
<1>5. LifeInv'
  BY <1>1 DEF IInv, LifeInv
<1> QED
  BY <1>2, <1>3, <1>4, <1>5 DEF IInv

LEMMA ElectStep ==
  ASSUME IInv, NEW n \in Nodes, Elect(n)
  PROVE  IInv'
<1>1. /\ UNCHANGED <<conf, removals, up, first, done, advanced, saving, mem, row, table,
                     restarts, failures, boot, base>>
      /\ leader' = n /\ up[n]
  BY DEF Elect, loopVars, begun
<1>2. TypeOK'
  BY <1>1 DEF IInv, TypeOK
<1>3. LoopInv'
  BY <1>1 DEF IInv, LoopInv
<1>4. ConfInv'
  BY <1>1 DEF IInv, ConfInv, Stored
<1>5. LifeInv'
  BY <1>1 DEF IInv, LifeInv
<1> QED
  BY <1>2, <1>3, <1>4, <1>5 DEF IInv

LEMMA SaveConfStateStep ==
  ASSUME IInv, NEW n \in Nodes, SaveConfState(n)
  PROVE  IInv'
<1>1. /\ UNCHANGED <<conf, leader, removals, up, first, done, advanced, mem, table,
                     restarts, failures, boot, base>>
      /\ saving[n] /\ row' = [row EXCEPT ![n] = mem[n]] /\ saving' = [saving EXCEPT ![n] = FALSE]
  BY DEF SaveConfState, raftVars, begun
<1>2. TypeOK'
  BY <1>1 DEF IInv, TypeOK
<1>3. LoopInv'
  BY <1>1 DEF IInv, LoopInv, TypeOK
<1>4. ConfInv'
  <2> SUFFICES ASSUME failures = 0, NEW m \in Nodes
               PROVE  /\ Knows(conf, boot[m], base[m], row'[m], Stored(m))
                      /\ up[m] => Knows(conf, boot[m], base[m], mem[m], done[m])
                      /\ up[m] /\ ~saving'[m] => row'[m] = mem[m]
    BY <1>1 DEF ConfInv, Stored
  <2>1. CASE m = n
    <3>1. /\ row'[m] = mem[m] /\ up[m] /\ Stored(m) = advanced[m]
          /\ Knows(conf, boot[m], base[m], mem[m], done[m])
      BY <1>1, <2>1 DEF IInv, TypeOK, LoopInv, ConfInv, Stored
    <3>2. conf \in Seq(Entry) /\ done[m] \in 0..Len(conf) /\ advanced[m] \in 0..done[m]
      BY <3>1, Types DEF IInv, LoopInv
    <3> QED
      BY <3>1, <3>2, KnowsShorter
  <2>2. CASE m # n
    <3>1. row'[m] = row[m] /\ saving'[m] = saving[m]
      BY <1>1, <2>2 DEF IInv, TypeOK
    <3> QED
      BY <3>1 DEF IInv, ConfInv
  <2> QED
    BY <2>1, <2>2
<1>5. LifeInv'
  BY <1>1 DEF IInv, LifeInv
<1> QED
  BY <1>2, <1>3, <1>4, <1>5 DEF IInv

LEMMA SaveConfStateFailsStep ==
  ASSUME IInv, NEW n \in Nodes, SaveConfStateFails(n)
  PROVE  IInv'
<1>1. /\ UNCHANGED <<conf, leader, removals, up, first, done, advanced, mem, row, table,
                     restarts, boot, base>>
      /\ saving' = [saving EXCEPT ![n] = FALSE] /\ failures < MaxFailures
      /\ failures' = failures + 1
  BY DEF SaveConfStateFails, raftVars, begun
<1>2. TypeOK'
  <2>1. failures' \in 0..MaxFailures
    BY <1>1, ConstantsAssumption DEF IInv, TypeOK
  <2>2. saving' \in [Nodes -> BOOLEAN]
    BY <1>1 DEF IInv, TypeOK
  <2> QED
    BY <1>1, <2>1, <2>2 DEF IInv, TypeOK
<1>3. LoopInv'
  BY <1>1 DEF IInv, LoopInv, TypeOK
<1>4. failures' # 0
  BY <1>1 DEF IInv, TypeOK
<1>5. LifeInv'
  BY <1>1 DEF IInv, LifeInv
<1> QED
  BY <1>2, <1>3, <1>4, <1>5 DEF IInv, ConfInv

LEMMA AdvanceStep ==
  ASSUME IInv, NEW n \in Nodes, Advance(n)
  PROVE  IInv'
<1>1. /\ UNCHANGED <<conf, leader, removals, up, first, done, saving, mem, row, table,
                     restarts, failures, boot, base>>
      /\ up[n] /\ ~saving[n] /\ advanced[n] < done[n]
      /\ advanced' = [advanced EXCEPT ![n] = done[n]]
  BY DEF Advance, raftVars, begun
<1>2. TypeOK'
  BY <1>1 DEF IInv, TypeOK
<1>3. LoopInv'
  <2>1. \A m \in Nodes : up[m] => first[m] - 1 <= advanced'[m] /\ advanced'[m] <= done[m]
    BY <1>1, Types DEF IInv, LoopInv, TypeOK
  <2> QED
    BY <1>1, <2>1 DEF IInv, LoopInv
<1>4. ConfInv'
  <2> SUFFICES ASSUME failures = 0, NEW m \in Nodes
               PROVE  /\ Knows(conf, boot[m], base[m], row[m],
                               IF up[m] THEN advanced'[m] ELSE first[m] - 1)
                      /\ up[m] => Knows(conf, boot[m], base[m], mem[m], done[m])
                      /\ up[m] /\ ~saving[m] => row[m] = mem[m]
    BY <1>1 DEF ConfInv, Stored
  <2>1. advanced'[m] = IF m = n THEN done[m] ELSE advanced[m]
    BY <1>1 DEF IInv, TypeOK
  <2> QED
    BY <1>1, <2>1 DEF IInv, ConfInv, Stored
<1>5. LifeInv'
  BY <1>1 DEF IInv, LifeInv
<1> QED
  BY <1>2, <1>3, <1>4, <1>5 DEF IInv

LEMMA RetireOldStep ==
  ASSUME IInv, NEW n \in Nodes, RetireOld(n)
  PROVE  IInv'
<1>1. /\ UNCHANGED <<conf, leader, removals, up, done, advanced, saving, mem, row, table,
                     restarts, failures, boot, base>>
      /\ Compaction /\ up[n] /\ first[n] <= advanced[n]
      /\ first' = [first EXCEPT ![n] = first[n] + 1]
  BY DEF RetireOld, raftVars, begun
<1>2. TypeOK'
  <2>1. first[n] + 1 \in 1..(Len(conf) + 1)
    BY <1>1, Types DEF IInv
  <2> QED
    BY <1>1, <2>1 DEF IInv, TypeOK
<1>3. \A m \in Nodes : first'[m] = IF m = n THEN first[n] + 1 ELSE first[m]
  BY <1>1 DEF IInv, TypeOK
<1>4. LoopInv'
  <2>1. \A m \in Nodes : up[m] => first'[m] - 1 <= advanced[m] /\ advanced[m] <= done[m]
    BY <1>1, <1>3, Types DEF IInv, LoopInv
  <2>2. \A m \in Nodes : base[m] <= first'[m] - 1
    <3>1. \A m \in Nodes : base[m] <= first[m] - 1
      BY DEF IInv, LoopInv
    <3>2. \A m \in Nodes : first[m] \in Nat /\ base[m] \in Nat
      BY DEF IInv, TypeOK
    <3> QED
      BY <1>3, <3>1, <3>2
  <2> QED
    BY <1>1, <2>1, <2>2 DEF IInv, LoopInv
<1>5. \A m \in Nodes : ~up[m] => first'[m] = first[m]
  BY <1>1, <1>3
<1>6. ConfInv'
  BY <1>1, <1>5 DEF IInv, ConfInv, Stored
<1>7. LifeInv'
  BY <1>1 DEF IInv, LifeInv
<1> QED
  BY <1>2, <1>4, <1>6, <1>7 DEF IInv

LEMMA CrashStep ==
  ASSUME IInv, NEW n \in Nodes, Crash(n)
  PROVE  IInv'
<1>1. /\ UNCHANGED <<conf, first, done, advanced, mem, row, table, failures, boot, base>>
      /\ up[n] /\ restarts < MaxRestarts /\ restarts' = restarts + 1
      /\ up' = [up EXCEPT ![n] = FALSE] /\ saving' = [saving EXCEPT ![n] = FALSE]
      /\ leader' = IF leader = n THEN NoNode ELSE leader
      /\ removals' \subseteq removals
  BY DEF Crash, begun
<1>2. /\ up'[n] = FALSE /\ saving'[n] = FALSE
      /\ \A m \in Nodes \ {n} : up'[m] = up[m] /\ saving'[m] = saving[m]
  BY <1>1 DEF IInv, TypeOK
<1>3. TypeOK'
  <2>1. up' \in [Nodes -> BOOLEAN] /\ saving' \in [Nodes -> BOOLEAN]
    BY <1>1 DEF IInv, TypeOK
  <2>2. restarts' \in 0..MaxRestarts
    BY <1>1, ConstantsAssumption DEF IInv, TypeOK
  <2> QED
    BY <1>1, <2>1, <2>2 DEF IInv, TypeOK
<1>4. LoopInv'
  <2>1. leader' # NoNode => up'[leader']
    BY <1>1, <1>2 DEF IInv, TypeOK, LoopInv
  <2> QED
    BY <1>1, <1>2, <2>1 DEF IInv, LoopInv
<1>5. conf \in Seq(Entry) /\ advanced[n] \in 0..Len(conf) /\ first[n] - 1 \in 0..advanced[n]
  BY <1>1, Types DEF IInv, LoopInv
<1>6. ConfInv'
  <2> SUFFICES ASSUME failures = 0, NEW m \in Nodes
               PROVE  /\ Knows(conf, boot[m], base[m], row[m],
                               IF up'[m] THEN advanced[m] ELSE first[m] - 1)
                      /\ up'[m] => Knows(conf, boot[m], base[m], mem[m], done[m])
                      /\ up'[m] /\ ~saving'[m] => row[m] = mem[m]
    BY <1>1 DEF ConfInv, Stored
  <2>1. CASE m = n
    <3>1. Knows(conf, boot[n], base[n], row[n], advanced[n])
      BY <1>1 DEF IInv, ConfInv, Stored
    <3>2. Knows(conf, boot[n], base[n], row[n], first[n] - 1)
      BY <1>5, <3>1, KnowsShorter
    <3> QED
      BY <1>2, <2>1, <3>2
  <2>2. CASE m # n
    BY <1>2, <2>2 DEF IInv, ConfInv, Stored
  <2> QED
    BY <2>1, <2>2
<1>7. restarts' # 0
  BY <1>1 DEF IInv, TypeOK
<1> QED
  BY <1>3, <1>4, <1>6, <1>7 DEF IInv, LifeInv

\* Node 1 starts from itself alone, a node that joins from the peers it
\* reached, and any other from its row; the changes to be processed are those
\* its log has.
LEMMA StartStep ==
  ASSUME IInv, NEW n \in Nodes, NEW R \in SUBSET ID, Start(n, R)
  PROVE  IInv'
<1>1. /\ UNCHANGED <<conf, leader, removals, saving, table, restarts, failures>>
      /\ ~up[n] /\ up' = [up EXCEPT ![n] = TRUE]
      /\ done' = [done EXCEPT ![n] = first'[n] - 1]
      /\ advanced' = [advanced EXCEPT ![n] = first'[n] - 1]
  BY DEF Start, raftVars
<1>2. conf \in Seq(Entry) /\ Len(conf) \in Nat /\ first[n] - 1 \in 0..Len(conf)
  BY Types DEF IInv
<1>3. PICK S, B, b, f :
        /\ S \in SUBSET ID /\ B \in SUBSET ID /\ f \in 1..(Len(conf) + 1) /\ b \in 0..(f - 1)
        /\ mem' = [mem EXCEPT ![n] = S] /\ row' = [row EXCEPT ![n] = S]
        /\ boot' = [boot EXCEPT ![n] = B] /\ base' = [base EXCEPT ![n] = b]
        /\ first' = [first EXCEPT ![n] = f]
        /\ failures = 0 => Knows(conf, B, b, S, f - 1)
  <2>1. CASE StartNewCluster(n)
    <3>1. {1} \in SUBSET ID
      BY ConstantsAssumption DEF ID
    <3>2. first' = [first EXCEPT ![n] = first[n]] /\ first[n] \in 1..(Len(conf) + 1)
      BY <2>1, Types DEF StartNewCluster, IInv, TypeOK
    <3>3. Knows(conf, {1}, first[n] - 1, {1}, first[n] - 1)
      BY <1>2, KnowsItself
    <3>4. first[n] - 1 \in 0..(first[n] - 1)
      BY <1>2
    <3> QED
      BY <2>1, <3>1, <3>2, <3>3, <3>4 DEF StartNewCluster
  <2>2. CASE StartBootstraps(n, R)
    <3>1. PICK c \in 0..Len(conf) :
            base' = [base EXCEPT ![n] = c] /\ first' = [first EXCEPT ![n] = c + 1]
      BY <2>2 DEF StartBootstraps
    <3>2. R \in SUBSET ID
      BY ConstantsAssumption DEF ID
    <3>3. c + 1 \in 1..(Len(conf) + 1) /\ c \in 0..(c + 1 - 1) /\ c + 1 - 1 = c
      BY <1>2
    <3>4. PICK g : g = c + 1 /\ g - 1 = c /\ g \in 1..(Len(conf) + 1) /\ c \in 0..(g - 1)
      BY <3>3
    <3>5. Knows(conf, R, c, R, g - 1)
      BY <1>2, <3>4, KnowsItself
    <3> QED
      BY <2>2, <3>1, <3>2, <3>4, <3>5 DEF StartBootstraps
  <2>3. CASE LoadConfState(n)
    <3>1. /\ row' = [row EXCEPT ![n] = row[n]] /\ boot' = [boot EXCEPT ![n] = boot[n]]
          /\ base' = [base EXCEPT ![n] = base[n]] /\ first' = [first EXCEPT ![n] = first[n]]
      BY <2>3 DEF LoadConfState, begun, IInv, TypeOK
    <3>2. /\ row[n] \in SUBSET ID /\ boot[n] \in SUBSET ID
          /\ first[n] \in 1..(Len(conf) + 1) /\ base[n] \in 0..(first[n] - 1)
      BY Types DEF IInv, LoopInv
    <3>3. failures = 0 => Knows(conf, boot[n], base[n], row[n], first[n] - 1)
      BY <1>1 DEF IInv, ConfInv, Stored
    <3> QED
      BY <2>3, <3>1, <3>2, <3>3 DEF LoadConfState
  <2> QED
    BY <2>1, <2>2, <2>3 DEF Start
<1>4. f - 1 \in 0..Len(conf) /\ b \in 0..Len(conf)
  BY <1>2, <1>3
<1>5. /\ up'[n] /\ first'[n] = f /\ done'[n] = f - 1 /\ advanced'[n] = f - 1
      /\ mem'[n] = S /\ row'[n] = S /\ boot'[n] = B /\ base'[n] = b
  BY <1>1, <1>3 DEF IInv, TypeOK
<1>6. \A m \in Nodes \ {n} :
        /\ up'[m] = up[m] /\ first'[m] = first[m] /\ done'[m] = done[m]
        /\ advanced'[m] = advanced[m] /\ mem'[m] = mem[m] /\ row'[m] = row[m]
        /\ boot'[m] = boot[m] /\ base'[m] = base[m]
  BY <1>1, <1>3 DEF IInv, TypeOK
<1>7. TypeOK'
  <2>1. done' \in [Nodes -> 0..Len(conf)] /\ advanced' \in [Nodes -> 0..Len(conf)]
    BY <1>1, <1>4, <1>5 DEF IInv, TypeOK
  <2>2. mem' \in [Nodes -> SUBSET ID] /\ row' \in [Nodes -> SUBSET ID]
    BY <1>3 DEF IInv, TypeOK
  <2>3. /\ up' \in [Nodes -> BOOLEAN] /\ first' \in [Nodes -> 1..(Len(conf) + 1)]
        /\ boot' \in [Nodes -> SUBSET ID] /\ base' \in [Nodes -> 0..Len(conf)]
    BY <1>1, <1>3, <1>4 DEF IInv, TypeOK
  <2> QED
    BY <1>1, <2>1, <2>2, <2>3 DEF IInv, TypeOK
<1>8. LoopInv'
  <2>1. leader # NoNode => up'[leader]
    BY <1>5, <1>6 DEF IInv, TypeOK, LoopInv
  <2>2. \A m \in Nodes : up'[m] => first'[m] - 1 <= advanced'[m] /\ advanced'[m] <= done'[m]
    BY <1>4, <1>5, <1>6, Types DEF IInv, LoopInv
  <2>3. \A m \in Nodes : saving[m] => up'[m]
    BY <1>5, <1>6 DEF IInv, LoopInv
  <2>4. \A m \in Nodes : base'[m] <= first'[m] - 1
    BY <1>3, <1>5, <1>6 DEF IInv, LoopInv
  <2> QED
    BY <1>1, <2>1, <2>2, <2>3, <2>4 DEF IInv, LoopInv
<1>9. ConfInv'
  <2> SUFFICES ASSUME failures = 0, NEW m \in Nodes
               PROVE  /\ Knows(conf, boot'[m], base'[m], row'[m],
                               IF up'[m] THEN advanced'[m] ELSE first'[m] - 1)
                      /\ up'[m] => Knows(conf, boot'[m], base'[m], mem'[m], done'[m])
                      /\ up'[m] /\ ~saving[m] => row'[m] = mem'[m]
    BY <1>1 DEF ConfInv, Stored
  <2>1. CASE m = n
    BY <1>3, <1>5, <2>1
  <2>2. CASE m # n
    BY <1>6, <2>2 DEF IInv, ConfInv, Stored
  <2> QED
    BY <2>1, <2>2
<1>10. LifeInv'
  <2> SUFFICES ASSUME restarts = 0 PROVE LifeInv'
    BY <1>1 DEF LifeInv
  <2>1. ASSUME NEW m \in Nodes, NEW x \in ID, table[m][x] # NoAddr
        PROVE  \E k \in 1..done'[m] : Adds(conf, k, x, table[m][x])
    <3>1. PICK k \in 1..done[m] : Adds(conf, k, x, table[m][x])
      BY <2>1 DEF IInv, LifeInv
    <3>2. m # n
      BY <1>1, <3>1 DEF IInv, LifeInv
    <3> QED
      BY <1>6, <3>1, <3>2
  <2>2. \A m \in Nodes : up'[m] \/ done'[m] = 0
    BY <1>5, <1>6 DEF IInv, LifeInv
  <2> QED
    BY <1>1, <2>1, <2>2 DEF IInv, LifeInv
<1> QED
  BY <1>7, <1>8, <1>9, <1>10 DEF IInv

\* The change a node processes next.
LEMMA CurrentEntry ==
  ASSUME IInv, NEW n \in Nodes, ~Busy(n)
  PROVE  /\ Current(n) \in Entry /\ Current(n) = conf[done[n] + 1]
         /\ done[n] \in 0..(Len(conf) - 1) /\ done[n] + 1 \in 1..Len(conf)
         /\ up[n] /\ ~saving[n]
<1>1. conf \in Seq(Entry) /\ Len(conf) \in Nat /\ done[n] \in 0..Len(conf) /\ done[n] # Len(conf)
  BY Types DEF IInv, Busy
<1>2. done[n] + 1 \in 1..Len(conf) /\ done[n] \in 0..(Len(conf) - 1)
  BY <1>1
<1>3. conf[done[n] + 1] \in Entry
  BY <1>1, <1>2
<1> QED
  BY <1>2, <1>3 DEF Busy, Current

\* processConfChange, whatever it does about peers: only the entry's own ID is
\* concerned, and a removal is proposed of a replaced ID only.
LEMMA AppliedStep ==
  ASSUME IInv, NEW n \in Nodes, NEW e \in Entry, e = Current(n), ~Busy(n), Applied(n),
         removals' \subseteq [by : Nodes, id : ID],
         table' \in [Nodes -> [ID -> Address \cup {NoAddr}]],
         \A m \in Nodes \ {n} : table'[m] = table[m],
         \A i \in ID \ {e.id} : table'[n][i] = table[n][i],
         \/ table'[n][e.id] = table[n][e.id] \/ table'[n][e.id] = NoAddr
         \/ e.op = "add" /\ table'[n][e.id] = e.addr,
         restarts = 0 => \A r \in removals' : Replaced(conf, r.id, Len(conf))
  PROVE  IInv'
<1>1. /\ UNCHANGED <<conf, leader, up, first, advanced, row, restarts, failures, boot, base>>
      /\ mem' = [mem EXCEPT ![n] = Changed(n, e)]
      /\ saving' = [saving EXCEPT ![n] = TRUE] /\ done' = [done EXCEPT ![n] = done[n] + 1]
  BY DEF Applied, begun
<1>2. /\ done[n] \in 0..(Len(conf) - 1) /\ done[n] + 1 \in 1..Len(conf) /\ e = conf[done[n] + 1]
      /\ up[n] /\ ~saving[n] /\ conf \in Seq(Entry) /\ Len(conf) \in Nat /\ mem[n] \in SUBSET ID
      /\ e.id \in ID
  BY CurrentEntry, Types DEF IInv, Entry
<1>3. Changed(n, e) = IF e.op = "add" THEN mem[n] \cup {e.id} ELSE mem[n] \ {e.id}
  BY DEF Changed
<1>4. mem'[n] = Changed(n, e) /\ saving'[n] = TRUE /\ done'[n] = done[n] + 1
  BY <1>1 DEF IInv, TypeOK
<1>5. \A m \in Nodes \ {n} : mem'[m] = mem[m] /\ saving'[m] = saving[m] /\ done'[m] = done[m]
  BY <1>1 DEF IInv, TypeOK
<1>6. TypeOK'
  <2>1. mem' \in [Nodes -> SUBSET ID]
    BY <1>1, <1>2, <1>3 DEF IInv, TypeOK
  <2>2. done' \in [Nodes -> 0..Len(conf)]
    BY <1>1, <1>2 DEF IInv, TypeOK
  <2>3. saving' \in [Nodes -> BOOLEAN]
    BY <1>1 DEF IInv, TypeOK
  <2> QED
    BY <1>1, <2>1, <2>2, <2>3 DEF IInv, TypeOK
<1>7. LoopInv'
  <2>1. \A m \in Nodes : up[m] => first[m] - 1 <= advanced[m] /\ advanced[m] <= done'[m]
    <3> SUFFICES ASSUME NEW m \in Nodes, up[m]
                 PROVE  first[m] - 1 <= advanced[m] /\ advanced[m] <= done'[m]
      OBVIOUS
    <3>1. /\ first[m] - 1 <= advanced[m] /\ advanced[m] <= done[m]
          /\ done[m] \in Nat /\ advanced[m] \in Nat
      BY Types DEF IInv, LoopInv
    <3>2. done'[m] \in {done[m], done[m] + 1}
      BY <1>4, <1>5
    <3> QED
      BY <3>1, <3>2
  <2>2. \A m \in Nodes : saving'[m] => up[m]
    BY <1>2, <1>5 DEF IInv, LoopInv
  <2> QED
    BY <1>1, <2>1, <2>2 DEF IInv, LoopInv
<1>8. ConfInv'
  <2> SUFFICES ASSUME failures = 0, NEW m \in Nodes
               PROVE  /\ Knows(conf, boot[m], base[m], row[m], Stored(m))
                      /\ up[m] => Knows(conf, boot[m], base[m], mem'[m], done'[m])
                      /\ up[m] /\ ~saving'[m] => row[m] = mem'[m]
    BY <1>1 DEF ConfInv, Stored
  <2>1. CASE m = n
    <3>1. /\ Knows(conf, boot[n], base[n], mem[n], done[n])
          /\ Knows(conf, boot[n], base[n], row[n], Stored(n))
      BY <1>2 DEF IInv, ConfInv
    <3>2. base[n] \in Nat /\ done[n] \in base[n]..(Len(conf) - 1)
      BY <1>2, Types DEF IInv, LoopInv
    <3>3. Knows(conf, boot[n], base[n], Changed(n, e), done[n] + 1)
      BY <1>2, <1>3, <3>1, <3>2, KnowsNext
    <3> QED
      BY <1>4, <2>1, <3>1, <3>3
  <2>2. CASE m # n
    BY <1>5, <2>2 DEF IInv, ConfInv
  <2> QED
    BY <2>1, <2>2
<1>9. LifeInv'
  <2> SUFFICES ASSUME restarts = 0 PROVE LifeInv'
    BY <1>1 DEF LifeInv
  <2>1. \A m \in Nodes : up[m] \/ done'[m] = 0
    BY <1>2, <1>5 DEF IInv, LifeInv
  <2>2. ASSUME NEW m \in Nodes, NEW x \in ID, table'[m][x] # NoAddr
        PROVE  \E k \in 1..done'[m] : Adds(conf, k, x, table'[m][x])
    <3>1. CASE m # n
      BY <1>5, <2>2, <3>1 DEF IInv, LifeInv
    <3>2. CASE m = n /\ table'[m][x] = table[m][x]
      <4>1. PICK k \in 1..done[n] : Adds(conf, k, x, table[n][x])
        BY <2>2, <3>2 DEF IInv, LifeInv
      <4>2. k \in 1..(done[n] + 1)
        BY <1>2
      <4> QED
        BY <1>4, <3>2, <4>1, <4>2
    <3>3. CASE m = n /\ table'[m][x] # table[m][x]
      <4>1. x = e.id /\ e.op = "add" /\ table'[n][x] = e.addr
        BY <2>2, <3>3
      <4>2. done[n] + 1 \in 1..(done[n] + 1)
        BY <1>2
      <4> QED
        BY <1>2, <1>4, <3>3, <4>1, <4>2 DEF Adds
    <3> QED
      BY <3>1, <3>2, <3>3
  <2> QED
    BY <1>1, <2>1, <2>2 DEF IInv, LifeInv
<1> QED
  BY <1>6, <1>7, <1>8, <1>9 DEF IInv

LEMMA ProcessOwnStep ==
  ASSUME IInv, NEW n \in Nodes, ProcessOwn(n)
  PROVE  IInv'
<1>1. PICK e \in Entry : e = Current(n)
  BY CurrentEntry DEF ProcessOwn
<1>2. ~Busy(n) /\ Applied(n) /\ e.id = n /\ UNCHANGED <<removals, table>>
  BY <1>1 DEF ProcessOwn
<1>3. restarts = 0 => \A r \in removals' : Replaced(conf, r.id, Len(conf))
  BY <1>2 DEF IInv, LifeInv
<1>4. /\ removals' \subseteq [by : Nodes, id : ID]
      /\ table' \in [Nodes -> [ID -> Address \cup {NoAddr}]]
  BY <1>2 DEF IInv, TypeOK
<1> QED
  BY <1>1, <1>2, <1>3, <1>4, AppliedStep

LEMMA ProcessRemoveStep ==
  ASSUME IInv, NEW n \in Nodes, ProcessRemove(n)
  PROVE  IInv'
<1>1. PICK e \in Entry : e = Current(n)
  BY CurrentEntry DEF ProcessRemove
<1>2. /\ ~Busy(n) /\ Applied(n) /\ e.op = "remove" /\ removals' = removals /\ e.id \in ID
      /\ table' = [table EXCEPT ![n][e.id] = NoAddr]
  BY <1>1 DEF ProcessRemove, RemovePeer, Entry
<1>3. restarts = 0 => \A r \in removals' : Replaced(conf, r.id, Len(conf))
  BY <1>2 DEF IInv, LifeInv
<1>4. /\ removals' \subseteq [by : Nodes, id : ID]
      /\ table' \in [Nodes -> [ID -> Address \cup {NoAddr}]]
  BY <1>2 DEF IInv, TypeOK
<1>5. /\ \A m \in Nodes \ {n} : table'[m] = table[m]
      /\ \A i \in ID \ {e.id} : table'[n][i] = table[n][i]
      /\ table'[n][e.id] = NoAddr
  BY <1>2 DEF IInv, TypeOK
<1> QED
  BY <1>1, <1>2, <1>3, <1>4, <1>5, AppliedStep

\* The ID backend.UpsertPeer finds at the address was added there by an earlier
\* change.
LEMMA ProcessAddStep ==
  ASSUME IInv, NEW n \in Nodes, ProcessAdd(n)
  PROVE  IInv'
<1>1. PICK e \in Entry : e = Current(n)
  BY CurrentEntry DEF ProcessAdd
<1>2. /\ ~Busy(n) /\ Applied(n) /\ e.op = "add" /\ e.id \in ID /\ e.addr \in Address \cup {NoAddr}
      /\ table' = [table EXCEPT ![n][e.id] = e.addr]
  BY <1>1 DEF ProcessAdd, UpsertPeer, Entry
<1>3. \A r \in removals' :
        \/ r \in removals
        \/ \E prev \in StoredAt(n, e.addr) : prev # e.id /\ r = [by |-> n, id |-> prev]
  BY <1>1 DEF ProcessAdd
<1>4. /\ done[n] \in 0..(Len(conf) - 1) /\ done[n] + 1 \in 1..Len(conf) /\ e = conf[done[n] + 1]
      /\ Len(conf) \in Nat
  BY <1>1, <1>2, CurrentEntry, Types DEF IInv
<1>5. e.addr # NoAddr
  BY <1>2, <1>4 DEF IInv, LoopInv
<1>6. ASSUME restarts = 0, NEW r \in removals'
      PROVE  Replaced(conf, r.id, Len(conf))
  <2>1. CASE r \in removals
    BY <1>6, <2>1 DEF IInv, LifeInv
  <2>2. ASSUME NEW prev \in StoredAt(n, e.addr), prev # e.id, r = [by |-> n, id |-> prev]
        PROVE  Replaced(conf, r.id, Len(conf))
    <3>1. prev \in ID /\ table[n][prev] = e.addr /\ r.id = prev
      BY <2>2 DEF StoredAt
    <3>2. PICK k \in 1..done[n] : Adds(conf, k, prev, e.addr)
      BY <1>5, <1>6, <3>1 DEF IInv, LifeInv
    <3>3. k \in 1..Len(conf) /\ k < done[n] + 1
      BY <1>4
    <3> QED
      BY <1>2, <1>4, <2>2, <3>1, <3>2, <3>3 DEF Replaced, Adds
  <2> QED
    BY <1>3, <2>1, <2>2
<1>7. removals' \subseteq [by : Nodes, id : ID]
  BY <1>3 DEF IInv, TypeOK, StoredAt
<1>8. /\ table' \in [Nodes -> [ID -> Address \cup {NoAddr}]]
      /\ table'[n][e.id] = e.addr
      /\ \A m \in Nodes \ {n} : table'[m] = table[m]
      /\ \A i \in ID \ {e.id} : table'[n][i] = table[n][i]
  BY <1>2 DEF IInv, TypeOK
<1> QED
  BY <1>1, <1>2, <1>6, <1>7, <1>8, AppliedStep

\* The loop goes on when an upsert fails.
LEMMA ProcessFailsStep ==
  ASSUME IInv, NEW n \in Nodes, ProcessFails(n)
  PROVE  IInv'
<1>1. /\ UNCHANGED <<conf, leader, removals, up, first, advanced, saving, mem, row, table,
                     restarts, boot, base>>
      /\ ~Busy(n) /\ failures < MaxFailures /\ failures' = failures + 1
      /\ done' = [done EXCEPT ![n] = done[n] + 1]
  BY DEF ProcessFails, raftVars, begun
<1>2. /\ done[n] \in 0..(Len(conf) - 1) /\ done[n] + 1 \in 1..Len(conf)
      /\ Len(conf) \in Nat /\ up[n]
  BY <1>1, CurrentEntry, Types DEF IInv
<1>3. /\ done'[n] = done[n] + 1 /\ \A m \in Nodes \ {n} : done'[m] = done[m]
  BY <1>1 DEF IInv, TypeOK
<1>4. TypeOK'
  <2>1. failures' \in 0..MaxFailures
    BY <1>1, ConstantsAssumption DEF IInv, TypeOK
  <2>2. done' \in [Nodes -> 0..Len(conf)]
    BY <1>1, <1>2 DEF IInv, TypeOK
  <2> QED
    BY <1>1, <2>1, <2>2 DEF IInv, TypeOK
<1>5. LoopInv'
  <2>1. \A m \in Nodes : up[m] => first[m] - 1 <= advanced[m] /\ advanced[m] <= done'[m]
    <3> SUFFICES ASSUME NEW m \in Nodes, up[m]
                 PROVE  first[m] - 1 <= advanced[m] /\ advanced[m] <= done'[m]
      OBVIOUS
    <3>1. /\ first[m] - 1 <= advanced[m] /\ advanced[m] <= done[m]
          /\ done[m] \in Nat /\ advanced[m] \in Nat
      BY Types DEF IInv, LoopInv
    <3>2. done'[m] \in {done[m], done[m] + 1}
      BY <1>3
    <3> QED
      BY <3>1, <3>2
  <2> QED
    BY <1>1, <2>1 DEF IInv, LoopInv
<1>6. failures' # 0
  BY <1>1 DEF IInv, TypeOK
<1>7. LifeInv'
  <2> SUFFICES ASSUME restarts = 0 PROVE LifeInv'
    BY <1>1 DEF LifeInv
  <2>1. \A m \in Nodes : up[m] \/ done'[m] = 0
    BY <1>2, <1>3 DEF IInv, LifeInv
  <2>2. ASSUME NEW m \in Nodes, NEW x \in ID, table[m][x] # NoAddr
        PROVE  \E k \in 1..done'[m] : Adds(conf, k, x, table[m][x])
    <3>1. PICK k \in 1..done[m] : Adds(conf, k, x, table[m][x])
      BY <2>2 DEF IInv, LifeInv
    <3>2. k \in 1..done'[m]
      BY <1>2, <1>3, Types DEF IInv
    <3> QED
      BY <3>1, <3>2
  <2> QED
    BY <1>1, <2>1, <2>2 DEF IInv, LifeInv
<1> QED
  BY <1>4, <1>5, <1>6, <1>7 DEF IInv, ConfInv

-----------------------------------------------------------------------------
(* Proposals.                                                              *)

\* The leader appends the change or drops it; no other variable but removals
\* is touched.
LEMMA ProposalStep ==
  ASSUME IInv, NEW e \in Entry, LeaderAppends(e), Len(conf) < MaxConf,
         UNCHANGED <<leader, up, first, done, advanced, saving, mem, row, table,
                     restarts, failures, boot, base>>,
         removals' \subseteq removals,
         e.op = "add" => e.addr # NoAddr,
         e.op = "remove" /\ restarts = 0 => Replaced(conf, e.id, Len(conf))
  PROVE  IInv'
<1>1. leader # NoNode /\ (conf' = conf \/ conf' = Append(conf, e))
  BY DEF LeaderAppends
<1>2. conf \in Seq(Entry) /\ Len(conf) \in Nat
  BY Types DEF IInv
<1>3. PICK d : d = Append(conf, e)
  OBVIOUS
<1>4. /\ d \in Seq(Entry) /\ Len(d) = Len(conf) + 1 /\ d[Len(conf) + 1] = e
      /\ \A k \in 1..Len(conf) : d[k] = conf[k]
      /\ \A x, a : \A k \in 1..Len(conf) : Adds(d, k, x, a) <=> Adds(conf, k, x, a)
  BY <1>2, <1>3, AppendKeeps
<1>5. CASE conf' = conf
  <2>1. TypeOK' /\ LoopInv'
    BY <1>5 DEF IInv, TypeOK, LoopInv
  <2>2. ConfInv'
    BY <1>5 DEF IInv, ConfInv, Stored
  <2>3. LifeInv'
    BY <1>5 DEF IInv, LifeInv
  <2> QED
    BY <2>1, <2>2, <2>3 DEF IInv
<1>6. CASE conf' = d
  <2>1. TypeOK'
    <3>1. Len(d) <= MaxConf
      BY <1>2, <1>4, ConstantsAssumption
    <3>2. first \in [Nodes -> 1..(Len(d) + 1)]
      BY <1>2, <1>4 DEF IInv, TypeOK
    <3>3. /\ done \in [Nodes -> 0..Len(d)] /\ advanced \in [Nodes -> 0..Len(d)]
          /\ base \in [Nodes -> 0..Len(d)]
      BY <1>2, <1>4 DEF IInv, TypeOK
    <3> QED
      BY <1>4, <1>6, <3>1, <3>2, <3>3 DEF IInv, TypeOK
  <2>2. \A k \in 1..Len(d) : k \in 1..Len(conf) \/ k = Len(conf) + 1
    BY <1>2, <1>4
  <2>3. LoopInv'
    <3>1. \A k \in 1..Len(d) : d[k].op = "add" => d[k].addr # NoAddr
      BY <1>4, <2>2 DEF IInv, LoopInv
    <3> QED
      BY <1>6, <3>1 DEF IInv, LoopInv
  <2>4. ConfInv'
    <3> SUFFICES ASSUME failures = 0, NEW m \in Nodes
                 PROVE  /\ Knows(d, boot[m], base[m], row[m], Stored(m))
                        /\ up[m] => Knows(d, boot[m], base[m], mem[m], done[m])
                        /\ up[m] /\ ~saving[m] => row[m] = mem[m]
      BY <1>6 DEF ConfInv, Stored
    <3>1. Stored(m) \in 0..Len(conf) /\ done[m] \in 0..Len(conf) /\ base[m] \in Nat
      BY Types DEF IInv, Stored
    <3>2. /\ Knows(conf, boot[m], base[m], row[m], Stored(m))
          /\ up[m] => Knows(conf, boot[m], base[m], mem[m], done[m])
          /\ up[m] /\ ~saving[m] => row[m] = mem[m]
      BY DEF IInv, ConfInv
    <3>3. Knows(d, boot[m], base[m], row[m], Stored(m))
      BY <1>2, <1>3, <3>1, <3>2, KnowsLonger
    <3>4. up[m] => Knows(d, boot[m], base[m], mem[m], done[m])
      BY <1>2, <1>3, <3>1, <3>2, KnowsLonger
    <3> QED
      BY <3>2, <3>3, <3>4
  <2>5. LifeInv'
    <3> SUFFICES ASSUME restarts = 0 PROVE LifeInv'
      BY DEF LifeInv
    <3>1. \A m \in Nodes : up[m] \/ done[m] = 0
      BY DEF IInv, LifeInv
    <3>2. ASSUME NEW m \in Nodes, NEW x \in ID, table[m][x] # NoAddr
          PROVE  \E k \in 1..done[m] : Adds(d, k, x, table[m][x])
      <4>1. PICK k \in 1..done[m] : Adds(conf, k, x, table[m][x])
        BY <3>2 DEF IInv, LifeInv
      <4>2. k \in 1..Len(conf)
        BY Types DEF IInv
      <4> QED
        BY <1>4, <4>1, <4>2
    <3>3. \A r \in removals : Replaced(d, r.id, Len(d))
      <4>1. Len(conf) \in 0..Len(conf) /\ Len(d) \in Len(conf)..(Len(conf) + 1)
        BY <1>2, <1>4
      <4> QED
        BY <1>2, <1>3, <4>1, ReplacedKept DEF IInv, LifeInv
    <3>4. ASSUME NEW k \in 1..Len(d), d[k].op = "remove"
          PROVE  Replaced(d, d[k].id, k - 1)
      <4>1. k - 1 \in 0..Len(conf) /\ k - 1 \in (k - 1)..(Len(conf) + 1)
        BY <1>2, <1>4
      <4>2. Replaced(conf, d[k].id, k - 1)
        BY <1>2, <1>4, <2>2, <3>4 DEF IInv, LifeInv
      <4> QED
        BY <1>2, <1>3, <4>1, <4>2, ReplacedKept
    <3> QED
      BY <1>6, <3>1, <3>2, <3>3, <3>4 DEF LifeInv
  <2> QED
    BY <2>1, <2>3, <2>4, <2>5 DEF IInv
<1> QED
  BY <1>1, <1>3, <1>5, <1>6

LEMMA AddNodeStep ==
  ASSUME IInv, NEW i \in ID, NEW addr \in Address, AddNode(i, addr)
  PROVE  IInv'
<1>1. PICK e : e = [op |-> "add", id |-> i, addr |-> addr]
  OBVIOUS
<1>2. /\ Len(conf) < MaxConf /\ LeaderAppends(e) /\ removals' = removals
      /\ UNCHANGED <<leader, up, first, done, advanced, saving, mem, row, table,
                     restarts, failures, boot, base>>
  BY <1>1 DEF AddNode, loopVars, begun
<1>3. e \in Entry /\ e.op = "add" /\ e.id = i /\ e.addr = addr
  BY <1>1 DEF Entry
<1>4. addr # NoAddr
  BY ConstantsAssumption DEF NoAddr
<1> QED
  BY <1>2, <1>3, <1>4, ProposalStep

LEMMA RemoveNodeStep ==
  ASSUME IInv, NEW r \in removals, RemoveNode(r)
  PROVE  IInv'
<1>1. PICK e : e = [op |-> "remove", id |-> r.id, addr |-> NoAddr]
  OBVIOUS
<1>2. /\ Len(conf) < MaxConf /\ LeaderAppends(e) /\ removals' \subseteq removals
      /\ UNCHANGED <<leader, up, first, done, advanced, saving, mem, row, table,
                     restarts, failures, boot, base>>
  BY <1>1 DEF RemoveNode, loopVars, begun
<1>3. r.id \in ID
  BY DEF IInv, TypeOK
<1>4. e \in Entry /\ e.op = "remove" /\ e.id = r.id
  BY <1>1, <1>3 DEF Entry
<1>5. restarts = 0 => Replaced(conf, e.id, Len(conf))
  BY <1>4 DEF IInv, LifeInv
<1> QED
  BY <1>2, <1>4, <1>5, ProposalStep

-----------------------------------------------------------------------------
(* Theorems.                                                               *)

\* IInv holds in every reachable state.
THEOREM InductiveInvariant == Spec => []IInv
<1>1. Init => IInv
  <2> SUFFICES ASSUME Init PROVE IInv
    OBVIOUS
  <2>1. conf = << >> /\ Len(conf) = 0 /\ conf \in Seq(Entry)
    BY DEF Init
  <2>2. \A n \in Nodes : /\ first[n] = 1 /\ done[n] = 0 /\ advanced[n] = 0
                         /\ up[n] = FALSE /\ saving[n] = FALSE /\ row[n] = {}
                         /\ boot[n] = {} /\ base[n] = 0
                         /\ \A i \in ID : table[n][i] = NoAddr
    BY DEF Init
  <2>3. TypeOK
    <3>1. first \in [Nodes -> 1..(Len(conf) + 1)]
      BY <2>1 DEF Init
    <3>2. done \in [Nodes -> 0..Len(conf)] /\ advanced \in [Nodes -> 0..Len(conf)]
      BY <2>1 DEF Init
    <3>3. up \in [Nodes -> BOOLEAN] /\ saving \in [Nodes -> BOOLEAN]
      BY DEF Init
    <3>4. mem \in [Nodes -> SUBSET ID] /\ row \in [Nodes -> SUBSET ID]
      BY <2>1 DEF Init
    <3>5. /\ table \in [Nodes -> [ID -> Address \cup {NoAddr}]]
          /\ boot \in [Nodes -> SUBSET ID] /\ base \in [Nodes -> 0..Len(conf)]
      BY <2>1 DEF Init
    <3> QED
      BY <2>1, <3>1, <3>2, <3>3, <3>4, <3>5, ConstantsAssumption DEF Init, TypeOK
  <2>4. LoopInv
    BY <2>1, <2>2 DEF Init, LoopInv
  <2>5. 0 \in 0..Len(conf)
    BY <2>1
  <2>6. ConfInv
    <3>1. \A n \in Nodes : Stored(n) = 0
      BY <2>2 DEF Stored
    <3>2. Knows(conf, {}, 0, {}, 0)
      BY <2>1, <2>5, KnowsItself
    <3> QED
      BY <2>2, <3>1, <3>2 DEF ConfInv
  <2>7. LifeInv
    BY <2>1, <2>2 DEF Init, LifeInv
  <2> QED
    BY <2>3, <2>4, <2>6, <2>7 DEF IInv
<1>2. IInv /\ [Next]_vars => IInv'
  <2> SUFFICES ASSUME IInv, [Next]_vars PROVE IInv'
    OBVIOUS
  <2>1. ASSUME NEW n \in Nodes, NEW R \in SUBSET ID, Start(n, R) PROVE IInv'
    BY <2>1, StartStep
  <2>2. ASSUME NEW n \in Nodes, Crash(n) PROVE IInv'
    BY <2>2, CrashStep
  <2>3. ASSUME NEW n \in Nodes, Elect(n) PROVE IInv'
    BY <2>3, ElectStep
  <2>4. ASSUME NEW n \in Nodes, LoopStep(n) PROVE IInv'
    BY <2>4, ProcessOwnStep, ProcessRemoveStep, ProcessAddStep, SaveConfStateStep, AdvanceStep
       DEF LoopStep
  <2>5. ASSUME NEW n \in Nodes, RetireOld(n) PROVE IInv'
    BY <2>5, RetireOldStep
  <2>6. ASSUME NEW n \in Nodes, ProcessFails(n) PROVE IInv'
    BY <2>6, ProcessFailsStep
  <2>7. ASSUME NEW n \in Nodes, SaveConfStateFails(n) PROVE IInv'
    BY <2>7, SaveConfStateFailsStep
  <2>8. ASSUME NEW i \in ID, NEW addr \in Address, AddNode(i, addr) PROVE IInv'
    BY <2>8, AddNodeStep
  <2>9. ASSUME NEW r \in removals, RemoveNode(r) PROVE IInv'
    BY <2>9, RemoveNodeStep
  <2>10. CASE UNCHANGED vars
    BY <2>10, Stutter
  <2> QED
    BY <2>1, <2>2, <2>3, <2>4, <2>5, <2>6, <2>7, <2>8, <2>9, <2>10 DEF Next
<1> QED
  BY <1>1, <1>2, PTL DEF Spec

\* TypeOK: every variable of the membership model keeps its type.
THEOREM TypeCorrect == Spec => []TypeOK
<1>1. IInv => TypeOK
  BY DEF IInv
<1> QED
  BY <1>1, InductiveInvariant, PTL

\* ConfFollowsLog: a node whose loop has processed every committed change
\* counts majorities over the members it was started with as all later changes
\* leave them, and has stored them, in whatever order it crashed, retired
\* entries and was handed changes again.
THEOREM CountsWhatLogSays == Spec => []ConfFollowsLog
<1>1. IInv => ConfFollowsLog
  <2> SUFFICES ASSUME IInv, failures = 0, NEW n \in Nodes, CaughtUp(n)
               PROVE  mem[n] = Members(boot[n], base[n]) /\ row[n] = mem[n]
    BY DEF ConfFollowsLog
  <2>1. /\ up[n] /\ ~saving[n] /\ done[n] = Len(conf) /\ Len(conf) \in Nat
        /\ mem[n] \in SUBSET ID /\ base[n] \in Nat
    BY Types DEF IInv, CaughtUp
  <2>2. Knows(conf, boot[n], base[n], mem[n], Len(conf)) /\ row[n] = mem[n]
    BY <2>1 DEF IInv, ConfInv
  <2>3. \A i \in ID : i \in mem[n] <=> i \in Members(boot[n], base[n])
    BY <2>1, <2>2, MembersAre DEF IInv, Knows
  <2>4. Members(boot[n], base[n]) \in SUBSET ID
    BY DEF Members
  <2> QED
    BY <2>1, <2>2, <2>3, <2>4
<1> QED
  BY <1>1, InductiveInvariant, PTL

\* OneLifeRemovesReplaced: nodes that process each change once, at different
\* paces and with failing statements, have no ID removed but one whose address
\* another ID took over.
THEOREM RemovesReplacedOnly == Spec => []OneLifeRemovesReplaced
<1>1. IInv => OneLifeRemovesReplaced
  <2> SUFFICES ASSUME IInv, restarts = 0, NEW k \in DOMAIN conf, conf[k].op = "remove"
               PROVE  \E i, j \in 1..(k - 1) :
                        /\ i < j /\ conf[i].op = "add" /\ conf[i].id = conf[k].id
                        /\ conf[j].op = "add" /\ conf[j].addr = conf[i].addr
                        /\ conf[j].id # conf[i].id
    BY DEF OneLifeRemovesReplaced, OnlyReplacedRemoved
  <2>1. Replaced(conf, conf[k].id, k - 1)
    BY Types DEF IInv, LifeInv
  <2> QED
    BY <2>1 DEF Replaced
<1> QED
  BY <1>1, InductiveInvariant, PTL

=============================================================================
