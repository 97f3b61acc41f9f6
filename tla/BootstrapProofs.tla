-------------------------- MODULE BootstrapProofs --------------------------
(***************************************************************************)
(* Proofs about Bootstrap, for every number of pods, IDs, crashes and lost *)
(* disks: when an ID may run on two disks, and when a node that runs may   *)
(* be no member.  The only assumption is that the constants are numbers.   *)
(***************************************************************************)
EXTENDS Bootstrap, FiniteSetTheorems, WellFoundedInduction, TLAPS

-----------------------------------------------------------------------------
(* The inductive invariant.                                                *)

\* What a pod works with, at each stage.
StageInv ==
  \A p \in Pod :
    /\ wiped[p] <= faults
    /\ stage[p] = "down" => cand[p] = 0 /\ contact[p] = None
    /\ stage[p] = "found" => file[p] = 0 /\ cand[p] # 0
    /\ stage[p] \in {"starting", "up"} => file[p] # 0 /\ cand[p] = file[p] /\ contact[p] = None

\* Before there is a cluster nobody runs and nobody has found an ID but 1.
FirstInv ==
  members = {} =>
    /\ pending = {} /\ \A i \in ID : used[i] = {}
    /\ \A p \in Pod : stage[p] # "up" /\ file[p] \in {0, 1} /\ cand[p] \in {0, 1}

\* The leader runs.
LeaderInv == leader # None => stage[leader] = "up"

\* A pod has the ID for itself: written, or reported and about to be.
Has(p, i) == file[p] = i \/ (stage[p] = "found" /\ contact[p] = None /\ cand[p] = i)

\* A pod may come to run under the ID: it has it, or has found it.
Holds(p, i) == file[p] = i \/ (stage[p] = "found" /\ cand[p] = i)

Given(i) == used[i] # {} \/ \E p \in Pod : Has(p, i)

\* Node 1 founds the cluster; every other ID was proposed by its pod.
ProposedInv ==
  \A i \in ID \ {1} : Given(i) => \E p \in Pod : <<i, p>> \in proposed

\* An ID that was given out is not beyond every member, unless it is doubted or
\* its addition is under way: the leader will not find it again.
HighInv ==
  members # {} =>
    \A i \in ID \ (doubted \cup pending) : Given(i) => \E m \in members : i <= m

\* An ID not doubted runs on one disk, and no other can come to run it.
OnceInv ==
  \A i \in ID \ doubted :
    /\ \A d, e \in used[i] : d = e
    /\ \A p \in Pod : Holds(p, i) => used[i] \subseteq {<<p, wiped[p]>>}
    /\ \A p, q \in Pod : Holds(p, i) /\ Holds(q, i) => p = q

\* What a pod has for itself is a member's ID, or one that is under way or gone.
MemberInv ==
  members # {} =>
    /\ 1 \in members \cup gone
    /\ \A p \in Pod, i \in ID : Has(p, i) => i \in members \cup pending \cup gone

IInv ==
  /\ TypeOK /\ StageInv /\ FirstInv /\ LeaderInv
  /\ ProposedInv /\ HighInv /\ OnceInv /\ MemberInv

-----------------------------------------------------------------------------
(* Facts about the operators.                                              *)

USE ConstantsAssumption

\* Min and Max of sets of numbers.
LEMMA LeastExists ==
  ASSUME NEW S \in SUBSET Nat, S # {}
  PROVE  \E x \in S : \A y \in S : x <= y
<1>1. IsWellFoundedOn(OpToRel(<, Nat), Nat)
  BY NatLessThanWellFounded
<1>2. PICK x \in S : \A y \in S : ~(<<y, x>> \in OpToRel(<, Nat))
  BY <1>1, WFMin, Zenon
<1>3. \A y \in Nat : <<y, x>> \notin OpToRel(<, Nat) => x <= y
  BY DEF OpToRel
<1> QED
  BY <1>2, <1>3

LEMMA MinInSet ==
  ASSUME NEW S \in SUBSET Nat, S # {}
  PROVE  Min(S) \in S
BY LeastExists DEF Min

LEMMA MaxOfIDs ==
  ASSUME NEW S \in SUBSET (0..MaxID), S # {}
  PROVE  Max(S) \in S /\ \A y \in S : y <= Max(S)
<1> DEFINE T == {k \in 0..MaxID : MaxID - k \in S}
<1>1. PICK w \in S : TRUE
  OBVIOUS
<1>2. MaxID - w \in T
  OBVIOUS
<1>3. T \in SUBSET Nat /\ T # {}
  <2>1. \A k \in 0..MaxID : k \in Nat
    OBVIOUS
  <2> QED
    BY <1>2, <2>1
<1>4. PICK m \in T : \A y \in T : m <= y
  BY <1>3, LeastExists
<1>6. MaxID - m \in S /\ \A y \in S : MaxID - m >= y
  BY <1>4
<1> QED
  BY <1>6 DEF Max

\* The pods are numbered from 0; None is no pod.
LEMMA Pods == 0 \in Pod /\ None \notin Pod /\ Pod \subseteq Nat /\ 1 \in ID /\ ID = (0..MaxID) \ {0}
BY DEF Pod, None, ID

\* HighestID answers with an ID or 0, the leader that has applied every change
\* with one no member exceeds; before there is a cluster all answer 0.
LEMMA Highest ==
  ASSUME IInv
  PROVE  /\ \A q \in Pod : HighestID(q) \in 0..MaxID
         /\ leader # None /\ unseen = {} => \A i \in members : i <= HighestID(leader)
         /\ members = {} => \A q \in Pod : HighestID(q) = 0
<1>1. \A q \in Pod : Max((members \ unseen) \cup {file[q]}) \in 0..MaxID
        /\ \A i \in members \ unseen : i <= Max((members \ unseen) \cup {file[q]})
  <2> TAKE q \in Pod
  <2> DEFINE S == (members \ unseen) \cup {file[q]}
  <2>1. S \in SUBSET (0..MaxID) /\ S # {}
    <3>1. members \subseteq 0..MaxID /\ file[q] \in 0..MaxID
      BY DEF IInv, TypeOK, ID
    <3> QED
      BY <3>1
  <2>2. Max(S) \in S /\ \A y \in S : y <= Max(S)
    BY <2>1, MaxOfIDs
  <2> QED
    BY <2>1, <2>2
<1>2. \A q \in Pod : file[q] \in 0..MaxID
  BY DEF IInv, TypeOK
<1>3. leader # None => leader \in Pod /\ stage[leader] = "up"
  BY DEF IInv, TypeOK, LeaderInv
<1>4. members = {} => \A q \in Pod : stage[q] # "up"
  BY DEF IInv, FirstInv
<1>5. \A q \in Pod : HighestID(q) \in 0..MaxID
  BY <1>1, <1>2 DEF HighestID
<1>6. leader # None /\ unseen = {} => \A i \in members : i <= HighestID(leader)
  BY <1>1, <1>3 DEF HighestID
<1>7. members = {} => \A q \in Pod : HighestID(q) = 0
  BY <1>4 DEF HighestID
<1> QED
  BY <1>5, <1>6, <1>7

-----------------------------------------------------------------------------
(* One lemma per action.                                                   *)

\* What findNewHighNodeID finds: a number that is 1 where there is no cluster
\* or nobody answers, and that is higher than every member's when it is sure.
LEMMA Found ==
  ASSUME IInv, NEW p \in Pod, NEW R \in SUBSET Pod, FindNewHighNodeID(p, R)
  PROVE  \E n \in ID, w \in Pod \cup {None} :
           /\ cand' = [cand EXCEPT ![p] = n] /\ contact' = [contact EXCEPT ![p] = w]
           /\ members = {} \/ w = None => n = 1
           /\ Sure(p, R) => \A m \in members : m < n
<1>1. contact[p] = None
  BY DEF FindNewHighNodeID, IInv, StageInv
<1>2. CASE R = {}
  <2>1. cand' = [cand EXCEPT ![p] = 1] /\ contact' = contact
    BY <1>2 DEF FindNewHighNodeID
  <2>2. contact' = [contact EXCEPT ![p] = None]
    BY <2>1, <1>1 DEF IInv, TypeOK
  <2>3. Sure(p, R) => \A m \in members : m < 1
    BY <1>2 DEF Sure
  <2> QED
    BY <2>1, <2>2, <2>3, Pods
<1>3. CASE R # {}
  <2> DEFINE H == {HighestID(q) : q \in R}
             h == Max(H)
             W == {q \in R : HighestID(q) = h}
  <2>2. H \in SUBSET (0..MaxID) /\ H # {} /\ (members = {} => H = {0})
    <3>1. H \in SUBSET (0..MaxID)
      BY Highest
    <3>2. members = {} => \A q \in R : HighestID(q) = 0
      BY Highest
    <3> QED
      BY <1>3, <3>1, <3>2
  <2>3. h \in H /\ \A y \in H : y <= h
    BY <2>2, MaxOfIDs
  <2>4. W \in SUBSET Nat /\ W # {}
    BY <2>3, Pods
  <2>5. Min(W) \in R
    BY <2>4, MinInSet
  <2>6. /\ h < MaxID /\ cand' = [cand EXCEPT ![p] = h + 1]
        /\ contact' = [contact EXCEPT ![p] = Min(W)]
    BY <1>3 DEF FindNewHighNodeID
  <2>7. Min(W) \in Pod /\ Min(W) # None
    BY <2>5, Pods
  <2>8. h \in 0..MaxID /\ (members = {} => h = 0)
    BY <2>2, <2>3
  <2>9. Sure(p, R) => \A m \in members : m < h + 1
    <3> SUFFICES ASSUME Sure(p, R), NEW m \in members PROVE m < h + 1
      OBVIOUS
    <3>1. leader \in R /\ unseen = {}
      BY DEF Sure
    <3>2. leader # None
      BY <3>1, Pods
    <3>3. HighestID(leader) \in H /\ m <= HighestID(leader)
      BY <3>1, <3>2, Highest
    <3>4. HighestID(leader) \in 0..MaxID /\ HighestID(leader) <= h /\ m \in 0..MaxID
      BY <2>2, <2>3, <3>3, Pods DEF IInv, TypeOK
    <3> HIDE DEF h
    <3> QED
      BY <2>8, <3>3, <3>4
  <2> HIDE DEF h, W, H
  <2>10. h + 1 \in ID /\ (members = {} => h + 1 = 1)
    BY <2>6, <2>8 DEF ID
  <2> QED
    BY <2>6, <2>7, <2>9, <2>10
<1> QED
  BY <1>2, <1>3

LEMMA FindNewHighNodeIDStep ==
  ASSUME IInv, NEW p \in Pod, NEW R \in SUBSET Pod, FindNewHighNodeID(p, R)
  PROVE  IInv'
<1>a. PICK n \in ID, w \in Pod \cup {None} :
        /\ cand' = [cand EXCEPT ![p] = n] /\ contact' = [contact EXCEPT ![p] = w]
        /\ members = {} \/ w = None => n = 1
        /\ Sure(p, R) => \A m \in members : m < n
  BY Found
<1>b. /\ stage' = [stage EXCEPT ![p] = "found"] /\ stage[p] = "down" /\ file[p] = 0
      /\ doubted' = IF Sure(p, R) THEN doubted ELSE doubted \cup {n}
      /\ UNCHANGED <<file, proposed, pending, members, unseen, leader, used, gone, wiped, faults>>
  BY <1>a DEF FindNewHighNodeID, raftVars, IInv, TypeOK
<1>c. cand' \in [Pod -> 0..MaxID] /\ contact' \in [Pod -> Pod \cup {None}]
      /\ stage' \in [Pod -> {"down", "found", "starting", "up"}]
  BY <1>a, <1>b, Pods DEF IInv, TypeOK
<1>d. \A q \in Pod : /\ q # p => cand'[q] = cand[q] /\ contact'[q] = contact[q] /\ stage'[q] = stage[q]
                     /\ cand'[p] = n /\ contact'[p] = w /\ stage'[p] = "found"
  BY <1>a, <1>b DEF IInv, TypeOK
<1>e. /\ \A q \in Pod, i \in ID : Has(q, i)' => Has(q, i) \/ (q = p /\ i = 1)
      /\ \A q \in Pod, i \in ID : Holds(q, i)' => Holds(q, i) \/ (q = p /\ i = n)
  BY <1>a, <1>b, <1>d DEF Has, Holds
<1>1. TypeOK'
  BY <1>b, <1>c DEF IInv, TypeOK
<1>2. StageInv'
  BY <1>b, <1>d, Pods DEF IInv, StageInv
<1>3. FirstInv'
  BY <1>a, <1>b, <1>d DEF IInv, FirstInv
<1>4. LeaderInv'
  BY <1>b, <1>d DEF IInv, TypeOK, LeaderInv
<1>5. ProposedInv'
  BY <1>b, <1>e DEF IInv, ProposedInv, Given
<1>6. HighInv'
  <2> SUFFICES ASSUME members # {}, NEW i \in ID, i \notin doubted', i \notin pending, Given(i)'
               PROVE  \E m \in members : i <= m
    BY <1>b DEF HighInv
  <2>1. i \notin doubted /\ (Given(i) \/ i = 1)
    BY <1>b, <1>e DEF Given
  <2>2. \A m \in members : 1 <= m
    BY DEF IInv, TypeOK, ID
  <2> QED
    BY <2>1, <2>2 DEF IInv, HighInv
<1>7. OnceInv'
  <2>1. CASE ~Sure(p, R)
    <3>1. \A i \in ID \ doubted' : i \notin doubted /\ i # n
      BY <1>b, <2>1
    <3> QED
      BY <1>b, <1>e, <3>1 DEF IInv, OnceInv
  <2>2. CASE Sure(p, R)
    <3>1. n \notin doubted => ~Given(n)
      <4>1. CASE members = {}
        BY <1>b, <2>2, <4>1, Pods DEF Sure, Given, Has, IInv, FirstInv
      <4>2. CASE members # {}
        <5>1. pending = {} /\ \A m \in members : ~(n <= m)
          BY <1>a, <2>2 DEF Sure, IInv, TypeOK, ID
        <5> QED
          BY <4>2, <5>1 DEF IInv, HighInv
      <4> QED
        BY <4>1, <4>2
    <3>2. n \notin doubted => used[n] = {} /\ \A q \in Pod : ~Holds(q, n)
      BY <1>b, <2>2, <3>1 DEF Sure, Given, Has, Holds
    <3> QED
      BY <1>b, <1>e, <2>2, <3>2 DEF IInv, OnceInv
  <2> QED
    BY <2>1, <2>2
<1>8. MemberInv'
  BY <1>b, <1>e DEF IInv, MemberInv
<1> QED
  BY <1>1, <1>2, <1>3, <1>4, <1>5, <1>6, <1>7, <1>8 DEF IInv

LEMMA ReportNewNodeStep ==
  ASSUME IInv, NEW p \in Pod, ReportNewNode(p)
  PROVE  IInv'
<1>a. /\ stage[p] = "found" /\ contact[p] # None /\ stage[contact[p]] = "up"
      /\ proposed' = proposed \cup {<<cand[p], p>>} /\ pending' = pending \cup {cand[p]}
      /\ contact' = [contact EXCEPT ![p] = None]
      /\ UNCHANGED <<file, stage, cand, members, unseen, leader>>
      /\ UNCHANGED <<used, doubted, gone, wiped, faults>>
  BY DEF ReportNewNode, history
<1>b. cand[p] \in ID /\ contact[p] \in Pod
  BY <1>a, Pods DEF IInv, TypeOK, StageInv
<1>c. \A q \in Pod, i \in ID : /\ Has(q, i)' => Has(q, i) \/ (q = p /\ i = cand[p])
                               /\ Holds(q, i)' = Holds(q, i)
  BY <1>a DEF IInv, TypeOK, Has, Holds
<1>d. \A i \in ID : Given(i)' => Given(i) \/ i = cand[p]
  BY <1>a, <1>c DEF Given
<1>1. TypeOK'
  BY <1>a, <1>b DEF IInv, TypeOK
<1>2. StageInv'
  BY <1>a DEF IInv, TypeOK, StageInv
<1>3. FirstInv'
  BY <1>a, <1>b DEF IInv, FirstInv
<1>4. LeaderInv'
  BY <1>a DEF IInv, LeaderInv
<1>5. ProposedInv'
  BY <1>a, <1>d DEF IInv, ProposedInv
<1>6. HighInv'
  BY <1>a, <1>d DEF IInv, HighInv
<1>7. OnceInv'
  BY <1>a, <1>c DEF IInv, OnceInv
<1>8. MemberInv'
  BY <1>a, <1>c DEF IInv, MemberInv
<1> QED
  BY <1>1, <1>2, <1>3, <1>4, <1>5, <1>6, <1>7, <1>8 DEF IInv

\* A process that goes down forgets what it found; its disk it keeps or loses.
LEMMA GoesDown ==
  ASSUME IInv, NEW p \in Pod,
         stage' = [stage EXCEPT ![p] = "down"],
         cand' = [cand EXCEPT ![p] = 0], contact' = [contact EXCEPT ![p] = None],
         leader' \in {leader, None}, leader # p \/ leader' = None,
         \/ UNCHANGED <<file, wiped>>
         \/ /\ file' = [file EXCEPT ![p] = 0] /\ wiped' = [wiped EXCEPT ![p] = @ + 1]
            /\ faults' = faults + 1,
         faults' \in {faults, faults + 1}, faults' <= MaxFaults,
         UNCHANGED <<proposed, pending, members, unseen, used, doubted, gone>>
  PROVE  IInv'
<1>b. /\ wiped' \in [Pod -> 0..MaxFaults] /\ faults' \in 0..MaxFaults
      /\ \A q \in Pod : wiped'[q] <= faults' /\ (q # p => wiped'[q] = wiped[q] /\ file'[q] = file[q])
      /\ file' \in [Pod -> 0..MaxID]
      /\ file'[p] = 0 \/ (file'[p] = file[p] /\ wiped'[p] = wiped[p])
  <2>1. faults \in 0..MaxFaults /\ wiped \in [Pod -> 0..MaxFaults] /\ file \in [Pod -> 0..MaxID]
        /\ \A q \in Pod : wiped[q] <= faults
    BY DEF IInv, TypeOK, StageInv
  <2>2. CASE UNCHANGED <<file, wiped>>
    BY <2>1, <2>2
  <2>3. CASE file' = [file EXCEPT ![p] = 0] /\ wiped' = [wiped EXCEPT ![p] = @ + 1]
             /\ faults' = faults + 1
    <3>1. wiped[p] + 1 \in 0..MaxFaults /\ wiped[p] + 1 <= faults'
      BY <2>1, <2>3
    <3>2. \A q \in Pod : wiped[q] <= faults'
      BY <2>1, <2>3
    <3> QED
      BY <2>1, <2>3, <3>1, <3>2
  <2> QED
    BY <2>2, <2>3
<1>c. \A q \in Pod : /\ q # p => stage'[q] = stage[q] /\ cand'[q] = cand[q] /\ contact'[q] = contact[q]
                     /\ stage'[p] = "down" /\ cand'[p] = 0 /\ contact'[p] = None
  BY DEF IInv, TypeOK
<1>d. \A q \in Pod, i \in ID : /\ Has(q, i)' => Has(q, i)
                               /\ Holds(q, i)' => Holds(q, i) /\ wiped'[q] = wiped[q]
  BY <1>b, <1>c, Pods DEF Has, Holds
<1>1. TypeOK'
  <2>1. /\ stage' \in [Pod -> {"down", "found", "starting", "up"}]
        /\ cand' \in [Pod -> 0..MaxID] /\ contact' \in [Pod -> Pod \cup {None}]
        /\ leader' \in Pod \cup {None}
    BY DEF IInv, TypeOK
  <2> QED
    BY <1>b, <2>1 DEF IInv, TypeOK
<1>2. StageInv'
  BY <1>b, <1>c DEF IInv, StageInv
<1>3. FirstInv'
  BY <1>b, <1>c DEF IInv, FirstInv
<1>4. LeaderInv'
  BY <1>c DEF IInv, TypeOK, LeaderInv
<1>5. ProposedInv'
  BY <1>d DEF IInv, ProposedInv, Given
<1>6. HighInv'
  BY <1>d DEF IInv, HighInv, Given
<1>7. OnceInv'
  BY <1>d DEF IInv, OnceInv
<1>8. MemberInv'
  BY <1>d DEF IInv, MemberInv
<1> QED
  BY <1>1, <1>2, <1>3, <1>4, <1>5, <1>6, <1>7, <1>8 DEF IInv

LEMMA ReportFailsStep ==
  ASSUME IInv, NEW p \in Pod, ReportFails(p)
  PROVE  IInv'
<1>1. leader # p
  BY Pods DEF IInv, LeaderInv, ReportFails
<1>2. faults \in Nat /\ faults <= MaxFaults
  BY DEF IInv, TypeOK
<1> QED
  BY <1>1, <1>2, GoesDown DEF ReportFails, raftVars, history

LEMMA CrashStep ==
  ASSUME IInv, NEW p \in Pod, Crash(p)
  PROVE  IInv'
<1>1. /\ faults' = faults + 1 /\ faults' <= MaxFaults
      /\ leader' \in {leader, None} /\ (leader # p \/ leader' = None)
  BY DEF IInv, TypeOK, Crash, Down
<1> QED
  BY <1>1, GoesDown DEF Crash, Down

LEMMA LoseDiskStep ==
  ASSUME IInv, NEW p \in Pod, LoseDisk(p)
  PROVE  IInv'
<1>1. /\ faults' = faults + 1 /\ faults' <= MaxFaults
      /\ leader' \in {leader, None} /\ (leader # p \/ leader' = None)
  BY DEF IInv, TypeOK, LoseDisk, Down
<1> QED
  BY <1>1, GoesDown DEF LoseDisk, Down

LEMMA WriteNodeIDStep ==
  ASSUME IInv, NEW p \in Pod, WriteNodeID(p)
  PROVE  IInv'
<1>a. /\ stage[p] = "found" /\ contact[p] = None
      /\ file' = [file EXCEPT ![p] = cand[p]] /\ stage' = [stage EXCEPT ![p] = "starting"]
      /\ UNCHANGED <<cand, contact, proposed, pending, members, unseen, leader>>
      /\ UNCHANGED <<used, doubted, gone, wiped, faults>>
  BY DEF WriteNodeID, raftVars, history
<1>b. \A q \in Pod : /\ q # p => stage'[q] = stage[q] /\ file'[q] = file[q]
                     /\ stage'[p] = "starting" /\ file'[p] = cand[p]
  BY <1>a DEF IInv, TypeOK
<1>c. \A q \in Pod, i \in ID : Has(q, i)' = Has(q, i) /\ Holds(q, i)' = Holds(q, i)
  BY <1>a, <1>b, Pods DEF IInv, StageInv, Has, Holds
<1>1. TypeOK'
  BY <1>a DEF IInv, TypeOK
<1>2. StageInv'
  BY <1>a, <1>b DEF IInv, StageInv
<1>3. FirstInv'
  BY <1>a, <1>b DEF IInv, FirstInv
<1>4. LeaderInv'
  BY <1>a, <1>b DEF IInv, TypeOK, LeaderInv
<1>5. ProposedInv'
  BY <1>a, <1>c DEF IInv, ProposedInv, Given
<1>6. HighInv'
  BY <1>a, <1>c DEF IInv, HighInv, Given
<1>7. OnceInv'
  BY <1>a, <1>c DEF IInv, OnceInv
<1>8. MemberInv'
  BY <1>a, <1>c DEF IInv, MemberInv
<1> QED
  BY <1>1, <1>2, <1>3, <1>4, <1>5, <1>6, <1>7, <1>8 DEF IInv

LEMMA ReadNodeIDStep ==
  ASSUME IInv, NEW p \in Pod, ReadNodeID(p)
  PROVE  IInv'
<1>a. /\ stage[p] = "down" /\ file[p] # 0
      /\ cand' = [cand EXCEPT ![p] = file[p]] /\ stage' = [stage EXCEPT ![p] = "starting"]
      /\ UNCHANGED <<file, contact, proposed, pending, members, unseen, leader>>
      /\ UNCHANGED <<used, doubted, gone, wiped, faults>>
  BY DEF ReadNodeID, raftVars, history
<1>b. \A q \in Pod : /\ q # p => stage'[q] = stage[q] /\ cand'[q] = cand[q]
                     /\ stage'[p] = "starting" /\ cand'[p] = file[p]
  BY <1>a DEF IInv, TypeOK
<1>c. \A q \in Pod, i \in ID : Has(q, i)' = Has(q, i) /\ Holds(q, i)' = Holds(q, i)
  BY <1>a, <1>b DEF Has, Holds
<1>1. TypeOK'
  BY <1>a DEF IInv, TypeOK
<1>2. StageInv'
  BY <1>a, <1>b DEF IInv, StageInv
<1>3. FirstInv'
  BY <1>a, <1>b DEF IInv, FirstInv
<1>4. LeaderInv'
  BY <1>a, <1>b DEF IInv, TypeOK, LeaderInv
<1>5. ProposedInv'
  BY <1>a, <1>c DEF IInv, ProposedInv, Given
<1>6. HighInv'
  BY <1>a, <1>c DEF IInv, HighInv, Given
<1>7. OnceInv'
  BY <1>a, <1>c DEF IInv, OnceInv
<1>8. MemberInv'
  BY <1>a, <1>c DEF IInv, MemberInv
<1> QED
  BY <1>1, <1>2, <1>3, <1>4, <1>5, <1>6, <1>7, <1>8 DEF IInv

LEMMA NodeStartStep ==
  ASSUME IInv, NEW p \in Pod, NodeStart(p)
  PROVE  IInv'
<1> DEFINE n == cand[p]
<1>a. /\ stage[p] = "starting" /\ stage' = [stage EXCEPT ![p] = "up"]
      /\ used' = [used EXCEPT ![n] = @ \cup {<<p, wiped[p]>>}]
      /\ members' = (IF n = 1 /\ members = {} THEN {1} ELSE members)
      /\ UNCHANGED <<file, cand, contact, proposed, pending, unseen, leader>>
      /\ UNCHANGED <<doubted, gone, wiped, faults>>
  BY DEF NodeStart
<1>b. /\ n \in ID /\ file[p] = n /\ contact[p] = None /\ Has(p, n) /\ Holds(p, n)
      /\ members' # {} /\ 1 \in ID
  BY <1>a, Pods DEF IInv, TypeOK, StageInv, FirstInv, Has, Holds
<1>c. \A q \in Pod : (q # p => stage'[q] = stage[q]) /\ stage'[p] = "up"
  BY <1>a DEF IInv, TypeOK
<1>d. \A q \in Pod, i \in ID : Has(q, i)' = Has(q, i) /\ Holds(q, i)' = Holds(q, i)
  BY <1>a, <1>c DEF Has, Holds
<1>e. \A i \in ID : (i # n => used'[i] = used[i]) /\ used'[n] = used[n] \cup {<<p, wiped[p]>>}
  BY <1>a, <1>b DEF IInv, TypeOK
<1>f. \A i \in ID : Given(i)' => Given(i)
  BY <1>b, <1>d, <1>e DEF Given
<1>g. members = {} => members' = {1} /\ \A i \in ID : Given(i) => i = 1
  BY <1>a, <1>b, Pods DEF IInv, FirstInv, Given, Has
<1>1. TypeOK'
  BY <1>a, <1>b DEF IInv, TypeOK
<1>2. StageInv'
  BY <1>a, <1>c DEF IInv, StageInv
<1>3. FirstInv'
  BY <1>b DEF FirstInv
<1>4. LeaderInv'
  BY <1>a, <1>c DEF IInv, TypeOK, LeaderInv
<1>5. ProposedInv'
  BY <1>a, <1>f DEF IInv, ProposedInv
<1>6. HighInv'
  <2>1. CASE members = {}
    BY <1>f, <1>g, <2>1 DEF HighInv
  <2>2. CASE members # {}
    BY <1>a, <1>f, <2>2 DEF IInv, HighInv
  <2> QED
    BY <2>1, <2>2
<1>7. OnceInv'
  BY <1>a, <1>b, <1>d, <1>e DEF IInv, OnceInv
<1>8. MemberInv'
  <2>1. \A q \in Pod, i \in ID : Has(q, i) => Given(i)
    BY DEF Given
  <2> QED
    BY <1>a, <1>d, <1>g, <2>1 DEF IInv, MemberInv
<1> QED
  BY <1>1, <1>2, <1>3, <1>4, <1>5, <1>6, <1>7, <1>8 DEF IInv

\* While raft works on its configuration, no pod changes what it has.
LEMMA PodsStand ==
  ASSUME IInv, UNCHANGED podVars, UNCHANGED <<proposed, used, wiped, faults>>
  PROVE  /\ StageInv' /\ ProposedInv'
         /\ \A p \in Pod, i \in ID : Has(p, i)' = Has(p, i) /\ Holds(p, i)' = Holds(p, i)
         /\ \A i \in ID : Given(i)' = Given(i)
         /\ doubted \subseteq doubted' => OnceInv'
<1>1. \A p \in Pod, i \in ID : Has(p, i)' = Has(p, i) /\ Holds(p, i)' = Holds(p, i)
  BY DEF podVars, Has, Holds
<1>2. \A i \in ID : Given(i)' = Given(i)
  BY <1>1 DEF Given
<1> QED
  BY <1>1, <1>2 DEF IInv, StageInv, ProposedInv, OnceInv, podVars

LEMMA ElectStep ==
  ASSUME IInv, NEW p \in Pod, Elect(p)
  PROVE  IInv'
<1>a. /\ stage[p] = "up" /\ leader' = p /\ unseen' \subseteq members
      /\ UNCHANGED podVars /\ UNCHANGED <<proposed, pending, members>>
      /\ UNCHANGED <<used, doubted, gone, wiped, faults>>
  BY DEF Elect, history
<1>1. TypeOK'
  BY <1>a DEF IInv, TypeOK, podVars
<1>2. FirstInv' /\ LeaderInv'
  BY <1>a DEF IInv, FirstInv, LeaderInv, podVars
<1>3. HighInv' /\ MemberInv'
  BY <1>a, PodsStand DEF IInv, HighInv, MemberInv
<1> QED
  BY <1>a, <1>1, <1>2, <1>3, PodsStand DEF IInv

LEMMA LeaderAppliesStep ==
  ASSUME IInv, LeaderApplies
  PROVE  IInv'
<1>a. /\ unseen' = {} /\ UNCHANGED podVars /\ UNCHANGED <<proposed, pending, members, leader>>
      /\ UNCHANGED <<used, doubted, gone, wiped, faults>>
  BY DEF LeaderApplies, history
<1>1. TypeOK'
  BY <1>a DEF IInv, TypeOK, podVars
<1>2. FirstInv' /\ LeaderInv'
  BY <1>a DEF IInv, FirstInv, LeaderInv, podVars
<1>3. HighInv' /\ MemberInv'
  BY <1>a, PodsStand DEF IInv, HighInv, MemberInv
<1> QED
  BY <1>a, <1>1, <1>2, <1>3, PodsStand DEF IInv

LEMMA CommitChangeStep ==
  ASSUME IInv, NEW i \in ID, CommitChange(i)
  PROVE  IInv'
<1>a. /\ i \in pending /\ pending' = pending \ {i} /\ members' = members \cup {i}
      /\ UNCHANGED podVars /\ UNCHANGED <<proposed, unseen, leader>>
      /\ UNCHANGED <<used, doubted, gone, wiped, faults>>
  BY DEF CommitChange, history
<1>b. members # {}
  BY <1>a DEF IInv, FirstInv
<1>1. TypeOK'
  BY <1>a DEF IInv, TypeOK, podVars
<1>2. FirstInv' /\ LeaderInv'
  BY <1>a DEF IInv, FirstInv, LeaderInv, podVars
<1>3. HighInv'
  <2>1. i <= i
    BY DEF ID
  <2> QED
    BY <1>a, <1>b, <2>1, PodsStand DEF IInv, HighInv
<1>4. MemberInv'
  BY <1>a, <1>b, PodsStand DEF IInv, MemberInv
<1> QED
  BY <1>a, <1>1, <1>2, <1>3, <1>4, PodsStand DEF IInv

LEMMA DropChangeStep ==
  ASSUME IInv, NEW i \in ID, DropChange(i)
  PROVE  IInv'
<1>a. /\ pending' = pending \ {i} /\ doubted' = doubted \cup {i} /\ gone' = gone \cup {i}
      /\ UNCHANGED podVars /\ UNCHANGED <<proposed, members, unseen, leader>>
      /\ UNCHANGED <<used, wiped, faults>>
  BY DEF DropChange
<1>1. TypeOK'
  BY <1>a DEF IInv, TypeOK, podVars
<1>2. FirstInv' /\ LeaderInv'
  BY <1>a DEF IInv, FirstInv, LeaderInv, podVars
<1>3. HighInv' /\ MemberInv'
  BY <1>a, PodsStand DEF IInv, HighInv, MemberInv
<1> QED
  BY <1>a, <1>1, <1>2, <1>3, PodsStand DEF IInv

LEMMA RemoveMemberStep ==
  ASSUME IInv, NEW i \in ID, RemoveMember(i)
  PROVE  IInv'
<1> DEFINE Left == members \ {i}
           M == Max(Left)
<1>a. /\ i \in members /\ members # {i} /\ members' = Left /\ unseen' = unseen \ {i}
      /\ gone' = gone \cup {i}
      /\ doubted' = doubted \cup {k \in ID : k > M /\ \E p \in Pod : <<k, p>> \in proposed}
      /\ UNCHANGED podVars /\ UNCHANGED <<proposed, pending, leader>>
      /\ UNCHANGED <<used, wiped, faults>>
  BY DEF RemoveMember
<1>b. Left # {} /\ M \in Left /\ Left \subseteq ID
  <2>1. Left \in SUBSET (0..MaxID) /\ Left # {} /\ Left \subseteq ID
    BY <1>a, Pods DEF IInv, TypeOK
  <2> QED
    BY <2>1, MaxOfIDs
<1> HIDE DEF M
<1>1. TypeOK'
  BY <1>a DEF IInv, TypeOK, podVars
<1>2. FirstInv' /\ LeaderInv'
  BY <1>a, <1>b DEF IInv, FirstInv, LeaderInv, podVars
<1>3. HighInv'
  <2> SUFFICES ASSUME NEW k \in ID, k \notin doubted', Given(k)
               PROVE  k <= M
    BY <1>a, <1>b, PodsStand DEF HighInv
  <2>1. k = 1 \/ \E p \in Pod : <<k, p>> \in proposed
    BY DEF IInv, ProposedInv
  <2>2. M \in ID
    BY <1>b
  <2> QED
    BY <1>a, <2>1, <2>2 DEF ID
<1>4. MemberInv'
  BY <1>a, <1>b, PodsStand DEF IInv, MemberInv
<1> QED
  BY <1>a, <1>1, <1>2, <1>3, <1>4, PodsStand DEF IInv

-----------------------------------------------------------------------------
(* The theorems.                                                           *)

\* However the pods bootstrap beside each other, and whatever crashes, is lost,
\* dropped or removed, every reachable state is of the kind IInv describes.
THEOREM InductiveInvariant == Spec => []IInv
<1>1. Init => IInv
  <2> SUFFICES ASSUME Init PROVE IInv
    OBVIOUS
  <2>1. TypeOK /\ StageInv /\ FirstInv /\ LeaderInv
    BY Pods DEF Init, TypeOK, StageInv, FirstInv, LeaderInv
  <2>2. \A p \in Pod, i \in ID : ~Has(p, i) /\ ~Holds(p, i)
    BY Pods DEF Init, Has, Holds
  <2>3. \A i \in ID : ~Given(i)
    BY <2>2 DEF Init, Given
  <2> QED
    BY <2>1, <2>2, <2>3 DEF Init, IInv, ProposedInv, HighInv, OnceInv, MemberInv
<1>2. IInv /\ [Next]_vars => IInv'
  <2> SUFFICES ASSUME IInv, [Next]_vars PROVE IInv'
    OBVIOUS
  <2>1. CASE \E p \in Pod :
               \/ \E R \in SUBSET Pod : FindNewHighNodeID(p, R)
               \/ ReportNewNode(p) \/ ReportFails(p) \/ WriteNodeID(p) \/ ReadNodeID(p)
               \/ NodeStart(p) \/ Crash(p) \/ LoseDisk(p) \/ Elect(p)
    BY <2>1, FindNewHighNodeIDStep, ReportNewNodeStep, ReportFailsStep, WriteNodeIDStep,
       ReadNodeIDStep, NodeStartStep, CrashStep, LoseDiskStep, ElectStep
  <2>2. CASE RaftStep
    BY <2>2, CommitChangeStep, DropChangeStep, RemoveMemberStep, LeaderAppliesStep DEF RaftStep
  <2>3. CASE UNCHANGED vars
    <3>1. /\ UNCHANGED podVars /\ UNCHANGED <<proposed, pending, members, unseen, leader>>
          /\ UNCHANGED <<used, doubted, gone, wiped, faults>>
      BY <2>3 DEF vars, raftVars, history
    <3>2. TypeOK' /\ FirstInv' /\ LeaderInv'
      BY <3>1 DEF IInv, TypeOK, FirstInv, LeaderInv, podVars
    <3>3. HighInv' /\ MemberInv'
      BY <3>1, PodsStand DEF IInv, HighInv, MemberInv
    <3> QED
      BY <3>1, <3>2, <3>3, PodsStand DEF IInv
  <2> QED
    BY <2>1, <2>2, <2>3 DEF Next
<1> QED
  BY <1>1, <1>2, PTL DEF Spec

\* Type correctness.
THEOREM TypeCorrect == Spec => []TypeOK
<1>1. IInv => TypeOK
  BY DEF IInv
<1> QED
  BY <1>1, InductiveInvariant, PTL

\* An ID runs on two disks only if findNewHighNodeID gave it out beside another
\* pod or without the answer of a leader that has applied every change, if its
\* addition was dropped, or if removals let the highest ID sink below it.
THEOREM IDsUnique == Spec => []UniqueIDs
<1>1. IInv => UniqueIDs
  <2> SUFFICES ASSUME IInv, NEW i \in ID \ doubted
               PROVE  Cardinality(used[i]) <= 1
    BY DEF UniqueIDs
  <2>1. CASE used[i] = {}
    BY <2>1, FS_EmptySet
  <2>2. CASE used[i] # {}
    <3>1. PICK d \in used[i] : TRUE
      BY <2>2
    <3>2. used[i] = {d}
      BY DEF IInv, OnceInv
    <3>3. Cardinality({d}) = 1
      BY FS_Singleton
    <3> QED
      BY <3>2, <3>3
  <2> QED
    BY <2>1, <2>2
<1> QED
  BY <1>1, InductiveInvariant, PTL

\* A node that runs is a member under the ID in its file, or its addition is
\* under way, unless that was dropped or the ID was removed.
THEOREM RunningAreMembers == Spec => []RunsAsMember
<1>1. IInv => RunsAsMember
  <2> SUFFICES ASSUME IInv, NEW p \in Pod, stage[p] = "up"
               PROVE  file[p] \in members \cup pending \cup gone
    BY DEF RunsAsMember
  <2>1. file[p] \in ID /\ members # {}
    BY Pods DEF IInv, TypeOK, StageInv, FirstInv
  <2> QED
    BY <2>1 DEF IInv, MemberInv, Has
<1> QED
  BY <1>1, InductiveInvariant, PTL
=============================================================================
