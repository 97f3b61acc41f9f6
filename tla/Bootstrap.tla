----------------------------- MODULE Bootstrap -----------------------------
(***************************************************************************)
(* How the pods of the StatefulSet get their raft node IDs:                *)
(* internal/bootstrap/bootstrap.go (New, findNewHighNodeID, reportNewNode) *)
(* with the handlers it calls on other pods, HighestID of                  *)
(* internal/server/raft.go and AddPeer of internal/server/control.go.      *)
(*                                                                         *)
(* A pod reads its ID from the node_id file.  Without one it asks the      *)
(* other pods for the highest ID they know, takes the next one, asks a pod *)
(* to add it to the cluster, and writes the file.  Pods do this beside     *)
(* each other (a pod is ready whatever its health check says), with        *)
(* whoever answers.  The process may die between any two steps, and a pod  *)
(* may lose its disk.  The raft cluster behind the pods is external: the   *)
(* log of its configuration changes, reduced to its last state, and one    *)
(* leader that may not have applied all of it.                             *)
(***************************************************************************)
EXTENDS Integers, FiniteSetsExt

CONSTANTS
  N,              \* pods 0..N-1, all of Params.ClusterSize
  MaxID,          \* bound: node IDs used, 1..MaxID
  MaxFaults       \* bound: crashes of a process and disks lost

ASSUME ConstantsAssumption ==
  N \in Nat \ {0} /\ MaxID \in Nat \ {0} /\ MaxFaults \in Nat

Pod == 0..(N - 1)
ID == 1..MaxID
None == -1       \* no pod

VARIABLES
  file,     \* [Pod -> content of the node_id file, 0 when empty or missing]
  stage,    \* [Pod -> where its process is]
  cand,     \* [Pod -> the ID bootstrap.New works with, 0 when none]
  contact,  \* [Pod -> the pod to report to, or None]
  \* raft (external)
  proposed, \* the pairs <<ID, pod>> that AddNewPeer was called with
  pending,  \* IDs proposed, neither committed nor dropped yet
  members,  \* IDs in the configuration
  unseen,   \* those of them the leader has not applied yet
  leader,   \* the pod that leads, or None
  \* history and bounds
  used,     \* [ID -> the disks, <<pod, times wiped>>, a node ran on with that ID]
  doubted,  \* IDs given out unsurely, or that can be given out again
  gone,     \* IDs whose addition was dropped, or that were removed
  wiped, faults

podVars == <<file, stage, cand, contact>>
raftVars == <<proposed, pending, members, unseen, leader>>
history == <<used, doubted, gone, wiped, faults>>
vars == <<podVars, raftVars, history>>

Init ==
  /\ file = [p \in Pod |-> 0] /\ stage = [p \in Pod |-> "down"]
  /\ cand = [p \in Pod |-> 0] /\ contact = [p \in Pod |-> None]
  /\ proposed = {} /\ pending = {} /\ members = {} /\ unseen = {} /\ leader = None
  /\ used = [i \in ID |-> {}] /\ doubted = {} /\ gone = {} /\ wiped = [p \in Pod |-> 0] /\ faults = 0

-----------------------------------------------------------------------------
(* bootstrap.New.                                                          *)

\* getPeers: every pod of the cluster but this one.  Its gRPC server answers
\* as soon as it is started, before its raft node is.
Serving(p) == {q \in Pod \ {p} : stage[q] \in {"starting", "up"}}

\* Mutant of HighestID: the Progress map is left out.
HighestOwn(q) == IF stage[q] = "up" THEN file[q] ELSE 0

\* raftService.HighestID on pod q: the zero status of a node that is not
\* started; its own ID; on the leader every member's as well.
HighestID(q) ==
  IF stage[q] # "up" THEN 0
  ELSE IF leader = q THEN Max((members \ unseen) \cup {file[q]}) ELSE file[q]

\* History: nothing is under way that the answers of the pods R leave out.
\* Nobody else has an ID, or the leader answers and every change is applied.
Sure(p, R) ==
  /\ \A q \in Pod \ {p} : stage[q] # "found"
  /\ pending = {}
  /\ IF members = {} THEN \A q \in Pod : file[q] = 0 ELSE leader \in R /\ unseen = {}

\* findNewHighNodeID, having got an answer from the pods R: the one that
\* reported the highest ID, the first such in pod order, is reported to.
FindNewHighNodeID(p, R) ==
  /\ stage[p] = "down" /\ file[p] = 0
  /\ R \subseteq Serving(p)
  /\ LET highest == Max({HighestID(q) : q \in R})
     IN IF R = {}
        THEN p = 0 /\ cand' = [cand EXCEPT ![p] = 1] /\ UNCHANGED contact
        ELSE /\ highest < MaxID
             /\ cand' = [cand EXCEPT ![p] = highest + 1]
             /\ contact' = [contact EXCEPT
                             ![p] = Min({q \in R : HighestID(q) = highest})]
  /\ stage' = [stage EXCEPT ![p] = "found"]
  /\ doubted' = IF Sure(p, R) THEN doubted ELSE doubted \cup {cand'[p]}
  /\ UNCHANGED <<file, raftVars, used, gone, wiped, faults>>

\* reportNewNode: AddNewPeer, AddPeer, AddNode, ProposeConfChange.  Accepted
\* where a leader is known: a node 1 that restarts leads itself (IsNewCluster).
\* Whether the change is ever committed nobody waits for.
ReportNewNode(p) ==
  /\ stage[p] = "found" /\ contact[p] # None
  /\ stage[contact[p]] = "up" /\ (leader # None \/ file[contact[p]] = 1)
  /\ proposed' = proposed \cup {<<cand[p], p>>}
  /\ pending' = pending \cup {cand[p]}
  /\ contact' = [contact EXCEPT ![p] = None]
  /\ UNCHANGED <<file, stage, cand, members, unseen, leader, history>>

\* The call fails, the node is not started there, or no leader turns up in 30
\* seconds: New returns the error and the process exits.
ReportFails(p) ==
  /\ stage[p] = "found" /\ contact[p] # None
  /\ stage' = [stage EXCEPT ![p] = "down"]
  /\ cand' = [cand EXCEPT ![p] = 0] /\ contact' = [contact EXCEPT ![p] = None]
  /\ UNCHANGED <<file, raftVars, history>>

\* Mutant of WriteNodeID: the file is written before the ID is reported.
WriteBeforeReport(p) ==
  /\ stage[p] = "found"
  /\ file' = [file EXCEPT ![p] = cand[p]]
  /\ stage' = [stage EXCEPT ![p] = "starting"]
  /\ UNCHANGED <<cand, contact, raftVars, history>>

\* os.WriteFile of the node_id file; New returns and the server starts.
WriteNodeID(p) ==
  /\ stage[p] = "found" /\ contact[p] = None
  /\ file' = [file EXCEPT ![p] = cand[p]]
  /\ stage' = [stage EXCEPT ![p] = "starting"]
  /\ UNCHANGED <<cand, contact, raftVars, history>>

\* The node_id file holds an ID: nobody is asked.
ReadNodeID(p) ==
  /\ stage[p] = "down" /\ file[p] # 0
  /\ cand' = [cand EXCEPT ![p] = file[p]]
  /\ stage' = [stage EXCEPT ![p] = "starting"]
  /\ UNCHANGED <<file, contact, raftVars, history>>

\* Node.Start.  Node 1 is taken for a new cluster (IsNewCluster): where there
\* is none it is the only member.
NodeStart(p) ==
  /\ stage[p] = "starting"
  /\ stage' = [stage EXCEPT ![p] = "up"]
  /\ used' = [used EXCEPT ![cand[p]] = @ \cup {<<p, wiped[p]>>}]
  /\ members' = IF cand[p] = 1 /\ members = {} THEN {1} ELSE members
  /\ UNCHANGED <<file, cand, contact, proposed, pending, unseen, leader,
                 doubted, gone, wiped, faults>>

-----------------------------------------------------------------------------
(* Processes, disks and raft (external).                                   *)

Down(p) ==
  /\ stage' = [stage EXCEPT ![p] = "down"]
  /\ cand' = [cand EXCEPT ![p] = 0] /\ contact' = [contact EXCEPT ![p] = None]
  /\ leader' = IF leader = p THEN None ELSE leader

Crash(p) ==
  /\ stage[p] # "down" /\ faults < MaxFaults
  /\ faults' = faults + 1
  /\ Down(p)
  /\ UNCHANGED <<file, proposed, pending, members, unseen, used, doubted, gone, wiped>>

\* The pod loses its volume: the database and the node_id file.
LoseDisk(p) ==
  /\ file[p] # 0 /\ faults < MaxFaults
  /\ faults' = faults + 1 /\ wiped' = [wiped EXCEPT ![p] = @ + 1]
  /\ file' = [file EXCEPT ![p] = 0]
  /\ Down(p)
  /\ UNCHANGED <<proposed, pending, members, unseen, used, doubted, gone>>

\* A leader is elected by a majority of the members.  It has all committed
\* changes in its log, and may have applied none.  CheckQuorum is not set, so
\* it stays leader until another one is.
Elect(p) ==
  /\ stage[p] = "up" /\ file[p] \in members /\ leader # p
  /\ 2 * Cardinality({i \in members : \E q \in Pod : stage[q] = "up" /\ file[q] = i})
       > Cardinality(members)
  /\ leader' = p
  /\ unseen' \in SUBSET (members \ {file[p]})
  /\ UNCHANGED <<podVars, proposed, pending, members, history>>

LeaderApplies ==
  /\ unseen # {} /\ unseen' = {}
  /\ UNCHANGED <<podVars, proposed, pending, members, leader, history>>

\* A change is committed, where there is a leader, or dropped: by a leader
\* with another one under way, or with the leader that had it.
CommitChange(i) ==
  /\ i \in pending /\ leader # None
  /\ pending' = pending \ {i} /\ members' = members \cup {i}
  /\ UNCHANGED <<podVars, proposed, unseen, leader, history>>

DropChange(i) ==
  /\ i \in pending
  /\ pending' = pending \ {i}
  /\ doubted' = doubted \cup {i} /\ gone' = gone \cup {i}
  /\ UNCHANGED <<podVars, proposed, members, unseen, leader, used, wiped, faults>>

\* A node that processes a change to another ID at an address removes the one
\* that had it (processConfChange), on replay even a later one.  IDs given out
\* before and beyond every member left can be found again.
RemoveMember(i) ==
  /\ i \in members /\ leader # None /\ members # {i}
  /\ \E p \in Pod, j \in ID \ {i} : {<<i, p>>, <<j, p>>} \subseteq proposed
  /\ members' = members \ {i} /\ unseen' = unseen \ {i}
  /\ gone' = gone \cup {i}
  /\ doubted' = doubted \cup {k \in ID : k > Max(members \ {i})
                                           /\ \E p \in Pod : <<k, p>> \in proposed}
  /\ UNCHANGED <<podVars, proposed, pending, leader, used, wiped, faults>>

RaftStep ==
  \/ \E i \in ID : CommitChange(i) \/ DropChange(i) \/ RemoveMember(i)
  \/ LeaderApplies

Next ==
  \/ \E p \in Pod :
       \/ \E R \in SUBSET Pod : FindNewHighNodeID(p, R)
       \/ ReportNewNode(p) \/ ReportFails(p) \/ WriteNodeID(p) \/ ReadNodeID(p)
       \/ NodeStart(p) \/ Crash(p) \/ LoseDisk(p) \/ Elect(p)
  \/ RaftStep

Spec == Init /\ [][Next]_vars

-----------------------------------------------------------------------------
(* Properties.                                                             *)

\* Type invariant.
TypeOK ==
  /\ file \in [Pod -> 0..MaxID] /\ cand \in [Pod -> 0..MaxID]
  /\ stage \in [Pod -> {"down", "found", "starting", "up"}]
  /\ contact \in [Pod -> Pod \cup {None}] /\ leader \in Pod \cup {None}
  /\ members \subseteq ID /\ pending \subseteq ID /\ unseen \subseteq members
  /\ proposed \subseteq ID \X Pod /\ doubted \subseteq ID /\ gone \subseteq ID
  /\ wiped \in [Pod -> 0..MaxFaults] /\ faults \in 0..MaxFaults
  /\ used \in [ID -> SUBSET (Pod \X (0..MaxFaults))]

\* A node ID is used on one disk only.  Raft counts votes and acknowledgements
\* by ID: a second node with the ID, or the same pod after losing what it
\* acknowledged, breaks majorities that were formed.
NoIDTwice == \A i \in ID : Cardinality(used[i]) <= 1

\* What findNewHighNodeID and reportNewNode do assure, whatever crashes and
\* disks are lost: an ID runs on two disks only if it was given out beside
\* another pod's or without the leader's answer, if its addition was dropped, or
\* if removals let the highest ID sink below it.
UniqueIDs == \A i \in ID \ doubted : Cardinality(used[i]) <= 1

\* The ID is reported before the file is written: a running node is a member,
\* or its addition is under way, unless that was dropped or the ID removed.
\* Crashes in between leave members that nobody runs, never the reverse.
RunsAsMember ==
  \A p \in Pod : stage[p] = "up" => file[p] \in members \cup pending \cup gone
=============================================================================
