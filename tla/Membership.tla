----------------------------- MODULE Membership -----------------------------
(***************************************************************************)
(* How running nodes follow the cluster's membership: Node.Start and       *)
(* processConfChange of internal/node/node.go, the proposals of            *)
(* conf_change.go, the peers table and the confstate column of the         *)
(* backends.  The clients PeerManager keeps are those of PeerClients.      *)
(*                                                                         *)
(* Raft (external) orders the configuration changes.  Every node processes *)
(* them at its own pace, proposes the removal of an ID whose address was   *)
(* taken over by another, and after a restart is handed again whatever its *)
(* log still has, because Node.Start leaves config.Applied unset.  A node  *)
(* that joins begins with the peers it discovered as the members.          *)
(***************************************************************************)
EXTENDS Integers, Sequences, FiniteSetsExt

CONSTANTS
  Nodes,        \* IDs of the nodes followed here; node n has the address n
  MaxID,        \* bound: node IDs, 1..MaxID
  Address,      \* addresses new nodes may have
  MaxConf,      \* bound: committed configuration changes
  Restarting,   \* the nodes that may be restarted
  MaxRestarts,  \* bound: restarts
  Compaction,   \* does AppendEntries retire old entries
  MaxFailures   \* bound: failing statements of the main loop

ASSUME ConstantsAssumption ==
  /\ 1 \in Nodes /\ Nodes \subseteq 1..MaxID /\ MaxID \in Nat
  /\ Address \subseteq 1..MaxID /\ Restarting \subseteq Nodes
  /\ MaxConf \in Nat /\ MaxRestarts \in Nat /\ MaxFailures \in Nat
  /\ Compaction \in BOOLEAN

ID == 1..MaxID
NoAddr == 0
NoNode == 0

VARIABLES
  conf,      \* committed configuration changes, in log order (external)
  leader,    \* the node that leads, or NoNode (external)
  removals,  \* RemoveNode proposals on their way to the leader
  \* of each node
  up,        \* is its main loop running
  first,     \* first configuration change its log still has
  done,      \* configuration changes its loop has processed since the start
  advanced,  \* ... and Advance has reported to raft
  saving,    \* between ApplyConfChange and SaveConfState
  mem,       \* raft's configuration in memory (voters)
  row,       \* state.confstate
  table,     \* mgmt.peers: [ID -> address, or NoAddr]
  restarts, failures,
  \* history, of each node
  boot,      \* the members its configuration was begun with; {}: not started
  base       \* ... in place of that many changes, which it was not handed

raftVars == <<conf, leader, removals>>
loopVars == <<up, first, done, advanced, saving>>
begun == <<boot, base>>
vars == <<raftVars, loopVars, mem, row, table, restarts, failures, begun>>

Entry == [op : {"add", "remove"}, id : ID, addr : Address \cup {NoAddr}]

Init ==
  /\ conf = << >> /\ leader = NoNode /\ removals = {}
  /\ up = [n \in Nodes |-> FALSE] /\ first = [n \in Nodes |-> 1]
  /\ done = [n \in Nodes |-> 0] /\ advanced = [n \in Nodes |-> 0]
  /\ saving = [n \in Nodes |-> FALSE]
  /\ mem = [n \in Nodes |-> {}] /\ row = [n \in Nodes |-> {}]
  /\ table = [n \in Nodes |-> [i \in ID |-> NoAddr]]
  /\ restarts = 0 /\ failures = 0
  /\ boot = [n \in Nodes |-> {}] /\ base = [n \in Nodes |-> 0]

\* The changes about an ID after the first b; what all changes after the first
\* b make of the members S; the members of the cluster.
About(i, b) == {k \in DOMAIN conf : k > b /\ conf[k].id = i}
Members(S, b) ==
  {i \in ID : IF About(i, b) = {} THEN i \in S ELSE conf[Max(About(i, b))].op = "add"}
Voters == Members({1}, 0)

-----------------------------------------------------------------------------
(* Raft (external).                                                        *)

\* stepLeader: while the leader has configuration changes it has not applied
\* (reported by Advance), another one is replaced by an empty entry.
LeaderAppends(e) ==
  /\ leader # NoNode
  /\ conf' = IF advanced[leader] = Len(conf) THEN Append(conf, e) ELSE conf

\* A node that counts itself in campaigns when no committed configuration
\* change is unapplied.
Elect(n) ==
  /\ up[n] /\ n \in mem[n] /\ done[n] = Len(conf) /\ leader # n
  /\ leader' = n
  /\ UNCHANGED <<conf, removals, loopVars, mem, row, table, restarts, failures, begun>>

-----------------------------------------------------------------------------
(* Node.Start.                                                             *)

\* Node 1 always counts as a new cluster and stores itself as the only member,
\* whatever its log still has.
StartNewCluster(n) ==
  /\ n = 1
  /\ mem' = [mem EXCEPT ![n] = {1}] /\ row' = [row EXCEPT ![n] = {1}]
  /\ boot' = [boot EXCEPT ![n] = {1}] /\ base' = [base EXCEPT ![n] = first[n] - 1]
  /\ UNCHANGED first

\* raft.StartNode (external) with an empty log: the peers R are the members, and
\* fill as many entries at the log's beginning.  The first one of the cluster
\* is empty, and changes among the others are not handed to the node.
StartBootstraps(n, R) ==
  /\ n # 1 /\ boot[n] = {}
  /\ mem' = [mem EXCEPT ![n] = R] /\ row' = [row EXCEPT ![n] = R]
  /\ boot' = [boot EXCEPT ![n] = R]
  /\ \E c \in 0..Len(conf) :
       /\ c < Cardinality(R)
       /\ base' = [base EXCEPT ![n] = c] /\ first' = [first EXCEPT ![n] = c + 1]

\* Mutant of LoadConfState: the column is not read.
LoadNothing(n) ==
  /\ n # 1 /\ boot[n] # {}
  /\ mem' = [mem EXCEPT ![n] = {1}]
  /\ UNCHANGED <<row, first, begun>>

\* raft.StartNode with a log does not bootstrap: raft reads the column
\* (InitialState).
LoadConfState(n) ==
  /\ n # 1 /\ boot[n] # {}
  /\ mem' = [mem EXCEPT ![n] = row[n]]
  /\ UNCHANGED <<row, first, begun>>

\* Whom discoverPotentialPeers may find: nodes that are up and, of those not
\* followed here, the last one added at each address.
Reachable(n) ==
  LET last == {k \in DOMAIN conf : /\ conf[k].op = "add" /\ conf[k].id \notin Nodes
                                   /\ \A l \in DOMAIN conf : l > k => conf[l].addr # conf[k].addr}
  IN {m \in Nodes \ {n} : up[m]} \cup {conf[k].id : k \in last}

\* discoverPotentialPeers returns the peers R: one whose GetRemoteID fails is
\* passed over.  raft.StartNode panics with none.
Start(n, R) ==
  /\ ~up[n] /\ R \subseteq Reachable(n)
  /\ n = 1 \/ (R # {} /\ \E k \in DOMAIN conf : conf[k].id = n)
  /\ StartNewCluster(n) \/ StartBootstraps(n, R) \/ LoadConfState(n)
  /\ up' = [up EXCEPT ![n] = TRUE]
  /\ done' = [done EXCEPT ![n] = first'[n] - 1]
  /\ advanced' = [advanced EXCEPT ![n] = first'[n] - 1]
  /\ UNCHANGED <<raftVars, saving, table, restarts, failures>>

Crash(n) ==
  /\ up[n] /\ n \in Restarting /\ restarts < MaxRestarts
  /\ restarts' = restarts + 1
  /\ up' = [up EXCEPT ![n] = FALSE]
  /\ saving' = [saving EXCEPT ![n] = FALSE]
  /\ leader' = IF leader = n THEN NoNode ELSE leader
  /\ removals' = {r \in removals : r.by # n}
  /\ UNCHANGED <<conf, first, done, advanced, mem, row, table, failures, begun>>

-----------------------------------------------------------------------------
(* The main loop: one configuration change.                                *)

Busy(n) == ~up[n] \/ saving[n] \/ done[n] = Len(conf)
Current(n) == conf[done[n] + 1]

\* backend.UpsertPeer returns one of the IDs stored with that address.
StoredAt(n, addr) == {i \in ID : table[n][i] = addr}

\* The peers table after backend.UpsertPeer and backend.RemovePeer.
UpsertPeer(n, i, addr) == [table EXCEPT ![n][i] = addr]
RemovePeer(n, i) == [table EXCEPT ![n][i] = NoAddr]

\* ApplyConfChange
Changed(n, e) == IF e.op = "add" THEN mem[n] \cup {e.id} ELSE mem[n] \ {e.id}

Applied(n) ==
  /\ mem' = [mem EXCEPT ![n] = Changed(n, Current(n))]
  /\ saving' = [saving EXCEPT ![n] = TRUE]
  /\ done' = [done EXCEPT ![n] = @ + 1]
  /\ UNCHANGED <<conf, leader, up, first, advanced, row, restarts, failures, begun>>

\* A change about the node itself concerns raft only.
ProcessOwn(n) ==
  /\ ~Busy(n) /\ Current(n).id = n
  /\ Applied(n)
  /\ UNCHANGED <<removals, table>>

ProcessRemove(n) ==
  /\ ~Busy(n) /\ Current(n).id # n /\ Current(n).op = "remove"
  /\ table' = RemovePeer(n, Current(n).id)
  /\ Applied(n)
  /\ UNCHANGED removals

\* Mutant of ProcessAdd: the ID found at the address is not compared.
ProcessAddNoCompare(n) ==
  /\ ~Busy(n) /\ Current(n).id # n /\ Current(n).op = "add"
  /\ LET e == Current(n)
     IN /\ table' = UpsertPeer(n, e.id, e.addr)
        /\ removals' = removals \cup {[by |-> n, id |-> e.id]}
  /\ Applied(n)

\* backend.UpsertPeer; the ID that had the address before is removed in the
\* background.
ProcessAdd(n) ==
  /\ ~Busy(n) /\ Current(n).id # n /\ Current(n).op = "add"
  /\ LET e == Current(n)
     IN /\ table' = UpsertPeer(n, e.id, e.addr)
        /\ IF StoredAt(n, e.addr) = {} THEN UNCHANGED removals
           ELSE \E prev \in StoredAt(n, e.addr) :
                  removals' = IF prev = e.id THEN removals
                              ELSE removals \cup {[by |-> n, id |-> prev]}
  /\ Applied(n)

\* UpsertPeer of the peer manager or of the backend fails: ApplyConfChange is
\* not called and the loop goes on.
ProcessFails(n) ==
  /\ ~Busy(n) /\ Current(n).id # n /\ Current(n).op = "add"
  /\ failures < MaxFailures
  /\ failures' = failures + 1
  /\ done' = [done EXCEPT ![n] = @ + 1]
  /\ UNCHANGED <<raftVars, up, first, advanced, saving, mem, row, table, restarts, begun>>

SaveConfState(n) ==
  /\ saving[n]
  /\ row' = [row EXCEPT ![n] = mem[n]]
  /\ saving' = [saving EXCEPT ![n] = FALSE]
  /\ UNCHANGED <<raftVars, up, first, done, advanced, mem, table, restarts, failures, begun>>

\* The error is logged, and the loop goes on.
SaveConfStateFails(n) ==
  /\ saving[n]
  /\ failures < MaxFailures
  /\ failures' = failures + 1
  /\ saving' = [saving EXCEPT ![n] = FALSE]
  /\ UNCHANGED <<raftVars, up, first, done, advanced, mem, row, table, restarts, begun>>

Advance(n) ==
  /\ up[n] /\ ~saving[n] /\ advanced[n] < done[n]
  /\ advanced' = [advanced EXCEPT ![n] = done[n]]
  /\ UNCHANGED <<raftVars, up, first, done, saving, mem, row, table, restarts, failures, begun>>

\* Retention, at a distance at which it reaches only what was applied.
RetireOld(n) ==
  /\ Compaction /\ up[n] /\ first[n] <= advanced[n]
  /\ first' = [first EXCEPT ![n] = @ + 1]
  /\ UNCHANGED <<raftVars, up, done, advanced, saving, mem, row, table, restarts, failures, begun>>

-----------------------------------------------------------------------------
(* Proposals (conf_change.go).                                             *)

\* AddNode for a node that bootstrapped with the next ID: a new pod, or a pod
\* that lost its disk and comes back at the same address.
AddNode(i, addr) ==
  /\ Len(conf) < MaxConf
  /\ i = Max({1} \cup {conf[k].id : k \in DOMAIN conf}) + 1 /\ i <= MaxID
  /\ addr \in Nodes => addr = i
  /\ i \in Nodes => addr = i
  /\ LeaderAppends([op |-> "add", id |-> i, addr |-> addr])
  /\ UNCHANGED <<leader, removals, loopVars, mem, row, table, restarts, failures, begun>>

\* RemoveNode of processConfChange's goroutine reaches the leader.
RemoveNode(r) ==
  /\ Len(conf) < MaxConf
  /\ LeaderAppends([op |-> "remove", id |-> r.id, addr |-> NoAddr])
  /\ removals' = removals \ {r}
  /\ UNCHANGED <<leader, loopVars, mem, row, table, restarts, failures, begun>>

LoopStep(n) ==
  ProcessOwn(n) \/ ProcessRemove(n) \/ ProcessAdd(n) \/ SaveConfState(n) \/ Advance(n)

Next ==
  \/ \E n \in Nodes :
       \/ \E R \in SUBSET ID : Start(n, R)
       \/ Crash(n) \/ Elect(n) \/ LoopStep(n) \/ RetireOld(n)
       \/ ProcessFails(n) \/ SaveConfStateFails(n)
  \/ \E i \in ID, addr \in Address : AddNode(i, addr)
  \/ \E r \in removals : RemoveNode(r)

Spec == Init /\ [][Next]_vars

-----------------------------------------------------------------------------
(* Properties.                                                             *)

\* Type invariant.
TypeOK ==
  /\ conf \in Seq(Entry) /\ Len(conf) <= MaxConf /\ leader \in Nodes \cup {NoNode}
  /\ removals \subseteq [by : Nodes, id : ID]
  /\ up \in [Nodes -> BOOLEAN] /\ saving \in [Nodes -> BOOLEAN]
  /\ first \in [Nodes -> 1..(Len(conf) + 1)]
  /\ done \in [Nodes -> 0..Len(conf)] /\ advanced \in [Nodes -> 0..Len(conf)]
  /\ mem \in [Nodes -> SUBSET ID] /\ row \in [Nodes -> SUBSET ID]
  /\ table \in [Nodes -> [ID -> Address \cup {NoAddr}]]
  /\ restarts \in 0..MaxRestarts /\ failures \in 0..MaxFailures
  /\ boot \in [Nodes -> SUBSET ID] /\ base \in [Nodes -> 0..Len(conf)]

CaughtUp(n) == up[n] /\ ~saving[n] /\ done[n] = Len(conf)

\* A node that has processed every committed configuration change counts
\* majorities over the members it was started with as all later changes leave
\* them, in memory and in the state table, unless a statement failed: a crash
\* between processConfChange and SaveConfState, retired entries and the replay
\* after a restart included.  Those are the cluster's members if it was handed
\* every change and began with node 1.
ConfFollowsLog ==
  failures = 0 =>
    \A n \in Nodes : CaughtUp(n) =>
      mem[n] = Members(boot[n], base[n]) /\ row[n] = mem[n]

\* The repository's README: membership changes and node failures are handled.
\* A node that is up and has processed every change counts majorities over the
\* cluster's members.
MembersAgree == \A n \in Nodes : CaughtUp(n) => mem[n] = Voters

\* The comment in processConfChange (node.go): an ID is cleaned up if its
\* address had it before another one.  No other ID is ever removed.
OnlyReplacedRemoved ==
  \A k \in DOMAIN conf :
    conf[k].op = "remove" =>
      \E i, j \in 1..(k - 1) :
        /\ i < j /\ conf[i].op = "add" /\ conf[i].id = conf[k].id
        /\ conf[j].op = "add" /\ conf[j].addr = conf[i].addr /\ conf[j].id # conf[i].id

\* Nodes that process each change once, at different paces and with failing
\* statements, remove no other ID either.
OneLifeRemovesReplaced == restarts = 0 => OnlyReplacedRemoved
=============================================================================
