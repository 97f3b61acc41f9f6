---------------------------- MODULE HealthProofs ----------------------------
(***************************************************************************)
(* Proofs about PeerClients and Health, for every set of peers, of calls   *)
(* and of thresholds and every modulus: which connections are open, what   *)
(* CheckHealth leaves behind, and what "healthy" means.                    *)
(***************************************************************************)
EXTENDS Health, FiniteSetTheorems, WellFoundedInduction, TLAPS

-----------------------------------------------------------------------------
(* The inductive invariant.                                                *)

\* The map of clients: no client is in it twice, none that was never made, and
\* UpsertPeer finds room for a new one.
MapInv ==
  /\ phase = "closed" => write = Idle
  /\ write.op = "upsert" => \E k \in Client : conn[k] = "unused"
  /\ \A p \in Peers : peerMap[p] # 0 => conn[peerMap[p]] # "unused"
  /\ \A p, q \in Peers : peerMap[p] # 0 /\ peerMap[p] = peerMap[q] => p = q
  /\ ConnectionsMatchMap

PeerInv == PeerTypeOK /\ MapInv

\* The types that TypeOK leaves out.
CallTypeOK ==
  /\ answer \in [Calls -> [Peers -> [leads : BOOLEAN, applied : 0..MaxApplied]]]
  /\ threshold \in [Calls -> Nat] /\ floor \in [Calls -> Nat]
  /\ steady \in [Calls -> BOOLEAN] /\ expired \in [Calls -> BOOLEAN]

\* The goroutines of a call that have not handed over their answer.
Active(c) == {p \in Peers : routine[c][p] \in {"rpc", "send"}}

\* The receiving loop has as many iterations left as answers are to come.
RoutineInv ==
  \A c \in Calls :
    /\ call[c] \in {"idle", "collect"} => \A p \in Peers : routine[c][p] = "none"
    /\ call[c] = "receive" => left[c] = Cardinality(Active(c))
    /\ result[c] # "none" => call[c] = "done"
    /\ result[c] \in {"leader", "noLeader"} => Active(c) = {}

\* With one leader throughout, every answer of a leader, the one the handler
\* kept and what it concluded from it are no older than the call.
SteadyInv ==
  \A c \in Calls : steady[c] =>
    /\ \A n \in Node : leads[n] => n = leader
    /\ floor[c] <= applied[leader]
    /\ \A p \in Peers : routine[c][p] \in {"send", "ended"} /\ answer[c][p].leads =>
         floor[c] <= answer[c][p].applied
    /\ call[c] = "compare" => floor[c] <= leaderAt[c]
    /\ result[c] = "healthy" => floor[c] <= applied[Self] + threshold[c]

IInv == TypeOK /\ MapInv /\ CallTypeOK /\ RoutineInv /\ SteadyInv

-----------------------------------------------------------------------------
(* Facts about the operators.                                              *)

USE ConstantsAssumption, HealthAssumption

\* UpsertPeer's client is a new one, if there is room for one.
LEMMA NewClientIsNew ==
  ASSUME \E k \in Client : conn[k] = "unused"
  PROVE  NewClient \in Client /\ conn[NewClient] = "unused"
<1> DEFINE S == {k \in Client : conn[k] = "unused"}
<1>1. S \in SUBSET Nat /\ S # {}
  BY DEF Client
<1>2. IsWellFoundedOn(OpToRel(<, Nat), Nat)
  BY NatLessThanWellFounded
<1>3. PICK x \in S : \A y \in S : ~(<<y, x>> \in OpToRel(<, Nat))
  BY <1>1, <1>2, WFMin, Zenon
<1>4. \A y \in S : x <= y
  <2>1. \A y \in S : y \in Nat /\ <<y, x>> \notin OpToRel(<, Nat)
    BY <1>1, <1>3
  <2>2. \A y \in Nat : <<y, x>> \notin OpToRel(<, Nat) => x <= y
    BY <1>1 DEF OpToRel
  <2> QED
    BY <2>1, <2>2
<1>5. ASSUME NEW j \in 1..(x - 1) PROVE conn[j] # "unused"
  <2>1. x \in 1..MaxClients
    BY DEF Client
  <2>2. j \in Client /\ ~(x <= j)
    BY <2>1 DEF Client
  <2> QED
    BY <2>2, <1>4
<1>6. \E k \in Client : conn[k] = "unused" /\ \A j \in 1..(k - 1) : conn[j] # "unused"
  BY <1>3, <1>5
<1> QED
  BY <1>6 DEF NewClient

\* The answers GetPeerClients waits for: one per client in the map.
LEMMA MappedCount ==
  ASSUME PeerInv
  PROVE  /\ Cardinality(Mapped) = Cardinality({p \in Peers : peerMap[p] # 0})
         /\ Cardinality(Mapped) \in 0..Cardinality(Peers)
<1> DEFINE S == {p \in Peers : peerMap[p] # 0}
           f == [p \in S |-> peerMap[p]]
<1>1. IsFiniteSet(S) /\ Cardinality(S) <= Cardinality(Peers)
  <2>1. S \subseteq Peers
    OBVIOUS
  <2> QED
    BY <2>1, FS_Subset
<1>2. f \in Bijection(S, Mapped)
  <2>1. f \in [S -> Mapped]
    BY DEF Mapped
  <2>2. \A a, b \in S : f[a] = f[b] => a = b
    BY DEF PeerInv, MapInv
  <2>3. \A m \in Mapped : \E a \in S : f[a] = m
    BY DEF Mapped
  <2> HIDE DEF f
  <2> QED
    BY <2>1, <2>2, <2>3 DEF Bijection, Injection, Surjection, IsInjective
<1>3. Cardinality(Mapped) = Cardinality(S)
  <2>1. ExistsBijection(S, Mapped)
    BY <1>2 DEF ExistsBijection
  <2> QED
    BY <1>1, <2>1, FS_Bijection
<1>4. Cardinality(S) \in Nat /\ Cardinality(Peers) \in Nat
  BY <1>1, FS_CardinalityType
<1> QED
  BY <1>1, <1>3, <1>4

\* The sum that wraps around is never more than the sum.
LEMMA WrapsDown ==
  ASSUME NEW a \in Nat, NEW m \in Nat \ {0}
  PROVE  a % m <= a /\ a % m \in Nat
OBVIOUS

-----------------------------------------------------------------------------
(* PeerClients: the map and the connections.                               *)

\* Steps that leave the map and the change under way alone.
LEMMA MapStands ==
  ASSUME MapInv, UNCHANGED mapVars, phase = "closed" <=> phase' = "closed"
  PROVE  MapInv'
<1>1. UNCHANGED <<peerMap, conn, write, replaced>>
  BY DEF mapVars
<1>2. Mapped' = Mapped
  BY <1>1 DEF Mapped
<1> QED
  BY <1>1, <1>2 DEF MapInv, ConnectionsMatchMap

\* A change of the map begins.
LEMMA BeginStep ==
  ASSUME MapInv, NEW op \in {"upsert", "remove"}, NEW p \in Peers, Begin(op, p),
         phase # "closed", phase' = phase
  PROVE  MapInv'
<1>1. UNCHANGED <<peerMap, conn, replaced>> /\ write' = [op |-> op, peer |-> p]
  BY DEF Begin
<1>2. Mapped' = Mapped
  BY <1>1 DEF Mapped
<1>3. write'.op = "upsert" => \E k \in Client : conn[k] = "unused"
  BY <1>1 DEF Begin
<1> QED
  BY <1>1, <1>2, <1>3 DEF MapInv, ConnectionsMatchMap

\* UpsertPeer puts a client into the map that was in no use.
LEMMA UpsertStep ==
  ASSUME PeerInv, NEW p \in Peers, UpsertPeer(p), write.op = "upsert", write' = Idle,
         phase # "closed", phase' = phase
  PROVE  MapInv' /\ peerMap' \in [Peers -> Client \cup {0}]
                 /\ conn' \in [Client -> {"unused", "open", "closed"}] /\ replaced' \in BOOLEAN
<1>1. PICK k \in Client : k = NewClient /\ conn[k] = "unused"
  BY NewClientIsNew DEF PeerInv, MapInv
<1>2. /\ peerMap' = [peerMap EXCEPT ![p] = k]
      /\ conn' = [conn EXCEPT ![k] = IF peerMap[p] # 0 THEN "closed" ELSE "open"]
      /\ replaced' = (replaced \/ peerMap[p] # 0)
  BY <1>1 DEF UpsertPeer
<1>3. /\ peerMap' \in [Peers -> Client \cup {0}] /\ replaced' \in BOOLEAN
      /\ conn' \in [Client -> {"unused", "open", "closed"}]
  BY <1>1, <1>2 DEF PeerInv, PeerTypeOK
<1>4. \A q \in Peers : peerMap[q] # k /\ (q # p => peerMap'[q] = peerMap[q])
  BY <1>1, <1>2 DEF PeerInv, PeerTypeOK, MapInv, Client
<1>5. peerMap'[p] = k /\ k # 0 /\ conn'[k] # "unused" /\ \A j \in Client \ {k} : conn'[j] = conn[j]
  BY <1>1, <1>2 DEF PeerInv, PeerTypeOK, Client
<1>6. /\ \A q \in Peers : peerMap'[q] # 0 => conn'[peerMap'[q]] # "unused"
      /\ \A q, r \in Peers : peerMap'[q] # 0 /\ peerMap'[q] = peerMap'[r] => q = r
  BY <1>4, <1>5 DEF PeerInv, PeerTypeOK, MapInv
<1>7. ~replaced' => Mapped' = Mapped \cup {k}
  <2> SUFFICES ASSUME ~replaced' PROVE Mapped' = Mapped \cup {k}
    OBVIOUS
  <2>1. peerMap[p] = 0
    BY <1>2
  <2>2. Mapped' \subseteq Mapped \cup {k}
    BY <1>4, <1>5 DEF Mapped
  <2>3. k \in Mapped'
    BY <1>5 DEF Mapped
  <2>4. Mapped \subseteq Mapped'
    BY <1>4, <2>1 DEF Mapped
  <2> QED
    BY <2>2, <2>3, <2>4
<1>8. ConnectionsMatchMap'
  <2> SUFFICES ASSUME ~replaced'
               PROVE  {j \in Client : conn'[j] = "open"} = Mapped'
    BY DEF ConnectionsMatchMap
  <2>1. ~replaced /\ conn'[k] = "open"
    BY <1>1, <1>2 DEF PeerInv, PeerTypeOK
  <2>2. {j \in Client : conn[j] = "open"} = Mapped
    BY <2>1 DEF PeerInv, MapInv, ConnectionsMatchMap
  <2> QED
    BY <1>1, <1>5, <1>7, <2>1, <2>2
<1>9. phase' # "closed" /\ write'.op # "upsert"
  BY DEF Idle
<1> QED
  BY <1>3, <1>6, <1>8, <1>9 DEF MapInv

\* RemovePeer closes the client it takes out.
LEMMA RemoveStep ==
  ASSUME PeerInv, NEW p \in Peers, RemovePeer(p), write' = Idle,
         phase # "closed", phase' = phase
  PROVE  MapInv' /\ peerMap' \in [Peers -> Client \cup {0}]
                 /\ conn' \in [Client -> {"unused", "open", "closed"}] /\ replaced' \in BOOLEAN
<1>1. /\ peerMap' = [peerMap EXCEPT ![p] = 0] /\ UNCHANGED replaced
      /\ conn' = [k \in Client |-> IF k = peerMap[p] THEN "closed" ELSE conn[k]]
  BY DEF RemovePeer, Closed
<1>2. /\ peerMap' \in [Peers -> Client \cup {0}] /\ replaced' \in BOOLEAN
      /\ conn' \in [Client -> {"unused", "open", "closed"}]
  BY <1>1 DEF PeerInv, PeerTypeOK
<1>3. peerMap'[p] = 0 /\ \A q \in Peers \ {p} : peerMap'[q] = peerMap[q]
  BY <1>1 DEF PeerInv, PeerTypeOK
<1>4. \A k \in Client : conn'[k] = IF k = peerMap[p] THEN "closed" ELSE conn[k]
  BY <1>1
<1>5. /\ \A q \in Peers : peerMap'[q] # 0 => conn'[peerMap'[q]] # "unused"
      /\ \A q, r \in Peers : peerMap'[q] # 0 /\ peerMap'[q] = peerMap'[r] => q = r
  BY <1>3, <1>4 DEF PeerInv, PeerTypeOK, MapInv
<1>6. Mapped' = Mapped \ {peerMap[p]}
  BY <1>3 DEF PeerInv, MapInv, Mapped
<1>7. ConnectionsMatchMap'
  <2> SUFFICES ASSUME ~replaced
               PROVE  {k \in Client : conn'[k] = "open"} = Mapped'
    BY <1>1 DEF ConnectionsMatchMap
  <2>1. {k \in Client : conn[k] = "open"} = Mapped
    BY DEF PeerInv, MapInv, ConnectionsMatchMap
  <2> QED
    BY <1>4, <1>6, <2>1
<1>8. phase' # "closed" /\ write'.op # "upsert"
  BY DEF Idle
<1> QED
  BY <1>2, <1>5, <1>7, <1>8 DEF MapInv

LEMMA ChangeMapStep ==
  ASSUME PeerInv, ChangeMap
  PROVE  PeerInv'
<1>1. /\ write # Idle /\ write' = Idle /\ UNCHANGED <<phase, todo, remote, out>>
      /\ phase # "closed" /\ write \in [op : {"upsert", "remove"}, peer : Peers]
  BY DEF PeerInv, PeerTypeOK, MapInv, ChangeMap, startVars
<1>2. write.peer \in Peers
  BY <1>1
<1>3. /\ MapInv' /\ peerMap' \in [Peers -> Client \cup {0}]
      /\ conn' \in [Client -> {"unused", "open", "closed"}] /\ replaced' \in BOOLEAN
  BY <1>1, <1>2, UpsertStep, RemoveStep DEF ChangeMap
<1>4. progress' \in [Peers -> {"none", "live", "snapshot"}]
  BY <1>2 DEF PeerInv, PeerTypeOK, ChangeMap
<1> QED
  BY <1>1, <1>3, <1>4 DEF PeerInv, PeerTypeOK

LEMMA StartStepKeeps ==
  ASSUME PeerInv, StartStep
  PROVE  PeerInv'
<1>1. CASE \E p \in todo : LoadStoredPeer(p) \/ DiscoverPeer(p)
  <2>1. PICK p \in todo : LoadStoredPeer(p) \/ DiscoverPeer(p)
    BY <1>1
  <2>2. p \in Peers /\ Begin("upsert", p) /\ UNCHANGED <<phase, remote, progress, out>>
        /\ todo' \subseteq Peers /\ phase # "closed"
    BY <2>1 DEF PeerInv, PeerTypeOK, LoadStoredPeer, DiscoverPeer, raftVars
  <2>3. UNCHANGED <<peerMap, conn, replaced>> /\ write' \in [op : {"upsert", "remove"}, peer : Peers]
    BY <2>2 DEF Begin
  <2>4. MapInv'
    BY <2>2, BeginStep DEF PeerInv
  <2> QED
    BY <2>2, <2>3, <2>4 DEF PeerInv, PeerTypeOK
<1>2. CASE (\E p \in todo : PassOverPeer(p)) \/ Loaded \/ StartLoop
  <2>1. UNCHANGED mapVars /\ phase # "closed" /\ phase' # "closed"
    BY <1>2 DEF PassOverPeer, Loaded, StartLoop
  <2>2. MapInv'
    BY <2>1, MapStands DEF PeerInv
  <2>3. PeerTypeOK'
    BY <1>2 DEF PeerInv, PeerTypeOK, PassOverPeer, Loaded, StartLoop, mapVars, raftVars
  <2> QED
    BY <2>2, <2>3 DEF PeerInv
<1> QED
  BY <1>1, <1>2 DEF StartStep

LEMMA SendStepKeeps ==
  ASSUME PeerInv, SendStep
  PROVE  PeerInv'
<1>1. UNCHANGED mapVars /\ UNCHANGED <<phase, todo, remote>> /\ out # << >> /\ out' = Tail(out)
  BY DEF SendStep, NoClient, SendMessage, startVars
<1>2. Head(out) \in Message /\ out' \in Seq(Message)
  BY <1>1 DEF PeerInv, PeerTypeOK
<1>3. \A pr \in [Peers -> {"none", "live", "snapshot"}], q \in Peers :
        ReportSnapshot(pr, q) \in [Peers -> {"none", "live", "snapshot"}]
  BY DEF ReportSnapshot
<1>4. progress' \in [Peers -> {"none", "live", "snapshot"}]
  BY <1>2, <1>3 DEF PeerInv, PeerTypeOK, SendStep, NoClient, SendMessage, Sent, ReportUnreachable,
         Message
<1>5. MapInv'
  BY <1>1, MapStands DEF PeerInv
<1> QED
  BY <1>1, <1>2, <1>4, <1>5 DEF PeerInv, PeerTypeOK, mapVars

LEMMA TakeReadyStep ==
  ASSUME PeerInv, NEW msgs \in Batch, TakeReady(msgs)
  PROVE  PeerInv'
<1>1. UNCHANGED mapVars /\ UNCHANGED <<phase, todo, remote>> /\ out' = msgs
  BY DEF TakeReady, startVars
<1>2. msgs \in Seq(Message)
  <2>1. CASE msgs \in {<<m>> : m \in Message}
    <3>1. PICK m \in Message : msgs = <<m>>
      BY <2>1
    <3>2. <<m>> \in Seq(Message)
      OBVIOUS
    <3> QED
      BY <3>1, <3>2
  <2>2. CASE msgs \in Message \X Message
    <3>1. PICK m \in Message, n \in Message : msgs = <<m, n>>
      BY <2>2
    <3>2. <<m, n>> \in Seq(Message)
      OBVIOUS
    <3> QED
      BY <3>1, <3>2
  <2> QED
    BY <2>1, <2>2 DEF Batch
<1>3. progress' \in [Peers -> {"none", "live", "snapshot"}]
  BY DEF PeerInv, PeerTypeOK, TakeReady
<1>4. MapInv'
  BY <1>1, MapStands DEF PeerInv
<1> QED
  BY <1>1, <1>2, <1>3, <1>4 DEF PeerInv, PeerTypeOK, mapVars

LEMMA ConfChangeStep ==
  ASSUME PeerInv, NEW op \in {"upsert", "remove"}, NEW p \in Peers, ConfChange(op, p)
  PROVE  PeerInv'
<1>1. Begin(op, p) /\ UNCHANGED <<phase, todo, remote, progress, out>> /\ phase # "closed"
  BY DEF ConfChange, startVars
<1>2. UNCHANGED <<peerMap, conn, replaced>> /\ write' \in [op : {"upsert", "remove"}, peer : Peers]
  BY <1>1 DEF Begin
<1>3. MapInv'
  BY <1>1, BeginStep DEF PeerInv
<1> QED
  BY <1>1, <1>2, <1>3 DEF PeerInv, PeerTypeOK

\* Close leaves no connection open that the map knows.
LEMMA LoopEndsStep ==
  ASSUME PeerInv, LoopEnds
  PROVE  PeerInv'
<1>1. /\ phase = "loop" /\ phase' = "closed" /\ write = Idle
      /\ UNCHANGED <<peerMap, write, replaced, todo, remote, progress, out>>
      /\ conn' = [k \in Client |-> IF k \in Mapped THEN "closed" ELSE conn[k]]
  BY DEF LoopEnds, Close, Closed, raftVars
<1>2. PeerTypeOK'
  BY <1>1 DEF PeerInv, PeerTypeOK
<1>3. \A k \in Client : conn'[k] = IF k \in Mapped THEN "closed" ELSE conn[k]
  BY <1>1
<1>4. ConnectionsMatchMap'
  BY <1>1, <1>3 DEF PeerInv, MapInv, ConnectionsMatchMap
<1>5. write'.op # "upsert"
  BY <1>1 DEF Idle
<1>6. \A p \in Peers : peerMap'[p] # 0 => conn'[peerMap'[p]] # "unused"
  BY <1>1, <1>3 DEF PeerInv, PeerTypeOK, MapInv
<1> QED
  BY <1>1, <1>2, <1>4, <1>5, <1>6 DEF PeerInv, MapInv

LEMMA RemoteChangesStep ==
  ASSUME PeerInv, NEW p \in Peers, NEW st \in {"down", "starting", "running"}, RemoteChanges(p, st)
  PROVE  PeerInv'
<1>1. UNCHANGED mapVars /\ UNCHANGED <<phase, todo, progress, out>>
  BY DEF RemoteChanges, startVars, raftVars
<1>2. MapInv'
  BY <1>1, MapStands DEF PeerInv
<1> QED
  BY <1>1, <1>2 DEF PeerInv, PeerTypeOK, RemoteChanges, mapVars

LEMMA PeerNextKeeps ==
  ASSUME PeerInv, PeerNext
  PROVE  PeerInv'
BY StartStepKeeps, ChangeMapStep, SendStepKeeps, LoopEndsStep, TakeReadyStep, ConfChangeStep,
   RemoteChangesStep DEF PeerNext

\* The steps of the cluster and of the calls leave the map alone.
LEMMA PeersStand ==
  ASSUME PeerInv, UNCHANGED <<mapVars, todo, remote, raftVars>>,
         phase' = phase \/ (phase' = "dead" /\ write # Idle)
  PROVE  PeerInv'
<1>1. phase = "closed" <=> phase' = "closed"
  BY DEF PeerInv, MapInv
<1>2. MapInv'
  BY <1>1, MapStands DEF PeerInv
<1> QED
  BY <1>2 DEF PeerInv, PeerTypeOK, mapVars, raftVars

-----------------------------------------------------------------------------
(* Health: the cluster and the calls.                                      *)

\* Steps that leave the calls alone and take nothing back in the cluster.
LEMMA CallsStand ==
  ASSUME CallTypeOK, RoutineInv, UNCHANGED callVars
  PROVE  RoutineInv' /\ (steady' \in [Calls -> BOOLEAN] => CallTypeOK')
<1>1. UNCHANGED <<call, threshold, asked, routine, answer, left, leaderAt, expired, result, floor>>
  BY DEF callVars
<1>2. \A c \in Calls : Active(c)' = Active(c)
  BY <1>1 DEF Active
<1> QED
  BY <1>1, <1>2 DEF RoutineInv, CallTypeOK

LEMMA PeerStep ==
  ASSUME IInv, PeerNext, UNCHANGED <<clusterVars, callVars, steady>>
  PROVE  IInv'
<1>1. PeerInv'
  BY PeerNextKeeps DEF IInv, TypeOK, PeerInv
<1>2. /\ UNCHANGED <<applied, leads, leader, steady>>
      /\ UNCHANGED <<call, threshold, asked, routine, answer, left, leaderAt, expired, result, floor>>
  BY DEF clusterVars, callVars
<1>3. RoutineInv' /\ CallTypeOK'
  BY <1>2, CallsStand DEF IInv, CallTypeOK
<1>4. SteadyInv'
  BY <1>2 DEF IInv, SteadyInv
<1> QED
  BY <1>1, <1>2, <1>3, <1>4 DEF IInv, TypeOK, PeerInv

LEMMA ApplyStep ==
  ASSUME IInv, NEW n \in Node, Apply(n)
  PROVE  IInv'
<1>1. /\ applied' = [applied EXCEPT ![n] = @ + 1] /\ applied[n] < MaxApplied
      /\ UNCHANGED <<leads, leader, steady>> /\ UNCHANGED callVars
      /\ UNCHANGED <<phase, todo, remote>> /\ UNCHANGED <<mapVars, raftVars>>
  BY DEF Apply, peerFixed, startVars
<1>2. PeerInv'
  BY <1>1, PeersStand DEF IInv, TypeOK, PeerInv
<1>3. RoutineInv' /\ CallTypeOK'
  BY <1>1, CallsStand DEF IInv, CallTypeOK
<1>4. applied' \in [Node -> 0..MaxApplied] /\ \A m \in Node : applied[m] <= applied'[m]
  BY <1>1 DEF IInv, TypeOK
<1>5. TypeOK'
  BY <1>1, <1>2, <1>4 DEF IInv, TypeOK, PeerInv, callVars
<1>6. SteadyInv'
  <2>1. leader \in Node /\ Self \in Node
    BY DEF IInv, TypeOK, Node
  <2>2. applied[leader] <= applied'[leader] /\ applied[Self] <= applied'[Self]
    BY <1>4, <2>1
  <2>3. /\ applied[leader] \in Nat /\ applied'[leader] \in Nat
        /\ applied[Self] \in Nat /\ applied'[Self] \in Nat
        /\ \A c \in Calls : floor[c] \in Nat /\ threshold[c] \in Nat
    BY <1>4, <2>1 DEF IInv, TypeOK, CallTypeOK
  <2> QED
    BY <1>1, <2>2, <2>3 DEF IInv, SteadyInv, callVars
<1> QED
  BY <1>2, <1>3, <1>5, <1>6 DEF IInv, PeerInv

LEMMA ElectionStep ==
  ASSUME IInv, NEW n \in Node, Elect(n) \/ StepDown(n)
  PROVE  IInv'
<1>1. /\ UNCHANGED applied /\ UNCHANGED callVars
      /\ UNCHANGED <<phase, todo, remote>> /\ UNCHANGED <<mapVars, raftVars>>
  BY DEF Elect, StepDown, peerFixed, startVars
<1>2. PeerInv'
  BY <1>1, PeersStand DEF IInv, TypeOK, PeerInv
<1>3. /\ leader' \in Node /\ leads' \in [Node -> BOOLEAN]
      /\ steady' \in [Calls -> BOOLEAN]
  BY DEF IInv, TypeOK, CallTypeOK, Elect, StepDown
<1>4. RoutineInv' /\ CallTypeOK'
  BY <1>1, <1>3, CallsStand DEF IInv
<1>5. TypeOK'
  BY <1>1, <1>2, <1>3 DEF IInv, TypeOK, PeerInv, callVars
<1>6. SteadyInv'
  <2>1. CASE Elect(n)
    BY <2>1 DEF Elect, SteadyInv
  <2>2. CASE StepDown(n)
    <3>1. UNCHANGED <<leader, steady>> /\ \A m \in Node : leads'[m] => leads[m]
      BY <2>2 DEF IInv, TypeOK, StepDown
    <3> QED
      BY <1>1, <3>1 DEF IInv, SteadyInv, callVars
  <2> QED
    BY <2>1, <2>2
<1> QED
  BY <1>2, <1>4, <1>5, <1>6 DEF IInv, PeerInv

LEMMA CheckHealthStep ==
  ASSUME IInv, NEW c \in Calls, NEW t \in Thresholds, CheckHealth(c, t)
  PROVE  IInv'
<1>1. /\ UNCHANGED <<applied, leads, leader>> /\ UNCHANGED <<phase, todo, remote>>
      /\ UNCHANGED <<mapVars, raftVars>>
  BY DEF CheckHealth, peerVars, startVars, clusterVars
<1>2. PeerInv'
  BY <1>1, PeersStand DEF IInv, TypeOK, PeerInv
<1>a. /\ call[c] = "idle" /\ t \in Nat /\ applied[leader] \in Nat
      /\ \/ call' = [call EXCEPT ![c] = "done"] /\ result' = [result EXCEPT ![c] = "leader"]
         \/ call' = [call EXCEPT ![c] = "collect"] /\ result' = [result EXCEPT ![c] = "none"]
      /\ threshold' = [threshold EXCEPT ![c] = t]
      /\ floor' = [floor EXCEPT ![c] = applied[leader]]
      /\ steady' = [steady EXCEPT ![c] = \A n \in Node : leads[n] => n = leader]
      /\ UNCHANGED <<asked, routine, answer, left, leaderAt, expired>>
  <2>1. t \in Nat /\ applied[leader] \in Nat
    BY DEF IInv, TypeOK
  <2>2. CASE RaftStatus.leads
    BY <2>1, <2>2 DEF CheckHealth
  <2>3. CASE ~RaftStatus.leads
    BY <2>1, <2>3 DEF CheckHealth
  <2> QED
    BY <2>2, <2>3
<1>3. TypeOK' /\ CallTypeOK'
  BY <1>1, <1>2, <1>a DEF IInv, TypeOK, CallTypeOK, PeerInv, CheckHealth
<1>4. RoutineInv'
  <2>1. \A d \in Calls : Active(d)' = Active(d)
    BY <1>a DEF Active
  <2>2. Active(c) = {}
    BY <1>a DEF IInv, RoutineInv, Active
  <2>3. /\ call'[c] \in {"done", "collect"} /\ result'[c] \in {"none", "leader"}
        /\ result'[c] # "none" => call'[c] = "done"
        /\ \A d \in Calls \ {c} : call'[d] = call[d] /\ result'[d] = result[d]
    BY <1>a DEF IInv, TypeOK, CallTypeOK
  <2>4. ASSUME NEW d \in Calls, d # c
        PROVE  /\ call'[d] \in {"idle", "collect"} => \A p \in Peers : routine'[d][p] = "none"
               /\ call'[d] = "receive" => left'[d] = Cardinality(Active(d)')
               /\ result'[d] # "none" => call'[d] = "done"
               /\ result'[d] \in {"leader", "noLeader"} => Active(d)' = {}
    BY <1>a, <2>1, <2>3, <2>4 DEF IInv, RoutineInv
  <2>5. \A p \in Peers : routine'[c][p] = "none"
    BY <1>a DEF IInv, RoutineInv
  <2> QED
    BY <2>1, <2>2, <2>3, <2>4, <2>5 DEF RoutineInv
<1>5. SteadyInv'
  BY <1>1, <1>a DEF IInv, TypeOK, CallTypeOK, RoutineInv, SteadyInv
<1> QED
  BY <1>2, <1>3, <1>4, <1>5 DEF IInv, PeerInv

LEMMA GetPeerClientsStep ==
  ASSUME IInv, NEW c \in Calls, GetPeerClients(c)
  PROVE  IInv'
<1>1. /\ UNCHANGED <<applied, leads, leader>> /\ UNCHANGED <<phase, todo, remote>>
      /\ UNCHANGED <<mapVars, raftVars>>
  BY DEF GetPeerClients, peerVars, startVars, clusterVars
<1>2. PeerInv'
  BY <1>1, PeersStand DEF IInv, TypeOK, PeerInv
<1>a. /\ call[c] = "collect"
      /\ routine' = [routine EXCEPT ![c] = [p \in Peers |-> IF peerMap[p] = 0 THEN "none" ELSE "rpc"]]
      /\ left' = [left EXCEPT ![c] = Cardinality(Mapped)]
      /\ call' = [call EXCEPT ![c] = "receive"]
      /\ UNCHANGED <<threshold, answer, leaderAt, expired, result, floor, steady>>
  BY DEF GetPeerClients
<1>b. /\ routine' \in [Calls -> [Peers -> {"none", "rpc", "send", "ended"}]]
      /\ \A p \in Peers : routine'[c][p] = (IF peerMap[p] = 0 THEN "none" ELSE "rpc")
      /\ left' \in [Calls -> 0..Cardinality(Peers)]
  BY <1>a, MappedCount DEF IInv, TypeOK, PeerInv
<1>3. TypeOK' /\ CallTypeOK'
  BY <1>1, <1>2, <1>a, <1>b DEF IInv, TypeOK, CallTypeOK, PeerInv
<1>4. RoutineInv'
  <2>1. Active(c)' = {p \in Peers : peerMap[p] # 0}
    BY <1>a, <1>b DEF IInv, TypeOK, Active
  <2>2. \A d \in Calls \ {c} : Active(d)' = Active(d)
    BY <1>a DEF IInv, TypeOK, Active
  <2>3. left'[c] = Cardinality(Active(c)')
    BY <1>a, <2>1, MappedCount DEF IInv, TypeOK, PeerInv
  <2>4. result[c] = "none"
    BY <1>a DEF IInv, RoutineInv
  <2> QED
    BY <1>a, <2>2, <2>3, <2>4 DEF IInv, TypeOK, RoutineInv
<1>5. SteadyInv'
  BY <1>1, <1>a, <1>b DEF IInv, TypeOK, RoutineInv, SteadyInv
<1> QED
  BY <1>2, <1>3, <1>4, <1>5 DEF IInv, PeerInv

LEMMA AskedStep ==
  ASSUME IInv, NEW c \in Calls, NEW p \in Peers, RoutineStep(c, p)
  PROVE  IInv'
<1>1. /\ UNCHANGED <<applied, leads, leader>> /\ UNCHANGED <<phase, todo, remote>>
      /\ UNCHANGED <<mapVars, raftVars>>
  BY DEF RoutineStep, Answered, AskFails, peerVars, startVars, clusterVars
<1>2. PeerInv'
  BY <1>1, PeersStand DEF IInv, TypeOK, PeerInv
<1>a. PICK a \in {NoAnswer, [leads |-> leads[p], applied |-> applied[p]]} :
        /\ routine[c][p] = "rpc"
        /\ routine' = [routine EXCEPT ![c][p] = "send"]
        /\ answer' = [answer EXCEPT ![c][p] = a]
        /\ UNCHANGED <<call, threshold, asked, left, leaderAt, expired, result, floor, steady>>
  BY DEF RoutineStep, Answered, AskFails, Progress
<1>b. /\ routine' \in [Calls -> [Peers -> {"none", "rpc", "send", "ended"}]]
      /\ answer' \in [Calls -> [Peers -> [leads : BOOLEAN, applied : 0..MaxApplied]]]
  <2>1. a \in [leads : BOOLEAN, applied : 0..MaxApplied]
    <3>1. p \in Node
      BY DEF Node
    <3>2. /\ NoAnswer \in [leads : BOOLEAN, applied : 0..MaxApplied]
          /\ [leads |-> leads[p], applied |-> applied[p]] \in [leads : BOOLEAN, applied : 0..MaxApplied]
      BY <3>1 DEF IInv, TypeOK, NoAnswer
    <3> QED
      BY <3>2
  <2> QED
    BY <1>a, <2>1 DEF IInv, TypeOK, CallTypeOK
<1>c. call[c] \notin {"idle", "collect"}
  BY <1>a DEF IInv, RoutineInv
<1>3. TypeOK' /\ CallTypeOK'
  BY <1>1, <1>2, <1>a, <1>b DEF IInv, TypeOK, CallTypeOK, PeerInv
<1>4. RoutineInv'
  <2>1. \A d \in Calls : Active(d)' = Active(d)
    BY <1>a DEF IInv, TypeOK, Active
  <2> QED
    BY <1>a, <1>c, <2>1 DEF IInv, RoutineInv
<1>5. SteadyInv'
  <2>1. steady[c] /\ a.leads => floor[c] <= a.applied
    <3>1. CASE a = NoAnswer
      BY <3>1 DEF NoAnswer
    <3>2. CASE a = [leads |-> leads[p], applied |-> applied[p]]
      <4>1. p \in Node
        BY DEF Node
      <4> QED
        BY <3>2, <4>1 DEF IInv, SteadyInv
    <3> QED
      BY <3>1, <3>2, <1>a
  <2>2. \A d \in Calls, q \in Peers :
          \/ d = c /\ q = p /\ answer'[d][q] = a
          \/ answer'[d][q] = answer[d][q] /\ routine'[d][q] = routine[d][q]
    BY <1>a DEF IInv, TypeOK, CallTypeOK
  <2> QED
    BY <1>1, <1>a, <2>1, <2>2 DEF IInv, SteadyInv
<1> QED
  BY <1>2, <1>3, <1>4, <1>5 DEF IInv, PeerInv

LEMMA ReceiveStep ==
  ASSUME IInv, NEW c \in Calls, NEW p \in Peers, Receive(c, p)
  PROVE  IInv'
<1>1. /\ UNCHANGED <<applied, leads, leader>> /\ UNCHANGED <<phase, todo, remote>>
      /\ UNCHANGED <<mapVars, raftVars>>
  BY DEF Receive, peerVars, startVars, clusterVars
<1>2. PeerInv'
  BY <1>1, PeersStand DEF IInv, TypeOK, PeerInv
<1>a. /\ call[c] = "receive" /\ left[c] > 0 /\ routine[c][p] = "send"
      /\ routine' = [routine EXCEPT ![c][p] = "ended"]
      /\ left' = [left EXCEPT ![c] = @ - 1]
      /\ \/ /\ answer[c][p].leads /\ call' = [call EXCEPT ![c] = "compare"]
            /\ leaderAt' = [leaderAt EXCEPT ![c] = answer[c][p].applied]
         \/ UNCHANGED <<call, leaderAt>>
      /\ UNCHANGED <<threshold, asked, answer, expired, result, floor, steady>>
  BY DEF Receive, IsLeader
<1>b. /\ left' \in [Calls -> 0..Cardinality(Peers)] /\ answer[c][p].applied \in 0..MaxApplied
      /\ routine' \in [Calls -> [Peers -> {"none", "rpc", "send", "ended"}]]
  <2>1. Cardinality(Peers) \in Nat
    BY FS_CardinalityType
  <2> QED
    BY <1>a, <2>1 DEF IInv, TypeOK, CallTypeOK
<1>3. TypeOK' /\ CallTypeOK'
  BY <1>1, <1>2, <1>a, <1>b DEF IInv, TypeOK, CallTypeOK, PeerInv
<1>4. RoutineInv'
  <2>1. Active(c)' = Active(c) \ {p} /\ p \in Active(c)
    BY <1>a DEF IInv, TypeOK, Active
  <2>2. \A d \in Calls \ {c} : Active(d)' = Active(d)
    BY <1>a DEF IInv, TypeOK, Active
  <2>3. IsFiniteSet(Active(c))
    <3>1. Active(c) \subseteq Peers
      BY DEF Active
    <3> QED
      BY <3>1, FS_Subset
  <2>4. Cardinality(Active(c)') = Cardinality(Active(c)) - 1
    BY <2>1, <2>3, FS_RemoveElement
  <2>5. left'[c] = Cardinality(Active(c)')
    BY <1>a, <2>4 DEF IInv, TypeOK, RoutineInv
  <2>6. result[c] = "none"
    BY <1>a DEF IInv, RoutineInv
  <2> QED
    BY <1>a, <2>2, <2>5, <2>6 DEF IInv, TypeOK, RoutineInv
<1>5. SteadyInv'
  <2>1. \A d \in Calls, q \in Peers :
          routine'[d][q] = routine[d][q] \/ (d = c /\ q = p /\ routine[d][q] = "send")
    BY <1>a DEF IInv, TypeOK
  <2>2. steady[c] /\ call'[c] = "compare" => floor[c] <= leaderAt'[c]
    BY <1>a DEF IInv, TypeOK, SteadyInv
  <2>3. \A d \in Calls \ {c} : call'[d] = call[d] /\ leaderAt'[d] = leaderAt[d]
    BY <1>a DEF IInv, TypeOK
  <2> QED
    BY <1>1, <1>a, <2>1, <2>2, <2>3 DEF IInv, SteadyInv
<1> QED
  BY <1>2, <1>3, <1>4, <1>5 DEF IInv, PeerInv

LEMMA NoLeaderStep ==
  ASSUME IInv, NEW c \in Calls, NoLeader(c)
  PROVE  IInv'
<1>1. /\ UNCHANGED <<applied, leads, leader>> /\ UNCHANGED <<phase, todo, remote>>
      /\ UNCHANGED <<mapVars, raftVars>>
  BY DEF NoLeader, peerVars, startVars, clusterVars
<1>2. PeerInv'
  BY <1>1, PeersStand DEF IInv, TypeOK, PeerInv
<1>a. /\ call[c] = "receive" /\ left[c] = 0
      /\ call' = [call EXCEPT ![c] = "done"] /\ result' = [result EXCEPT ![c] = "noLeader"]
      /\ UNCHANGED <<threshold, asked, routine, answer, left, leaderAt, expired, floor, steady>>
  BY DEF NoLeader
<1>3. TypeOK' /\ CallTypeOK'
  BY <1>1, <1>2, <1>a DEF IInv, TypeOK, CallTypeOK, PeerInv
<1>4. RoutineInv'
  <2>1. \A d \in Calls : Active(d)' = Active(d)
    BY <1>a DEF Active
  <2>2. Active(c) = {}
    <3>1. IsFiniteSet(Active(c))
      <4>1. Active(c) \subseteq Peers
        BY DEF Active
      <4> QED
        BY <4>1, FS_Subset
    <3>2. Cardinality(Active(c)) = 0
      BY <1>a DEF IInv, RoutineInv
    <3> QED
      BY <3>1, <3>2, FS_EmptySet
  <2> QED
    BY <1>a, <2>1, <2>2 DEF IInv, TypeOK, RoutineInv
<1>5. SteadyInv'
  BY <1>1, <1>a DEF IInv, TypeOK, SteadyInv
<1> QED
  BY <1>2, <1>3, <1>4, <1>5 DEF IInv, PeerInv

LEMMA CompareStep ==
  ASSUME IInv, NEW c \in Calls, Compare(c)
  PROVE  IInv'
<1>1. /\ UNCHANGED <<applied, leads, leader>> /\ UNCHANGED <<phase, todo, remote>>
      /\ UNCHANGED <<mapVars, raftVars>>
  BY DEF Compare, peerVars, startVars, clusterVars
<1>2. PeerInv'
  BY <1>1, PeersStand DEF IInv, TypeOK, PeerInv
<1>a. /\ call[c] = "compare" /\ call' = [call EXCEPT ![c] = "done"]
      /\ result' = [result EXCEPT ![c] = IF leaderAt[c] > (RaftStatus.applied + threshold[c]) % Modulus
                                        THEN "behind" ELSE "healthy"]
      /\ UNCHANGED <<threshold, asked, routine, answer, left, leaderAt, expired, floor, steady>>
  BY DEF Compare
<1>3. TypeOK' /\ CallTypeOK'
  BY <1>1, <1>2, <1>a DEF IInv, TypeOK, CallTypeOK, PeerInv
<1>4. RoutineInv'
  <2>1. \A d \in Calls : Active(d)' = Active(d)
    BY <1>a DEF Active
  <2> QED
    BY <1>a, <2>1 DEF IInv, TypeOK, RoutineInv
<1>5. SteadyInv'
  <2>1. steady[c] /\ result'[c] = "healthy" => floor[c] <= applied[Self] + threshold[c]
    <3> SUFFICES ASSUME steady[c], result'[c] = "healthy"
                 PROVE  floor[c] <= applied[Self] + threshold[c]
      OBVIOUS
    <3>1. /\ applied[Self] \in Nat /\ threshold[c] \in Nat /\ floor[c] \in Nat /\ leaderAt[c] \in Nat
          /\ RaftStatus.applied \in Nat /\ RaftStatus.applied <= applied[Self]
      BY DEF IInv, TypeOK, CallTypeOK, Node, RaftStatus, NoAnswer
    <3> DEFINE sum == RaftStatus.applied + threshold[c]
    <3>2. sum \in Nat /\ sum <= applied[Self] + threshold[c]
      BY <3>1
    <3>3. ~(leaderAt[c] > sum % Modulus)
      BY <1>a DEF IInv, TypeOK
    <3> HIDE DEF sum
    <3>4. sum % Modulus <= sum /\ sum % Modulus \in Nat
      BY <3>2, WrapsDown
    <3>5. floor[c] <= leaderAt[c]
      BY <1>a DEF IInv, SteadyInv
    <3> QED
      BY <3>1, <3>2, <3>3, <3>4, <3>5
  <2> QED
    BY <1>1, <1>a, <2>1 DEF IInv, TypeOK, SteadyInv
<1> QED
  BY <1>2, <1>3, <1>4, <1>5 DEF IInv, PeerInv

LEMMA ExpireStep ==
  ASSUME IInv, NEW c \in Calls, Expire(c)
  PROVE  IInv'
<1>1. /\ UNCHANGED <<applied, leads, leader>> /\ UNCHANGED <<phase, todo, remote>>
      /\ UNCHANGED <<mapVars, raftVars>>
  BY DEF Expire, peerVars, startVars, clusterVars
<1>2. PeerInv'
  BY <1>1, PeersStand DEF IInv, TypeOK, PeerInv
<1>a. /\ expired' = [expired EXCEPT ![c] = TRUE]
      /\ UNCHANGED <<call, threshold, asked, routine, answer, left, leaderAt, result, floor, steady>>
  BY DEF Expire
<1>3. TypeOK' /\ CallTypeOK'
  BY <1>1, <1>2, <1>a DEF IInv, TypeOK, CallTypeOK, PeerInv
<1>4. RoutineInv'
  <2>1. \A d \in Calls : Active(d)' = Active(d)
    BY <1>a DEF Active
  <2> QED
    BY <1>a, <2>1 DEF IInv, RoutineInv
<1>5. SteadyInv'
  BY <1>1, <1>a DEF IInv, SteadyInv
<1> QED
  BY <1>2, <1>3, <1>4, <1>5 DEF IInv, PeerInv

LEMMA MapRaceStep ==
  ASSUME IInv, NEW c \in Calls, MapRace(c)
  PROVE  IInv'
<1>1. /\ phase' = "dead" /\ write # Idle /\ UNCHANGED <<applied, leads, leader, steady>>
      /\ UNCHANGED callVars /\ UNCHANGED <<todo, remote>> /\ UNCHANGED <<mapVars, raftVars>>
  BY DEF MapRace, clusterVars
<1>2. PeerInv'
  BY <1>1, PeersStand DEF IInv, TypeOK, PeerInv
<1>3. RoutineInv' /\ CallTypeOK'
  BY <1>1, CallsStand DEF IInv, CallTypeOK
<1>4. TypeOK' /\ SteadyInv'
  BY <1>1, <1>2 DEF IInv, TypeOK, PeerInv, SteadyInv, callVars
<1> QED
  BY <1>2, <1>3, <1>4 DEF IInv, PeerInv

-----------------------------------------------------------------------------
(* The theorems.                                                           *)

\* Every state of the node's clients and of the calls is of the kind IInv
\* describes, whatever peers come and go, leaders change and calls meet.
THEOREM InductiveInvariant == Spec => []IInv
<1>1. Init => IInv
  <2> SUFFICES ASSUME Init PROVE IInv
    OBVIOUS
  <2>1. PeerTypeOK
    <3>1. replaced \in BOOLEAN /\ write = Idle
      BY DEF Init, PeerInit
    <3> QED
      BY <3>1 DEF Init, PeerInit, PeerTypeOK
  <2>2. MapInv
    <3>1. Mapped = {}
      BY DEF Init, PeerInit, Mapped
    <3>2. {k \in Client : conn[k] = "open"} = {}
      BY DEF Init, PeerInit
    <3> QED
      BY <3>1, <3>2 DEF Init, PeerInit, MapInv, ConnectionsMatchMap, Idle
  <2>3. TypeOK /\ CallTypeOK
    <3>1. Cardinality(Peers) \in Nat
      BY FS_CardinalityType
    <3>2. leads \in [Node -> BOOLEAN] /\ steady \in [Calls -> BOOLEAN] /\ expired \in [Calls -> BOOLEAN]
      BY DEF Init
    <3>3. NoAnswer \in [leads : BOOLEAN, applied : 0..MaxApplied]
      BY DEF NoAnswer
    <3> QED
      BY <2>1, <3>1, <3>2, <3>3 DEF Init, TypeOK, CallTypeOK
  <2>4. RoutineInv /\ SteadyInv
    BY DEF Init, RoutineInv, SteadyInv
  <2> QED
    BY <2>2, <2>3, <2>4 DEF IInv
<1>2. IInv /\ [Next]_vars => IInv'
  <2> SUFFICES ASSUME IInv, [Next]_vars PROVE IInv'
    OBVIOUS
  <2>1. CASE PeerNext /\ UNCHANGED <<clusterVars, callVars, steady>>
    BY <2>1, PeerStep
  <2>2. CASE \E n \in Node : Apply(n) \/ Elect(n) \/ StepDown(n)
    BY <2>2, ApplyStep, ElectionStep
  <2>3. CASE \E c \in Calls : \/ \E t \in Thresholds : CheckHealth(c, t)
                            \/ HandlerStep(c) \/ \E p \in Peers : RoutineStep(c, p)
    BY <2>3, CheckHealthStep, GetPeerClientsStep, AskedStep, ReceiveStep, NoLeaderStep,
       CompareStep, ExpireStep, MapRaceStep DEF HandlerStep
  <2>4. CASE UNCHANGED vars
    <3>1. /\ UNCHANGED <<applied, leads, leader, steady>> /\ UNCHANGED callVars
          /\ UNCHANGED <<phase, todo, remote>> /\ UNCHANGED <<mapVars, raftVars>>
      BY <2>4 DEF vars, peerVars, startVars, clusterVars
    <3>2. PeerInv'
      BY <3>1, PeersStand DEF IInv, TypeOK, PeerInv
    <3>3. RoutineInv' /\ CallTypeOK'
      BY <3>1, CallsStand DEF IInv, CallTypeOK
    <3>4. TypeOK' /\ SteadyInv'
      BY <3>1, <3>2 DEF IInv, TypeOK, PeerInv, SteadyInv, callVars
    <3> QED
      BY <3>2, <3>3, <3>4 DEF IInv, PeerInv
  <2> QED
    BY <2>1, <2>2, <2>3, <2>4 DEF Next
<1> QED
  BY <1>1, <1>2, PTL DEF Spec

\* Type correctness.
THEOREM TypeCorrect == Spec => []TypeOK
<1>1. IInv => TypeOK
  BY DEF IInv
<1> QED
  BY <1>1, InductiveInvariant, PTL

\* As long as no upsert met a known peer, the open connections are those of
\* PeerManager's map, and none when the loop has ended.
THEOREM OpenAreMapped == Spec => []ConnectionsMatchMap
<1>1. IInv => ConnectionsMatchMap
  BY DEF IInv, MapInv
<1> QED
  BY <1>1, InductiveInvariant, PTL

\* A follower that CheckHealth calls healthy has applied what the leader had
\* applied when the call began, but for the threshold, for every width of the
\* sum and every threshold, with one leader throughout.
THEOREM HealthySound == Spec => []HealthyMeansCaughtUp
<1>1. IInv => HealthyMeansCaughtUp
  <2> SUFFICES ASSUME IInv, NEW c \in Calls, result[c] = "healthy", steady[c]
               PROVE  applied[Self] + threshold[c] >= floor[c]
    BY DEF HealthyMeansCaughtUp
  <2>1. applied[Self] \in Nat /\ threshold[c] \in Nat /\ floor[c] \in Nat
    BY DEF IInv, TypeOK, CallTypeOK, Node
  <2>2. floor[c] <= applied[Self] + threshold[c]
    BY DEF IInv, SteadyInv
  <2> QED
    BY <2>1, <2>2
<1> QED
  BY <1>1, InductiveInvariant, PTL

\* The goroutines that stay behind at the unbuffered channel are of calls that
\* broke off at a leader's answer.
THEOREM NoneLeftWithoutLeader == Spec => []LeftOnlyByLeaderAnswer
<1>1. IInv => LeftOnlyByLeaderAnswer
  <2> SUFFICES ASSUME IInv, NEW c \in Calls, result[c] \in {"leader", "noLeader"}, NEW p \in Peers
               PROVE  routine[c][p] \in {"none", "ended"}
    BY DEF LeftOnlyByLeaderAnswer
  <2>1. p \notin Active(c)
    BY DEF IInv, RoutineInv
  <2> QED
    BY <2>1 DEF IInv, TypeOK, Active
<1> QED
  BY <1>1, InductiveInvariant, PTL
=============================================================================
