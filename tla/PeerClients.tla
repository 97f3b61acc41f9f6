----------------------------- MODULE PeerClients -----------------------------
(***************************************************************************)
(* The clients one node keeps to its peers and the messages it sends over  *)
(* them: PeerManager (internal/transport/peer_manager.go), the gRPC client *)
(* (client.go), and of internal/node/node.go loadStoredPeers,              *)
(* discoverPotentialPeers, sendMessages, the configuration changes and the *)
(* end of runMainLoop.                                                     *)
(*                                                                         *)
(* PeerManager's methods have value receivers: every call locks a copy of  *)
(* the mutex and works on the one shared map.  A change of the map is      *)
(* therefore two steps here, and whoever reads the map may come between    *)
(* them.  All changes are made by one goroutine, Start and then the loop.  *)
(***************************************************************************)
EXTENDS Naturals, Sequences, FiniteSets, Functions

CONSTANTS
  Peers,       \* IDs of the other nodes
  NoPeer,      \* none of them
  Stored,      \* the peers table when the node starts
  Potential,   \* Params.PotentialPeers
  MaxClients,  \* bound: clients ever created
  MaxEvents    \* bound: Readys, configuration changes and what happens elsewhere

ASSUME ConstantsAssumption ==
  /\ IsFiniteSet(Peers) /\ NoPeer \notin Peers /\ Stored \subseteq Peers /\ Potential \subseteq Peers
  /\ MaxClients \in Nat /\ MaxEvents \in Nat

VARIABLES
  phase,     \* "load" and "discover" (Start), "loop", "closed", "dead" (the runtime threw)
  todo,      \* peers Start has still to go through in this phase
  peerMap,   \* PeerManager.peerMap: [Peers -> client, 0 for none]
  conn,      \* [client -> "unused", "open", "closed"]
  write,     \* the change of the map under way, if any
  remote,    \* [Peers -> "down", "starting" (no raft node yet), "running"]
  progress,  \* raft's Progress of a peer on a leader (external), "none" for no member
  out,       \* rd.Messages not yet sent
  replaced,  \* history: did an upsert find its peer in the map
  events     \* counts towards MaxEvents

startVars == <<phase, todo>>
mapVars == <<peerMap, conn, write, replaced>>
raftVars == <<progress, out>>
peerVars == <<startVars, mapVars, remote, raftVars, events>>

Client == 1..MaxClients
Message == [to : Peers, snap : BOOLEAN]
Idle == [op |-> "idle", peer |-> NoPeer]
Event == events < MaxEvents /\ events' = events + 1

\* NewPeerManager; the node has been started before and has stored its peers.
PeerInit ==
  /\ phase = "load" /\ todo = Stored
  /\ peerMap = [p \in Peers |-> 0] /\ conn = [k \in Client |-> "unused"]
  /\ write = Idle /\ replaced = FALSE
  /\ remote \in [Peers -> {"down", "running"}]
  /\ progress = [p \in Peers |-> "none"] /\ out = << >>
  /\ events = 0

-----------------------------------------------------------------------------
(* PeerManager.                                                            *)

\* UpsertPeer and RemovePeer have locked their copy of the mutex.
Begin(op, p) ==
  /\ write = Idle
  /\ op = "upsert" => \E k \in Client : conn[k] = "unused"
  /\ write' = [op |-> op, peer |-> p]
  /\ UNCHANGED <<peerMap, conn, replaced>>

\* NewGRPCClient: grpc.Dial does not wait for a connection, so this succeeds.
NewClient == CHOOSE k \in Client : conn[k] = "unused" /\ \A j \in 1..(k - 1) : conn[j] # "unused"

\* Peer.close and GRPCClient.Close.
Closed(ks) == [k \in Client |-> IF k \in ks THEN "closed" ELSE conn[k]]

Mapped == {peerMap[p] : p \in Peers} \ {0}

\* The rest of UpsertPeer.  The deferred close is bound to p, the new client.
UpsertPeer(p) ==
  LET k == NewClient
      known == peerMap[p] # 0
  IN /\ peerMap' = [peerMap EXCEPT ![p] = k]
     /\ conn' = [conn EXCEPT ![k] = IF known THEN "closed" ELSE "open"]
     /\ replaced' = (replaced \/ known)

\* Mutant of RemovePeer: the client is not closed.
RemoveKeepsOpen(p) ==
  /\ peerMap' = [peerMap EXCEPT ![p] = 0]
  /\ UNCHANGED <<conn, replaced>>

\* The rest of RemovePeer.
RemovePeer(p) ==
  /\ peerMap' = [peerMap EXCEPT ![p] = 0]
  /\ conn' = Closed({peerMap[p]})
  /\ UNCHANGED replaced

ClientForPeer(p) == peerMap[p]

\* Close: the clients are closed, the new map goes to the copy of the receiver.
Close ==
  /\ conn' = Closed(Mapped)
  /\ UNCHANGED <<peerMap, write, replaced>>

\* The map is changed.  In the loop ApplyConfChange follows.
ChangeMap ==
  /\ write # Idle /\ phase # "dead"
  /\ \/ write.op = "upsert" /\ UpsertPeer(write.peer)
     \/ write.op = "remove" /\ RemovePeer(write.peer)
  /\ write' = Idle
  /\ progress' = IF phase # "loop" THEN progress
                 ELSE [progress EXCEPT ![write.peer] =
                         IF write.op = "remove" THEN "none"
                         ELSE IF @ = "none" THEN "live" ELSE @]
  /\ UNCHANGED <<startVars, remote, out, events>>

-----------------------------------------------------------------------------
(* Node.Start.                                                             *)

LoadStoredPeer(p) ==
  /\ phase = "load" /\ p \in todo
  /\ Begin("upsert", p)
  /\ todo' = todo \ {p}
  /\ UNCHANGED <<phase, remote, raftVars, events>>

\* LoadPeers failed, which is logged, or all stored peers have their client.
Loaded ==
  /\ phase = "load" /\ write = Idle
  /\ todo = {} \/ todo = Stored
  /\ phase' = "discover" /\ todo' = Potential
  /\ UNCHANGED <<mapVars, remote, raftVars, events>>

\* The peer's server is up and tells its ID, over a client made for it.
GetRemoteID(p) == remote[p] # "down"

\* discoverPotentialPeers: the peer told its ID.
DiscoverPeer(p) ==
  /\ phase = "discover" /\ p \in todo
  /\ GetRemoteID(p)
  /\ Begin("upsert", p)
  /\ todo' = todo \ {p}
  /\ UNCHANGED <<phase, remote, raftVars, events>>

\* GetRemoteID failed: the peer is passed over.
PassOverPeer(p) ==
  /\ phase = "discover" /\ p \in todo /\ write = Idle
  /\ todo' = todo \ {p}
  /\ UNCHANGED <<phase, mapVars, remote, raftVars, events>>

\* The raft node exists; the stored configuration has the stored peers.
StartLoop ==
  /\ phase = "discover" /\ todo = {} /\ write = Idle
  /\ phase' = "loop"
  /\ progress' = [p \in Peers |-> IF p \in Stored THEN "live" ELSE "none"]
  /\ UNCHANGED <<todo, mapVars, remote, out, events>>

StartStep ==
  \/ \E p \in todo : LoadStoredPeer(p) \/ DiscoverPeer(p) \/ PassOverPeer(p)
  \/ Loaded \/ StartLoop

-----------------------------------------------------------------------------
(* The main loop.                                                          *)

\* One or two messages, to different peers.
Batch == {<<m>> : m \in Message}
         \cup {b \in Message \X Message : b[1].to # b[2].to}

\* Ready with messages: raft (external) sends a snapshot to a lagging peer
\* and nothing but heartbeats to one that has a snapshot under way.
TakeReady(msgs) ==
  /\ phase = "loop" /\ out = << >> /\ write = Idle
  /\ Event
  /\ \A i \in DOMAIN msgs : /\ progress[msgs[i].to] # "none"
                            /\ msgs[i].snap => progress[msgs[i].to] = "live"
  /\ out' = msgs
  /\ progress' = [p \in Peers |-> IF [to |-> p, snap |-> TRUE] \in Range(msgs)
                                  THEN "snapshot" ELSE progress[p]]
  /\ UNCHANGED <<startVars, mapVars, remote>>

\* raftNode.ReportUnreachable and raftNode.ReportSnapshot (external): the first
\* turns replicating into probing, one state here, and leaves a peer with a
\* snapshot alone; the second ends the snapshot, finished or failed.
ReportUnreachable(pr, p) == pr
ReportSnapshot(pr, p) == IF pr[p] = "snapshot" THEN [pr EXCEPT ![p] = "live"] ELSE pr

\* ClientForPeer found nothing: the message is dropped.
NoClient ==
  /\ phase = "loop" /\ out # << >>
  /\ ClientForPeer(Head(out).to) = 0
  /\ progress' = ReportUnreachable(progress, Head(out).to)
  /\ out' = Tail(out)
  /\ UNCHANGED <<startVars, mapVars, remote, events>>

\* Mutant of Sent: only a finished snapshot is reported.
SentReportsFinish(m, err) ==
  progress' = IF err THEN ReportUnreachable(progress, m.to)
              ELSE IF m.snap THEN ReportSnapshot(progress, m.to) ELSE progress

\* What is reported after SendRaftMessage returned.
Sent(m, err) ==
  LET pr == IF err THEN ReportUnreachable(progress, m.to) ELSE progress
  IN progress' = IF m.snap THEN ReportSnapshot(pr, m.to) ELSE pr

\* The peer has a raft node to hand the message to.
HandleRaftMessage(p) == remote[p] = "running"

\* The RPC reaches the peer's raftService.Message, which hands it on.
Delivered(k, p) == conn[k] = "open" /\ HandleRaftMessage(p)

\* SendRaftMessage: the peer took the message, or the call failed: closed
\* client, peer down or without a raft node, three seconds over.
SendMessage(err) ==
  /\ phase = "loop" /\ out # << >>
  /\ LET m == Head(out)
         k == ClientForPeer(m.to)
     IN /\ k # 0
        /\ err \/ Delivered(k, m.to)
        /\ Sent(m, err)
  /\ out' = Tail(out)
  /\ UNCHANGED <<startVars, mapVars, remote, events>>

\* processConfChange for another node.
ConfChange(op, p) ==
  /\ phase = "loop" /\ out = << >>
  /\ Event
  /\ Begin(op, p)
  /\ UNCHANGED <<startVars, remote, progress, out>>

\* case <-n.done
LoopEnds ==
  /\ phase = "loop" /\ out = << >> /\ write = Idle
  /\ Close
  /\ phase' = "closed"
  /\ UNCHANGED <<todo, remote, raftVars, events>>

\* Other nodes stop and start (external).
RemoteChanges(p, s) ==
  /\ remote[p] # s
  /\ Event
  /\ remote' = [remote EXCEPT ![p] = s]
  /\ UNCHANGED <<startVars, mapVars, raftVars>>

SendStep == NoClient \/ \E err \in BOOLEAN : SendMessage(err)

PeerNext ==
  \/ StartStep \/ ChangeMap \/ SendStep \/ LoopEnds
  \/ \E msgs \in Batch : TakeReady(msgs)
  \/ \E op \in {"upsert", "remove"}, p \in Peers : ConfChange(op, p)
  \/ \E p \in Peers, s \in {"down", "starting", "running"} : RemoteChanges(p, s)

PeerSpec == PeerInit /\ [][PeerNext]_peerVars

-----------------------------------------------------------------------------
(* Properties.                                                             *)

\* Type invariant.
PeerTypeOK ==
  /\ phase \in {"load", "discover", "loop", "closed", "dead"} /\ todo \subseteq Peers
  /\ peerMap \in [Peers -> Client \cup {0}] /\ conn \in [Client -> {"unused", "open", "closed"}]
  /\ write \in {Idle} \cup [op : {"upsert", "remove"}, peer : Peers]
  /\ remote \in [Peers -> {"down", "starting", "running"}]
  /\ progress \in [Peers -> {"none", "live", "snapshot"}]
  /\ out \in Seq(Message) /\ replaced \in BOOLEAN

\* The comment in UpsertPeer ("Close an old client in case it's an upsert"):
\* until the loop ends the client kept for a peer is one that can be used.
KeptClientOpen ==
  phase \in {"load", "discover", "loop"} => \A k \in Mapped : conn[k] = "open"

\* As long as no upsert met a known peer, the open connections are those of
\* the map, through start-up, configuration changes and failing sends, and the
\* end of the loop leaves none open.
ConnectionsMatchMap ==
  ~replaced =>
    {k \in Client : conn[k] = "open"} = IF phase = "closed" THEN {} ELSE Mapped

\* sendMessages reports every snapshot it has a client for, sent or not: raft
\* holds all entries back from a peer until then, so without the report the
\* peer would be cut off for good.  (Without a client nothing is reported.)
SnapshotReported ==
  \A p \in Peers :
    [to |-> p, snap |-> TRUE] \in Range(out) /\ peerMap[p] # 0
      ~> progress[p] # "snapshot" \/ phase = "dead"
=============================================================================
