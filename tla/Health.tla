------------------------------- MODULE Health -------------------------------
(***************************************************************************)
(* CheckHealth and Progress of internal/server/raft.go, over the clients   *)
(* of module PeerClients.  The server takes calls before Node.Start has    *)
(* come to an end and after the loop has ended, and every call runs        *)
(* concurrently with the main loop.  A call asks all peers at once, one    *)
(* goroutine each, and takes their answers from an unbuffered channel.     *)
(***************************************************************************)
EXTENDS PeerClients

CONSTANTS
  Self,          \* this node
  Calls,         \* calls of CheckHealth, each made once
  Thresholds,    \* req.LagThreshold
  Modulus,       \* 2^64 for uint64
  MaxApplied     \* bound: applied indexes

ASSUME HealthAssumption ==
  /\ Self \notin Peers /\ Self # NoPeer
  /\ Modulus \in Nat \ {0} /\ Thresholds \subseteq 0..(Modulus - 1)
  /\ MaxApplied \in 1..(Modulus - 1)

VARIABLES
  applied,    \* [node -> Applied of its raft status]
  leads,      \* [node -> does it take itself for the leader]
  leader,     \* the node elected last
  call,       \* [Calls -> control state of the handler]
  threshold,  \* [Calls -> req.LagThreshold]
  asked,      \* [Calls -> [Peers -> client its goroutine uses, 0 for none]]
  routine,    \* [Calls -> [Peers -> state of the goroutine]]
  answer,     \* [Calls -> [Peers -> what Progress returned]]
  left,       \* [Calls -> iterations of the receiving loop that are left]
  leaderAt,   \* [Calls -> Applied of leaderResponse]
  expired,    \* [Calls -> are the two seconds of limitedCtx over]
  result,     \* [Calls -> what CheckHealth returned]
  \* history
  floor,      \* [Calls -> Applied of the leader when the call began]
  steady      \* [Calls -> was there one leader, the same one, during the call]

clusterVars == <<applied, leads, leader>>
callVars == <<call, threshold, asked, routine, answer, left, leaderAt, expired, result, floor>>
vars == <<peerVars, clusterVars, callVars, steady>>

peerFixed == <<startVars, mapVars, remote, raftVars>>

Node == Peers \cup {Self}
NoAnswer == [leads |-> FALSE, applied |-> 0]
InCall(c) == call[c] \notin {"idle", "done"}

Init ==
  /\ PeerInit
  /\ applied = [n \in Node |-> 0]
  /\ leader \in Node /\ leads = [n \in Node |-> n = leader]
  /\ call = [c \in Calls |-> "idle"] /\ threshold = [c \in Calls |-> 0]
  /\ asked = [c \in Calls |-> [p \in Peers |-> 0]]
  /\ routine = [c \in Calls |-> [p \in Peers |-> "none"]]
  /\ answer = [c \in Calls |-> [p \in Peers |-> NoAnswer]]
  /\ left = [c \in Calls |-> 0] /\ leaderAt = [c \in Calls |-> 0]
  /\ expired = [c \in Calls |-> FALSE] /\ result = [c \in Calls |-> "none"]
  /\ floor = [c \in Calls |-> 0] /\ steady = [c \in Calls |-> FALSE]

-----------------------------------------------------------------------------
(* The cluster (external).  CheckQuorum is not set: a leader that lost its *)
(* followers takes itself for the leader until it hears of the new one.    *)

Apply(n) ==
  /\ applied[n] < MaxApplied
  /\ Event
  /\ applied' = [applied EXCEPT ![n] = @ + 1]
  /\ UNCHANGED <<peerFixed, leads, leader, callVars, steady>>

Elect(n) ==
  /\ n # leader
  /\ Event
  /\ leader' = n /\ leads' = [leads EXCEPT ![n] = TRUE]
  /\ steady' = [c \in Calls |-> FALSE]
  /\ UNCHANGED <<peerFixed, applied, callVars>>

StepDown(n) ==
  /\ leads[n] /\ n # leader
  /\ Event
  /\ leads' = [leads EXCEPT ![n] = FALSE]
  /\ UNCHANGED <<peerFixed, applied, leader, callVars, steady>>

-----------------------------------------------------------------------------
(* The handler.                                                            *)

\* node.RaftStatus: empty before the raft node exists and after it stopped.
RaftStatus == IF phase = "loop" THEN [leads |-> leads[Self], applied |-> applied[Self]] ELSE NoAnswer

\* The status is read; a leader answers at once.
CheckHealth(c, t) ==
  /\ call[c] = "idle" /\ phase # "dead"
  /\ call' = [call EXCEPT ![c] = IF RaftStatus.leads THEN "done" ELSE "collect"]
  /\ result' = [result EXCEPT ![c] = IF RaftStatus.leads THEN "leader" ELSE "none"]
  /\ threshold' = [threshold EXCEPT ![c] = t]
  /\ floor' = [floor EXCEPT ![c] = applied[leader]]
  /\ steady' = [steady EXCEPT ![c] = \A n \in Node : leads[n] => n = leader]
  /\ UNCHANGED <<peerVars, clusterVars, asked, routine, answer, left, leaderAt, expired>>

\* GetPeerClients: GetAllClients walks over the map, under a lock of its own,
\* and one goroutine per client is started.
GetPeerClients(c) ==
  /\ call[c] = "collect" /\ phase # "dead"
  /\ asked' = [asked EXCEPT ![c] = peerMap]
  /\ routine' = [routine EXCEPT ![c] = [p \in Peers |-> IF peerMap[p] = 0 THEN "none" ELSE "rpc"]]
  /\ left' = [left EXCEPT ![c] = Cardinality(Mapped)]
  /\ call' = [call EXCEPT ![c] = "receive"]
  /\ UNCHANGED <<peerVars, clusterVars, threshold, answer, leaderAt, expired, result, floor, steady>>

\* Go's runtime ends the process when it sees the map change under the walk.
MapRace(c) ==
  /\ call[c] = "collect" /\ phase # "dead" /\ write # Idle
  /\ phase' = "dead"
  /\ UNCHANGED <<todo, mapVars, remote, raftVars, events, clusterVars, callVars, steady>>

\* The peer's Progress: a node that is starting has an empty status.
Progress(p) ==
  IF remote[p] = "running" THEN [leads |-> leads[p], applied |-> applied[p]] ELSE NoAnswer

\* client.Progress returned; next the goroutine sends.
Answered(c, p) ==
  /\ routine[c][p] = "rpc" /\ phase # "dead"
  /\ conn[asked[c][p]] = "open" /\ remote[p] # "down"
  /\ routine' = [routine EXCEPT ![c][p] = "send"]
  /\ answer' = [answer EXCEPT ![c][p] = Progress(p)]
  /\ UNCHANGED <<peerVars, clusterVars, call, threshold, asked, left, leaderAt, expired, result, floor, steady>>

\* Mutant of AskFails: the goroutine ends without a send.
AskFailsSilently(c, p) ==
  /\ routine[c][p] = "rpc" /\ phase # "dead"
  /\ conn[asked[c][p]] = "closed" \/ remote[p] = "down" \/ expired[c] \/ call[c] = "done"
  /\ routine' = [routine EXCEPT ![c][p] = "ended"]
  /\ UNCHANGED <<peerVars, clusterVars, call, threshold, asked, answer, left, leaderAt, expired, result, floor, steady>>

\* client.Progress failed: closed client, no server, the two seconds are over,
\* or the handler has returned and its deferred cancel ended the context.  Next
\* the goroutine sends nil.
AskFails(c, p) ==
  /\ routine[c][p] = "rpc" /\ phase # "dead"
  /\ conn[asked[c][p]] = "closed" \/ remote[p] = "down" \/ expired[c] \/ call[c] = "done"
  /\ routine' = [routine EXCEPT ![c][p] = "send"]
  /\ answer' = [answer EXCEPT ![c][p] = NoAnswer]
  /\ UNCHANGED <<peerVars, clusterVars, call, threshold, asked, left, leaderAt, expired, result, floor, steady>>

Expire(c) ==
  /\ call[c] = "receive" /\ ~expired[c] /\ phase # "dead"
  /\ expired' = [expired EXCEPT ![c] = TRUE]
  /\ UNCHANGED <<peerVars, clusterVars, call, threshold, asked, routine, answer, left, leaderAt, result, floor, steady>>

\* Mutant of IsLeader: any answer will do.
IsAnyAnswer(a) == TRUE

\* progress != nil && progress.State == "StateLeader"
IsLeader(a) == a.leads

\* One iteration of the receiving loop; it breaks at the first leader.
Receive(c, p) ==
  /\ call[c] = "receive" /\ left[c] > 0 /\ phase # "dead"
  /\ routine[c][p] = "send"
  /\ routine' = [routine EXCEPT ![c][p] = "ended"]
  /\ left' = [left EXCEPT ![c] = @ - 1]
  /\ IF IsLeader(answer[c][p])
     THEN /\ call' = [call EXCEPT ![c] = "compare"]
          /\ leaderAt' = [leaderAt EXCEPT ![c] = answer[c][p].applied]
     ELSE UNCHANGED <<call, leaderAt>>
  /\ UNCHANGED <<peerVars, clusterVars, threshold, asked, answer, expired, result, floor, steady>>

\* Mutant of NoLeader: the loop ends one answer early.
NoLeaderEarly(c) ==
  /\ call[c] = "receive" /\ left[c] <= 1 /\ phase # "dead"
  /\ call' = [call EXCEPT ![c] = "done"]
  /\ result' = [result EXCEPT ![c] = "noLeader"]
  /\ UNCHANGED <<peerVars, clusterVars, threshold, asked, routine, answer, left, leaderAt, expired, floor, steady>>

\* All have answered and none leads.
NoLeader(c) ==
  /\ call[c] = "receive" /\ left[c] = 0 /\ phase # "dead"
  /\ call' = [call EXCEPT ![c] = "done"]
  /\ result' = [result EXCEPT ![c] = "noLeader"]
  /\ UNCHANGED <<peerVars, clusterVars, threshold, asked, routine, answer, left, leaderAt, expired, floor, steady>>

\* The status is read again; the sum is one of uint64.
Compare(c) ==
  /\ call[c] = "compare" /\ phase # "dead"
  /\ result' = [result EXCEPT ![c] =
                  IF leaderAt[c] > (RaftStatus.applied + threshold[c]) % Modulus
                  THEN "behind" ELSE "healthy"]
  /\ call' = [call EXCEPT ![c] = "done"]
  /\ UNCHANGED <<peerVars, clusterVars, threshold, asked, routine, answer, left, leaderAt, expired, floor, steady>>

HandlerStep(c) ==
  \/ GetPeerClients(c) \/ MapRace(c) \/ NoLeader(c) \/ Compare(c) \/ Expire(c)
  \/ \E p \in Peers : Receive(c, p)

RoutineStep(c, p) == Answered(c, p) \/ AskFails(c, p)

Next ==
  \/ PeerNext /\ UNCHANGED <<clusterVars, callVars, steady>>
  \/ \E n \in Node : Apply(n) \/ Elect(n) \/ StepDown(n)
  \/ \E c \in Calls :
       \/ \E t \in Thresholds : CheckHealth(c, t)
       \/ HandlerStep(c) \/ \E p \in Peers : RoutineStep(c, p)

Spec == Init /\ [][Next]_vars

\* Go runs the goroutines of the node, of the handlers and of their questions;
\* the timer of limitedCtx fires.
FairSpec ==
  /\ Spec
  /\ WF_vars(StartStep /\ UNCHANGED <<clusterVars, callVars, steady>>)
  /\ WF_vars(ChangeMap /\ UNCHANGED <<clusterVars, callVars, steady>>)
  /\ WF_vars(SendStep /\ UNCHANGED <<clusterVars, callVars, steady>>)
  /\ \A c \in Calls : WF_vars(HandlerStep(c))
  /\ \A c \in Calls, p \in Peers : WF_vars(RoutineStep(c, p))

-----------------------------------------------------------------------------
(* Properties.                                                             *)

\* Type invariant.
TypeOK ==
  /\ PeerTypeOK
  /\ applied \in [Node -> 0..MaxApplied] /\ leads \in [Node -> BOOLEAN] /\ leader \in Node
  /\ call \in [Calls -> {"idle", "collect", "receive", "compare", "done"}]
  /\ routine \in [Calls -> [Peers -> {"none", "rpc", "send", "ended"}]]
  /\ left \in [Calls -> 0..Cardinality(Peers)] /\ leaderAt \in [Calls -> 0..MaxApplied]
  /\ result \in [Calls -> {"none", "leader", "healthy", "behind", "noLeader"}]

\* What the readiness probe is for: a follower that is called healthy has
\* applied what the leader had applied when the check began, but for the
\* allowed lag.  True while there is one leader and no election during the
\* call, for every threshold: the wrap-around of the sum only errs on the side
\* of "behind".
HealthyMeansCaughtUp ==
  \A c \in Calls : result[c] = "healthy" /\ steady[c] =>
    applied[Self] + threshold[c] >= floor[c]

\* A call that heard of no leader has received from every goroutine it started:
\* those left behind at the unbuffered channel are of calls that broke off at
\* a leader's answer.
LeftOnlyByLeaderAnswer ==
  \A c \in Calls : call[c] = "done" /\ result[c] \in {"leader", "noLeader"} =>
    \A p \in Peers : routine[c][p] \in {"none", "ended"}

\* CheckHealth returns, whatever clients are closed under its goroutines and
\* whatever peers do not answer: every goroutine sends once.
HandlerReturns == \A c \in Calls : InCall(c) ~> call[c] = "done" \/ phase = "dead"
=============================================================================
