------------------------------- MODULE Server -------------------------------
(***************************************************************************)
(* The life of one controller process: main of cmd/controller/main.go,     *)
(* Start and Stop of internal/server/server.go and Start of                *)
(* internal/node/node.go, around the writes and the main loop of           *)
(* PendingWrites.  The process is told to end by a signal and ends when    *)
(* the main loop, the HTTP gateway and the gRPC server have wound up, in   *)
(* that order; each step waits for the one before without a time limit.    *)
(***************************************************************************)
EXTENDS PendingWrites

CONSTANTS
  Reads,        \* streams of QuerySQL, each as often as its client likes
  Gateway,      \* the calls and streams that come in over the HTTP gateway
  MaxRetries,   \* startBackendWithRetry: attempts, 10 in the code
  MaxSignals,   \* bound: signals sent to the process
  MaxHangs      \* bound: times the raft goroutine loses its database

ASSUME ServerAssumption ==
  /\ Gateway \subseteq Calls \cup Reads
  /\ MaxRetries \in Nat \ {0} /\ MaxSignals \in Nat /\ MaxHangs \in Nat

VARIABLES
  main,      \* the goroutine of main: where it stands
  grpc,      \* grpcServer: "down", "serving", "draining"
  http,      \* httpServer: "down", "serving", "draining"
  attempts,  \* attempts to start the backend
  open,      \* the streams of QuerySQL under way
  hung,      \* the raft goroutine tries LastIndex again and again
  signals, hangs

processVars == <<main, grpc, http, attempts>>
raftHang == <<hung, hangs>>
serverVars == <<processVars, open, raftHang, signals>>
allVars == <<vars, serverVars>>

ServerInit ==
  /\ Init
  /\ main = "begin" /\ grpc = "down" /\ http = "down" /\ attempts = 0
  /\ open = {} /\ hung = FALSE /\ signals = 0 /\ hangs = 0

Alive == main \notin {"panicked", "killed", "exited", "aborted"}

-----------------------------------------------------------------------------
(* Server.Start and Node.Start.                                            *)

\* net.Listen, and the goroutine of grpcServer.Serve.
Listen ==
  /\ main = "begin"
  /\ main' = "dialing" /\ grpc' = "serving"
  /\ UNCHANGED <<vars, http, attempts, open, raftHang, signals>>

\* app.Start returns the error and main panics.
ListenFails ==
  /\ main = "begin"
  /\ main' = "panicked"
  /\ UNCHANGED <<vars, grpc, http, attempts, open, raftHang, signals>>

\* The connection of the gateway to this server is up (WithBlock); Node.Start
\* and the HTTP server run in goroutines.  The error of ListenAndServeTLS is
\* dropped: a gateway that failed is one that no call reaches.
StartNode ==
  /\ main = "dialing" /\ grpc = "serving"
  /\ main' = "started" /\ loop' = "starting" /\ http' = "serving"
  /\ UNCHANGED <<callVars, poolVars, raftVars, pos, hi, target, err, outcome,
                 execErrors, stop, crashes, grpc, attempts, open, raftHang, signals>>

NodeAt(l) ==
  /\ Alive /\ loop = "starting"
  /\ loop' = l
  /\ UNCHANGED <<callVars, poolVars, raftVars, pos, hi, target, err, outcome,
                 execErrors, stop, crashes, main, grpc, http, open, raftHang, signals>>

\* backend.Start: connection refused, try again after a delay.
BackendRefused ==
  /\ attempts + 1 < MaxRetries
  /\ attempts' = attempts + 1
  /\ NodeAt("starting")

\* The last attempt refused, another error of backend.Start, or one of
\* discoverPotentialPeers or SaveConfState: the goroutine logs it and ends.
NodeStartFails == NodeAt("failed") /\ attempts' = 0

\* raft is started, and the main loop.
NodeStarts == NodeAt("select") /\ attempts' = 0

NodeStart == BackendRefused \/ NodeStartFails \/ NodeStarts

-----------------------------------------------------------------------------
(* main: the signal, and Server.Stop.                                      *)

MainTo(from, to) ==
  /\ main = from /\ main' = to
  /\ UNCHANGED <<vars, http, attempts, open, raftHang, signals>>

\* signal.Notify and <-c
Wait == MainTo("started", "waiting") /\ UNCHANGED grpc

\* A signal before Notify ends the process; one between Notify and the receive,
\* or during Stop, is dropped, the channel having no buffer.
Signal ==
  /\ Alive /\ signals < MaxSignals
  /\ signals' = signals + 1
  /\ main' \in CASE main \in {"begin", "dialing"} -> {"killed"}
                 [] main = "started" -> {"killed", "started"}
                 [] main = "waiting" -> {"stopping"}
                 [] OTHER -> {main}
  /\ UNCHANGED <<vars, grpc, http, attempts, open, raftHang>>

\* node.Stop: n.done <- true, then <-n.doneProcessed
StopNode ==
  /\ main = "stopping" /\ Stop
  /\ UNCHANGED serverVars

Underway(c) == caller[c] \in {"propose", "wait", "giveUp"}

\* No RPC of set S is under way: none of its writes, none of its streams.
Served(S) == open \cap S = {} /\ \A c \in Calls \cap S : ~Underway(c)

\* httpServer.Shutdown: no new requests, wait for the ones under way.
ShutdownGateway ==
  /\ main = "stopping" /\ stop = "returned"
  /\ main' = "gateway" /\ http' = "draining"
  /\ UNCHANGED <<vars, grpc, attempts, open, raftHang, signals>>

\* Shutdown could not close its listener: Server.Stop returns the error, main
\* drops it and ends the process with the RPCs of the gRPC server under way.
ShutdownFails == Served(Gateway) /\ MainTo("gateway", "aborted") /\ grpc' = "down"

\* grpcServer.GracefulStop: no new RPCs.
GracefulStop == Served(Gateway) /\ MainTo("gateway", "draining") /\ grpc' = "draining"

\* Mutant of Exit: Stop in place of GracefulStop.
ExitAtOnce == MainTo("draining", "exited") /\ grpc' = "down"

\* GracefulStop returns when no RPC is under way; then main does.
Exit == Served(Calls \cup Reads) /\ MainTo("draining", "exited") /\ grpc' = "down"

MainStep ==
  \/ Listen \/ ListenFails \/ StartNode \/ Wait
  \/ StopNode \/ ShutdownGateway \/ ShutdownFails \/ GracefulStop \/ Exit

-----------------------------------------------------------------------------
(* The RPCs, and the next process.                                         *)

\* A call is let in while its server takes new ones.
LetIn(c) == Alive /\ grpc = "serving" /\ (c \in Gateway => http = "serving")

Accept(c) ==
  /\ LetIn(c) /\ GetNewChannel(c)
  /\ UNCHANGED serverVars

\* raftNode.Propose hands the entry to the raft goroutine, when that listens.
Handle(c) ==
  /\ Alive
  /\ (Propose(c) /\ ~hung) \/ ProposeFails(c) \/ ContextDone(c) \/ GiveUp(c)
  /\ UNCHANGED serverVars

\* QuerySQL: the stream is open for as long as its client takes to read it.
OpenStream(r) ==
  /\ LetIn(r) /\ r \notin open
  /\ open' = open \cup {r}
  /\ UNCHANGED <<vars, processVars, raftHang, signals>>

EndStream(r) ==
  /\ Alive /\ r \in open
  /\ open' = open \ {r}
  /\ UNCHANGED <<vars, processVars, raftHang, signals>>

\* LastIndex of the MySQL backend: the raft goroutine tries again every two
\* seconds until the database answers.
LastIndexFails ==
  /\ Alive /\ Running /\ ~hung /\ hangs < MaxHangs
  /\ hung' = TRUE /\ hangs' = hangs + 1
  /\ UNCHANGED <<vars, processVars, open, signals>>

LastIndexSucceeds ==
  /\ Alive /\ hung
  /\ hung' = FALSE
  /\ UNCHANGED <<vars, processVars, open, hangs, signals>>

\* Mutant of RunLoop: doneProcessed is not sent.
RunLoopSilently ==
  /\ Alive /\ LoopStep /\ (loop = "select" => ~hung) /\ stop' = stop
  /\ UNCHANGED serverVars

\* Ready comes from the raft goroutine, and raftNode.Stop waits for it.
RunLoop ==
  /\ Alive /\ LoopStep /\ (loop = "select" => ~hung)
  /\ UNCHANGED serverVars

OtherNodes == Alive /\ RaftNext /\ UNCHANGED serverVars

\* The process has ended, or is killed where it stands, and is started again.
NewProcess ==
  /\ ProcessRestart
  /\ main' = "begin" /\ grpc' = "down" /\ http' = "down" /\ attempts' = 0
  /\ open' = {} /\ hung' = FALSE
  /\ UNCHANGED <<signals, hangs>>

ServerNext ==
  \/ MainStep \/ Signal \/ NodeStart
  \/ \E c \in Calls : Accept(c) \/ Handle(c)
  \/ \E r \in Reads : OpenStream(r) \/ EndStream(r)
  \/ LastIndexFails \/ LastIndexSucceeds
  \/ RunLoop \/ OtherNodes \/ NewProcess

\* The goroutines of the process are scheduled; what the cluster accepted is
\* committed.  Nothing is assumed of clients, of signals, of a database that
\* is lost, or that a caller's context ever ends.
ServerSpec ==
  /\ ServerInit /\ [][ServerNext]_allVars
  /\ WF_allVars(MainStep) /\ WF_allVars(NodeStart) /\ WF_allVars(RunLoop)
  /\ \A c \in Calls :
       /\ WF_allVars(Alive /\ ~hung /\ (Propose(c) \/ ProposeFails(c)) /\ UNCHANGED serverVars)
       /\ WF_allVars(Alive /\ GiveUp(c) /\ UNCHANGED serverVars)
       /\ WF_allVars(Commit(OwnEntry(c)) /\ UNCHANGED serverVars)

-----------------------------------------------------------------------------
(* Properties.                                                             *)

\* Type invariant.
ServerTypeOK ==
  /\ TypeOK
  /\ main \in {"begin", "dialing", "started", "waiting", "stopping",
               "gateway", "draining", "exited", "aborted", "panicked", "killed"}
  /\ grpc \in {"down", "serving", "draining"} /\ http \in {"down", "serving", "draining"}
  /\ attempts \in 0..MaxRetries /\ signals \in 0..MaxSignals
  /\ open \subseteq Reads /\ hung \in BOOLEAN /\ hangs \in 0..MaxHangs

\* Server.Stop (server.go) ends the process with nothing cut off: the main
\* loop is between two batches, every write it let in got its answer and every
\* stream was read to its end.  Where the gateway could not be shut down, that
\* is so of the main loop and of what came in over the gateway.
CleanExit ==
  /\ main \in {"exited", "aborted"} =>
       /\ loop = "stopped" /\ target = NoCall /\ open \cap Gateway = {}
       /\ \A c \in Calls \cap Gateway : caller[c] \in {"idle", "returned"}
  /\ main = "exited" =>
       open = {} /\ \A c \in Calls : caller[c] \in {"idle", "returned"}

\* The main loop holds the channel of a caller whose context ended after the
\* channel was taken out of the pool: nobody will receive from it.
SendStuck == loop = "send" /\ caller[target] \in {"giveUp", "returned"}

\* The statement of call c is lost to it: raft lost the proposal, or the entry
\* was passed over for want of a connection.
Unanswerable(c) ==
  /\ outcome[c] = "none" /\ OwnEntry(c) \notin proposed
  /\ \A i \in pos + 1..Len(log) : log[i] # OwnEntry(c)

\* WriteQuery (node.go) has no time limit of its own.  A call that waits is
\* answered, unless the node is stopped or killed first, its statement is
\* lost, the main loop hangs on the channel of a call that gave up, or the
\* database never comes back to the raft goroutine.
Answered ==
  \A c \in Calls :
    caller[c] = "wait" ~>
      \/ caller[c] # "wait" \/ ~Alive \/ loop = "stopped"
      \/ Unanswerable(c) \/ SendStuck \/ []hung

\* What Server.Stop and Node.Stop wait for that may never come: Node.Start
\* failed and there is no main loop, the main loop hangs on a caller that gave
\* up, the raft goroutine on its database, a write was left waiting when the
\* main loop stopped, or a client does not read its stream.
Blocked ==
  \/ loop = "failed" \/ SendStuck \/ hung
  \/ loop = "stopped" /\ (open # {} \/ \E c \in Calls : caller[c] = "wait")

\* A signal that was received ends the process, or one of these five lasts for
\* ever: nothing else keeps Stop (server.go, node.go) from returning.
ExitsOnSignal == main = "stopping" ~> ~Alive \/ main = "begin" \/ []Blocked

\* The comment on Node.Stop (node.go), "Stop stops the main Raft loop": it
\* returns, unless the process is replaced first.
NodeStopReturns == stop = "asked" ~> stop # "asked"

\* The comment on Server.Stop (server.go), "Stop stops the combined gRPC HTTP
\* server": the main loop having stopped, the servers stop too and main ends.
ServerStopReturns == stop = "returned" ~> ~Alive \/ main = "begin"
=============================================================================
