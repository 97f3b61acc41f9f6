---------------------------- MODULE PendingWrites ----------------------------
(***************************************************************************)
(* Synchronous writes of one node: WriteQuery and processCommittedData of  *)
(* internal/node/node.go over the ChannelPool of internal/lib, with Stop   *)
(* and a restart of the process.                                           *)
(*                                                                         *)
(* Every call of WriteQuery is a goroutine with its own context.  It takes *)
(* a channel and an ID from the pool, proposes the statement tagged with   *)
(* the ID and waits on the channel.  The main loop executes committed      *)
(* entries in order, takes the channel of an own entry out of the pool and *)
(* hands the result over on it.  The channels are unbuffered: the send     *)
(* needs the caller at the other end.                                      *)
(***************************************************************************)
EXTENDS Naturals, Sequences, FiniteSets

CONSTANTS
  Calls,          \* calls of WriteQuery, each made once
  NoCall,         \* no channel
  MaxForeign,     \* bound: entries written by other nodes
  CanGiveUp,      \* may a caller's context end before its write is answered
  CanLose,        \* may raft lose a proposal forwarded to the leader
  MaxExecErrors,  \* bound: executions that fail for want of a connection
  MaxCrashes      \* bound: restarts of the process

ASSUME ConstantsAssumption ==
  /\ NoCall \notin Calls /\ IsFiniteSet(Calls)
  /\ MaxForeign \in Nat /\ MaxExecErrors \in Nat /\ MaxCrashes \in Nat
  /\ CanGiveUp \in BOOLEAN /\ CanLose \in BOOLEAN

VARIABLES
  caller,    \* [Calls -> control state of the call]
  chid,      \* [Calls -> its channel ID, 0 before GetNewChannel]
  pending,   \* ChannelPool.pending: [ID -> call whose channel it is, or NoCall]
  nextID,    \* ChannelPool.nextID
  proposed,  \* entries in the hands of raft, not yet committed
  log,       \* committed entries
  pos, hi,   \* the entry being processed and the last one of rd.CommittedEntries
  loop,      \* control state of the main loop
  target,    \* the call whose channel the loop holds, or NoCall
  err,       \* result of the execution in progress
  stop,      \* "no", "asked" (Stop is waiting) or "returned"
  \* history and bounds
  outcome,   \* [Calls -> result of executing its entry, "none" before]
  result,    \* [Calls -> what WriteQuery returned, "none" before]
  foreign, execErrors, crashes

callVars == <<caller, chid, result>>
poolVars == <<pending, nextID>>
raftVars == <<proposed, log, foreign>>
loopVars == <<pos, hi, loop, target, err, outcome, execErrors>>
vars == <<callVars, poolVars, raftVars, loopVars, stop, crashes>>

ID == 1..Cardinality(Calls)
Entry == [own : BOOLEAN, id : ID, call : Calls \cup {NoCall}]
EmptyPool == [i \in ID |-> NoCall]

Init ==
  /\ caller = [c \in Calls |-> "idle"]
  /\ chid = [c \in Calls |-> 0]
  /\ result = [c \in Calls |-> "none"]
  /\ pending = EmptyPool /\ nextID = 0
  /\ proposed = {} /\ log = << >> /\ foreign = 0
  /\ pos = 0 /\ hi = 0 /\ loop = "new" /\ target = NoCall /\ err = "none"
  /\ outcome = [c \in Calls |-> "none"] /\ execErrors = 0
  /\ stop = "no" /\ crashes = 0

-----------------------------------------------------------------------------
(* WriteQuery.                                                             *)

\* raftNode is set and not stopped.
Running == loop \notin {"new", "starting", "failed", "stopped"}

\* Mutant of GetNewChannel: the counter is read and not advanced.
GetSameChannel(c) ==
  /\ caller[c] = "idle"
  /\ pending' = [pending EXCEPT ![nextID + 1] = c]
  /\ chid' = [chid EXCEPT ![c] = nextID + 1]
  /\ caller' = [caller EXCEPT ![c] = "propose"]
  /\ UNCHANGED <<result, nextID, raftVars, loopVars, stop, crashes>>

\* pendingWrites.GetNewChannel
GetNewChannel(c) ==
  /\ caller[c] = "idle"
  /\ nextID' = nextID + 1
  /\ pending' = [pending EXCEPT ![nextID + 1] = c]
  /\ chid' = [chid EXCEPT ![c] = nextID + 1]
  /\ caller' = [caller EXCEPT ![c] = "propose"]
  /\ UNCHANGED <<result, raftVars, loopVars, stop, crashes>>

OwnEntry(c) == [own |-> TRUE, id |-> chid[c], call |-> c]

\* raftNode.Propose accepted the entry.
Propose(c) ==
  /\ caller[c] = "propose" /\ Running
  /\ proposed' = proposed \cup {OwnEntry(c)}
  /\ caller' = [caller EXCEPT ![c] = "wait"]
  /\ UNCHANGED <<chid, result, poolVars, log, foreign, loopVars, stop, crashes>>

\* propose returned an error: there is no raftNode, it is stopped, or the
\* context ended, then possibly after raft had taken the entry.
ProposeFails(c) ==
  /\ caller[c] = "propose"
  /\ ~Running \/ CanGiveUp
  /\ proposed' \in {proposed, proposed \cup {OwnEntry(c)}}
  /\ ~Running => proposed' = proposed
  /\ caller' = [caller EXCEPT ![c] = "giveUp"]
  /\ UNCHANGED <<chid, result, poolVars, log, foreign, loopVars, stop, crashes>>

\* select: case <-ctx.Done()
ContextDone(c) ==
  /\ caller[c] = "wait" /\ CanGiveUp
  /\ caller' = [caller EXCEPT ![c] = "giveUp"]
  /\ UNCHANGED <<chid, result, poolVars, raftVars, loopVars, stop, crashes>>

\* pendingWrites.Remove
Removed(id) == [pending EXCEPT ![id] = NoCall]

\* Mutant of GiveUp: the channel stays in the pool.
GiveUpNoRemove(c) ==
  /\ caller[c] = "giveUp"
  /\ caller' = [caller EXCEPT ![c] = "returned"]
  /\ result' = [result EXCEPT ![c] = "abandoned"]
  /\ UNCHANGED <<chid, poolVars, raftVars, loopVars, stop, crashes>>

GiveUp(c) ==
  /\ caller[c] = "giveUp"
  /\ pending' = Removed(chid[c])
  /\ caller' = [caller EXCEPT ![c] = "returned"]
  /\ result' = [result EXCEPT ![c] = "abandoned"]
  /\ UNCHANGED <<chid, nextID, raftVars, loopVars, stop, crashes>>

-----------------------------------------------------------------------------
(* Raft (external): a proposal is committed or lost on its way to the      *)
(* leader; other nodes number their writes with IDs of their own.          *)

Commit(e) ==
  /\ e \in proposed
  /\ proposed' = proposed \ {e}
  /\ log' = Append(log, e)
  /\ UNCHANGED <<callVars, poolVars, foreign, loopVars, stop, crashes>>

LoseProposal(e) ==
  /\ e \in proposed /\ CanLose
  /\ proposed' = proposed \ {e}
  /\ UNCHANGED <<callVars, poolVars, log, foreign, loopVars, stop, crashes>>

CommitForeign(id) ==
  /\ foreign < MaxForeign
  /\ foreign' = foreign + 1
  /\ log' = Append(log, [own |-> FALSE, id |-> id, call |-> NoCall])
  /\ UNCHANGED <<callVars, poolVars, proposed, loopVars, stop, crashes>>

-----------------------------------------------------------------------------
(* The main loop: processCommittedData.                                    *)

Current == log[pos]

\* case rd := <-n.raftNode.Ready(), with committed entries
TakeReady ==
  /\ loop = "select" /\ pos < Len(log)
  /\ hi' = Len(log)
  /\ loop' = "next"
  /\ UNCHANGED <<callVars, poolVars, raftVars, pos, target, err, outcome, execErrors, stop, crashes>>

\* backend.ExecSQL ran the statement, or the database rejected it (DBError).
ExecSQL(r) ==
  /\ loop = "next"
  /\ pos' = pos + 1
  /\ err' = r
  /\ outcome' = LET c == log[pos + 1].call
                IN IF c = NoCall THEN outcome ELSE [outcome EXCEPT ![c] = r]
  /\ loop' = "executed"
  /\ UNCHANGED <<callVars, poolVars, raftVars, hi, target, execErrors, stop, crashes>>

\* After entry p: the next committed entry, or Advance and back to select.
AfterEntry(p) == IF p < hi THEN "next" ELSE "select"

\* Any other error: the entry is logged and left; its caller is not told.
ExecSQLFails ==
  /\ loop = "next"
  /\ execErrors < MaxExecErrors
  /\ execErrors' = execErrors + 1
  /\ pos' = pos + 1
  /\ loop' = AfterEntry(pos + 1)
  /\ UNCHANGED <<callVars, poolVars, raftVars, hi, target, err, outcome, stop, crashes>>

\* Mutant of TakeChannel: the NodeID of the entry is not compared.
TakeAnyChannel ==
  /\ loop = "executed"
  /\ pending[Current.id] # NoCall
  /\ target' = pending[Current.id]
  /\ pending' = Removed(Current.id)
  /\ loop' = "send"
  /\ UNCHANGED <<callVars, nextID, raftVars, pos, hi, err, outcome, execErrors, stop, crashes>>

\* query.NodeID == n.config.ID and the pool has the channel: take it out.
TakeChannel ==
  /\ loop = "executed"
  /\ Current.own /\ pending[Current.id] # NoCall
  /\ target' = pending[Current.id]
  /\ pending' = Removed(Current.id)
  /\ loop' = "send"
  /\ UNCHANGED <<callVars, nextID, raftVars, pos, hi, err, outcome, execErrors, stop, crashes>>

\* Mutant of NothingPending: no check for a nil channel, on which a send
\* blocks for ever.
OnlyForeignPending ==
  /\ loop = "executed"
  /\ ~Current.own
  /\ loop' = AfterEntry(pos) /\ err' = "none"
  /\ UNCHANGED <<callVars, poolVars, raftVars, pos, hi, target, outcome, execErrors, stop, crashes>>

NothingPending ==
  /\ loop = "executed"
  /\ ~Current.own \/ pending[Current.id] = NoCall
  /\ loop' = AfterEntry(pos) /\ err' = "none"
  /\ UNCHANGED <<callVars, poolVars, raftVars, pos, hi, target, outcome, execErrors, stop, crashes>>

\* ch <- err meets the caller's case err := <-ch
Send ==
  /\ loop = "send" /\ caller[target] = "wait"
  /\ caller' = [caller EXCEPT ![target] = "returned"]
  /\ result' = [result EXCEPT ![target] = err]
  /\ loop' = AfterEntry(pos) /\ target' = NoCall /\ err' = "none"
  /\ UNCHANGED <<chid, poolVars, raftVars, pos, hi, outcome, execErrors, stop, crashes>>

-----------------------------------------------------------------------------
(* Stop and restart.                                                       *)

\* n.done <- true: the channel has room for one
Stop ==
  /\ stop = "no"
  /\ stop' = "asked"
  /\ UNCHANGED <<callVars, poolVars, raftVars, loopVars, crashes>>

\* The loop picks case <-n.done, winds up, and lets Stop return.
LoopDone ==
  /\ loop = "select" /\ stop = "asked"
  /\ loop' = "stopped" /\ stop' = "returned"
  /\ UNCHANGED <<callVars, poolVars, raftVars, pos, hi, target, err, outcome, execErrors, crashes>>

\* The process is replaced.  Its calls are cut off, the pool numbers from 1
\* again, and the entries still in the log are handed over once more from
\* some earlier one on (Start leaves config.Applied unset).
ProcessRestart ==
  /\ crashes < MaxCrashes
  /\ crashes' = crashes + 1
  /\ caller' = [c \in Calls |-> IF caller[c] = "idle" THEN "idle" ELSE "returned"]
  /\ result' = [c \in Calls |-> IF caller[c] \in {"idle", "returned"}
                                THEN result[c] ELSE "cutOff"]
  /\ pending' = EmptyPool /\ nextID' = 0
  /\ pos' \in 0..pos /\ hi' = 0
  /\ loop' = "new" /\ target' = NoCall /\ err' = "none" /\ stop' = "no"
  /\ UNCHANGED <<chid, raftVars, outcome, execErrors>>

-----------------------------------------------------------------------------

RaftNext ==
  \/ \E e \in proposed : Commit(e) \/ LoseProposal(e)
  \/ \E id \in ID : CommitForeign(id)

LoopStep ==
  \/ TakeReady
  \/ \E r \in {"ok", "dbError"} : ExecSQL(r)
  \/ ExecSQLFails \/ TakeChannel \/ NothingPending \/ Send \/ LoopDone

-----------------------------------------------------------------------------
(* Properties.                                                             *)

CallState == {"idle", "propose", "wait", "giveUp", "returned"}
ExecResult == {"none", "ok", "dbError"}

\* Type invariant.
TypeOK ==
  /\ caller \in [Calls -> CallState]
  /\ chid \in [Calls -> ID \cup {0}]
  /\ result \in [Calls -> ExecResult \cup {"abandoned", "cutOff"}]
  /\ pending \in [ID -> Calls \cup {NoCall}] /\ nextID \in ID \cup {0}
  /\ proposed \subseteq Entry /\ log \in Seq(Entry) /\ foreign \in 0..MaxForeign
  /\ pos \in Nat /\ hi \in Nat /\ pos <= Len(log)
  /\ loop \in {"new", "starting", "failed", "select", "next", "executed", "send", "stopped"}
  /\ target \in Calls \cup {NoCall} /\ err \in ExecResult
  /\ outcome \in [Calls -> ExecResult] /\ execErrors \in 0..MaxExecErrors
  /\ stop \in {"no", "asked", "returned"} /\ crashes \in 0..MaxCrashes

\* The comment on WriteQuery (node.go): it waits for the data to be committed.
\* A call that got a result over its channel got the result of executing its
\* own statement, never that of another call or another node, within one life
\* of the process.
AckOwnWrite ==
  crashes = 0 =>
    \A c \in Calls : result[c] \in {"ok", "dbError"} => outcome[c] = result[c]

\* The same comment over several lives of the process: a call that was told its
\* statement is done was told of its own statement.
AckedIsExecuted ==
  \A c \in Calls : result[c] \in {"ok", "dbError"} => outcome[c] = result[c]

\* The pool holds channels of calls that are under way only, each under the
\* ID of that call: a call that gave up leaves nothing behind.
NoChannelLeak ==
  \A id \in ID : pending[id] # NoCall =>
    /\ chid[pending[id]] = id
    /\ caller[pending[id]] \in {"propose", "wait", "giveUp"}

\* No lost wake-up: a call whose statement has not been executed is found in
\* the pool when its entry is, within one life of the process: the next one
\* numbers from 1 again and meets entries of the last.
CallerFindable ==
  crashes = 0 =>
    \A c \in Calls :
      caller[c] \in {"propose", "wait"} /\ outcome[c] = "none" => pending[chid[c]] = c
=============================================================================
