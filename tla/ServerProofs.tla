---------------------------- MODULE ServerProofs ----------------------------
(***************************************************************************)
(* Proofs about PendingWrites and Server, for every set of calls, whatever *)
(* callers give up, whatever raft loses and wherever the process is ended: *)
(* what the pool of channels holds, what a call of WriteQuery is answered, *)
(* and in which state the process exits.                                   *)
(***************************************************************************)
EXTENDS Server, FiniteSetTheorems, TLAPS

-----------------------------------------------------------------------------
(* The inductive invariant.                                                *)

Made == {c \in Calls : caller[c] # "idle"}

\* The pool: an ID for each call made, no more, and under an ID the call that
\* has it.
PoolInv ==
  /\ nextID <= Cardinality(Made)
  /\ \A id \in ID : pending[id] # NoCall =>
       id <= nextID /\ chid[pending[id]] = id /\ Underway(pending[id])
  /\ \A c \in Calls : Underway(c) => chid[c] \in ID

\* The main loop: the entries it works through, and the channel it holds.
LoopInv ==
  /\ hi <= Len(log)
  /\ loop = "next" => pos < hi
  /\ loop \in {"executed", "send"} => 0 < pos /\ err # "none"
  /\ loop = "send" <=> target # NoCall
  /\ target # NoCall => target \in Made /\ \A id \in ID : pending[id] # target

\* An entry of this node names its call, one of another node none.
Names(e) == IF e.own THEN e.call \in Calls ELSE e.call = NoCall

\* Raft's entries of one life of the process: each call has one at most, under
\* the ID the call was given, and none before it proposed one.
Tagged(e) ==
  e.own => e.id = chid[e.call] /\ caller[e.call] \in {"wait", "giveUp", "returned"}

EntryInv ==
  /\ \A e \in proposed : Names(e) /\ e.own
  /\ \A k \in 1..Len(log) : Names(log[k])
  /\ crashes = 0 =>
       /\ \A e \in proposed : Tagged(e) /\ outcome[e.call] = "none"
       /\ \A k \in 1..Len(log) : Tagged(log[k])
       /\ \A k \in 1..Len(log), e \in proposed : log[k].call # e.call
       /\ \A j, k \in 1..Len(log) : log[j].own /\ log[j].call = log[k].call => j = k
       /\ \A k \in 1..Len(log) : pos < k /\ log[k].own => outcome[log[k].call] = "none"

\* The calls of one life: no two have the same ID, and the loop hands over the
\* result of the entry it has executed.
LifeInv ==
  crashes = 0 =>
    /\ \A c \in Made : chid[c] \in 1..nextID
    /\ \A c, d \in Made : chid[c] = chid[d] => c = d
    /\ \A c \in Calls : caller[c] \in {"idle", "propose"} => outcome[c] = "none"
    /\ loop = "executed" /\ Current.own => outcome[Current.call] = err
    /\ loop = "send" => outcome[target] = err

WriteInv ==
  TypeOK /\ PoolInv /\ LoopInv /\ EntryInv /\ LifeInv /\ AckOwnWrite /\ CallerFindable

\* The process: what has ended before main goes on.
ProcessInv ==
  /\ main \in {"begin", "dialing"} => loop = "new"
  /\ stop = "returned" => loop = "stopped"
  /\ main \in {"gateway", "draining", "exited", "aborted"} => loop = "stopped"
  /\ main \in {"draining", "exited", "aborted"} => grpc # "serving"
  /\ main \in {"exited", "aborted"} => Served(Gateway)
  /\ main = "exited" => Served(Calls \cup Reads)

IInv == ServerTypeOK /\ WriteInv /\ ProcessInv

-----------------------------------------------------------------------------
(* Facts about the state and the operators.                                *)

USE ConstantsAssumption

\* There are as many IDs as calls.
LEMMA Counting ==
  /\ Cardinality(Calls) \in Nat
  /\ IsFiniteSet(Made) /\ Cardinality(Made) \in Nat /\ Cardinality(Made) <= Cardinality(Calls)
  /\ \A c \in Calls \ Made : Cardinality(Made) + 1 <= Cardinality(Calls)
  /\ \A c \in Calls \ Made : Cardinality(Made \cup {c}) = Cardinality(Made) + 1
<1>1. Cardinality(Calls) \in Nat
  BY FS_CardinalityType
<1>2. Made \subseteq Calls
  BY DEF Made
<1>3. IsFiniteSet(Made) /\ Cardinality(Made) <= Cardinality(Calls)
  BY <1>2, FS_Subset
<1>4. Cardinality(Made) \in Nat
  BY <1>3, FS_CardinalityType
<1>5. \A c \in Calls \ Made : Cardinality(Made \cup {c}) = Cardinality(Made) + 1
  BY <1>3, FS_AddElement
<1>6. ASSUME NEW c \in Calls \ Made
      PROVE  Cardinality(Made) + 1 <= Cardinality(Calls)
  <2>1. Made \cup {c} \subseteq Calls
    BY <1>2
  <2>2. Cardinality(Made \cup {c}) <= Cardinality(Calls)
    BY <2>1, FS_Subset
  <2> QED
    BY <2>2, <1>5
<1> QED
  BY <1>1, <1>3, <1>4, <1>5, <1>6

\* What the type invariant says of the entries.
LEMMA Entries ==
  ASSUME TypeOK
  PROVE  /\ Len(log) \in Nat
         /\ \A k \in 1..Len(log) : log[k] \in Entry
         /\ \A e \in proposed : e \in Entry
BY DEF TypeOK

-----------------------------------------------------------------------------
(* One lemma per action of PendingWrites.                                  *)

LEMMA GetNewChannelStep ==
  ASSUME WriteInv, NEW c \in Calls, GetNewChannel(c)
  PROVE  WriteInv'
<1>0. c \notin Made /\ Made' = Made \cup {c}
  BY DEF WriteInv, TypeOK, Made, GetNewChannel
<1>a. /\ caller[c] = "idle" /\ nextID' = nextID + 1
      /\ pending' = [pending EXCEPT ![nextID + 1] = c]
      /\ chid' = [chid EXCEPT ![c] = nextID + 1]
      /\ caller' = [caller EXCEPT ![c] = "propose"]
      /\ UNCHANGED <<result, target, loop, outcome, crashes>>
  BY DEF GetNewChannel, loopVars
<1>b. /\ nextID + 1 \in ID /\ nextID' <= Cardinality(Made)'
      /\ \A id \in ID : pending[id] # NoCall => id <= nextID /\ pending[id] # c
      /\ target # c
  <2>1. nextID \in Nat /\ nextID <= Cardinality(Made)
    BY DEF WriteInv, TypeOK, PoolInv, ID
  <2>3. nextID + 1 \in ID /\ nextID' <= Cardinality(Made)'
    BY <1>0, <1>a, <2>1, Counting DEF ID
  <2> QED
    BY <1>0, <1>a, <2>3 DEF WriteInv, PoolInv, LoopInv, Underway
<1>1. TypeOK'
  BY <1>0, Counting DEF WriteInv, TypeOK, PoolInv, ID, CallState, GetNewChannel, raftVars,
         loopVars
<1>2. PoolInv'
  BY <1>a, <1>b DEF WriteInv, TypeOK, PoolInv, Underway, ID
<1>3. LoopInv'
  BY <1>0 DEF WriteInv, LoopInv, GetNewChannel, raftVars, loopVars
<1>4. EntryInv'
  BY DEF WriteInv, EntryInv, Tagged, GetNewChannel, raftVars, loopVars
<1>5. LifeInv'
  BY <1>0 DEF WriteInv, TypeOK, LifeInv, ID, Current, GetNewChannel, raftVars, loopVars
<1>6. AckOwnWrite' /\ CallerFindable'
  <2>1. AckOwnWrite'
    BY <1>a DEF WriteInv, AckOwnWrite
  <2>2. CallerFindable'
    <3> SUFFICES ASSUME crashes = 0, NEW d \in Calls,
                        caller'[d] \in {"propose", "wait"}, outcome[d] = "none"
                 PROVE  pending'[chid'[d]] = d
      BY <1>a DEF CallerFindable
    <3>1. CASE d = c
      BY <3>1, <1>a, <1>b DEF WriteInv, TypeOK
    <3>2. CASE d # c
      <4>1. d \in Made /\ chid'[d] = chid[d] /\ chid[d] \in 1..nextID
        BY <3>2, <1>a DEF WriteInv, LifeInv, Made
      <4>2. pending[chid[d]] = d
        BY <3>2, <1>a DEF WriteInv, CallerFindable
      <4> QED
        BY <1>a, <4>1, <4>2 DEF WriteInv, TypeOK, ID
    <3> QED
      BY <3>1, <3>2
  <2> QED
    BY <2>1, <2>2
<1> QED
  BY <1>1, <1>2, <1>3, <1>4, <1>5, <1>6 DEF WriteInv

LEMMA ProposeStep ==
  ASSUME WriteInv, NEW c \in Calls, Propose(c)
  PROVE  WriteInv'
<1>0. Made' = Made
  BY DEF Made, Propose
<1>a. /\ caller[c] = "propose" /\ caller' = [caller EXCEPT ![c] = "wait"]
      /\ proposed' \in {proposed, proposed \cup {OwnEntry(c)}}
      /\ UNCHANGED <<chid, log, pos, outcome, crashes>>
  BY DEF Propose, loopVars
<1>b. PICK x \in Entry : x = OwnEntry(c) /\ x.own /\ x.id = chid[c] /\ x.call = c
  <2>1. /\ OwnEntry(c) \in Entry
        /\ OwnEntry(c).own /\ OwnEntry(c).id = chid[c] /\ OwnEntry(c).call = c
    BY <1>a DEF WriteInv, PoolInv, Underway, OwnEntry, Entry
  <2> QED
    BY <2>1
<1>1. TypeOK'
  <2>1. proposed' \subseteq Entry /\ caller' \in [Calls -> CallState]
    BY <1>a, <1>b DEF WriteInv, TypeOK, CallState
  <2> QED
    BY <2>1 DEF WriteInv, TypeOK, Propose, poolVars, loopVars
<1>2. PoolInv'
  BY <1>0 DEF WriteInv, PoolInv, Underway, Propose, poolVars
<1>3. LoopInv'
  BY <1>0 DEF WriteInv, LoopInv, Propose, poolVars, loopVars
<1>4. EntryInv'
  <2>1. /\ \A d \in Calls \ {c} : caller'[d] = caller[d]
        /\ caller'[c] = "wait"
    BY <1>a DEF WriteInv, TypeOK
  <2>2. /\ \A e \in Entry : Names(e)' = Names(e)
        /\ Names(x) /\ Tagged(x)'
    BY <1>a, <1>b, <2>1 DEF Names, Tagged
  <2>3. \A e \in Entry : Names(e) /\ Tagged(e) => Tagged(e)' /\ (e.own => e.call # c)
    BY <1>a DEF Tagged
  <2>4. crashes = 0 => outcome[c] = "none"
    BY <1>a DEF WriteInv, LifeInv
  <2>5. \A k \in 1..Len(log) : Names(log[k]) /\ (crashes = 0 => log[k].call # c)
    BY <2>3, Entries DEF WriteInv, EntryInv, Names
  <2> QED
    BY <1>a, <1>b, <2>2, <2>3, <2>4, <2>5, Entries DEF WriteInv, EntryInv
<1>5. LifeInv'
  BY <1>0 DEF WriteInv, LifeInv, Current, Propose, poolVars, loopVars
<1>6. AckOwnWrite' /\ CallerFindable'
  BY DEF WriteInv, AckOwnWrite, CallerFindable, Propose, poolVars, loopVars
<1> QED
  BY <1>1, <1>2, <1>3, <1>4, <1>5, <1>6 DEF WriteInv

LEMMA ProposeFailsStep ==
  ASSUME WriteInv, NEW c \in Calls, ProposeFails(c)
  PROVE  WriteInv'
<1>0. Made' = Made
  BY DEF Made, ProposeFails
<1>a. /\ caller[c] = "propose" /\ caller' = [caller EXCEPT ![c] = "giveUp"]
      /\ proposed' \in {proposed, proposed \cup {OwnEntry(c)}}
      /\ UNCHANGED <<chid, log, pos, outcome, crashes>>
  BY DEF ProposeFails, loopVars
<1>b. PICK x \in Entry : x = OwnEntry(c) /\ x.own /\ x.id = chid[c] /\ x.call = c
  <2>1. /\ OwnEntry(c) \in Entry
        /\ OwnEntry(c).own /\ OwnEntry(c).id = chid[c] /\ OwnEntry(c).call = c
    BY <1>a DEF WriteInv, PoolInv, Underway, OwnEntry, Entry
  <2> QED
    BY <2>1
<1>1. TypeOK'
  <2>1. proposed' \subseteq Entry /\ caller' \in [Calls -> CallState]
    BY <1>a, <1>b DEF WriteInv, TypeOK, CallState
  <2> QED
    BY <2>1 DEF WriteInv, TypeOK, ProposeFails, poolVars, loopVars
<1>2. PoolInv'
  BY <1>0 DEF WriteInv, PoolInv, Underway, ProposeFails, poolVars
<1>3. LoopInv'
  BY <1>0 DEF WriteInv, LoopInv, ProposeFails, poolVars, loopVars
<1>4. EntryInv'
  <2>1. /\ \A d \in Calls \ {c} : caller'[d] = caller[d]
        /\ caller'[c] = "giveUp"
    BY <1>a DEF WriteInv, TypeOK
  <2>2. /\ \A e \in Entry : Names(e)' = Names(e)
        /\ Names(x) /\ Tagged(x)'
    BY <1>a, <1>b, <2>1 DEF Names, Tagged
  <2>3. \A e \in Entry : Names(e) /\ Tagged(e) => Tagged(e)' /\ (e.own => e.call # c)
    BY <1>a DEF Tagged
  <2>4. crashes = 0 => outcome[c] = "none"
    BY <1>a DEF WriteInv, LifeInv
  <2>5. \A k \in 1..Len(log) : Names(log[k]) /\ (crashes = 0 => log[k].call # c)
    BY <2>3, Entries DEF WriteInv, EntryInv, Names
  <2> QED
    BY <1>a, <1>b, <2>2, <2>3, <2>4, <2>5, Entries DEF WriteInv, EntryInv
<1>5. LifeInv'
  BY <1>0 DEF WriteInv, LifeInv, Current, ProposeFails, poolVars, loopVars
<1>6. AckOwnWrite' /\ CallerFindable'
  BY DEF WriteInv, AckOwnWrite, CallerFindable, ProposeFails, poolVars, loopVars
<1> QED
  BY <1>1, <1>2, <1>3, <1>4, <1>5, <1>6 DEF WriteInv

LEMMA ContextDoneStep ==
  ASSUME WriteInv, NEW c \in Calls, ContextDone(c)
  PROVE  WriteInv'
<1>0. Made' = Made
  BY DEF Made, ContextDone
<1>1. TypeOK'
  BY DEF WriteInv, TypeOK, CallState, ContextDone, poolVars, raftVars, loopVars
<1>2. PoolInv'
  BY <1>0 DEF WriteInv, PoolInv, Underway, ContextDone, poolVars
<1>3. LoopInv'
  BY <1>0 DEF WriteInv, LoopInv, ContextDone, poolVars, raftVars, loopVars
<1>4. EntryInv'
  BY DEF WriteInv, EntryInv, Tagged, ContextDone, poolVars, raftVars, loopVars
<1>5. LifeInv'
  BY <1>0 DEF WriteInv, LifeInv, Current, ContextDone, poolVars, raftVars, loopVars
<1>6. AckOwnWrite' /\ CallerFindable'
  BY DEF WriteInv, AckOwnWrite, CallerFindable, ContextDone, poolVars, loopVars
<1> QED
  BY <1>1, <1>2, <1>3, <1>4, <1>5, <1>6 DEF WriteInv

LEMMA GiveUpStep ==
  ASSUME WriteInv, NEW c \in Calls, GiveUp(c)
  PROVE  WriteInv'
<1>0. Made' = Made
  BY DEF Made, GiveUp
<1>1. TypeOK'
  BY DEF WriteInv, TypeOK, CallState, GiveUp, Removed, raftVars, loopVars
<1>2. PoolInv'
  BY <1>0 DEF WriteInv, TypeOK, PoolInv, Underway, GiveUp, Removed
<1>3. LoopInv'
  BY <1>0 DEF WriteInv, LoopInv, GiveUp, Removed, raftVars, loopVars
<1>4. EntryInv'
  BY DEF WriteInv, EntryInv, Tagged, GiveUp, raftVars, loopVars
<1>5. LifeInv'
  BY <1>0 DEF WriteInv, LifeInv, Current, GiveUp, raftVars, loopVars
<1>6. AckOwnWrite' /\ CallerFindable'
  BY DEF WriteInv, LifeInv, Made, AckOwnWrite, CallerFindable, GiveUp, Removed, loopVars
<1> QED
  BY <1>1, <1>2, <1>3, <1>4, <1>5, <1>6 DEF WriteInv

LEMMA CommitStep ==
  ASSUME WriteInv, NEW e \in proposed, Commit(e)
  PROVE  WriteInv'
<1>0. Made' = Made
  BY DEF Made, Commit, callVars
<1>1. TypeOK'
  BY DEF WriteInv, TypeOK, Commit, callVars, poolVars, loopVars
<1>2. PoolInv'
  BY <1>0 DEF WriteInv, PoolInv, Underway, Commit, callVars, poolVars
<1>3. LoopInv'
  BY <1>0 DEF WriteInv, TypeOK, LoopInv, Commit, poolVars, loopVars
<1>4. EntryInv'
  <2>1. /\ proposed' = proposed \ {e} /\ Len(log') = Len(log) + 1 /\ log'[Len(log) + 1] = e
        /\ \A k \in 1..Len(log) : log'[k] = log[k]
        /\ UNCHANGED <<caller, chid, pos, outcome, crashes>> /\ pos <= Len(log)
    BY DEF WriteInv, TypeOK, Commit, callVars, loopVars
  <2>2. \A x : Names(x)' = Names(x) /\ Tagged(x)' = Tagged(x)
    BY <2>1 DEF Tagged
  <2>3. \A x \in proposed : crashes = 0 /\ x.call = e.call => x = e
    BY Entries DEF WriteInv, EntryInv, Tagged, Entry
  <2>9. crashes = 0 => \A k \in 1..Len(log'), x \in proposed' : log'[k].call # x.call
    BY <2>1, <2>3 DEF WriteInv, EntryInv
  <2> QED
    BY <2>1, <2>2, <2>9 DEF WriteInv, EntryInv
<1>5. LifeInv'
  BY <1>0 DEF WriteInv, TypeOK, LoopInv, LifeInv, Current, Commit, callVars, poolVars, loopVars
<1>6. AckOwnWrite' /\ CallerFindable'
  BY DEF WriteInv, AckOwnWrite, CallerFindable, Commit, callVars, poolVars, loopVars
<1> QED
  BY <1>1, <1>2, <1>3, <1>4, <1>5, <1>6 DEF WriteInv

LEMMA LoseProposalStep ==
  ASSUME WriteInv, NEW e \in proposed, LoseProposal(e)
  PROVE  WriteInv'
<1>0. Made' = Made
  BY DEF Made, LoseProposal, callVars
<1>1. TypeOK'
  BY DEF WriteInv, TypeOK, LoseProposal, callVars, poolVars, loopVars
<1>2. PoolInv'
  BY <1>0 DEF WriteInv, PoolInv, Underway, LoseProposal, callVars, poolVars
<1>3. LoopInv'
  BY <1>0 DEF WriteInv, LoopInv, LoseProposal, poolVars, loopVars
<1>4. EntryInv'
  BY DEF WriteInv, EntryInv, Tagged, LoseProposal, callVars, loopVars
<1>5. LifeInv'
  BY <1>0 DEF WriteInv, LifeInv, Current, LoseProposal, callVars, poolVars, loopVars
<1>6. AckOwnWrite' /\ CallerFindable'
  BY DEF WriteInv, AckOwnWrite, CallerFindable, LoseProposal, callVars, poolVars, loopVars
<1> QED
  BY <1>1, <1>2, <1>3, <1>4, <1>5, <1>6 DEF WriteInv

LEMMA CommitForeignStep ==
  ASSUME WriteInv, NEW id \in ID, CommitForeign(id)
  PROVE  WriteInv'
<1>0. Made' = Made
  BY DEF Made, CommitForeign, callVars
<1>1. TypeOK'
  BY DEF WriteInv, TypeOK, Entry, CommitForeign, callVars, poolVars, loopVars
<1>2. PoolInv'
  BY <1>0 DEF WriteInv, PoolInv, Underway, CommitForeign, callVars, poolVars
<1>3. LoopInv'
  BY <1>0 DEF WriteInv, TypeOK, LoopInv, CommitForeign, poolVars, loopVars
<1>4. EntryInv'
  BY DEF WriteInv, EntryInv, Names, Tagged, CommitForeign, callVars, poolVars, loopVars
<1>5. LifeInv'
  BY <1>0 DEF WriteInv, TypeOK, LoopInv, LifeInv, Current, CommitForeign, callVars, poolVars,
         loopVars
<1>6. AckOwnWrite' /\ CallerFindable'
  BY DEF WriteInv, AckOwnWrite, CallerFindable, CommitForeign, callVars, poolVars, loopVars
<1> QED
  BY <1>1, <1>2, <1>3, <1>4, <1>5, <1>6 DEF WriteInv

LEMMA TakeReadyStep ==
  ASSUME WriteInv, TakeReady
  PROVE  WriteInv'
<1>0. Made' = Made
  BY DEF Made, TakeReady, callVars
<1>1. TypeOK'
  BY DEF WriteInv, TypeOK, TakeReady, callVars, poolVars, raftVars
<1>2. PoolInv'
  BY <1>0 DEF WriteInv, PoolInv, Underway, TakeReady, callVars, poolVars
<1>3. LoopInv'
  BY DEF WriteInv, LoopInv, TakeReady, raftVars
<1>4. EntryInv'
  BY DEF WriteInv, EntryInv, Tagged, TakeReady, callVars, raftVars
<1>5. LifeInv'
  BY <1>0 DEF WriteInv, LifeInv, TakeReady, callVars, poolVars
<1>6. AckOwnWrite' /\ CallerFindable'
  BY DEF WriteInv, AckOwnWrite, CallerFindable, TakeReady, callVars, poolVars
<1> QED
  BY <1>1, <1>2, <1>3, <1>4, <1>5, <1>6 DEF WriteInv

LEMMA ExecSQLStep ==
  ASSUME WriteInv, NEW r \in {"ok", "dbError"}, ExecSQL(r)
  PROVE  WriteInv'
<1>0. Made' = Made
  BY DEF Made, ExecSQL, callVars
<1>1. TypeOK'
  <2>1. outcome' \in [Calls -> ExecResult] /\ pos' \in Nat /\ pos' <= Len(log)
    <3>1. pos + 1 \in 1..Len(log)
      BY DEF WriteInv, TypeOK, LoopInv, ExecSQL
    <3>2. log[pos + 1].call \in Calls \cup {NoCall}
      BY <3>1, Entries DEF WriteInv, Entry
    <3> QED
      BY <3>1, <3>2 DEF WriteInv, TypeOK, ExecSQL, ExecResult
  <2> QED
    BY <2>1 DEF WriteInv, TypeOK, ExecSQL, ExecResult, callVars, poolVars, raftVars
<1>2. PoolInv'
  BY <1>0 DEF WriteInv, PoolInv, Underway, ExecSQL, callVars, poolVars
<1>3. LoopInv'
  BY DEF WriteInv, TypeOK, LoopInv, ExecSQL, raftVars
<1>4. EntryInv'
  BY DEF WriteInv, TypeOK, LoopInv, EntryInv, Tagged, ExecSQL, callVars, raftVars
<1>5. LifeInv'
  BY <1>0 DEF WriteInv, TypeOK, LoopInv, EntryInv, Names, Tagged, LifeInv, ExecSQL, Current,
         callVars, poolVars, raftVars
<1>6. AckOwnWrite' /\ CallerFindable'
  BY DEF WriteInv, TypeOK, LoopInv, EntryInv, Names, AckOwnWrite, CallerFindable, ExecSQL,
         callVars, poolVars
<1> QED
  BY <1>1, <1>2, <1>3, <1>4, <1>5, <1>6 DEF WriteInv

LEMMA ExecSQLFailsStep ==
  ASSUME WriteInv, ExecSQLFails
  PROVE  WriteInv'
<1>0. Made' = Made
  BY DEF Made, ExecSQLFails, callVars
<1>1. TypeOK'
  BY DEF WriteInv, TypeOK, LoopInv, ExecSQLFails, AfterEntry, callVars, poolVars, raftVars
<1>2. PoolInv'
  BY <1>0 DEF WriteInv, PoolInv, Underway, ExecSQLFails, callVars, poolVars
<1>3. LoopInv'
  BY DEF WriteInv, LoopInv, ExecSQLFails, AfterEntry, raftVars
<1>4. EntryInv'
  BY DEF WriteInv, TypeOK, EntryInv, Tagged, ExecSQLFails, callVars, raftVars
<1>5. LifeInv'
  BY <1>0 DEF WriteInv, LifeInv, ExecSQLFails, AfterEntry, callVars, poolVars
<1>6. AckOwnWrite' /\ CallerFindable'
  BY DEF WriteInv, AckOwnWrite, CallerFindable, ExecSQLFails, callVars, poolVars
<1> QED
  BY <1>1, <1>2, <1>3, <1>4, <1>5, <1>6 DEF WriteInv

LEMMA TakeChannelStep ==
  ASSUME WriteInv, TakeChannel
  PROVE  WriteInv'
<1>0. Made' = Made
  BY DEF Made, TakeChannel, callVars
<1>a. /\ loop = "executed" /\ loop' = "send" /\ target' = pending[Current.id]
      /\ Current.own /\ pending[Current.id] # NoCall
      /\ pending' = [pending EXCEPT ![Current.id] = NoCall]
      /\ UNCHANGED <<caller, chid, result, nextID, log, pos, hi, err, outcome, crashes>>
  BY DEF TakeChannel, Removed, callVars, raftVars
<1>b. Current \in Entry /\ Current.id \in ID /\ pos \in 1..Len(log)
  <2>1. pos \in 1..Len(log)
    BY <1>a DEF WriteInv, TypeOK, LoopInv
  <2> QED
    BY <2>1, Entries DEF WriteInv, Current, Entry
<1>c. /\ target' \in Made /\ chid[target'] = Current.id
      /\ \A id \in ID : pending[id] = target' => id = Current.id
  BY <1>a, <1>b DEF WriteInv, TypeOK, PoolInv, Underway, Made
<1>1. TypeOK'
  <2>1. target' \in Calls /\ pending' \in [ID -> Calls \cup {NoCall}]
    BY <1>a, <1>c DEF WriteInv, TypeOK, Made
  <2> QED
    BY <2>1 DEF WriteInv, TypeOK, TakeChannel, callVars, raftVars
<1>2. PoolInv'
  BY <1>0 DEF WriteInv, PoolInv, Underway, TakeChannel, Removed, callVars
<1>3. LoopInv'
  <2>1. target' # NoCall /\ \A id \in ID : pending'[id] # target'
    BY <1>a, <1>c DEF WriteInv, TypeOK
  <2> QED
    BY <1>0, <1>a, <1>c, <2>1 DEF WriteInv, LoopInv
<1>4. EntryInv'
  BY DEF WriteInv, EntryInv, Tagged, TakeChannel, callVars, raftVars
<1>5. LifeInv'
  <2>1. crashes = 0 => target' = Current.call
    <3>1. crashes = 0 => Current.call \in Made /\ chid[Current.call] = Current.id
      BY <1>a, <1>b DEF WriteInv, EntryInv, Names, Tagged, Current, Made
    <3> QED
      BY <3>1, <1>c DEF WriteInv, LifeInv
  <2> QED
    BY <1>0, <1>a, <2>1 DEF WriteInv, LifeInv
<1>6. AckOwnWrite' /\ CallerFindable'
  <2>1. AckOwnWrite'
    BY <1>a DEF WriteInv, AckOwnWrite
  <2>2. CallerFindable'
    <3> SUFFICES ASSUME crashes = 0, NEW d \in Calls,
                        caller[d] \in {"propose", "wait"}, outcome[d] = "none"
                 PROVE  pending'[chid[d]] = d
      BY <1>a DEF CallerFindable
    <3>1. pending[chid[d]] = d /\ chid[d] \in ID
      BY DEF WriteInv, CallerFindable, PoolInv, Underway
    <3>2. d # target'
      BY <1>5, <1>3, <1>a DEF LifeInv, LoopInv
    <3> QED
      BY <3>1, <3>2, <1>a
  <2> QED
    BY <2>1, <2>2
<1> QED
  BY <1>1, <1>2, <1>3, <1>4, <1>5, <1>6 DEF WriteInv

LEMMA NothingPendingStep ==
  ASSUME WriteInv, NothingPending
  PROVE  WriteInv'
<1>0. Made' = Made
  BY DEF Made, NothingPending, callVars
<1>1. TypeOK'
  BY DEF WriteInv, TypeOK, ExecResult, NothingPending, AfterEntry, callVars, poolVars, raftVars
<1>2. PoolInv'
  BY <1>0 DEF WriteInv, PoolInv, Underway, NothingPending, callVars, poolVars
<1>3. LoopInv'
  BY DEF WriteInv, LoopInv, NothingPending, AfterEntry, raftVars
<1>4. EntryInv'
  BY DEF WriteInv, EntryInv, Tagged, NothingPending, callVars, raftVars
<1>5. LifeInv'
  BY <1>0 DEF WriteInv, LifeInv, NothingPending, AfterEntry, callVars, poolVars
<1>6. AckOwnWrite' /\ CallerFindable'
  BY DEF WriteInv, AckOwnWrite, CallerFindable, NothingPending, callVars, poolVars
<1> QED
  BY <1>1, <1>2, <1>3, <1>4, <1>5, <1>6 DEF WriteInv

LEMMA SendStep ==
  ASSUME WriteInv, Send
  PROVE  WriteInv'
<1>0. Made' = Made
  BY DEF Made, Send
<1>1. TypeOK'
  BY DEF WriteInv, TypeOK, ExecResult, CallState, Send, AfterEntry, poolVars, raftVars
<1>2. PoolInv'
  BY <1>0 DEF WriteInv, PoolInv, LoopInv, Underway, Send, poolVars
<1>3. LoopInv'
  BY DEF WriteInv, LoopInv, Send, AfterEntry, raftVars
<1>4. EntryInv'
  BY DEF WriteInv, EntryInv, Tagged, Send, raftVars
<1>5. LifeInv'
  BY <1>0 DEF WriteInv, LifeInv, Send, AfterEntry, poolVars
<1>6. AckOwnWrite' /\ CallerFindable'
  BY DEF WriteInv, LifeInv, AckOwnWrite, CallerFindable, Send, poolVars
<1> QED
  BY <1>1, <1>2, <1>3, <1>4, <1>5, <1>6 DEF WriteInv

LEMMA StopStep ==
  ASSUME WriteInv, Stop
  PROVE  WriteInv'
<1>0. Made' = Made
  BY DEF Made, Stop, callVars
<1>1. TypeOK'
  BY DEF WriteInv, TypeOK, Stop, callVars, poolVars, raftVars, loopVars
<1>2. PoolInv'
  BY <1>0 DEF WriteInv, PoolInv, Underway, Stop, callVars, poolVars
<1>3. LoopInv'
  BY <1>0 DEF WriteInv, LoopInv, Stop, poolVars, raftVars, loopVars
<1>4. EntryInv'
  BY DEF WriteInv, EntryInv, Tagged, Stop, callVars, raftVars, loopVars
<1>5. LifeInv'
  BY <1>0 DEF WriteInv, LifeInv, Current, Stop, callVars, poolVars, raftVars, loopVars
<1>6. AckOwnWrite' /\ CallerFindable'
  BY DEF WriteInv, AckOwnWrite, CallerFindable, Stop, callVars, poolVars, loopVars
<1> QED
  BY <1>1, <1>2, <1>3, <1>4, <1>5, <1>6 DEF WriteInv

LEMMA LoopDoneStep ==
  ASSUME WriteInv, LoopDone
  PROVE  WriteInv'
<1>0. Made' = Made
  BY DEF Made, LoopDone, callVars
<1>1. TypeOK'
  BY DEF WriteInv, TypeOK, LoopDone, callVars, poolVars, raftVars
<1>2. PoolInv'
  BY <1>0 DEF WriteInv, PoolInv, Underway, LoopDone, callVars, poolVars
<1>3. LoopInv'
  BY DEF WriteInv, LoopInv, LoopDone, raftVars
<1>4. EntryInv'
  BY DEF WriteInv, EntryInv, Tagged, LoopDone, callVars, raftVars
<1>5. LifeInv'
  BY <1>0 DEF WriteInv, LifeInv, LoopDone, callVars, poolVars
<1>6. AckOwnWrite' /\ CallerFindable'
  BY DEF WriteInv, AckOwnWrite, CallerFindable, LoopDone, callVars, poolVars
<1> QED
  BY <1>1, <1>2, <1>3, <1>4, <1>5, <1>6 DEF WriteInv

LEMMA ProcessRestartStep ==
  ASSUME WriteInv, ProcessRestart
  PROVE  WriteInv'
<1>0. Made' = Made
  BY DEF Made, ProcessRestart
<1>1. TypeOK'
  BY DEF WriteInv, TypeOK, ExecResult, CallState, ProcessRestart, EmptyPool, raftVars
<1>2. PoolInv'
  BY <1>0, Counting DEF PoolInv, Underway, ProcessRestart, EmptyPool
<1>3. LoopInv'
  BY DEF LoopInv, ProcessRestart
<1>4. EntryInv'
  BY DEF WriteInv, TypeOK, EntryInv, ProcessRestart, raftVars
<1>5. LifeInv'
  BY DEF WriteInv, TypeOK, LifeInv, ProcessRestart
<1>6. AckOwnWrite' /\ CallerFindable'
  BY DEF WriteInv, TypeOK, AckOwnWrite, CallerFindable, ProcessRestart
<1> QED
  BY <1>1, <1>2, <1>3, <1>4, <1>5, <1>6 DEF WriteInv

-----------------------------------------------------------------------------
(* The actions of Server.                                                  *)

USE ServerAssumption

\* Steps of main, and steps that change nothing, leave the writes alone.
LEMMA WritesUnchanged ==
  ASSUME WriteInv, UNCHANGED vars
  PROVE  WriteInv'
<1>1. /\ UNCHANGED <<caller, chid, result, pending, nextID, proposed, log, foreign>>
      /\ UNCHANGED <<pos, hi, loop, target, err, outcome, execErrors, stop, crashes>>
  BY DEF vars, callVars, poolVars, raftVars, loopVars
<1>2. Made' = Made /\ Current' = Current
  BY <1>1 DEF Made, Current
<1>3. TypeOK' /\ PoolInv' /\ LoopInv'
  BY <1>1, <1>2 DEF WriteInv, TypeOK, PoolInv, LoopInv, Underway
<1>4. EntryInv'
  <2>1. \A e : Names(e)' = Names(e) /\ Tagged(e)' = Tagged(e)
    BY <1>1 DEF Tagged
  <2> QED
    BY <1>1, <2>1 DEF WriteInv, EntryInv
<1>5. LifeInv' /\ AckOwnWrite' /\ CallerFindable'
  BY <1>1, <1>2 DEF WriteInv, LifeInv, AckOwnWrite, CallerFindable
<1> QED
  BY <1>3, <1>4, <1>5 DEF WriteInv

\* Node.Start moves the main loop only, before it has taken an entry.
LEMMA NodeComesUp ==
  ASSUME WriteInv, loop \in {"new", "starting"}, loop' \in {"starting", "failed", "select"},
         UNCHANGED <<callVars, poolVars, raftVars, pos, hi, target, err, outcome,
                     execErrors, stop, crashes>>
  PROVE  WriteInv'
<1>1. /\ UNCHANGED <<caller, chid, result, pending, nextID, proposed, log, foreign>>
      /\ UNCHANGED <<pos, hi, target, err, outcome, execErrors, stop, crashes>>
  BY DEF callVars, poolVars, raftVars
<1>2. Made' = Made
  BY <1>1 DEF Made
<1>3. TypeOK' /\ PoolInv' /\ LoopInv'
  BY <1>1, <1>2 DEF WriteInv, TypeOK, PoolInv, LoopInv, Underway
<1>4. EntryInv'
  <2>1. \A e : Names(e)' = Names(e) /\ Tagged(e)' = Tagged(e)
    BY <1>1 DEF Tagged
  <2> QED
    BY <1>1, <2>1 DEF WriteInv, EntryInv
<1>5. LifeInv' /\ AckOwnWrite' /\ CallerFindable'
  BY <1>1, <1>2 DEF WriteInv, LifeInv, AckOwnWrite, CallerFindable
<1> QED
  BY <1>3, <1>4, <1>5 DEF WriteInv

\* Listen to Exit and Signal, but for StartNode and StopNode.
LEMMA MainLeavesWrites ==
  ASSUME IInv, \/ Listen \/ ListenFails \/ Wait \/ Signal
               \/ ShutdownGateway \/ ShutdownFails \/ GracefulStop \/ Exit
  PROVE  IInv'
<1>1. UNCHANGED vars
  BY DEF Listen, ListenFails, Wait, Signal, ShutdownGateway, ShutdownFails,
         GracefulStop, Exit, MainTo
<1>2. WriteInv' /\ TypeOK'
  BY <1>1, WritesUnchanged DEF IInv, WriteInv
<1>3. ServerTypeOK'
  <2>1. main' \in {"begin", "dialing", "started", "waiting", "stopping",
                   "gateway", "draining", "exited", "aborted", "panicked", "killed"}
    BY DEF IInv, ServerTypeOK, Listen, ListenFails, Wait, Signal, ShutdownGateway,
           ShutdownFails, GracefulStop, Exit, MainTo, raftHang
  <2>2. /\ grpc' \in {"down", "serving", "draining"} /\ http' \in {"down", "serving", "draining"}
        /\ attempts' \in 0..MaxRetries /\ signals' \in 0..MaxSignals
        /\ open' \subseteq Reads /\ hung' \in BOOLEAN /\ hangs' \in 0..MaxHangs
    BY DEF IInv, ServerTypeOK, Listen, ListenFails, Wait, Signal, ShutdownGateway,
           ShutdownFails, GracefulStop, Exit, MainTo, raftHang
  <2> QED
    BY <1>2, <2>1, <2>2 DEF ServerTypeOK
<1>4. ProcessInv'
  <2>1. UNCHANGED <<loop, stop, caller, open>>
    BY <1>1 DEF vars, loopVars, callVars, Listen, ListenFails, Wait, Signal, ShutdownGateway,
           ShutdownFails, GracefulStop, Exit, MainTo
  <2>2. CASE Listen \/ ListenFails \/ Wait \/ ShutdownGateway \/ GracefulStop
    BY <2>1, <2>2 DEF IInv, ProcessInv, Listen, ListenFails, Wait, ShutdownGateway, GracefulStop,
           MainTo
  <2>3. CASE ShutdownFails \/ Exit
    <3>1. /\ loop' = "stopped" /\ stop' = stop /\ grpc' = "down"
          /\ main' \in {"exited", "aborted"} /\ Served(Gateway)
          /\ main' = "exited" => Served(Calls \cup Reads)
      BY <2>1, <2>3 DEF IInv, ProcessInv, Served, ShutdownFails, Exit, MainTo
    <3> QED
      BY <2>1, <3>1 DEF IInv, ProcessInv, Served, Underway
  <2>4. CASE Signal
    <3>1. main' \in {main, "killed", "stopping"} /\ UNCHANGED grpc
      BY <2>4 DEF Signal
    <3> QED
      BY <2>1, <3>1 DEF IInv, ProcessInv, Served, Underway
  <2> QED
    BY <2>2, <2>3, <2>4
<1> QED
  BY <1>2, <1>3, <1>4 DEF IInv

LEMMA StartNodeStep ==
  ASSUME IInv, StartNode
  PROVE  IInv'
<1>1. main' = "started" /\ loop = "new" /\ loop' = "starting" /\ UNCHANGED stop
  BY DEF IInv, ProcessInv, StartNode
<1>2. WriteInv' /\ TypeOK'
  BY <1>1, NodeComesUp DEF IInv, StartNode, WriteInv
<1> QED
  BY <1>2 DEF IInv, ServerTypeOK, ProcessInv, StartNode, raftHang

LEMMA NodeStartStep ==
  ASSUME IInv, NodeStart
  PROVE  IInv'
<1>1. /\ loop = "starting" /\ loop' \in {"starting", "failed", "select"}
      /\ UNCHANGED <<callVars, poolVars, raftVars, pos, hi, target, err, outcome,
                     execErrors, stop, crashes, main, grpc, http, open, hung, hangs, signals>>
  BY DEF raftHang, NodeStart, BackendRefused, NodeStartFails, NodeStarts, NodeAt
<1>2. WriteInv' /\ TypeOK'
  BY <1>1, NodeComesUp DEF IInv, WriteInv
<1>3. attempts' \in 0..MaxRetries
  BY DEF IInv, ServerTypeOK, NodeStart, BackendRefused, NodeStartFails, NodeStarts
<1> QED
  BY <1>1, <1>2, <1>3 DEF IInv, ServerTypeOK, ProcessInv

\* Steps of the calls, of raft and of the main loop, while main stands still.
LEMMA CallStep ==
  ASSUME IInv, NEW c \in Calls, Accept(c) \/ Handle(c)
  PROVE  IInv'
<1>1. WriteInv' /\ TypeOK'
  BY GetNewChannelStep, ProposeStep, ProposeFailsStep, ContextDoneStep, GiveUpStep DEF IInv,
         Accept, Handle, WriteInv
<1>2. /\ UNCHANGED <<main, grpc, http, attempts, signals, open, hung, hangs, loop, stop>>
      /\ main \notin {"exited", "aborted"}
  BY DEF Accept, LetIn, Handle, GetNewChannel, Propose, ProposeFails, ContextDone, GiveUp, loopVars,
         serverVars,
         processVars, raftHang, Alive
<1> QED
  BY <1>1, <1>2 DEF IInv, ServerTypeOK, ProcessInv

\* Streams come and go, and raft's goroutine, with main and the writes as they are.
LEMMA StreamStep ==
  ASSUME IInv, \/ \E r \in Reads : OpenStream(r) \/ EndStream(r)
               \/ LastIndexFails \/ LastIndexSucceeds
  PROVE  IInv'
<1>1. UNCHANGED vars /\ UNCHANGED <<main, grpc, http, attempts, signals>>
  BY DEF OpenStream, EndStream, LastIndexFails, LastIndexSucceeds, processVars
<1>2. WriteInv' /\ TypeOK' /\ UNCHANGED <<loop, stop>> /\ main \notin {"exited", "aborted"}
  BY <1>1, WritesUnchanged DEF IInv, WriteInv, vars, loopVars, OpenStream, LetIn, EndStream,
         LastIndexFails, LastIndexSucceeds, Alive
<1>3. open' \subseteq Reads /\ hung' \in BOOLEAN /\ hangs' \in 0..MaxHangs
  <2>1. CASE \E r \in Reads : OpenStream(r) \/ EndStream(r)
    BY <2>1 DEF IInv, ServerTypeOK, OpenStream, EndStream, raftHang
  <2>2. CASE LastIndexFails \/ LastIndexSucceeds
    <3>1. open' = open /\ hung' \in BOOLEAN
      BY <2>2 DEF LastIndexFails, LastIndexSucceeds
    <3>2. hangs' \in 0..MaxHangs
      BY <2>2 DEF IInv, ServerTypeOK, LastIndexFails, LastIndexSucceeds
    <3> QED
      BY <3>1, <3>2 DEF IInv, ServerTypeOK
  <2> QED
    BY <2>1, <2>2
<1> QED
  BY <1>1, <1>2, <1>3 DEF IInv, ServerTypeOK, ProcessInv

LEMMA RunLoopStep ==
  ASSUME IInv, RunLoop
  PROVE  IInv'
<1>1. WriteInv' /\ TypeOK'
  BY TakeReadyStep, ExecSQLStep, ExecSQLFailsStep, TakeChannelStep, NothingPendingStep, SendStep,
     LoopDoneStep DEF IInv, RunLoop, LoopStep, WriteInv
<1>2. /\ UNCHANGED <<main, grpc, http, attempts, signals, open, hung, hangs>>
      /\ main \notin {"exited", "aborted"}
  BY DEF RunLoop, serverVars,
         processVars, raftHang, Alive
<1>3. /\ loop \in {"select", "next", "executed", "send"}
      /\ \/ UNCHANGED stop
         \/ loop' = "stopped"
  BY DEF RunLoop, LoopStep, TakeReady, ExecSQL, ExecSQLFails, TakeChannel, NothingPending, Send,
         LoopDone
<1> QED
  BY <1>1, <1>2, <1>3 DEF IInv, ServerTypeOK, ProcessInv

LEMMA OtherNodesStep ==
  ASSUME IInv, OtherNodes
  PROVE  IInv'
<1>1. WriteInv' /\ TypeOK'
  BY CommitStep, LoseProposalStep, CommitForeignStep DEF IInv, OtherNodes, RaftNext, WriteInv
<1>2. /\ UNCHANGED <<main, grpc, http, attempts, signals, open, hung, hangs, loop, stop>>
      /\ main \notin {"exited", "aborted"}
  BY DEF OtherNodes, RaftNext, Commit, LoseProposal, CommitForeign, loopVars, serverVars,
         processVars, raftHang, Alive
<1> QED
  BY <1>1, <1>2 DEF IInv, ServerTypeOK, ProcessInv

LEMMA StopNodeStep ==
  ASSUME IInv, StopNode
  PROVE  IInv'
<1>1. WriteInv' /\ TypeOK'
  BY StopStep DEF IInv, StopNode, WriteInv
<1>2. /\ UNCHANGED <<main, grpc, http, attempts, signals, open, hung, hangs, loop>>
      /\ main = "stopping" /\ stop' = "asked"
  BY DEF StopNode, Stop, loopVars, serverVars, processVars, raftHang
<1> QED
  BY <1>1, <1>2 DEF IInv, ServerTypeOK, ProcessInv

LEMMA NewProcessStep ==
  ASSUME IInv, NewProcess
  PROVE  IInv'
<1>1. WriteInv' /\ TypeOK'
  BY ProcessRestartStep DEF IInv, NewProcess, WriteInv
<1>2. main' = "begin" /\ loop' = "new" /\ stop' = "no"
  BY DEF NewProcess, ProcessRestart
<1>3. ProcessInv'
  BY <1>2 DEF ProcessInv
<1>4. open' = {} /\ hung' \in BOOLEAN
  BY DEF NewProcess
<1> QED
  BY <1>1, <1>2, <1>3, <1>4 DEF IInv, ServerTypeOK, NewProcess

-----------------------------------------------------------------------------
(* The theorems.                                                           *)

\* Every state the process reaches is of the kind IInv describes, for any
\* calls, lost proposals, failing executions, signals and restarts.
THEOREM InductiveInvariant == ServerSpec => []IInv
<1>1. ServerInit => IInv
  <2> SUFFICES ASSUME ServerInit PROVE IInv
    OBVIOUS
  <2>1. TypeOK
    BY DEF ServerInit, Init, TypeOK, CallState, ExecResult, EmptyPool
  <2>2. PoolInv /\ LoopInv
    <3>1. nextID = 0 /\ 0 <= Cardinality(Made)
      BY Counting DEF ServerInit, Init
    <3> QED
      BY <3>1 DEF ServerInit, Init, PoolInv, LoopInv, EmptyPool, Underway
  <2>3. EntryInv /\ LifeInv /\ AckOwnWrite /\ CallerFindable
    BY DEF ServerInit, Init, EntryInv, LifeInv, Made, AckOwnWrite, CallerFindable
  <2>4. ProcessInv
    BY DEF ProcessInv, ServerInit, Init
  <2>5. open = {} /\ hung \in BOOLEAN
    BY DEF ServerInit
  <2>6. ServerTypeOK
    BY <2>1, <2>5 DEF ServerTypeOK, ServerInit
  <2> QED
    BY <2>1, <2>2, <2>3, <2>4, <2>6 DEF IInv, WriteInv
<1>2. IInv /\ [ServerNext]_allVars => IInv'
  <2> SUFFICES ASSUME IInv, [ServerNext]_allVars PROVE IInv'
    OBVIOUS
  <2>1. CASE MainStep
    BY <2>1, MainLeavesWrites, StartNodeStep, StopNodeStep DEF MainStep
  <2>2. CASE Signal
    BY <2>2, MainLeavesWrites
  <2>3. CASE NodeStart
    BY <2>3, NodeStartStep
  <2>4. CASE \E c \in Calls : Accept(c) \/ Handle(c)
    BY <2>4, CallStep
  <2>5. CASE RunLoop \/ OtherNodes \/ NewProcess
    BY <2>5, RunLoopStep, OtherNodesStep, NewProcessStep
  <2>7. CASE \/ \E r \in Reads : OpenStream(r) \/ EndStream(r)
             \/ LastIndexFails \/ LastIndexSucceeds
    BY <2>7, StreamStep
  <2>6. CASE UNCHANGED allVars
    <3>1. /\ UNCHANGED vars
          /\ UNCHANGED <<main, grpc, http, attempts, signals, open, hung, hangs>>
      BY <2>6 DEF allVars, serverVars, processVars, raftHang
    <3>2. WriteInv' /\ TypeOK' /\ UNCHANGED <<loop, stop, caller>>
      BY <3>1, WritesUnchanged DEF IInv, WriteInv, vars, loopVars, callVars
    <3> QED
      BY <3>1, <3>2 DEF IInv, ServerTypeOK, ProcessInv, Served, Underway
  <2> QED
    BY <2>1, <2>2, <2>3, <2>4, <2>5, <2>6, <2>7 DEF ServerNext
<1> QED
  BY <1>1, <1>2, PTL DEF ServerSpec

\* Type correctness; above all, the pool never needs an ID beyond the number
\* of calls.
THEOREM TypeCorrect == ServerSpec => []ServerTypeOK
<1>1. IInv => ServerTypeOK
  BY DEF IInv
<1> QED
  BY <1>1, InductiveInvariant, PTL

\* Within one life of the process a call of WriteQuery that is answered over
\* its channel is answered with the result of its own statement.
THEOREM AnsweredWithOwn == ServerSpec => []AckOwnWrite
<1>1. IInv => AckOwnWrite
  BY DEF IInv, WriteInv
<1> QED
  BY <1>1, InductiveInvariant, PTL

\* The pool has the channels of calls that are under way only, however calls
\* that give up and the main loop race for them.
THEOREM PoolOfLiveCalls == ServerSpec => []NoChannelLeak
<1>1. IInv => NoChannelLeak
  BY DEF IInv, WriteInv, PoolInv, Underway, NoChannelLeak
<1> QED
  BY <1>1, InductiveInvariant, PTL

\* Within one life of the process the main loop finds the channel of every
\* call whose statement it is about to answer.
THEOREM NoLostWakeUp == ServerSpec => []CallerFindable
<1>1. IInv => CallerFindable
  BY DEF IInv, WriteInv
<1> QED
  BY <1>1, InductiveInvariant, PTL

\* Server.Stop ends the process with the main loop between two batches, every
\* write answered and every stream read; or, the gateway's listener not closing,
\* with those of the gateway.
THEOREM ExitsClean == ServerSpec => []CleanExit
<1>1. IInv => CleanExit
  <2> SUFFICES ASSUME IInv, main \in {"exited", "aborted"} PROVE CleanExit
    BY DEF CleanExit
  <2>1. loop = "stopped" /\ target = NoCall
    BY DEF IInv, ProcessInv, WriteInv, LoopInv
  <2>2. \A c \in Calls : ~Underway(c) => caller[c] \in {"idle", "returned"}
    BY DEF IInv, WriteInv, TypeOK, Underway, CallState
  <2>3. open \subseteq Reads
    BY DEF IInv, ServerTypeOK
  <2> QED
    BY <2>1, <2>2, <2>3 DEF IInv, ProcessInv, Served, CleanExit
<1> QED
  BY <1>1, InductiveInvariant, PTL
=============================================================================
