------------------------ MODULE SqliteSnapshotProofs ------------------------
(***************************************************************************)
(* Proofs about SqliteSnapshot, for every length of the log, every lag and *)
(* every number of deaths: what a follower that was replaced by the files  *)
(* of a leader contains, and when it may run on half of them.              *)
(***************************************************************************)
EXTENDS SqliteSnapshot, TLAPS

-----------------------------------------------------------------------------
(* The inductive invariant.                                                *)

\* How far the pages of the sender are ahead of its applied index.
SenderInv ==
  /\ Behind < applied
  /\ loop # "idle" => applied < MaxLog
  /\ page[1] = IF loop \in {"idle", "journal"} THEN applied ELSE applied + 1
  /\ page[2] = IF loop \in {"idle", "journal", "half"} THEN applied ELSE applied + 1

\* The index is older than the pages in the archive, and so are the journals.
ArchiveInv ==
  /\ snap \in {"indexed", "half", "sent"} => Behind < meta /\ meta <= applied
  /\ snap \in {"half", "sent"} => meta <= tar.pages[1] /\ tar.pages[1] <= MaxLog
  /\ snap = "sent" => meta <= tar.pages[2] /\ tar.pages[2] <= MaxLog
  /\ tar.raft # None => Behind < tar.raft

\* Nothing was executed since the files were listed: no journal, and pages and
\* index are of one moment.
QuietInv ==
  quiet =>
    /\ snap \notin {"none", "sent", "failed"} => loop = "idle" /\ listed = {}
    /\ snap \in {"opened", "indexed", "half", "sent"} => tar.db = None /\ tar.raft = None
    /\ snap \in {"indexed", "half"} => meta = applied
    /\ snap \in {"half", "sent"} => tar.pages[1] = meta
    /\ snap = "sent" => tar.pages[2] = meta

\* The receiver before it gets the snapshot, ...
Before ==
  /\ node = "running" /\ ~begun
  /\ rnext = Behind /\ rpage = [g \in 1..2 |-> Upto(Behind)]

\* ... from SaveHardState on, until it runs again or not at all, ...
During ==
  /\ node \in {"restoring", "half", "extracted", "reopened", "down", "refused"}
  /\ snap = "sent" /\ begun
  /\ unsaved \/ meta <= rcommit \/ tar.raft < rcommit
  /\ node = "half" => rpage[1] = Upto(tar.pages[1])
  /\ node = "extracted" \/ (node = "reopened" /\ tar.db = None) =>
       \A g \in 1..2 : rpage[g] = Upto(tar.pages[g])

\* ... restarted on half a restore, ...
OnHalf ==
  /\ node = "running" /\ snap = "sent" /\ begun
  /\ unsaved \/ OwnRowsReach

\* ... and restored.
After ==
  /\ node = "running" /\ ~begun
  /\ snap = "sent" /\ meta <= rnext
  /\ tar.db = None => \A g \in 1..2, i \in 1..rnext : i \in Range(rpage[g])
  /\ quiet => \A g \in 1..2 : rpage[g] = Upto(rnext)

Phases == Before \/ During \/ OnHalf \/ After

IInv == TypeOK /\ SenderInv /\ ArchiveInv /\ QuietInv /\ Phases

-----------------------------------------------------------------------------
(* Facts about the pages.                                                  *)

USE ConstantsAssumption

\* The page that has seen the statements up to n.
LEMMA UptoFacts ==
  ASSUME NEW n \in 0..MaxLog
  PROVE  /\ Upto(n) \in Seq(0..MaxLog)
         /\ \A i \in 1..n : i \in Range(Upto(n))
         /\ Append(Upto(n), n + 1) = Upto(n + 1)
<1>1. Upto(n) \in Seq(0..MaxLog) /\ Len(Upto(n)) = n
  BY DEF Upto
<1>2. \A i \in 1..n : i \in Range(Upto(n))
  BY DEF Upto, Range
<1>3. Append(Upto(n), n + 1) = Upto(n + 1)
  BY <1>1 DEF Upto
<1> QED
  BY <1>1, <1>2, <1>3

\* Executing one more statement on a page.
LEMMA AppendFacts ==
  ASSUME NEW s \in Seq(0..MaxLog), NEW x \in 0..MaxLog
  PROVE  /\ Append(s, x) \in Seq(0..MaxLog)
         /\ x \in Range(Append(s, x))
         /\ \A i \in Range(s) : i \in Range(Append(s, x))
<1>1. Append(s, x) \in Seq(0..MaxLog) /\ Len(Append(s, x)) = Len(s) + 1
  OBVIOUS
<1>2. DOMAIN s = 1..Len(s) /\ DOMAIN Append(s, x) = 1..(Len(s) + 1) /\ Len(s) \in Nat
  OBVIOUS
<1>3. Append(s, x)[Len(s) + 1] = x /\ \A k \in 1..Len(s) : Append(s, x)[k] = s[k]
  OBVIOUS
<1> QED
  BY <1>1, <1>2, <1>3 DEF Range

-----------------------------------------------------------------------------
(* The sender's steps.                                                     *)

\* While the sender executes, archive and receiver stand still.
LEMMA ReceiverStands ==
  ASSUME Phases, UNCHANGED receiverVars,
         snap' = snap, meta' = meta, tar' = tar, quiet' => quiet
  PROVE  Phases'
BY DEF Phases, Before, During, OnHalf, After, OwnRowsReach, receiverVars

LEMMA BeginStatementStep ==
  ASSUME IInv, BeginStatement
  PROVE  IInv'
<1>1. /\ UNCHANGED <<snap, listed, sizeAt, meta, tar>> /\ UNCHANGED receiverVars
      /\ quiet' = (quiet /\ snap \in {"sent", "failed"})
  BY DEF BeginStatement, LoopTo
<1>2. TypeOK' /\ SenderInv'
  BY <1>1 DEF IInv, TypeOK, SenderInv, BeginStatement, LoopTo, receiverVars
<1>3. ArchiveInv'
  BY <1>1 DEF IInv, TypeOK, ArchiveInv, SenderInv, BeginStatement
<1>4. QuietInv'
  BY <1>1 DEF IInv, TypeOK, QuietInv
<1> QED
  BY <1>1, <1>2, <1>3, <1>4, ReceiverStands DEF IInv

LEMMA WritePageStep ==
  ASSUME IInv, NEW g \in 1..2, WritePage(g)
  PROVE  IInv'
<1>1. /\ UNCHANGED <<snap, listed, sizeAt, meta, tar>> /\ UNCHANGED receiverVars
      /\ quiet' = (quiet /\ snap \in {"sent", "failed"})
  BY DEF WritePage, LoopTo
<1>2. TypeOK' /\ SenderInv'
  <2>1. /\ applied \in 0..MaxLog /\ applied < MaxLog /\ page[g] = applied
        /\ applied' = applied /\ page' \in [1..2 -> 0..MaxLog]
        /\ page'[g] = applied + 1 /\ \A h \in (1..2) \ {g} : page'[h] = page[h]
    BY DEF IInv, TypeOK, SenderInv, WritePage
  <2>2. TypeOK'
    BY <1>1, <2>1 DEF IInv, TypeOK, WritePage, LoopTo, receiverVars
  <2>3. SenderInv'
    <3>1. CASE g = 1
      BY <2>1, <3>1 DEF IInv, SenderInv, WritePage, LoopTo
    <3>2. CASE g = 2
      BY <2>1, <3>2 DEF IInv, SenderInv, WritePage, LoopTo
    <3> QED
      BY <3>1, <3>2
  <2> QED
    BY <2>2, <2>3
<1>3. ArchiveInv'
  BY <1>1 DEF IInv, TypeOK, ArchiveInv, SenderInv, WritePage
<1>4. QuietInv'
  BY <1>1 DEF IInv, TypeOK, QuietInv
<1> QED
  BY <1>1, <1>2, <1>3, <1>4, ReceiverStands DEF IInv

LEMMA CommitStatementStep ==
  ASSUME IInv, CommitStatement
  PROVE  IInv'
<1>1. /\ UNCHANGED <<snap, listed, sizeAt, meta, tar>> /\ UNCHANGED receiverVars
      /\ quiet' = (quiet /\ snap \in {"sent", "failed"})
  BY DEF CommitStatement, LoopTo
<1>2. TypeOK' /\ SenderInv'
  BY <1>1 DEF IInv, TypeOK, SenderInv, CommitStatement, LoopTo, receiverVars
<1>3. ArchiveInv'
  BY <1>1 DEF IInv, TypeOK, ArchiveInv, SenderInv, CommitStatement
<1>4. QuietInv'
  BY <1>1 DEF IInv, TypeOK, QuietInv
<1> QED
  BY <1>1, <1>2, <1>3, <1>4, ReceiverStands DEF IInv

LEMMA BeginSaveAppliedStep ==
  ASSUME IInv, BeginSaveApplied
  PROVE  IInv'
<1>1. /\ UNCHANGED <<snap, listed, sizeAt, meta, tar>> /\ UNCHANGED receiverVars
      /\ quiet' = (quiet /\ snap \in {"sent", "failed"})
  BY DEF BeginSaveApplied, LoopTo
<1>2. TypeOK' /\ SenderInv'
  BY <1>1 DEF IInv, TypeOK, SenderInv, BeginSaveApplied, LoopTo, receiverVars
<1>3. ArchiveInv'
  BY <1>1 DEF IInv, TypeOK, ArchiveInv, SenderInv, BeginSaveApplied
<1>4. QuietInv'
  BY <1>1 DEF IInv, TypeOK, QuietInv
<1> QED
  BY <1>1, <1>2, <1>3, <1>4, ReceiverStands DEF IInv

LEMMA SaveAppliedStep ==
  ASSUME IInv, SaveApplied
  PROVE  IInv'
<1>1. /\ UNCHANGED <<snap, listed, sizeAt, meta, tar>> /\ UNCHANGED receiverVars
      /\ quiet' = (quiet /\ snap \in {"sent", "failed"})
  BY DEF SaveApplied, LoopTo
<1>2. TypeOK' /\ SenderInv'
  BY <1>1 DEF IInv, TypeOK, SenderInv, SaveApplied, LoopTo, receiverVars
<1>3. ArchiveInv'
  BY <1>1 DEF IInv, TypeOK, ArchiveInv, SenderInv, SaveApplied
<1>4. QuietInv'
  BY <1>1 DEF IInv, TypeOK, QuietInv
<1> QED
  BY <1>1, <1>2, <1>3, <1>4, ReceiverStands DEF IInv

-----------------------------------------------------------------------------
(* Snapshot's steps.                                                       *)

LEMMA ListFilesStep ==
  ASSUME IInv, ListFiles
  PROVE  IInv'
<1>1. UNCHANGED <<loop, page, applied>> /\ UNCHANGED receiverVars /\ snap # "sent"
  BY DEF ListFiles, senderVars
<1>2. TypeOK' /\ SenderInv'
  BY <1>1 DEF IInv, TypeOK, SenderInv, ListFiles, receiverVars, Journals, None
<1>3. ArchiveInv'
  BY <1>1 DEF IInv, TypeOK, ArchiveInv, SenderInv, ListFiles, None
<1>4. QuietInv'
  BY <1>1 DEF IInv, TypeOK, QuietInv, SenderInv, ListFiles, Journals, None
<1>5. Before'
  BY <1>1 DEF IInv, Phases, Before, During, OnHalf, After, receiverVars
<1> QED
  BY <1>2, <1>3, <1>4, <1>5 DEF IInv, Phases

LEMMA OpenFilesStep ==
  ASSUME IInv, OpenFiles
  PROVE  IInv'
<1>a. /\ tar'.pages = tar.pages /\ UNCHANGED <<listed, sizeAt, meta, quiet>>
      /\ snap = "listed" /\ snap' = "opened"
      /\ tar'.db = (IF "db" \in listed THEN applied ELSE None)
      /\ tar'.raft = (IF "raft" \in listed THEN applied ELSE None)
      /\ tar' \in [pages : [1..2 -> 0..None], db : 0..None, raft : 0..None]
  <2>1. /\ tar \in [pages : [1..2 -> 0..None], db : 0..None, raft : 0..None]
        /\ applied \in 0..None /\ None \in 0..None
    BY DEF IInv, TypeOK, None
  <2> HIDE DEF None
  <2> QED
    BY <2>1 DEF OpenFiles
<1>1. UNCHANGED <<loop, page, applied>> /\ UNCHANGED receiverVars /\ snap # "sent"
  BY DEF OpenFiles, senderVars
<1>2. TypeOK' /\ SenderInv'
  BY <1>1, <1>a DEF IInv, TypeOK, SenderInv, receiverVars
<1>3. ArchiveInv'
  BY <1>1 DEF IInv, TypeOK, ArchiveInv, SenderInv, OpenFiles, None
<1>4. QuietInv'
  BY <1>1 DEF IInv, TypeOK, QuietInv, SenderInv, OpenFiles, Journals, None
<1>5. Before'
  BY <1>1 DEF IInv, Phases, Before, During, OnHalf, After, receiverVars
<1> QED
  BY <1>2, <1>3, <1>4, <1>5 DEF IInv, Phases

LEMMA ReadIndexStep ==
  ASSUME IInv, ReadIndex
  PROVE  IInv'
<1>1. UNCHANGED <<loop, page, applied>> /\ UNCHANGED receiverVars /\ snap # "sent"
  BY DEF ReadIndex, senderVars
<1>2. TypeOK' /\ SenderInv'
  BY <1>1 DEF IInv, TypeOK, SenderInv, ReadIndex, receiverVars, Journals, None
<1>3. ArchiveInv'
  BY <1>1 DEF IInv, TypeOK, ArchiveInv, SenderInv, ReadIndex, None
<1>4. QuietInv'
  BY <1>1 DEF IInv, TypeOK, QuietInv, SenderInv, ReadIndex, Journals, None
<1>5. Before'
  BY <1>1 DEF IInv, Phases, Before, During, OnHalf, After, receiverVars
<1> QED
  BY <1>2, <1>3, <1>4, <1>5 DEF IInv, Phases

LEMMA CopyPageStep ==
  ASSUME IInv, NEW g \in 1..2, CopyPage(g)
  PROVE  IInv'
<1>a. /\ tar'.db = tar.db /\ tar'.raft = tar.raft /\ UNCHANGED <<listed, sizeAt, meta, quiet>>
      /\ tar'.pages = [tar.pages EXCEPT ![g] = page[g]]
      /\ tar' \in [pages : [1..2 -> 0..None], db : 0..None, raft : 0..None]
  <2>1. /\ tar \in [pages : [1..2 -> 0..None], db : 0..None, raft : 0..None]
        /\ page[g] \in 0..None
    BY DEF IInv, TypeOK, None
  <2>2. tar' = [tar EXCEPT !.pages = [tar.pages EXCEPT ![g] = page[g]]]
    BY DEF CopyPage
  <2>3. [tar.pages EXCEPT ![g] = page[g]] \in [1..2 -> 0..None]
    BY <2>1
  <2> QED
    BY <2>1, <2>2, <2>3 DEF CopyPage
<1>b. \/ g = 1 /\ snap = "indexed" /\ snap' = "half"
      \/ g = 2 /\ snap = "half" /\ snap' = "sent"
  <2>1. g = 1 \/ g = 2
    OBVIOUS
  <2> QED
    BY <2>1 DEF CopyPage
<1>c. /\ tar'.pages[g] = page[g] /\ page[g] \in 0..MaxLog /\ applied <= page[g]
      /\ loop = "idle" => page[g] = applied
      /\ g = 2 => tar'.pages[1] = tar.pages[1]
  <2>1. g = 1 \/ g = 2
    OBVIOUS
  <2>2. page[g] \in 0..MaxLog /\ applied <= page[g] /\ (loop = "idle" => page[g] = applied)
    BY <2>1 DEF IInv, TypeOK, SenderInv
  <2> QED
    BY <1>a, <2>2 DEF IInv, TypeOK
<1>1. UNCHANGED <<loop, page, applied>> /\ UNCHANGED receiverVars /\ snap # "sent"
  BY DEF CopyPage, senderVars
<1>2. TypeOK' /\ SenderInv'
  BY <1>1, <1>a, <1>b DEF IInv, TypeOK, SenderInv, receiverVars
<1>3. ArchiveInv'
  BY <1>1, <1>a, <1>b, <1>c DEF IInv, TypeOK, ArchiveInv
<1>4. QuietInv'
  BY <1>1, <1>a, <1>b, <1>c DEF IInv, QuietInv
<1>5. Before'
  BY <1>1 DEF IInv, Phases, Before, During, OnHalf, After, receiverVars
<1> QED
  BY <1>2, <1>3, <1>4, <1>5 DEF IInv, Phases

LEMMA SnapshotFailsStep ==
  ASSUME IInv, SnapshotFails
  PROVE  IInv'
<1>1. UNCHANGED <<loop, page, applied>> /\ UNCHANGED receiverVars /\ snap # "sent"
  BY DEF SnapshotFails, senderVars
<1>2. TypeOK' /\ SenderInv'
  BY <1>1 DEF IInv, TypeOK, SenderInv, SnapshotFails, receiverVars, Journals, None
<1>3. ArchiveInv'
  BY <1>1 DEF IInv, TypeOK, ArchiveInv, SenderInv, SnapshotFails, None
<1>4. QuietInv'
  BY <1>1 DEF IInv, TypeOK, QuietInv, SenderInv, SnapshotFails, Journals, None
<1>5. Before'
  BY <1>1 DEF IInv, Phases, Before, During, OnHalf, After, receiverVars
<1> QED
  BY <1>2, <1>3, <1>4, <1>5 DEF IInv, Phases

-----------------------------------------------------------------------------
(* The receiver's steps.                                                   *)

LEMMA SaveHardStateStep ==
  ASSUME IInv, SaveHardState \/ SaveHardStateFails
  PROVE  IInv'
<1>1. /\ UNCHANGED <<loop, page, applied, snap, listed, sizeAt, meta, tar, quiet>>
      /\ UNCHANGED <<rpage, rapplied, rlast, rnext>>
      /\ node' = "restoring" /\ snap = "sent" /\ begun' = TRUE /\ unsaved' \in BOOLEAN
      /\ unsaved' \/ rcommit' = meta
      /\ rcommit' \in 0..MaxLog /\ deaths' \in 0..MaxDeaths
  <2>1. CASE SaveHardState
    BY <2>1 DEF IInv, TypeOK, SaveHardState, Restorable, senderVars, snapVars
  <2>2. CASE SaveHardStateFails
    BY <2>2 DEF IInv, TypeOK, SaveHardStateFails, Restorable, senderVars, snapVars
  <2> QED
    BY <2>1, <2>2
<1>2. TypeOK'
  BY <1>1 DEF IInv, TypeOK
<1>3. SenderInv' /\ ArchiveInv' /\ QuietInv'
  BY <1>1 DEF IInv, SenderInv, ArchiveInv, QuietInv
<1>4. During'
  BY <1>1, <1>2 DEF During, TypeOK
<1> QED
  BY <1>2, <1>3, <1>4 DEF IInv, Phases

LEMMA ExtractPageStep ==
  ASSUME IInv, NEW g \in 1..2, ExtractPage(g)
  PROVE  IInv'
<1>a. /\ rpage' = [rpage EXCEPT ![g] = Upto(tar.pages[g])]
      /\ UNCHANGED <<rapplied, rcommit, rlast, rnext, begun, unsaved, deaths>>
  BY DEF ExtractPage
<1>b. \/ g = 1 /\ node = "restoring" /\ node' = "half"
      \/ g = 2 /\ node = "half" /\ node' = "extracted"
  <2>1. g = 1 \/ g = 2
    OBVIOUS
  <2> QED
    BY <2>1 DEF ExtractPage
<1>c. During /\ tar.pages[g] \in 0..MaxLog
  <2>1. During
    BY <1>b DEF IInv, Phases, Before, OnHalf, After
  <2> QED
    BY <2>1, <1>b DEF IInv, TypeOK, ArchiveInv, During
<1>d. /\ rpage' \in [1..2 -> Seq(0..MaxLog)] /\ rpage'[g] = Upto(tar.pages[g])
      /\ g = 2 => rpage'[1] = rpage[1]
  <2>1. Upto(tar.pages[g]) \in Seq(0..MaxLog)
    BY <1>c, UptoFacts
  <2> QED
    BY <1>a, <2>1 DEF IInv, TypeOK
<1>1. UNCHANGED <<loop, page, applied, snap, listed, sizeAt, meta, tar, quiet>>
  BY DEF ExtractPage, senderVars, snapVars
<1>2. TypeOK'
  BY <1>1, <1>a, <1>b, <1>d DEF IInv, TypeOK
<1>3. SenderInv' /\ ArchiveInv' /\ QuietInv'
  BY <1>1 DEF IInv, SenderInv, ArchiveInv, QuietInv
<1>4. During'
  BY <1>1, <1>a, <1>b, <1>c, <1>d DEF During
<1> QED
  BY <1>2, <1>3, <1>4 DEF IInv, Phases

\* What SQLite makes of the archive's journals.
LEMMA PlayBackFacts ==
  ASSUME IInv, PlayBack
  PROVE  /\ rpage' \in [1..2 -> Seq(0..MaxLog)] /\ (tar.db = None => rpage' = rpage)
         /\ rapplied' \in 0..MaxLog /\ rcommit' \in 0..MaxLog
         /\ rcommit' = rcommit \/ tar.raft < rcommit'
<1>b. rpage' \in [1..2 -> Seq(0..MaxLog)] /\ (tar.db = None => rpage' = rpage)
  <2>1. CASE tar.db = None
    BY <2>1 DEF IInv, TypeOK, PlayBack
  <2>2. CASE tar.db # None
    <3>1. tar.db \in 0..MaxLog
      BY <2>2 DEF IInv, TypeOK, None
    <3> QED
      BY <2>2, <3>1, UptoFacts DEF PlayBack
  <2> QED
    BY <2>1, <2>2
<1>c. /\ rapplied' \in 0..MaxLog /\ rcommit' \in 0..MaxLog
      /\ rcommit' = rcommit \/ tar.raft < rcommit'
  <2>1. CASE tar.raft = None
    BY <2>1 DEF IInv, TypeOK, PlayBack
  <2>2. CASE tar.raft # None
    <3>1. tar.raft \in 0..MaxLog
      BY <2>2 DEF IInv, TypeOK, None
    <3> QED
      BY <2>2, <3>1 DEF PlayBack
  <2> QED
    BY <2>1, <2>2
<1> QED
  BY <1>b, <1>c

LEMMA ReopenStep ==
  ASSUME IInv, Reopen
  PROVE  IInv'
<1>a. /\ During /\ node' = "reopened" /\ node = "extracted"
      /\ UNCHANGED <<rlast, rnext, begun, unsaved, deaths>>
  BY DEF IInv, Phases, Before, During, OnHalf, After, Reopen
<1>b. /\ rpage' \in [1..2 -> Seq(0..MaxLog)] /\ (tar.db = None => rpage' = rpage)
      /\ rapplied' \in 0..MaxLog /\ rcommit' \in 0..MaxLog
      /\ rcommit' = rcommit \/ tar.raft < rcommit'
  BY PlayBackFacts DEF Reopen
<1>1. UNCHANGED <<loop, page, applied, snap, listed, sizeAt, meta, tar, quiet>>
  BY DEF Reopen, senderVars, snapVars
<1>2. TypeOK'
  BY <1>1, <1>a, <1>b DEF IInv, TypeOK
<1>3. SenderInv' /\ ArchiveInv' /\ QuietInv'
  BY <1>1 DEF IInv, SenderInv, ArchiveInv, QuietInv
<1>4. During'
  BY <1>1, <1>a, <1>b DEF During
<1> QED
  BY <1>2, <1>3, <1>4 DEF IInv, Phases

LEMMA FinishRestoreStep ==
  ASSUME IInv, FinishRestore
  PROVE  IInv'
<1>1. UNCHANGED <<loop, page, applied, snap, listed, sizeAt, meta, tar, quiet>>
  BY DEF FinishRestore, senderVars, snapVars
<1>2. TypeOK'
  BY <1>1, UptoFacts, AppendFacts DEF IInv, TypeOK, SenderInv, ArchiveInv, Phases, Before, During, OnHalf, After,
         FinishRestore, None
<1>3. SenderInv' /\ ArchiveInv' /\ QuietInv'
  BY <1>1 DEF IInv, SenderInv, ArchiveInv, QuietInv
<1>4. After'
  <2>1. During /\ node = "reopened" /\ node' = "running" /\ rnext' = meta /\ ~begun'
        /\ UNCHANGED rpage
    BY DEF IInv, Phases, Before, During, OnHalf, After, FinishRestore
  <2>2. /\ meta \in Nat /\ \A g \in 1..2 : tar.pages[g] \in 0..MaxLog /\ meta <= tar.pages[g]
        /\ quiet => tar.db = None /\ \A g \in 1..2 : tar.pages[g] = meta
    BY <2>1 DEF IInv, TypeOK, ArchiveInv, QuietInv, During
  <2>3. tar.db = None => \A g \in 1..2, i \in 1..meta : i \in Range(rpage[g])
    <3> SUFFICES ASSUME tar.db = None, NEW g \in 1..2, NEW i \in 1..meta
                 PROVE  i \in Range(rpage[g])
      OBVIOUS
    <3>1. PICK p \in 0..MaxLog : p = tar.pages[g] /\ i \in 1..p
      BY <2>2
    <3>2. rpage[g] = Upto(p)
      BY <2>1, <3>1 DEF During
    <3> QED
      BY <3>1, <3>2, UptoFacts
  <2>4. quiet => \A g \in 1..2 : rpage[g] = Upto(meta)
    BY <2>1, <2>2 DEF During
  <2> QED
    BY <1>1, <2>1, <2>2, <2>3, <2>4 DEF After, During
<1> QED
  BY <1>2, <1>3, <1>4 DEF IInv, Phases

LEMMA CommittedEntryStep ==
  ASSUME IInv, CommittedEntry
  PROVE  IInv'
<1> DEFINE n == rnext + 1
<1>a. /\ n \in 1..MaxLog /\ meta <= n /\ rnext \in 0..MaxLog
      /\ UNCHANGED <<node, begun, unsaved, deaths>>
      /\ rnext' = n /\ rlast' = n /\ rcommit' = n /\ rapplied' = n
      /\ rpage' = [g \in 1..2 |-> Append(rpage[g], n)]
  BY DEF IInv, TypeOK, CommittedEntry
<1>b. \A g \in 1..2 : rpage[g] \in Seq(0..MaxLog) /\ rpage'[g] = Append(rpage[g], n)
  BY <1>a DEF IInv, TypeOK
<1>c. rpage' \in [1..2 -> Seq(0..MaxLog)]
  BY <1>a, <1>b, AppendFacts
<1>1. UNCHANGED <<loop, page, applied, snap, listed, sizeAt, meta, tar, quiet>>
  BY DEF CommittedEntry, senderVars, snapVars
<1>2. TypeOK'
  BY <1>1, <1>a, <1>c DEF IInv, TypeOK
<1>3. SenderInv' /\ ArchiveInv' /\ QuietInv'
  BY <1>1 DEF IInv, SenderInv, ArchiveInv, QuietInv
<1>4. CASE begun
  <2>1. OnHalf'
    BY <1>1, <1>4, <1>a DEF OnHalf, OwnRowsReach, CommittedEntry
  <2> QED
    BY <1>2, <1>3, <2>1 DEF IInv, Phases
<1>5. CASE ~begun
  <2>1. After
    BY <1>5 DEF IInv, TypeOK, ArchiveInv, Phases, Before, During, OnHalf, After, CommittedEntry
  <2>3. tar.db = None => \A g \in 1..2, i \in 1..n : i \in Range(rpage'[g])
    <3> SUFFICES ASSUME tar.db = None, NEW g \in 1..2, NEW i \in 1..n
                 PROVE  i \in Range(rpage'[g])
      OBVIOUS
    <3>1. i = n \/ i \in Range(rpage[g])
      BY <1>a, <2>1 DEF After
    <3> QED
      BY <1>a, <1>b, <3>1, AppendFacts
  <2>4. quiet => \A g \in 1..2 : rpage'[g] = Upto(n)
    BY <1>a, <1>b, <2>1, UptoFacts DEF After
  <2>5. After'
    BY <1>1, <1>a, <2>1, <2>3, <2>4 DEF After
  <2> QED
    BY <1>2, <1>3, <2>5 DEF IInv, Phases
<1> QED
  BY <1>4, <1>5

LEMMA StaleEntryStep ==
  ASSUME IInv, StaleEntry
  PROVE  IInv'
<1>a. /\ rnext' \in 0..MaxLog /\ rapplied' \in 0..MaxLog
      /\ UNCHANGED <<node, rcommit, rlast, begun, unsaved, deaths>>
      /\ rpage' = [g \in 1..2 |-> Append(rpage[g], 0)]
  BY DEF IInv, TypeOK, StaleEntry
<1>b. rpage' \in [1..2 -> Seq(0..MaxLog)]
  BY <1>a, AppendFacts DEF IInv, TypeOK
<1>1. UNCHANGED <<loop, page, applied, snap, listed, sizeAt, meta, tar, quiet>>
  BY DEF StaleEntry, senderVars, snapVars
<1>2. TypeOK'
  BY <1>1, <1>a, <1>b DEF IInv, TypeOK
<1>3. SenderInv' /\ ArchiveInv' /\ QuietInv'
  BY <1>1 DEF IInv, SenderInv, ArchiveInv, QuietInv
<1>4. OnHalf'
  <2>1. OnHalf
    BY DEF IInv, Phases, Before, During, OnHalf, After, StaleEntry
  <2> QED
    BY <1>1, <1>a, <2>1 DEF OnHalf, OwnRowsReach
<1> QED
  BY <1>2, <1>3, <1>4 DEF IInv, Phases

LEMMA DiesStep ==
  ASSUME IInv, Dies
  PROVE  IInv'
<1>1. UNCHANGED <<loop, page, applied, snap, listed, sizeAt, meta, tar, quiet>>
  BY DEF Dies, senderVars, snapVars
<1>2. TypeOK'
  BY <1>1, UptoFacts, AppendFacts DEF IInv, TypeOK, SenderInv, ArchiveInv, Phases, Before, During, OnHalf, After,
         Dies, None
<1>3. SenderInv' /\ ArchiveInv' /\ QuietInv'
  BY <1>1 DEF IInv, SenderInv, ArchiveInv, QuietInv
<1>4. During'
  BY <1>1, UptoFacts, AppendFacts DEF IInv, TypeOK, ArchiveInv, QuietInv, Phases, Before, During, OnHalf, After,
         Dies, None
<1> QED
  BY <1>2, <1>3, <1>4 DEF IInv, Phases

LEMMA RestartsStep ==
  ASSUME IInv, Restarts
  PROVE  IInv'
<1>a. /\ During /\ UNCHANGED <<rlast, begun, unsaved, deaths>> /\ rnext' = rapplied'
      /\ node' = IF rcommit' <= rlast THEN "running" ELSE "refused"
  BY DEF IInv, Phases, Before, During, OnHalf, After, Restarts
<1>b. /\ rpage' \in [1..2 -> Seq(0..MaxLog)]
      /\ rapplied' \in 0..MaxLog /\ rcommit' \in 0..MaxLog
      /\ rcommit' = rcommit \/ tar.raft < rcommit'
  BY PlayBackFacts DEF Restarts, IInv, TypeOK
<1>1. UNCHANGED <<loop, page, applied, snap, listed, sizeAt, meta, tar, quiet>>
  BY DEF Restarts, senderVars, snapVars
<1>2. TypeOK'
  BY <1>1, <1>a, <1>b DEF IInv, TypeOK
<1>3. SenderInv' /\ ArchiveInv' /\ QuietInv'
  BY <1>1 DEF IInv, SenderInv, ArchiveInv, QuietInv
<1>4. unsaved \/ meta <= rcommit' \/ tar.raft < rcommit'
  BY <1>a, <1>b DEF During
<1>5. CASE rcommit' <= rlast
  <2>1. tar.raft \in Nat /\ meta \in Nat /\ rlast \in Nat /\ rcommit' \in Nat
    BY <1>b DEF IInv, TypeOK, None
  <2>2. OnHalf'
    BY <1>1, <1>a, <1>4, <1>5, <2>1 DEF During, OnHalf, OwnRowsReach
  <2> QED
    BY <1>2, <1>3, <2>2 DEF IInv, Phases
<1>6. CASE ~(rcommit' <= rlast)
  <2>1. During'
    BY <1>1, <1>a, <1>4, <1>6 DEF During
  <2> QED
    BY <1>2, <1>3, <2>1 DEF IInv, Phases
<1> QED
  BY <1>5, <1>6

-----------------------------------------------------------------------------
(* The theorems.                                                           *)

\* Whenever Snapshot runs between the sender's statements and wherever the
\* receiver dies, every reachable state is of the kind IInv describes.
THEOREM InductiveInvariant == Spec => []IInv
<1>1. Init => IInv
  <2> SUFFICES ASSUME Init PROVE IInv
    OBVIOUS
  <2>1. /\ quiet \in BOOLEAN /\ begun \in BOOLEAN /\ unsaved \in BOOLEAN
        /\ ~begun /\ ~quiet
    BY DEF Init
  <2>2. Upto(Behind) \in Seq(0..MaxLog)
    BY UptoFacts
  <2>3. TypeOK
    BY <2>1, <2>2 DEF Init, TypeOK, None
  <2> QED
    BY <2>1, <2>3 DEF Init, IInv, SenderInv, ArchiveInv, QuietInv, Phases, Before, None
<1>2. IInv /\ [Next]_vars => IInv'
  <2> SUFFICES ASSUME IInv, [Next]_vars PROVE IInv'
    OBVIOUS
  <2>1. CASE LoopStep
    BY <2>1, BeginStatementStep, WritePageStep, CommitStatementStep, BeginSaveAppliedStep,
       SaveAppliedStep DEF LoopStep
  <2>2. CASE SnapshotStep
    BY <2>2, ListFilesStep, OpenFilesStep, ReadIndexStep, CopyPageStep, SnapshotFailsStep
       DEF SnapshotStep
  <2>3. CASE ReceiverStep
    BY <2>3, SaveHardStateStep, ExtractPageStep, ReopenStep, FinishRestoreStep,
       CommittedEntryStep, StaleEntryStep, DiesStep, RestartsStep DEF ReceiverStep
  <2>4. CASE UNCHANGED vars
    <3>1. /\ UNCHANGED <<loop, page, applied, snap, listed, sizeAt, meta, tar, quiet>>
          /\ UNCHANGED receiverVars
      BY <2>4 DEF vars, senderVars, snapVars
    <3>2. TypeOK' /\ SenderInv' /\ ArchiveInv' /\ QuietInv'
      BY <3>1 DEF IInv, TypeOK, SenderInv, ArchiveInv, QuietInv, receiverVars
    <3> QED
      BY <3>1, <3>2, ReceiverStands DEF IInv
  <2> QED
    BY <2>1, <2>2, <2>3, <2>4 DEF Next
<1> QED
  BY <1>1, <1>2, PTL DEF Spec

\* Type correctness.
THEOREM TypeCorrect == Spec => []TypeOK
<1>1. IInv => TypeOK
  BY DEF IInv
<1> QED
  BY <1>1, InductiveInvariant, PTL

\* A node that runs has seen every statement up to its applied index, on both
\* pages, whatever the sender executed while Snapshot copied them, unless a
\* journal of the main database got into the archive or the node was restarted
\* out of a restore that did not finish.
THEOREM RestoredHasAll == Spec => []NothingLost
<1>1. IInv => NothingLost
  <2> SUFFICES ASSUME IInv, node = "running", tar.db = None, ~begun,
                      NEW g \in 1..2, NEW i \in 1..rnext
               PROVE  i \in Range(rpage[g])
    BY DEF NothingLost
  <2>1. CASE Before
    BY <2>1, UptoFacts DEF Before
  <2>2. CASE After
    BY <2>2 DEF After
  <2> QED
    BY <2>1, <2>2 DEF IInv, Phases, During, OnHalf
<1> QED
  BY <1>1, InductiveInvariant, PTL

\* A snapshot taken between two statements makes an exact copy, once a restore
\* of it finished.
THEOREM QuietIsExact == Spec => []QuietSnapshotExact
<1>1. IInv => QuietSnapshotExact
  BY DEF IInv, Phases, Before, During, OnHalf, After, QuietSnapshotExact
<1> QED
  BY <1>1, InductiveInvariant, PTL

\* A node killed in the middle of ApplySnapshot, or on which it failed, runs on
\* what it left only if the commit index was not saved, its error dropped, or
\* if uncommitted rows of its own log reach that index.
THEOREM HalfRunsOnlyThen == Spec => []HalfRestoreRefused
<1>1. IInv => HalfRestoreRefused
  BY DEF IInv, Phases, Before, During, OnHalf, After, HalfRestoreRefused
<1> QED
  BY <1>1, InductiveInvariant, PTL
=============================================================================
