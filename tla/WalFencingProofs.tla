--------------------------- MODULE WalFencingProofs ---------------------------
(***************************************************************************)
(* Theorems about WalFencing: IndInv is an invariant, and what follows from *)
(* it, for any number of writers, files and rows.                          *)
(***************************************************************************)
EXTENDS WalFencingSteps, WalFencingFiles, WellFoundedInduction

\* A bounded set of numbers has a greatest element: Max of it is one.
LEMMA MaxOfBounded ==
  ASSUME NEW n \in Nat, NEW S \in SUBSET (0 .. n), S # {}
  PROVE  Max(S) \in S /\ \A x \in S : x <= Max(S)
<1> DEFINE T == {n - x : x \in S}
           Less == {p \in Nat \X Nat : p[1] < p[2]}
<1>1. /\ \A x \in S : x \in 0 .. n /\ n - x \in Nat
      /\ \A x \in S : n - x \in T
      /\ \A t \in T : \E x \in S : t = n - x
  OBVIOUS
<1>2. T \subseteq Nat /\ T # {}
  BY <1>1, Zenon
<1>3. IsWellFoundedOn(Less, Nat)
  BY NatLessThanWellFounded DEF OpToRel
<1>4. \A x, y \in Nat : x < y => <<x, y>> \in Less
  OBVIOUS
<1> HIDE DEF T, Less
<1>5. PICK t \in T : \A y \in T : ~ (<<y, t>> \in Less)
  BY <1>2, <1>3, WFMin, Zenon
<1>6. ASSUME NEW y \in T
      PROVE  t <= y
  <2>1. y \in Nat /\ t \in Nat
    BY <1>2
  <2>2. ~ (y < t)
    BY <1>4, <1>5, <2>1, Zenon
  <2> QED BY <2>1, <2>2
<1>7. n - t \in S /\ \A x \in S : x <= n - t
  BY <1>1, <1>6
<1>8. \E x \in S : \A y \in S : x >= y
  BY <1>7, Zenon
<1>9. Max(S) \in S /\ \A y \in S : Max(S) >= y
  BY <1>8, Zenon DEF Max
<1> QED BY <1>9

\* MaxSeqOf is an upper bound of the sequence numbers and, unless there are
\* no rows, one of them.
LEMMA MaxSeqOfRows == SeqsHaveMax
<1> SUFFICES ASSUME NEW rows \in SUBSET Rows
             PROVE  /\ MaxSeqOf(rows) \in 0 .. MaxSeq
                    /\ \A r \in rows : r.seq <= MaxSeqOf(rows)
                    /\ rows # {} => \E r \in rows : r.seq = MaxSeqOf(rows)
  BY DEF SeqsHaveMax
<1> DEFINE S == {r.seq : r \in rows} \cup {0}
<1>1. S \subseteq 0 .. MaxSeq /\ S # {}
  BY BoundsAssumption DEF Rows
<1>2. Max(S) \in S /\ \A x \in S : x <= Max(S)
  <2> HIDE DEF S
  <2> QED BY <1>1, BoundsAssumption, MaxOfBounded, Zenon
<1>3. \A r \in rows : r.seq <= MaxSeqOf(rows)
  BY <1>2 DEF MaxSeqOf
<1>4. MaxSeqOf(rows) \in 0 .. MaxSeq
  BY <1>1, <1>2, Zenon DEF MaxSeqOf
<1>5. ASSUME rows # {}
      PROVE  \E r \in rows : r.seq = MaxSeqOf(rows)
  <2>1. PICK q \in rows : TRUE
    BY <1>5
  <2>2. q.seq >= 1 /\ q.seq \in Nat
    BY BoundsAssumption DEF Rows
  <2>3. MaxSeqOf(rows) # 0
    BY <1>3, <1>4, <2>2, BoundsAssumption
  <2> QED BY <1>2, <2>3, Zenon DEF MaxSeqOf
<1> QED BY <1>3, <1>4, <1>5, Zenon

(***************************************************************************)
(* The invariant                                                           *)
(***************************************************************************)
\* It holds of a new database.
LEMMA InitOK ==
  ASSUME Init
  PROVE  IndInv
<1>1. /\ manifest = NewManifest /\ pins = {} /\ wal = << >> /\ gcphase = "idle"
      /\ db = [w \in Writer |-> NewDb] /\ keep = {} /\ doomed = {} /\ acked = {}
      /\ setup \in Setups /\ DOMAIN wal = {}
  BY DEF Init
<1>2. NewManifest \in Manifests
  BY BoundsAssumption DEF NewManifest, Manifests
<1>3. NewDb \in Dbs
  <2>1. << >> \in Seq(Memtables)
    OBVIOUS
  <2>2. 0 \in 0 .. MaxWal /\ 0 \in 0 .. MaxWal + 1 /\ 0 \in 0 .. MaxSeq /\ 0 \in Nat
    BY BoundsAssumption
  <2> QED BY <1>2, <2>1, <2>2, Zenon DEF NewDb, Dbs, PCs
<1>4. \A w \in Writer :
        /\ db[w].pc = "down" /\ db[w].epoch = 0 /\ db[w].table = {} /\ db[w].mem = {}
        /\ db[w].imm = << >> /\ db[w].buf = {} /\ db[w].putting = {}
  BY <1>1, Zenon DEF NewDb
<1>5. /\ manifest.epoch = 0 /\ manifest.replay_after = 0 /\ manifest.next_wal = 1
  BY <1>1 DEF NewManifest
<1>6. TypeOK
  BY <1>1, <1>2, <1>3, Zenon DEF TypeOK
<1>7. AssertionsHold /\ PinnedWalsSurvive /\ EpochInv /\ GcInv
  BY <1>1, <1>4, <1>5
     DEF AssertionsHold, PinnedWalsSurvive, EpochInv, GcInv, Fencing, Established
<1>8. LogInv
  BY <1>1, <1>5 DEF LogInv, WalUnbroken, WalSeqsIncrease, Reached, Exists
<1>9. OpeningInv /\ FilesInv
  BY <1>4, Zenon DEF OpeningInv, OpeningOK, FilesInv, FilesOK, Fencing, Established
<1>10. FrontierInv /\ DataInv
  BY <1>4 DEF FrontierInv, DataInv, Live, Current, Replaying, Running
<1>11. RowsInv
  BY <1>1, <1>4, Zenon DEF RowsInv
<1> QED BY <1>6, <1>7, <1>8, <1>9, <1>10, <1>11, Zenon DEF IndInv

\* Every step keeps it, if the collector spares fences.
LEMMA NextOK ==
  ASSUME ~ FenceGc, IndInv, [Next]_vars
  PROVE  IndInv'
<1>1. ASSUME NEW w \in Writer, OpenStep(w)
      PROVE  IndInv'
  BY <1>1, MaxSeqOfRows, OpenOK, LoadEmptyWalIdOK, ClaimOK, ReloadOK, ReloadRefreshOK, WriteFenceOK,
     FenceTakenOK, RetryRefreshOK, FinalRefreshOK, ReplayFileOK, ReplayTruncatedOK,
     InstallTableOK, FinishReplayOK, Zenon DEF OpenStep
<1>2. ASSUME NEW w \in Writer, WriterStep(w)
      PROVE  IndInv'
  <2>1. ASSUME OpenStep(w) PROVE IndInv'
    BY <1>1, <2>1, Zenon
  <2>2. ASSUME FlushL0(w) PROVE IndInv'
    BY <2>2, MaxSeqOfRows, FlushL0OK, Zenon
  <2> QED BY <1>2, <2>1, <2>2, MaxSeqOfRows, WriteOK, FreezeMemtableOK, PutWalOK, PutRefusedOK, RecordWalOK,
             CreateCheckpointOK, StopOK, Zenon DEF WriterStep
<1>3. CASE WriteCheckpoint
  BY <1>3, WriteCheckpointOK, Zenon
<1>4. ASSUME NEW p \in pins, DeleteCheckpoint(p)
      PROVE  IndInv'
  BY <1>4, DeleteCheckpointOK, Zenon
<1>5. CASE GcStep
  BY <1>5, GcReadOK, GcListOK, GcDeleteOK, GcFinishOK, Zenon DEF GcStep
<1>6. CASE UNCHANGED vars
  <2>1. UNCHANGED <<setup, manifest, pins, wal, db, gcphase, keep, doomed, acked>>
    BY <1>6 DEF vars
  <2>2. TypeOK' /\ PinnedWalsSurvive' /\ GcInv'
    BY <2>1, Zenon DEF IndInv, TypeOK, PinnedWalsSurvive, GcInv, Spared, Exists
  <2> QED BY <2>1, <2>2, CollectorStep, Zenon
<1> QED BY <1>2, <1>3, <1>4, <1>5, <1>6, Zenon DEF Next

(***************************************************************************)
(* IndInv holds in every state of every behaviour: for any number of       *)
(* openings that interleave, crash or are paused, any number of files and  *)
(* rows, and a WAL collector that keeps fences, as it does by default.     *)
(***************************************************************************)
THEOREM Invariance ==
  ASSUME ~ FenceGc
  PROVE  Spec => []IndInv
<1>1. Init => IndInv
  BY InitOK
<1>2. IndInv /\ [Next]_vars => IndInv'
  BY NextOK
<1> QED BY <1>1, <1>2, PTL DEF Spec

-----------------------------------------------------------------------------
(***************************************************************************)
(* What follows from it                                                    *)
(***************************************************************************)
\* The variables have their types.
THEOREM TypesKept ==
  ASSUME ~ FenceGc
  PROVE  Spec => []TypeOK
<1>1. IndInv => TypeOK
  BY DEF IndInv
<1> QED BY <1>1, Invariance, PTL

\* A row reported durable is found by every later opening: in L0, or in a WAL
\* file that is replayed and not filtered out by last_l0_seq.
THEOREM DurableRowsKept ==
  ASSUME ~ FenceGc
  PROVE  Spec => []AckedNeverLost
<1>1. ASSUME IndInv
      PROVE  AckedNeverLost
  <2> SUFFICES ASSUME NEW r \in acked
               PROVE  r \in Recoverable
    BY DEF AckedNeverLost
  <2>1. Safe(r)
    BY <1>1, Zenon DEF IndInv, RowsInv
  <2> QED BY <2>1 DEF Safe, Recoverable
<1> QED BY <1>1, Invariance, PTL

\* The log has no gap after the replay position, as the search for the last WAL
\* id and the replay assume.
THEOREM NoGapInWal ==
  ASSUME ~ FenceGc
  PROVE  Spec => []WalUnbroken
<1>1. IndInv => WalUnbroken
  BY Zenon DEF IndInv, LogInv
<1> QED BY <1>1, Invariance, PTL

\* Sequence numbers increase along the log, across writers.
THEOREM SeqsIncreaseInWal ==
  ASSUME ~ FenceGc
  PROVE  Spec => []WalSeqsIncrease
<1>1. IndInv => WalSeqsIncrease
  BY Zenon DEF IndInv, LogInv
<1> QED BY <1>1, Invariance, PTL

\* An open database that is not superseded serves every row that was ever
\* reported durable: replay and the memtables miss none.
THEOREM DurableRowsServed ==
  ASSUME ~ FenceGc
  PROVE  Spec => []ServesAcked
<1>1. ASSUME IndInv
      PROVE  ServesAcked
  <2> SUFFICES ASSUME NEW w \in Writer, db[w].pc = "running", ~ Superseded(w), NEW r \in acked
               PROVE  r \in manifest.l0 \cup Held(db[w])
    BY DEF ServesAcked, Held
  <2>1. Current(w)
    BY DEF Current, Running
  <2>2. RunningOK(db[w])
    BY <1>1, <2>1, Zenon DEF IndInv, DataInv, DataOK
  <2>3. Safe(r)
    BY <1>1 DEF IndInv, RowsInv
  <2> QED BY <2>2, <2>3, Zenon DEF Safe, RunningOK
<1> QED BY <1>1, Invariance, PTL

\* No assertion of the opening or of the flush to L0 fails, and no replay misses
\* a file unless its writer is fenced.
THEOREM AssertionsNeverFail ==
  ASSUME ~ FenceGc
  PROVE  Spec => []AssertionsHold
<1>1. IndInv => AssertionsHold
  BY Zenon DEF IndInv
<1> QED BY <1>1, Invariance, PTL

\* The collector deletes no WAL file of a checkpoint, even of one that is taken
\* between its reading of the manifests and its deletions.
THEOREM CheckpointWalsKept ==
  ASSUME ~ FenceGc
  PROVE  Spec => []PinnedWalsSurvive
<1>1. IndInv => PinnedWalsSurvive
  BY DEF IndInv
<1> QED BY <1>1, Invariance, PTL

\* Only a put of its own makes rows of a writer's buffer those of a new file.
LEMMA PuttingByPut ==
  ASSUME TypeOK, NEW v \in Writer, Next, db[v].putting = {}, db'[v].putting # {}
  PROVE  PutWal(v) \/ PutRefused(v)
<1>1. db \in [Writer -> Dbs] /\ \A u \in Writer : db[u] \in Dbs
  BY DEF TypeOK
<1>2. db' # db
  OBVIOUS
<1>3. PICK w \in Writer : WriterStep(w)
  BY <1>2, Zenon DEF Next, WriteCheckpoint, DeleteCheckpoint, GcStep, GcRead, GcList, GcDelete,
              GcFinish
<1>4. Ended.putting = {}
  BY DEF Ended, NewDb
<1>5. ASSUME NEW d, db' = [db EXCEPT ![w] = d], d.putting = db[w].putting \/ d.putting = {}
      PROVE  FALSE
  BY <1>1, <1>5
<1>6. ASSUME OpenStep(w) PROVE FALSE
  <2>1. \E d : db' = [db EXCEPT ![w] = d] /\ (d.putting = db[w].putting \/ d.putting = {})
    <3> USE <1>1 DEF Dbs
    <3>1. CASE Open(w) \/ LoadEmptyWalId(w) \/ Reload(w) \/ FenceTaken(w)
      <4>1. CASE Open(w)
        BY <4>1, Zenon DEF Open
      <4>2. CASE LoadEmptyWalId(w)
        <5>1. PICK i : db' = [db EXCEPT ![w].pc = "claim", ![w].empty = i]
          BY <4>2, Zenon DEF LoadEmptyWalId
        <5> QED BY <5>1, Zenon
      <4>3. CASE Reload(w)
        <5>1. PICK i : db' = [db EXCEPT ![w].pc = "reloaded", ![w].empty = i]
          BY <4>3, Zenon DEF Reload
        <5> QED BY <5>1, Zenon
      <4>4. CASE FenceTaken(w)
        BY <4>4, Zenon DEF FenceTaken
      <4> QED BY <3>1, <4>1, <4>2, <4>3, <4>4, Zenon
    <3>2. CASE Claim(w)
      BY <3>2, Zenon DEF Claim
    <3>3. CASE ReloadRefresh(w) \/ RetryRefresh(w) \/ FinalRefresh(w) \/ ReplayTruncated(w)
      <4>1. CASE Superseded(w)
        BY <1>4, <3>3, <4>1, Zenon DEF ReloadRefresh, RetryRefresh, FinalRefresh, ReplayTruncated
      <4>2. CASE ReloadRefresh(w) /\ ~ Superseded(w)
        BY <4>2, Zenon DEF ReloadRefresh
      <4>3. CASE RetryRefresh(w) /\ ~ Superseded(w)
        BY <4>3, Zenon DEF RetryRefresh
      <4>4. CASE FinalRefresh(w) /\ ~ Superseded(w)
        BY <4>4, Zenon DEF FinalRefresh
      <4>5. CASE ReplayTruncated(w) /\ ~ Superseded(w)
        BY <4>5, Zenon DEF ReplayTruncated
      <4> QED BY <3>3, <4>1, <4>2, <4>3, <4>4, <4>5, Zenon
    <3>4. CASE WriteFence(w)
      <4> DEFINE e == db[w]
                 retried == [e EXCEPT !.pc = "retry"]
                 fenced == [e EXCEPT !.pc = IF e.empty > e.view.replay_after
                                            THEN "confirm" ELSE "broken",
                                     !.cursor = e.view.replay_after + 1,
                                     !.flushed = e.empty]
      <4>1. db' = [db EXCEPT ![w] = retried] \/ db' = [db EXCEPT ![w] = fenced]
        BY <3>4, Zenon DEF WriteFence
      <4>2. retried.putting = e.putting /\ fenced.putting = e.putting
        OBVIOUS
      <4> HIDE DEF retried, fenced
      <4> QED BY <4>1, <4>2, Zenon
    <3>5. CASE ReplayFile(w) \/ FinishReplay(w)
      <4>1. CASE ReplayFile(w)
        <5> DEFINE e == db[w]
                   d == [e EXCEPT !.cursor = @ + 1,
                                  !.table = @ \cup {r \in wal[e.cursor] : r.seq > e.view.l0_seq}]
        <5>1. db' = [db EXCEPT ![w] = d]
          BY <4>1, Zenon DEF ReplayFile
        <5>2. d.putting = e.putting
          OBVIOUS
        <5> QED BY <5>1, <5>2, Zenon
      <4>2. CASE FinishReplay(w)
        BY <4>2, Zenon DEF FinishReplay
      <4> QED BY <3>5, <4>1, <4>2, Zenon
    <3>6. CASE InstallTable(w)
      BY <3>6, Zenon DEF InstallTable, Frozen
    <3> QED BY <1>6, <3>1, <3>2, <3>3, <3>4, <3>5, <3>6, Zenon DEF OpenStep
  <2> QED BY <1>5, <2>1, Zenon
<1>7. ASSUME ~ OpenStep(w), ~ PutWal(w), ~ PutRefused(w) PROVE FALSE
  <2>1. ~ CreateCheckpoint(w)
    BY <1>2, Zenon DEF CreateCheckpoint
  <2>2. \E d : db' = [db EXCEPT ![w] = d] /\ (d.putting = db[w].putting \/ d.putting = {})
    <3> USE <1>1 DEF Dbs
    <3>1. CASE Write(w)
      <4>1. PICK full \in BOOLEAN, n \in {[db[w] EXCEPT !.last_seq = db[w].last_seq + 1,
                !.mem = @ \cup {[by |-> w, seq |-> db[w].last_seq + 1]},
                !.buf = @ \cup {[by |-> w, seq |-> db[w].last_seq + 1]}]} :
              db' = [db EXCEPT ![w] = IF full THEN Frozen(n, n.flushed) ELSE n]
        BY <3>1, Zenon DEF Write
      <4>2. n.putting = db[w].putting
        BY Zenon
      <4>3. Frozen(n, n.flushed).putting = n.putting
        BY DEF Frozen
      <4>4. CASE full
        BY <4>1, <4>2, <4>3, <4>4, Zenon
      <4>5. CASE ~ full
        BY <4>1, <4>2, <4>5, Zenon
      <4> QED BY <4>4, <4>5, Zenon
    <3>2. CASE FreezeMemtable(w)
      BY <3>2, Zenon DEF FreezeMemtable, Frozen
    <3>3. CASE RecordWal(w)
      BY <3>3, Zenon DEF RecordWal
    <3>4. CASE FlushL0(w)
      <4> DEFINE e == db[w]
                 shorter == [e EXCEPT !.imm = Tail(@)]
                 broken == [e EXCEPT !.pc = "broken"]
      <4>1. db' = [db EXCEPT ![w] = shorter] \/ db' = [db EXCEPT ![w] = broken]
        BY <3>4, Zenon DEF FlushL0
      <4>2. shorter.putting = e.putting /\ broken.putting = e.putting
        OBVIOUS
      <4> HIDE DEF shorter, broken
      <4> QED BY <4>1, <4>2, Zenon
    <3>5. CASE Stop(w)
      BY <1>4, <3>5, Zenon DEF Stop
    <3> QED BY <1>3, <1>7, <2>1, <3>1, <3>2, <3>3, <3>4, <3>5, Zenon DEF WriterStep
  <2> QED BY <1>5, <2>2
<1>8. v = w
  BY <1>1, <1>3, <1>6, <1>7, Zenon DEF PutWal, PutRefused
<1> QED BY <1>6, <1>7, <1>8, Zenon

(***************************************************************************)
(* A writer whose successor has its fence in place creates no WAL file any *)
(* more, however long its put was under way: split-brain writes are        *)
(* impossible.                                                             *)
(***************************************************************************)
THEOREM FencedWritersStayOut ==
  ASSUME ~ FenceGc
  PROVE  Spec => OldWritersFenced
<1>1. ASSUME IndInv, Next, NEW v \in Writer, NEW w \in Writer, Established(w),
             db[v].epoch < db[w].epoch, db[v].putting = {}, db'[v].putting # {}
      PROVE  FALSE
  <2>1. TypeOK /\ db[v] \in Dbs /\ db[v].epoch \in Nat /\ db[w].epoch \in Nat
    BY <1>1, Fields, Zenon DEF IndInv
  <2>2. PutWal(v) \/ PutRefused(v)
    BY <1>1, <2>1, PuttingByPut
  <2>3. NextId(v) = db[v].flushed + 1 /\ FrontierOK(v)
    BY <1>1, <2>2, Zenon DEF NextId, IndInv, FrontierInv, Live, Running, PutWal, PutRefused
  <2>4. CASE PutWal(v)
    <3>1. db[w].epoch <= db[v].epoch
      BY <1>1, <2>3, <2>4, Zenon DEF PutWal, FrontierOK
    <3> QED BY <1>1, <2>1, <3>1
  <2>5. CASE PutRefused(v)
    <3>1. Exists(db[v].flushed + 1) /\ wal[db[v].flushed + 1] = {}
      BY <2>3, <2>5, Zenon DEF PutRefused, FrontierOK
    <3>2. \A rows \in NextPuts(db[v]) : ~ Verified(db[v].flushed + 1, rows)
      BY <2>1, <3>1, NextPutsRows, Zenon DEF Verified
    <3>3. db' = [db EXCEPT ![v] = Ended]
      BY <2>5, <3>2, Zenon DEF PutRefused
    <3> QED BY <1>1, <2>1, <3>3, Zenon DEF Ended, NewDb, TypeOK
  <2> QED BY <2>2, <2>4, <2>5, Zenon
<1>2. IndInv /\ [Next]_vars =>
        [\A v, w \in Writer :
           Established(w) /\ db[v].epoch < db[w].epoch
             => ~ (db[v].putting = {} /\ db'[v].putting # {})]_vars
  BY <1>1
<1> QED BY <1>2, Invariance, PTL DEF Spec, OldWritersFenced
=============================================================================
