------------------------- MODULE WalFencingInvariant -------------------------
(***************************************************************************)
(* The inductive invariant of WalFencing, for a collector that keeps       *)
(* fences (garbage_collector's default, a dry run for fences).             *)
(*                                                                         *)
(* A writer takes part in the log from the moment its fence is there.  The *)
(* argument turns on the next id such a writer would create a new file at. *)
(* As long as that id is missing nothing exists beyond it and no later     *)
(* writer has a fence; once the id exists it is a fence, is never deleted, *)
(* and the writer is out for good.  So there is at most one writer whose   *)
(* files can still grow the log, and its memtables hold what the log has.  *)
(***************************************************************************)
EXTENDS WalFencing, TLAPS

\* The id of the next file w would create with new rows
NextId(w) == db[w].flushed + (IF db[w].putting = {} THEN 1 ELSE 2)

Replaying(w) == db[w].pc = "replay"
Running(w) == db[w].pc = "running"
\* Between the claim and the fence
Fencing(w) == db[w].pc \in {"reload", "reloaded", "fence", "retry"}
\* The fence is there and the opening can still succeed
Live(w) ==
  Replaying(w) \/ Running(w) \/ (db[w].pc = "confirm" /\ ~ Superseded(w))
\* Nobody else can have changed the log or the manifest since w read them
Current(w) ==
  /\ Replaying(w) \/ Running(w)
  /\ ~ Superseded(w) \/ ~ Exists(NextId(w))

Held(d) == d.mem \cup UNION {d.imm[k].rows : k \in DOMAIN d.imm}

-----------------------------------------------------------------------------
(***************************************************************************)
(* Epochs are handed out once.                                             *)
(***************************************************************************)
EpochInv ==
  /\ \A w \in Writer : db[w].epoch <= manifest.epoch
  /\ \A w \in Writer : Fencing(w) \/ Established(w) => db[w].epoch > 0
  /\ \A v, w \in Writer : v # w /\ db[v].epoch > 0 => db[v].epoch # db[w].epoch

(***************************************************************************)
(* What the collector may delete: files with rows, before the replay       *)
(* position, of no checkpoint.                                             *)
(***************************************************************************)
Spared(i) ==
  i >= manifest.replay_after
    \/ \E p \in pins : i \in p.replay_after + 1 .. p.next_wal - 1
GcInv ==
  /\ gcphase = "list" => \A i \in WalIds : i \notin keep => ~ Spared(i)
  /\ \A i \in doomed : Exists(i) /\ wal[i] # {} /\ ~ Spared(i)

(***************************************************************************)
(* next_wal_sst_id does not point beyond a gap.                            *)
(***************************************************************************)
Reached(i) == i <= manifest.replay_after \/ Exists(i)
LogInv ==
  /\ WalUnbroken
  /\ WalSeqsIncrease
  /\ Reached(manifest.next_wal - 1)

(***************************************************************************)
(* An opening on its way to its fence.  The id it is going to use has no   *)
(* gap before it, and until it is superseded its view is the manifest's.   *)
(***************************************************************************)
OpeningOK(w) ==
  LET d == db[w] IN
  /\ ~ Replaying(w) /\ ~ Running(w)
       => d.table = {} /\ d.mem = {} /\ d.imm = << >> /\ d.buf = {} /\ d.putting = {}
  /\ d.pc \in {"load", "claim"} \/ Fencing(w) \/ d.pc = "confirm"
       => d.view.replay_after <= manifest.replay_after
  /\ d.pc \in {"claim", "reloaded", "fence"} => d.empty >= 1 /\ Reached(d.empty - 1)
  /\ d.pc = "retry" => d.empty \in WalIds /\ Reached(d.empty)
  /\ d.pc \in {"reloaded", "fence", "retry", "confirm"}
       => d.empty > d.view.replay_after
  /\ (Fencing(w) \/ d.pc = "confirm") /\ ~ Superseded(w)
       => d.view.replay_after = manifest.replay_after
  /\ d.pc = "confirm" => d.cursor = d.view.replay_after + 1
OpeningInv == \A w \in Writer : OpeningOK(w)

(***************************************************************************)
(* The files of a writer whose fence is there.                             *)
(***************************************************************************)
FilesOK(w) ==
  LET d == db[w] IN
  Established(w) =>
    /\ Reached(d.flushed)
    /\ d.pc # "running" => d.flushed = d.empty /\ d.putting = {}
    /\ d.putting # {} =>
         /\ d.flushed + 1 \in WalIds
         /\ d.flushed + 1 > manifest.replay_after
              => Exists(d.flushed + 1) /\ wal[d.flushed + 1] = d.putting
FilesInv == \A w \in Writer : FilesOK(w)

(***************************************************************************)
(* The next id is taken by a fence for good, or the end of the log.        *)
(***************************************************************************)
FrontierOK(v) ==
  /\ Exists(NextId(v)) => wal[NextId(v)] = {}
  /\ ~ Exists(NextId(v)) =>
       /\ NextId(v) > manifest.replay_after
       /\ \A j \in DOMAIN wal : j < NextId(v)
       /\ \A w \in Writer : Established(w) => db[w].epoch <= db[v].epoch
       /\ \A w \in Writer : db[w].pc \in {"fence", "retry"} /\ db[v].epoch < db[w].epoch
                              => db[w].empty > manifest.replay_after
  /\ ~ Superseded(v) =>
       /\ NextId(v) > manifest.replay_after
       /\ manifest.next_wal <= db[v].flushed + 1
       /\ \A j \in DOMAIN wal : j >= NextId(v) => wal[j] = {}
FrontierInv == \A v \in Writer : Live(v) => FrontierOK(v)

-----------------------------------------------------------------------------
(***************************************************************************)
(* The memtables of a current writer: in the order of their rows, newer    *)
(* than L0, and stamped with a WAL id before which all is in them.         *)
(***************************************************************************)
TablesOK(d) ==
  /\ manifest.l0_seq <= d.durable /\ d.durable <= d.last_seq
  /\ \A k \in DOMAIN d.imm :
       /\ d.imm[k].rows # {}
       /\ manifest.replay_after <= d.imm[k].wal
       /\ d.imm[k].wal <= (IF d.pc = "running" THEN d.flushed ELSE d.memwal)
       /\ \A r \in d.imm[k].rows :
            /\ manifest.l0_seq < r.seq /\ r.seq <= d.last_seq
            /\ \A q \in d.mem : r.seq < q.seq
  /\ \A k, l \in DOMAIN d.imm : k < l =>
       /\ d.imm[k].wal <= d.imm[l].wal
       /\ \A r \in d.imm[k].rows, q \in d.imm[l].rows : r.seq < q.seq
  /\ \A r \in d.mem : manifest.l0_seq < r.seq /\ r.seq <= d.last_seq

\* What the files up to a memtable's stamp hold is in it or in an older one.
StampsOK(d) ==
  \A k \in DOMAIN d.imm : \A i \in DOMAIN wal :
    manifest.replay_after < i /\ i <= d.imm[k].wal =>
      \A r \in wal[i] : r.seq > manifest.l0_seq
                          => \E l \in DOMAIN d.imm : l <= k /\ r \in d.imm[l].rows

(***************************************************************************)
(* Replay has everything of the files before its cursor, and what comes    *)
(* is newer.                                                               *)
(***************************************************************************)
ReplayOK(d) ==
  /\ manifest.replay_after <= d.memwal /\ d.memwal < d.cursor /\ d.cursor <= d.empty + 1
  /\ d.durable = d.last_seq /\ d.view.l0_seq <= manifest.l0_seq
  /\ d.memwal = d.cursor - 1 => d.table = {}
  /\ \A r \in d.table : d.last_seq < r.seq
  /\ d.buf = {}
  /\ \A i \in DOMAIN wal : manifest.replay_after < i => \A r \in wal[i] :
       /\ i <= d.memwal => /\ r.seq <= d.last_seq
                           /\ r.seq > manifest.l0_seq => r \in Held(d)
       /\ d.memwal < i /\ i < d.cursor => r.seq <= d.view.l0_seq \/ r \in d.table
       /\ d.cursor <= i /\ r.seq > d.view.l0_seq =>
            /\ d.last_seq < r.seq
            /\ \A q \in d.table : q.seq < r.seq

(***************************************************************************)
(* A running writer has all of the log in its memtables, and what is still *)
(* in its WAL buffers is newer than the log.                               *)
(***************************************************************************)
RunningOK(d) ==
  /\ manifest.replay_after <= d.flushed
  /\ \A r \in d.buf : d.durable < r.seq /\ r.seq <= d.last_seq /\ r \in Held(d)
  /\ d.putting \subseteq d.buf
  /\ \A r \in d.putting, q \in d.buf \ d.putting : r.seq < q.seq
  /\ \A i \in DOMAIN wal : manifest.replay_after < i => \A r \in wal[i] :
       /\ i <= d.flushed => r.seq <= d.durable
       /\ r.seq > manifest.l0_seq => r \in Held(d)

DataOK(d) ==
  /\ TablesOK(d)
  /\ StampsOK(d)
  /\ d.pc = "replay" => ReplayOK(d)
  /\ d.pc = "running" => RunningOK(d)
DataInv == \A w \in Writer : Current(w) => DataOK(db[w])

(***************************************************************************)
(* Rows are safe as soon as a file holds them, reported or not.            *)
(***************************************************************************)
Safe(r) ==
  \/ r \in manifest.l0
  \/ \E i \in DOMAIN wal :
       manifest.replay_after < i /\ r \in wal[i] /\ r.seq > manifest.l0_seq
RowsInv ==
  /\ \A r \in acked : Safe(r)
  /\ \A w \in Writer : \A r \in db[w].putting : Safe(r)

IndInv ==
  /\ TypeOK
  /\ AssertionsHold
  /\ PinnedWalsSurvive
  /\ EpochInv
  /\ GcInv
  /\ LogInv
  /\ OpeningInv
  /\ FilesInv
  /\ FrontierInv
  /\ DataInv
  /\ RowsInv

-----------------------------------------------------------------------------
(***************************************************************************)
(* Lemmas about operators                                                  *)
(***************************************************************************)
\* MaxSeqOf takes the greatest sequence number of some rows, 0 of none.  (That
\* there is a greatest one is MaxSeqOfRows, proved in WalFencingProofs, which
\* is the only module to need the theory of well-founded orders.)
SeqsHaveMax ==
  \A rows \in SUBSET Rows :
    /\ MaxSeqOf(rows) \in 0 .. MaxSeq
    /\ \A r \in rows : r.seq <= MaxSeqOf(rows)
    /\ rows # {} => \E r \in rows : r.seq = MaxSeqOf(rows)

\* The greater of two numbers
LEMMA MaxOfTwo ==
  ASSUME NEW a \in Nat, NEW b \in Nat
  PROVE  Max({a, b}) = IF a >= b THEN a ELSE b
<1>1. \E x \in {a, b} : \A y \in {a, b} : x >= y
  OBVIOUS
<1>2. Max({a, b}) \in {a, b} /\ \A y \in {a, b} : Max({a, b}) >= y
  BY <1>1 DEF Max
<1> QED BY <1>2

-----------------------------------------------------------------------------
\* What a process holds fits the log as long as the replay position and L0 stay
\* and only fences are added, or files deleted that are not replayed any more.
LEMMA DataKept ==
  ASSUME NEW d, DataOK(d),
         manifest'.replay_after = manifest.replay_after,
         manifest'.l0_seq = manifest.l0_seq,
         \A i \in DOMAIN wal' : manifest.replay_after < i
           => wal'[i] = {} \/ (i \in DOMAIN wal /\ wal'[i] = wal[i])
  PROVE  DataOK(d)'
<1>1. TablesOK(d)'
  <2>1. TablesOK(d)
    BY DEF DataOK
  <2> QED BY <2>1 DEF TablesOK
<1>2. StampsOK(d)'
  <2>1. StampsOK(d)
    BY DEF DataOK
  <2> QED BY <2>1 DEF StampsOK
<1>3. ASSUME d.pc = "replay" PROVE ReplayOK(d)'
  <2>1. ReplayOK(d)
    BY <1>3 DEF DataOK
  <2> QED BY <2>1 DEF ReplayOK
<1>4. ASSUME d.pc = "running" PROVE RunningOK(d)'
  <2>1. RunningOK(d)
    BY <1>4 DEF DataOK
  <2> QED BY <2>1 DEF RunningOK
<1> QED BY <1>1, <1>2, <1>3, <1>4 DEF DataOK

(***************************************************************************)
(* A step of w's process alone, its new state being d.  What it has to     *)
(* show is about w: the others see no difference, as long as w does not    *)
(* come to hold a fence or an epoch by it.                                 *)
(***************************************************************************)
LEMMA LocalStep ==
  ASSUME IndInv, NEW w \in Writer, NEW d \in Dbs,
         db' = [db EXCEPT ![w] = d],
         UNCHANGED <<setup, manifest, pins, wal, gcphase, keep, doomed>>,
         acked' \subseteq acked \cup db[w].putting,
         d.pc \notin {"broken", "truncated"},
         d.epoch = db[w].epoch \/ d.epoch = 0,
         Fencing(w)' \/ Established(w)' =>
           (Fencing(w) \/ Established(w)) /\ d.epoch = db[w].epoch,
         Established(w)' => Established(w),
         d.pc \in {"fence", "retry"} =>
           \/ d.empty > manifest.replay_after
           \/ db[w].pc \in {"fence", "retry"} /\ d.empty = db[w].empty,
         Live(w)' => Live(w) /\ NextId(w)' = NextId(w) /\ d.flushed >= db[w].flushed,
         \A r \in d.putting : Safe(r),
         OpeningOK(w)', FilesOK(w)', Current(w)' => DataOK(d)
  PROVE  IndInv'
<1> USE DEF IndInv
<1>1. db' \in [Writer -> Dbs] /\ db'[w] = d /\ \A v \in Writer : v # w => db'[v] = db[v]
  BY DEF TypeOK
<1>2. TypeOK'
  <2>1. db[w].putting \subseteq Rows
    BY DEF TypeOK, Dbs
  <2> QED BY <1>1, <2>1 DEF TypeOK
<1>3. AssertionsHold' /\ PinnedWalsSurvive' /\ GcInv' /\ LogInv'
  <2>1. AssertionsHold'
    BY <1>1 DEF AssertionsHold
  <2>2. PinnedWalsSurvive'
    BY DEF PinnedWalsSurvive, Exists
  <2>3. GcInv'
    BY DEF GcInv, Spared, Exists
  <2>4. LogInv'
    BY Zenon DEF LogInv, WalUnbroken, WalSeqsIncrease, Reached, Exists
  <2> QED BY <2>1, <2>2, <2>3, <2>4
<1>4. EpochInv'
  <2>1. \A v \in Writer : db[v].epoch \in Nat
    BY DEF TypeOK, Dbs
  <2>2. \A v \in Writer : (db'[v].epoch = db[v].epoch \/ db'[v].epoch = 0)
    BY <1>1
  <2>3. \A v \in Writer : (Fencing(v) \/ Established(v))' => Fencing(v) \/ Established(v)
    BY <1>1 DEF Fencing, Established
  <2>4. \A v \in Writer : (Fencing(v) \/ Established(v))' => db'[v].epoch = db[v].epoch
    BY <1>1, Zenon DEF Fencing, Established
  <2>5. manifest.epoch \in Nat /\ manifest' = manifest
    BY DEF TypeOK, Manifests
  <2>6. \A v \in Writer : db'[v].epoch <= manifest'.epoch
    BY <2>1, <2>2, <2>5 DEF EpochInv
  <2>7. \A v \in Writer : (Fencing(v) \/ Established(v))' => db'[v].epoch > 0
    BY <2>3, <2>4, Zenon DEF EpochInv
  <2>8. \A u, v \in Writer : u # v /\ db'[u].epoch > 0 => db'[u].epoch # db'[v].epoch
    <3>1. \A u, v \in Writer : u # v /\ db[u].epoch > 0 => db[u].epoch # db[v].epoch
      BY Zenon DEF EpochInv
    <3> QED BY <2>1, <2>2, <3>1
  <2> QED BY <2>6, <2>7, <2>8, Zenon DEF EpochInv
<1>5. OpeningInv'
  BY <1>1 DEF OpeningInv, OpeningOK, Fencing, Replaying, Running, Superseded, Reached, Exists
<1>6. FilesInv'
  BY <1>1 DEF FilesInv, FilesOK, Established, Reached, Exists
<1>7. FrontierInv'
  <2> SUFFICES ASSUME NEW v \in Writer, Live(v)'
               PROVE  FrontierOK(v)'
    BY Zenon DEF FrontierInv
  <2>1. Live(v) /\ NextId(v)' = NextId(v) /\ db'[v].flushed >= db[v].flushed
    <3>1. CASE v = w
      BY <3>1, <1>1, Zenon
    <3>2. CASE v # w
      <4>1. db[v].flushed \in Nat
        BY BoundsAssumption DEF TypeOK, Dbs
      <4> QED BY <3>2, <4>1, <1>1 DEF Live, NextId, Replaying, Running, Superseded
    <3> QED BY <3>1, <3>2, Zenon
  <2>2. FrontierOK(v)
    BY <2>1, Zenon DEF FrontierInv
  <2>3. (Established(v))' /\ db'[v].epoch = db[v].epoch
    BY <1>1, <2>1, Zenon DEF Live, Replaying, Running, Established, Fencing
  <2>4. \A u \in Writer : (Established(u))' => Established(u) /\ db'[u].epoch = db[u].epoch
    BY <1>1, Zenon DEF Established
  <2>5. \A u \in Writer : db'[u].pc \in {"fence", "retry"} =>
          /\ db'[u].epoch = db[u].epoch
          /\ \/ db'[u].empty > manifest.replay_after
             \/ db[u].pc \in {"fence", "retry"} /\ db'[u].empty = db[u].empty
    BY <1>1, Zenon DEF Fencing
  <2>6. /\ Exists(NextId(v)) => wal[NextId(v)] = {}
        /\ ~ Exists(NextId(v)) =>
             /\ NextId(v) > manifest.replay_after
             /\ \A j \in DOMAIN wal : j < NextId(v)
             /\ \A u \in Writer : (Established(u))' => db'[u].epoch <= db'[v].epoch
             /\ \A u \in Writer :
                  db'[u].pc \in {"fence", "retry"} /\ db'[v].epoch < db'[u].epoch
                    => db'[u].empty > manifest.replay_after
    BY <2>2, <2>3, <2>4, <2>5, Zenon DEF FrontierOK
  <2>7. ~ Superseded(v)' =>
             /\ NextId(v) > manifest.replay_after
             /\ manifest.next_wal <= db'[v].flushed + 1
             /\ \A j \in DOMAIN wal : j >= NextId(v) => wal[j] = {}
    <3>1. manifest.next_wal \in Nat /\ db'[v].flushed \in Nat /\ db[v].flushed \in Nat
      <4>1. manifest \in Manifests /\ db[v] \in Dbs /\ db'[v] \in Dbs
        BY <1>1, Zenon DEF TypeOK
      <4>2. manifest.next_wal \in 1 .. MaxWal + 1
        BY <4>1, Zenon DEF Manifests
      <4>3. db[v].flushed \in 0 .. MaxWal /\ db'[v].flushed \in 0 .. MaxWal
        BY <4>1, Zenon DEF Dbs
      <4> QED BY <4>2, <4>3, BoundsAssumption
    <3> QED BY <2>1, <2>2, <2>3, <3>1 DEF FrontierOK, Superseded
  <2> QED BY <2>1, <2>6, <2>7, Zenon DEF FrontierOK, Exists
<1>8. DataInv'
  <2> SUFFICES ASSUME NEW v \in Writer, Current(v)'
               PROVE  DataOK(db[v])'
    BY Zenon DEF DataInv
  <2>1. DataOK(db'[v])
    <3>1. CASE v = w
      BY <3>1, <1>1, Zenon
    <3>2. CASE v # w
      <4>1. Current(v)
        BY <3>2, <1>1, Zenon DEF Current, NextId, Replaying, Running, Superseded, Exists
      <4> QED BY <3>2, <4>1, <1>1, Zenon DEF DataInv
    <3> QED BY <3>1, <3>2, Zenon
  <2>2. PICK e : e = db'[v]
    BY Zenon
  <2>3. DataOK(e)'
    BY <2>1, <2>2, DataKept, Zenon
  <2> QED BY <2>2, <2>3, Zenon
<1>9. RowsInv'
  BY <1>1 DEF RowsInv, Safe
<1> QED BY <1>2, <1>3, <1>4, <1>5, <1>6, <1>7, <1>8, <1>9, Zenon

\* The fields of a process and of the manifest
LEMMA Fields ==
  ASSUME TypeOK, NEW w \in Writer
  PROVE  /\ db[w] \in Dbs /\ manifest \in Manifests
         /\ MaxWal \in Nat /\ MaxSeq \in Nat
         /\ db[w].epoch \in Nat /\ db[w].view \in Manifests
         /\ db[w].empty \in 0 .. MaxWal + 1 /\ db[w].cursor \in 0 .. MaxWal + 1
         /\ db[w].memwal \in 0 .. MaxWal /\ db[w].flushed \in 0 .. MaxWal
         /\ db[w].last_seq \in 0 .. MaxSeq /\ db[w].durable \in 0 .. MaxSeq
         /\ db[w].table \subseteq Rows /\ db[w].mem \subseteq Rows
         /\ db[w].buf \subseteq Rows /\ db[w].putting \subseteq Rows
         /\ db[w].imm \in Seq(Memtables)
         /\ manifest.epoch \in Nat /\ manifest.replay_after \in 0 .. MaxWal
         /\ manifest.next_wal \in 1 .. MaxWal + 1 /\ manifest.l0_seq \in 0 .. MaxSeq
         /\ db[w].view.replay_after \in 0 .. MaxWal /\ db[w].view.l0_seq \in 0 .. MaxSeq
<1>1. db[w] \in Dbs /\ manifest \in Manifests
  BY DEF TypeOK
<1> QED BY <1>1, BoundsAssumption, Zenon DEF Dbs, Manifests

\* The WAL ids of a process and of the manifest are numbers.
LEMMA Positions ==
  ASSUME TypeOK, NEW w \in Writer
  PROVE  /\ MaxWal \in Nat /\ manifest.replay_after \in Nat
         /\ db[w].view.replay_after \in Nat /\ db[w].empty \in Nat
         /\ db[w].cursor \in Nat /\ db[w].memwal \in Nat
<1>1. MaxWal \in Nat
  BY BoundsAssumption
<1>2. 0 .. MaxWal \subseteq Nat /\ 0 .. MaxWal + 1 \subseteq Nat
  BY <1>1
<1> QED BY <1>1, <1>2, Fields, Zenon

\* A process that ends leaves what the others rely on.
LEMMA EndStep ==
  ASSUME IndInv, NEW w \in Writer, db' = [db EXCEPT ![w] = Ended],
         UNCHANGED <<setup, manifest, pins, wal, gcphase, keep, doomed, acked>>
  PROVE  IndInv'
<1>1. TypeOK
  BY DEF IndInv
<1>2. Ended \in Dbs
  <2>1. NewManifest \in Manifests
    BY BoundsAssumption DEF NewManifest, Manifests
  <2>2. << >> \in Seq(Memtables)
    OBVIOUS
  <2>3. 0 \in 0 .. MaxWal /\ 0 \in 0 .. MaxWal + 1 /\ 0 \in 0 .. MaxSeq /\ 0 \in Nat
    BY BoundsAssumption
  <2>4. NewDb \in Dbs
    BY <2>1, <2>2, <2>3 DEF NewDb, Dbs, PCs
  <2> QED BY <2>4, Zenon DEF Ended, Dbs, PCs
<1>3. /\ Ended.pc = "stopped" /\ Ended.epoch = 0 /\ Ended.table = {} /\ Ended.mem = {}
      /\ Ended.imm = << >> /\ Ended.buf = {} /\ Ended.putting = {}
  BY DEF Ended, NewDb
<1>4. db'[w] = Ended
  BY <1>1, Zenon DEF TypeOK
<1>5. ~ Established(w)' /\ ~ Fencing(w)' /\ ~ Live(w)' /\ ~ Current(w)'
  BY <1>3, <1>4, Zenon DEF Established, Fencing, Live, Current, Replaying, Running
<1>6. OpeningOK(w)'
  BY <1>3, <1>4, <1>5, Zenon DEF OpeningOK
<1>7. FilesOK(w)'
  BY <1>5 DEF FilesOK
<1> HIDE DEF Ended
<1> QED BY <1>2, <1>3, <1>5, <1>6, <1>7, LocalStep, Zenon

\* An opening starts with the latest manifest.
LEMMA OpenOK ==
  ASSUME IndInv, NEW w \in Writer, Open(w)
  PROVE  IndInv'
<1> DEFINE d == [db[w] EXCEPT !.pc = "load", !.view = manifest]
<1>1. TypeOK /\ OpeningOK(w)
  BY DEF IndInv, OpeningInv
<1>2. d \in Dbs /\ db' = [db EXCEPT ![w] = d] /\ db'[w] = d
  <2>1. d \in Dbs
    <3>1. db[w] \in Dbs /\ manifest \in Manifests
      BY <1>1, Fields, Zenon
    <3> QED BY <3>1, Zenon DEF Dbs, PCs
  <2>2. db' = [db EXCEPT ![w] = d]
    BY Zenon DEF Open
  <2>3. db'[w] = d
    BY <1>1, <2>2 DEF TypeOK
  <2> QED BY <2>1, <2>2, <2>3
<1>3. /\ d.pc = "load" /\ d.epoch = db[w].epoch /\ d.view = manifest
      /\ d.table = {} /\ d.mem = {} /\ d.imm = << >> /\ d.buf = {} /\ d.putting = {}
  <2>1. db[w] \in Dbs /\ manifest \in Manifests
    BY <1>1, Fields, Zenon
  <2>2. /\ db[w].table = {} /\ db[w].mem = {} /\ db[w].imm = << >> /\ db[w].buf = {}
        /\ db[w].putting = {}
    BY <1>1, Zenon DEF OpeningOK, Open, Replaying, Running
  <2> QED BY <2>1, <2>2, Zenon DEF Dbs
<1> HIDE DEF d
<1>4. ~ Established(w)' /\ ~ Fencing(w)' /\ ~ Live(w)' /\ ~ Current(w)'
  BY <1>2, <1>3, Zenon DEF Established, Fencing, Live, Current, Replaying, Running
<1>5. OpeningOK(w)'
  <2>1. manifest' = manifest /\ manifest.replay_after \in 0 .. MaxWal /\ MaxWal \in Nat
    BY <1>1, Fields, Zenon DEF Open
  <2> QED BY <1>2, <1>3, <1>4, <2>1 DEF OpeningOK
<1>6. FilesOK(w)'
  BY <1>4 DEF FilesOK
<1>7. UNCHANGED <<setup, manifest, pins, wal, gcphase, keep, doomed, acked>>
  BY DEF Open
<1> QED BY <1>2, <1>3, <1>4, <1>5, <1>6, <1>7, LocalStep, Zenon

\* The id found missing has no gap before it.
LEMMA LoadEmptyWalIdOK ==
  ASSUME IndInv, NEW w \in Writer, LoadEmptyWalId(w)
  PROVE  IndInv'
<1>1. TypeOK /\ OpeningOK(w)
  BY DEF IndInv, OpeningInv
<1>2. PICK i \in NextWalIds(db[w].view.replay_after) :
        db' = [db EXCEPT ![w].pc = "claim", ![w].empty = i]
  BY Zenon DEF LoadEmptyWalId
<1>3. i \in 1 .. MaxWal + 1 /\ Reached(i - 1)
  <2>1. db[w].view.replay_after <= manifest.replay_after
    BY <1>1 DEF OpeningOK, LoadEmptyWalId
  <2>2. MaxWal \in Nat /\ manifest.replay_after \in Nat /\ db[w].view.replay_after \in Nat
    BY <1>1, Positions, Zenon
  <2> QED BY <2>1, <2>2 DEF NextWalIds, Reached
<1> DEFINE d == [db[w] EXCEPT !.pc = "claim", !.empty = i]
<1>4. d \in Dbs /\ db' = [db EXCEPT ![w] = d] /\ db'[w] = d
  <2>1. d \in Dbs
    <3>1. i \in 0 .. MaxWal + 1 /\ db[w] \in Dbs
      BY <1>1, <1>3, Fields
    <3> QED BY <3>1, Zenon DEF Dbs, PCs
  <2>2. db' = [db EXCEPT ![w] = d]
    BY <1>2, Zenon
  <2>3. db'[w] = d
    BY <1>1, <2>2 DEF TypeOK
  <2> QED BY <2>1, <2>2, <2>3
<1>5. /\ d.pc = "claim" /\ d.epoch = db[w].epoch /\ d.view = db[w].view /\ d.empty = i
      /\ d.table = {} /\ d.mem = {} /\ d.imm = << >> /\ d.buf = {} /\ d.putting = {}
  <2>1. db[w] \in Dbs
    BY <1>1, Fields, Zenon
  <2>2. /\ db[w].table = {} /\ db[w].mem = {} /\ db[w].imm = << >> /\ db[w].buf = {}
        /\ db[w].putting = {}
    BY <1>1, Zenon DEF OpeningOK, LoadEmptyWalId, Replaying, Running
  <2> QED BY <2>1, <2>2, Zenon DEF Dbs
<1> HIDE DEF d
<1>6. ~ Established(w)' /\ ~ Fencing(w)' /\ ~ Live(w)' /\ ~ Current(w)'
  BY <1>4, <1>5 DEF Established, Fencing, Live, Current, Replaying, Running
<1>7. UNCHANGED <<setup, manifest, pins, wal, gcphase, keep, doomed, acked>>
  BY Zenon DEF LoadEmptyWalId
<1>8. OpeningOK(w)'
  <2>1. db[w].view.replay_after <= manifest.replay_after
    BY <1>1 DEF OpeningOK, LoadEmptyWalId
  <2>2. Reached(i - 1)'
    BY <1>3, <1>7 DEF Reached, Exists
  <2> QED BY <1>3, <1>4, <1>5, <1>6, <1>7, <2>1, <2>2 DEF OpeningOK
<1>9. FilesOK(w)'
  BY <1>6, Zenon DEF FilesOK
<1> QED BY <1>4, <1>5, <1>6, <1>7, <1>8, <1>9, LocalStep, Zenon

\* So has the one looked for again after the claim.
LEMMA ReloadOK ==
  ASSUME IndInv, NEW w \in Writer, Reload(w)
  PROVE  IndInv'
<1>1. TypeOK /\ OpeningOK(w) /\ db[w].pc = "reload"
  BY DEF IndInv, OpeningInv, Reload
<1>2. PICK i \in NextWalIds(db[w].view.replay_after) :
        db' = [db EXCEPT ![w].pc = "reloaded", ![w].empty = i]
  BY Zenon DEF Reload
<1>3. /\ db[w].view.replay_after <= manifest.replay_after
      /\ ~ Superseded(w) => db[w].view.replay_after = manifest.replay_after
  BY <1>1, Zenon DEF OpeningOK, Fencing
<1>4. i \in 1 .. MaxWal + 1 /\ Reached(i - 1) /\ i > db[w].view.replay_after
  <2>1. MaxWal \in Nat /\ manifest.replay_after \in Nat /\ db[w].view.replay_after \in Nat
    BY <1>1, Positions, Zenon
  <2> QED BY <1>3, <2>1 DEF NextWalIds, Reached
<1> DEFINE d == [db[w] EXCEPT !.pc = "reloaded", !.empty = i]
<1>5. d \in Dbs /\ db' = [db EXCEPT ![w] = d] /\ db'[w] = d
  <2>1. d \in Dbs
    <3>1. i \in 0 .. MaxWal + 1 /\ db[w] \in Dbs
      BY <1>1, <1>4, Fields
    <3> QED BY <3>1, Zenon DEF Dbs, PCs
  <2>2. db' = [db EXCEPT ![w] = d]
    BY <1>2, Zenon
  <2> QED BY <1>1, <2>1, <2>2 DEF TypeOK
<1>6. /\ d.pc = "reloaded" /\ d.epoch = db[w].epoch /\ d.view = db[w].view /\ d.empty = i
      /\ d.table = {} /\ d.mem = {} /\ d.imm = << >> /\ d.buf = {} /\ d.putting = {}
  <2>1. db[w] \in Dbs
    BY <1>1, Fields, Zenon
  <2>2. /\ db[w].table = {} /\ db[w].mem = {} /\ db[w].imm = << >> /\ db[w].buf = {}
        /\ db[w].putting = {}
    BY <1>1, Zenon DEF OpeningOK, Replaying, Running
  <2> QED BY <2>1, <2>2, Zenon DEF Dbs
<1> HIDE DEF d
<1>7. ~ Established(w)' /\ ~ Live(w)' /\ ~ Current(w)' /\ Fencing(w)
  BY <1>1, <1>5, <1>6 DEF Established, Fencing, Live, Current, Replaying, Running
<1>8. UNCHANGED <<setup, manifest, pins, wal, gcphase, keep, doomed, acked>>
  BY Zenon DEF Reload
<1>9. OpeningOK(w)'
  <2>1. Reached(i - 1)' /\ (Superseded(w)' <=> Superseded(w))
    BY <1>4, <1>5, <1>6, <1>8, Zenon DEF Reached, Exists, Superseded
  <2> QED BY <1>3, <1>4, <1>5, <1>6, <1>8, <2>1 DEF OpeningOK
<1>10. FilesOK(w)'
  BY <1>7 DEF FilesOK
<1> QED BY <1>5, <1>6, <1>7, <1>8, <1>9, <1>10, LocalStep, Zenon

\* If the epoch is still the latest the replay position has not moved, so the
\* assertion after the reload holds.
LEMMA ReloadRefreshOK ==
  ASSUME IndInv, NEW w \in Writer, ReloadRefresh(w)
  PROVE  IndInv'
<1>1. TypeOK /\ OpeningOK(w) /\ db[w].pc = "reloaded"
  BY DEF IndInv, OpeningInv, ReloadRefresh
<1>2. UNCHANGED <<setup, manifest, pins, wal, gcphase, keep, doomed, acked>>
  BY DEF ReloadRefresh
<1>3. CASE Superseded(w)
  BY <1>2, <1>3, EndStep, Zenon DEF ReloadRefresh
<1>4. CASE ~ Superseded(w)
  <2>1. /\ db[w].view.replay_after = manifest.replay_after
        /\ db[w].empty > manifest.replay_after
        /\ db[w].empty >= 1 /\ Reached(db[w].empty - 1)
    BY <1>1, <1>4, Zenon DEF OpeningOK, Fencing
  <2> DEFINE d == [db[w] EXCEPT !.view = manifest, !.pc = "fence"]
  <2>2. d \in Dbs /\ db' = [db EXCEPT ![w] = d] /\ db'[w] = d
    <3>1. d \in Dbs
      <4>1. db[w] \in Dbs /\ manifest \in Manifests
        BY <1>1, Fields
      <4> QED BY <4>1, Zenon DEF Dbs, PCs
    <3>2. db' = [db EXCEPT ![w] = d]
      BY <1>4, <2>1 DEF ReloadRefresh
    <3> QED BY <1>1, <3>1, <3>2 DEF TypeOK
  <2>3. /\ d.pc = "fence" /\ d.epoch = db[w].epoch /\ d.view = manifest
        /\ d.empty = db[w].empty
        /\ d.table = {} /\ d.mem = {} /\ d.imm = << >> /\ d.buf = {} /\ d.putting = {}
    <3>1. db[w] \in Dbs
      BY <1>1, Fields, Zenon
    <3>2. /\ db[w].table = {} /\ db[w].mem = {} /\ db[w].imm = << >> /\ db[w].buf = {}
          /\ db[w].putting = {}
      BY <1>1, Zenon DEF OpeningOK, Replaying, Running
    <3> QED BY <3>1, <3>2, Zenon DEF Dbs
  <2> HIDE DEF d
  <2>4. ~ Established(w)' /\ ~ Live(w)' /\ ~ Current(w)' /\ Fencing(w)
    BY <1>1, <2>2, <2>3, Zenon DEF Established, Fencing, Live, Current, Replaying, Running
  <2>5. OpeningOK(w)'
    <3>1. Reached(db[w].empty - 1)'
      BY <1>2, <2>1, <2>2, <2>3, Zenon DEF Reached, Exists
    <3>2. manifest.replay_after \in 0 .. MaxWal /\ MaxWal \in Nat
      BY <1>1, Fields, Zenon
    <3> QED BY <1>2, <2>1, <2>2, <2>3, <3>1, <3>2 DEF OpeningOK
  <2>6. FilesOK(w)'
    BY <2>4 DEF FilesOK
  <2> QED BY <1>2, <2>1, <2>2, <2>3, <2>4, <2>5, <2>6, LocalStep, Zenon
<1> QED BY <1>3, <1>4

\* A fence that is taken lies right after the log.
LEMMA FenceTakenOK ==
  ASSUME IndInv, NEW w \in Writer, FenceTaken(w)
  PROVE  IndInv'
<1>1. TypeOK /\ OpeningOK(w) /\ db[w].pc = "fence" /\ Exists(db[w].empty)
  BY DEF IndInv, OpeningInv, FenceTaken
<1> DEFINE d == [db[w] EXCEPT !.pc = "retry"]
<1>2. d \in Dbs /\ db' = [db EXCEPT ![w] = d] /\ db'[w] = d
  <2>1. d \in Dbs
    <3>1. db[w] \in Dbs /\ manifest \in Manifests
      BY <1>1, Fields, Zenon
    <3> QED BY <3>1, Zenon DEF Dbs, PCs
  <2>2. db' = [db EXCEPT ![w] = d]
    BY DEF FenceTaken
  <2> QED BY <1>1, <2>1, <2>2 DEF TypeOK
<1>3. /\ d.pc = "retry" /\ d.epoch = db[w].epoch /\ d.view = db[w].view
      /\ d.empty = db[w].empty
      /\ d.table = {} /\ d.mem = {} /\ d.imm = << >> /\ d.buf = {} /\ d.putting = {}
  <2>1. db[w] \in Dbs
    BY <1>1, Fields, Zenon
  <2>2. /\ db[w].table = {} /\ db[w].mem = {} /\ db[w].imm = << >> /\ db[w].buf = {}
        /\ db[w].putting = {}
    BY <1>1, Zenon DEF OpeningOK, Replaying, Running
  <2> QED BY <2>1, <2>2, Zenon DEF Dbs
<1> HIDE DEF d
<1>4. ~ Established(w)' /\ ~ Live(w)' /\ ~ Current(w)' /\ Fencing(w)
  BY <1>1, <1>2, <1>3 DEF Established, Fencing, Live, Current, Replaying, Running
<1>5. UNCHANGED <<setup, manifest, pins, wal, gcphase, keep, doomed, acked>>
  BY DEF FenceTaken
<1>6. OpeningOK(w)'
  <2>1. Reached(db[w].empty)' /\ (Superseded(w)' <=> Superseded(w))
    BY <1>1, <1>2, <1>3, <1>5 DEF Reached, Exists, Superseded
  <2>2. /\ db[w].view.replay_after <= manifest.replay_after
        /\ ~ Superseded(w) => db[w].view.replay_after = manifest.replay_after
        /\ db[w].empty > db[w].view.replay_after
        /\ db[w].empty \in WalIds
    BY <1>1, Zenon DEF OpeningOK, Fencing, TypeOK, Exists
  <2> QED BY <1>2, <1>3, <1>5, <2>1, <2>2, Zenon DEF OpeningOK
<1>7. FilesOK(w)'
  BY <1>4 DEF FilesOK
<1> QED BY <1>1, <1>2, <1>3, <1>4, <1>5, <1>6, <1>7, LocalStep, Zenon

\* The next attempt is one id further, unless the opening is superseded.
LEMMA RetryRefreshOK ==
  ASSUME IndInv, NEW w \in Writer, RetryRefresh(w)
  PROVE  IndInv'
<1>1. TypeOK /\ OpeningOK(w) /\ db[w].pc = "retry"
  BY DEF IndInv, OpeningInv, RetryRefresh
<1>2. UNCHANGED <<setup, manifest, pins, wal, gcphase, keep, doomed, acked>>
  BY DEF RetryRefresh
<1>3. CASE Superseded(w)
  BY <1>2, <1>3, EndStep, Zenon DEF RetryRefresh
<1>4. CASE ~ Superseded(w)
  <2>1. /\ db[w].view.replay_after = manifest.replay_after
        /\ db[w].empty > manifest.replay_after
        /\ db[w].empty \in WalIds /\ Reached(db[w].empty)
    BY <1>1, <1>4, Zenon DEF OpeningOK, Fencing
  <2>2. PICK i : i = db[w].empty + 1
    BY Zenon
  <2> DEFINE d == [db[w] EXCEPT !.pc = "fence", !.empty = i]
  <2>3. /\ i \in 0 .. MaxWal + 1 /\ i >= 1 /\ i - 1 = db[w].empty
        /\ i > manifest.replay_after
    <3>1. MaxWal \in Nat /\ manifest.replay_after \in Nat
      BY <1>1, Positions, Zenon
    <3> QED BY <2>1, <2>2, <3>1 DEF WalIds
  <2>4. d \in Dbs /\ db' = [db EXCEPT ![w] = d] /\ db'[w] = d
    <3>1. db' = [db EXCEPT ![w] = d]
      BY <1>4, <2>2 DEF RetryRefresh
    <3>2. d \in Dbs
      <4>1. db[w] \in Dbs
        BY <1>1, Fields
      <4> QED BY <2>3, <4>1, Zenon DEF Dbs, PCs
    <3> QED BY <1>1, <3>1, <3>2 DEF TypeOK
  <2>5. /\ d.pc = "fence" /\ d.epoch = db[w].epoch /\ d.view = db[w].view /\ d.empty = i
        /\ d.table = {} /\ d.mem = {} /\ d.imm = << >> /\ d.buf = {} /\ d.putting = {}
    <3>1. db[w] \in Dbs
      BY <1>1, Fields, Zenon
    <3>2. /\ db[w].table = {} /\ db[w].mem = {} /\ db[w].imm = << >> /\ db[w].buf = {}
          /\ db[w].putting = {}
      BY <1>1, Zenon DEF OpeningOK, Replaying, Running
    <3> QED BY <3>1, <3>2, Zenon DEF Dbs
  <2> HIDE DEF d
  <2>6. ~ Established(w)' /\ ~ Live(w)' /\ ~ Current(w)' /\ Fencing(w)
    BY <1>1, <2>4, <2>5, Zenon DEF Established, Fencing, Live, Current, Replaying, Running
  <2>7. OpeningOK(w)'
    <3>1. Reached(i - 1)'
      BY <1>2, <2>1, <2>3, Zenon DEF Reached, Exists
    <3>2. manifest.replay_after \in 0 .. MaxWal /\ MaxWal \in Nat
      BY <1>1, Fields
    <3> QED BY <1>2, <2>1, <2>3, <2>4, <2>5, <3>1, <3>2 DEF OpeningOK
  <2>8. FilesOK(w)'
    BY <2>6 DEF FilesOK
  <2> QED BY <1>2, <2>3, <2>4, <2>5, <2>6, <2>7, <2>8, LocalStep, Zenon
<1> QED BY <1>3, <1>4

-----------------------------------------------------------------------------
(***************************************************************************)
(* Replay and memtables                                                    *)
(***************************************************************************)
\* WAL ids and sequence numbers are numbers.
LEMMA WalRows ==
  ASSUME TypeOK
  PROVE  /\ MaxWal \in Nat /\ MaxSeq \in Nat
         /\ manifest.replay_after \in Nat /\ manifest.l0_seq \in Nat
         /\ \A r \in Rows : r.seq \in 1 .. MaxSeq /\ r.seq \in Nat
         /\ \A i \in DOMAIN wal : i \in Nat /\ i \in WalIds /\ wal[i] \subseteq Rows
         /\ \A i \in DOMAIN wal : \A r \in wal[i] : r \in Rows /\ r.seq \in Nat
<1>1. /\ manifest.replay_after \in 0 .. MaxWal /\ manifest.l0_seq \in 0 .. MaxSeq
      /\ MaxWal \in Nat /\ MaxSeq \in Nat
  BY BoundsAssumption DEF TypeOK, Manifests
<1>2. \A r \in Rows : r.seq \in 1 .. MaxSeq /\ r.seq \in Nat
  BY <1>1 DEF Rows
<1>3. \A i \in DOMAIN wal : i \in WalIds /\ i \in Nat /\ wal[i] \subseteq Rows
  BY <1>1 DEF TypeOK, WalIds
<1> QED BY <1>1, <1>2, <1>3

\* The numbers in a process
LEMMA DbNumbers ==
  ASSUME NEW d \in Dbs
  PROVE  /\ d.flushed \in Nat /\ d.memwal \in Nat /\ d.cursor \in Nat /\ d.empty \in Nat
         /\ d.last_seq \in Nat /\ d.durable \in Nat /\ d.view.l0_seq \in Nat
         /\ d.imm \in Seq(Memtables) /\ DOMAIN d.imm = 1 .. Len(d.imm) /\ Len(d.imm) \in Nat
         /\ \A k \in DOMAIN d.imm : d.imm[k].wal \in Nat /\ d.imm[k].rows \subseteq Rows
         /\ d.table \subseteq Rows /\ d.mem \subseteq Rows /\ d.buf \subseteq Rows
         /\ d.putting \subseteq Rows
<1>1. /\ d.flushed \in 0 .. MaxWal /\ d.memwal \in 0 .. MaxWal
      /\ d.cursor \in 0 .. MaxWal + 1 /\ d.empty \in 0 .. MaxWal + 1
      /\ d.last_seq \in 0 .. MaxSeq /\ d.durable \in 0 .. MaxSeq
      /\ d.view \in Manifests /\ d.imm \in Seq(Memtables)
      /\ d.table \subseteq Rows /\ d.mem \subseteq Rows /\ d.buf \subseteq Rows
      /\ d.putting \subseteq Rows
  BY DEF Dbs
<1>2. d.view.l0_seq \in 0 .. MaxSeq
  BY <1>1 DEF Manifests
<1>3. DOMAIN d.imm = 1 .. Len(d.imm) /\ Len(d.imm) \in Nat
      /\ \A k \in DOMAIN d.imm : d.imm[k] \in Memtables
  BY <1>1
<1>4. \A k \in DOMAIN d.imm : d.imm[k].wal \in 0 .. MaxWal /\ d.imm[k].rows \subseteq Rows
  BY <1>3 DEF Memtables
<1>5. 0 .. MaxWal \subseteq Nat /\ 0 .. MaxWal + 1 \subseteq Nat /\ 0 .. MaxSeq \subseteq Nat
  BY BoundsAssumption
<1>6. \A k \in DOMAIN d.imm : d.imm[k].wal \in Nat
  BY <1>4, <1>5, Zenon
<1> QED BY <1>1, <1>2, <1>3, <1>4, <1>5, <1>6, Zenon

\* A put that is not a retry has a file with rows to show.
LEMMA NextPutsRows ==
  ASSUME NEW d \in Dbs, NEW rows \in NextPuts(d)
  PROVE  /\ rows # {} /\ rows \subseteq Rows
         /\ d.putting # {} => rows = d.putting
         /\ d.putting = {} => /\ rows \subseteq d.buf
                              /\ \A r \in rows, q \in d.buf \ rows : r.seq < q.seq
<1>1. CASE d.putting # {}
  BY <1>1, DbNumbers DEF NextPuts
<1>2. CASE d.putting = {}
  <2>1. PICK p \in d.buf : rows = {r \in d.buf : r.seq <= p.seq}
    BY <1>2 DEF NextPuts
  <2>2. d.buf \subseteq Rows /\ \A r \in d.buf : r.seq \in Nat
    BY DbNumbers, BoundsAssumption DEF Rows
  <2>3. p \in rows
    BY <2>1, <2>2
  <2>4. rows \subseteq d.buf
    BY <2>1, Zenon
  <2>5. ASSUME NEW r \in rows, NEW q \in d.buf \ rows
        PROVE  r.seq < q.seq
    <3>1. r.seq <= p.seq /\ ~ (q.seq <= p.seq)
      BY <2>1, Zenon
    <3>2. r.seq \in Nat /\ q.seq \in Nat /\ p.seq \in Nat
      BY <2>2, <2>4, Zenon
    <3> QED BY <3>1, <3>2
  <2> QED BY <1>2, <2>2, <2>3, <2>4, <2>5, Zenon
<1> QED BY <1>1, <1>2, Zenon


\* What freezing the active memtable changes
LEMMA FrozenFields ==
  ASSUME NEW d \in Dbs, NEW id \in 0 .. MaxWal
  PROVE  /\ Frozen(d, id) \in Dbs
         /\ Frozen(d, id).mem = {}
         /\ d.mem = {} => Frozen(d, id).imm = d.imm
         /\ d.mem # {} => Frozen(d, id).imm = Append(d.imm, [rows |-> d.mem, wal |-> id])
         /\ Frozen(d, id).pc = d.pc /\ Frozen(d, id).epoch = d.epoch
         /\ Frozen(d, id).view = d.view /\ Frozen(d, id).empty = d.empty
         /\ Frozen(d, id).cursor = d.cursor /\ Frozen(d, id).table = d.table
         /\ Frozen(d, id).memwal = d.memwal /\ Frozen(d, id).buf = d.buf
         /\ Frozen(d, id).putting = d.putting /\ Frozen(d, id).flushed = d.flushed
         /\ Frozen(d, id).last_seq = d.last_seq /\ Frozen(d, id).durable = d.durable
<1>1. CASE d.mem = {}
  BY <1>1 DEF Frozen
<1>2. CASE d.mem # {}
  <2> DEFINE s == Append(d.imm, [rows |-> d.mem, wal |-> id])
  <2>1. s \in Seq(Memtables)
    <3>1. d.mem \subseteq Rows /\ d.imm \in Seq(Memtables)
      BY DEF Dbs
    <3>2. [rows |-> d.mem, wal |-> id] \in Memtables
      BY <3>1 DEF Memtables
    <3> QED BY <3>1, <3>2
  <2>2. Frozen(d, id) = [d EXCEPT !.imm = s, !.mem = {}]
    BY <1>2 DEF Frozen
  <2> HIDE DEF s
  <2>3. [d EXCEPT !.imm = s, !.mem = {}] \in Dbs
    BY <2>1, Zenon DEF Dbs
  <2>4. [d EXCEPT !.imm = s, !.mem = {}].imm = s
    BY DEF Dbs
  <2>5. Frozen(d, id).imm = s
    BY <2>2, <2>4
  <2>6. Frozen(d, id).imm = Append(d.imm, [rows |-> d.mem, wal |-> id])
    BY <2>5 DEF s
  <2> QED BY <1>2, <2>2, <2>3, <2>6, Zenon DEF Dbs
<1> QED BY <1>1, <1>2

\* Appending to a sequence
LEMMA Appended ==
  ASSUME NEW S, NEW s \in Seq(S), NEW e \in S
  PROVE  /\ DOMAIN Append(s, e) = DOMAIN s \cup {Len(s) + 1}
         /\ Len(s) + 1 \notin DOMAIN s /\ \A k \in DOMAIN s : k < Len(s) + 1
         /\ Append(s, e)[Len(s) + 1] = e
         /\ \A k \in DOMAIN s : Append(s, e)[k] = s[k]
  OBVIOUS

\* Freezing keeps the memtables in order, provided the stamp is not ahead of
\* what they hold.
LEMMA FrozenOK ==
  ASSUME TypeOK, NEW d \in Dbs, NEW id \in 0 .. MaxWal, TablesOK(d), StampsOK(d),
         manifest.replay_after <= id,
         id <= (IF d.pc = "running" THEN d.flushed ELSE d.memwal),
         \A k \in DOMAIN d.imm : d.imm[k].wal <= id,
         \A i \in DOMAIN wal : manifest.replay_after < i /\ i <= id =>
           \A r \in wal[i] : r.seq > manifest.l0_seq => r \in Held(d)
  PROVE  /\ TablesOK(Frozen(d, id)) /\ StampsOK(Frozen(d, id))
         /\ Held(Frozen(d, id)) = Held(d)
<1> DEFINE f == Frozen(d, id)
           n == Len(d.imm) + 1
<1>1. CASE d.mem = {}
  BY <1>1, Zenon DEF Frozen
<1>2. CASE d.mem # {}
  <2>1. /\ f.mem = {} /\ f.imm = Append(d.imm, [rows |-> d.mem, wal |-> id])
        /\ f.pc = d.pc /\ f.flushed = d.flushed /\ f.memwal = d.memwal
        /\ f.last_seq = d.last_seq /\ f.durable = d.durable
    BY <1>2, FrozenFields
  <2>2. [rows |-> d.mem, wal |-> id] \in Memtables /\ d.imm \in Seq(Memtables)
    BY DbNumbers, Zenon DEF Memtables
  <2>3. /\ DOMAIN f.imm = DOMAIN d.imm \cup {n} /\ n \notin DOMAIN d.imm
        /\ \A k \in DOMAIN d.imm : k \in Nat /\ k < n /\ f.imm[k] = d.imm[k]
        /\ n \in Nat /\ f.imm[n].rows = d.mem /\ f.imm[n].wal = id
    <3>1. f.imm[n] = [rows |-> d.mem, wal |-> id]
      BY <2>1, <2>2, Appended
    <3>2. Len(d.imm) \in Nat /\ DOMAIN d.imm \subseteq Nat
      BY <2>2
    <3> QED BY <2>1, <2>2, <3>1, <3>2, Appended
  <2> HIDE DEF f, n
  <2>4. Held(f) = Held(d)
    BY <2>1, <2>3 DEF Held
  <2>5. TablesOK(f)
    <3>1. manifest.l0_seq <= f.durable /\ f.durable <= f.last_seq
      BY <2>1, Zenon DEF TablesOK
    <3>2. ASSUME NEW k \in DOMAIN f.imm
          PROVE  /\ f.imm[k].rows # {}
                 /\ manifest.replay_after <= f.imm[k].wal
                 /\ f.imm[k].wal <= (IF f.pc = "running" THEN f.flushed ELSE f.memwal)
                 /\ \A r \in f.imm[k].rows :
                      /\ manifest.l0_seq < r.seq /\ r.seq <= f.last_seq
                      /\ \A q \in f.mem : r.seq < q.seq
      BY <1>2, <2>1, <2>3, Zenon DEF TablesOK
    <3>3. ASSUME NEW k \in DOMAIN f.imm, NEW l \in DOMAIN f.imm, k < l
          PROVE  /\ f.imm[k].wal <= f.imm[l].wal
                 /\ \A r \in f.imm[k].rows, q \in f.imm[l].rows : r.seq < q.seq
      <4>1. k \in DOMAIN d.imm
        BY <2>3, <3>3
      <4>2. CASE l = n
        BY <2>3, <4>1, <4>2, Zenon DEF TablesOK
      <4>3. CASE l \in DOMAIN d.imm
        BY <2>3, <3>3, <4>1, <4>3, Zenon DEF TablesOK
      <4> QED BY <2>3, <4>2, <4>3, Zenon
    <3>4. f.mem = {}
      BY <2>1
    <3> QED BY <3>1, <3>2, <3>3, <3>4, Zenon DEF TablesOK
  <2>6. StampsOK(f)
    <3> SUFFICES ASSUME NEW k \in DOMAIN f.imm, NEW i \in DOMAIN wal, NEW r \in wal[i],
                        manifest.replay_after < i, i <= f.imm[k].wal,
                        r.seq > manifest.l0_seq
                 PROVE  \E l \in DOMAIN f.imm : l <= k /\ r \in f.imm[l].rows
      BY Zenon DEF StampsOK
    <3>1. CASE k = n
      <4>1. r \in Held(d)
        BY <2>3, <3>1, Zenon
      <4>2. r \in d.mem \/ \E l \in DOMAIN d.imm : r \in d.imm[l].rows
        BY <4>1 DEF Held
      <4> QED BY <2>3, <3>1, <4>2
    <3>2. CASE k \in DOMAIN d.imm
      BY <2>3, <3>2, Zenon DEF StampsOK
    <3> QED BY <2>3, <3>1, <3>2, Zenon
  <2> QED BY <2>4, <2>5, <2>6, Zenon DEF f
<1> QED BY <1>1, <1>2

\* A step of an open database that creates no file
LEMMA ProcessStep ==
  ASSUME IndInv, NEW w \in Writer, NEW d \in Dbs,
         db' = [db EXCEPT ![w] = d],
         UNCHANGED <<setup, manifest, pins, wal, gcphase, keep, doomed, acked>>,
         db[w].pc \in {"replay", "running"}, d.pc \in {"replay", "running"},
         d.pc = "replay" => db[w].pc = "replay",
         d.epoch = db[w].epoch, d.flushed = db[w].flushed, d.putting = db[w].putting,
         d.empty = db[w].empty,
         Current(w) => DataOK(d)
  PROVE  IndInv'
<1>1. TypeOK /\ FilesOK(w) /\ RowsInv
  BY Zenon DEF IndInv, FilesInv
<1>2. db'[w] = d
  BY <1>1, Zenon DEF TypeOK
<1>3. /\ Established(w) /\ Established(w)' /\ ~ Fencing(w)'
      /\ Live(w) /\ NextId(w)' = NextId(w) /\ d.flushed >= db[w].flushed
  <2>1. d.flushed \in Nat
    BY DbNumbers, Zenon
  <2>2. d.flushed >= db[w].flushed
    BY <2>1
  <2>3. Established(w) /\ Live(w)
    BY DEF Established, Live, Replaying, Running
  <2>4. Established(w)' /\ ~ Fencing(w)'
    BY <1>2 DEF Established, Fencing, Replaying, Running
  <2>5. NextId(w)' = NextId(w)
    BY <1>2, <2>3, <2>4, Zenon DEF NextId
  <2> QED BY <2>2, <2>3, <2>4, <2>5, Zenon
<1>4. Current(w)' => Current(w)
  BY <1>2, <1>3 DEF Current, Replaying, Running, Superseded, Exists
<1>5. \A r \in d.putting : Safe(r)
  BY <1>1, Zenon DEF RowsInv
<1>6. OpeningOK(w)'
  BY <1>2 DEF OpeningOK, Replaying, Running, Fencing
<1>7. FilesOK(w)'
  BY <1>1, <1>2, <1>3, Zenon DEF FilesOK, Reached, Exists
<1>8. d.pc \notin {"broken", "truncated", "fence", "retry"}
  OBVIOUS
<1> QED BY <1>3, <1>4, <1>5, <1>6, <1>7, <1>8, LocalStep, Zenon

\* The replay starts with empty memtables, at the manifest's position.
LEMMA FinalRefreshOK ==
  ASSUME IndInv, NEW w \in Writer, FinalRefresh(w)
  PROVE  IndInv'
<1>1. TypeOK /\ OpeningOK(w) /\ FilesOK(w) /\ db[w].pc = "confirm"
  BY DEF IndInv, OpeningInv, FilesInv, FinalRefresh
<1>2. UNCHANGED <<setup, manifest, pins, wal, gcphase, keep, doomed, acked>>
  BY DEF FinalRefresh
<1>3. CASE Superseded(w)
  BY <1>2, <1>3, EndStep, Zenon DEF FinalRefresh
<1>4. CASE ~ Superseded(w)
  <2> DEFINE d == [db[w] EXCEPT !.pc = "replay", !.view = manifest,
                                !.memwal = manifest.replay_after,
                                !.last_seq = manifest.l0_seq,
                                !.durable = manifest.l0_seq]
  <2>1. d \in Dbs /\ db' = [db EXCEPT ![w] = d] /\ db'[w] = d
    <3>1. d \in Dbs
      <4>1. /\ db[w] \in Dbs /\ manifest \in Manifests
            /\ manifest.replay_after \in 0 .. MaxWal /\ manifest.l0_seq \in 0 .. MaxSeq
        BY <1>1, Fields, Zenon
      <4> QED BY <4>1, Zenon DEF Dbs, PCs
    <3>2. db' = [db EXCEPT ![w] = d]
      BY <1>4 DEF FinalRefresh
    <3> QED BY <1>1, <3>1, <3>2 DEF TypeOK
  <2>2. /\ d.pc = "replay" /\ d.epoch = db[w].epoch /\ d.view = manifest
        /\ d.empty = db[w].empty /\ d.flushed = db[w].flushed /\ d.cursor = db[w].cursor
        /\ d.memwal = manifest.replay_after /\ d.last_seq = manifest.l0_seq
        /\ d.durable = manifest.l0_seq
        /\ d.table = {} /\ d.mem = {} /\ d.imm = << >> /\ d.buf = {} /\ d.putting = {}
    <3>1. db[w] \in Dbs
      BY <1>1, Fields, Zenon
    <3>2. /\ db[w].table = {} /\ db[w].mem = {} /\ db[w].imm = << >> /\ db[w].buf = {}
          /\ db[w].putting = {}
      BY <1>1, Zenon DEF OpeningOK, Replaying, Running
    <3> QED BY <3>1, <3>2, Zenon DEF Dbs
  <2>3. /\ db[w].cursor = manifest.replay_after + 1
        /\ db[w].empty > manifest.replay_after /\ db[w].putting = {}
    BY <1>1, <1>4, Zenon DEF OpeningOK, Replaying, Running
  <2> HIDE DEF d
  <2>4. /\ Established(w) /\ Established(w)' /\ ~ Fencing(w)'
        /\ Live(w) /\ NextId(w)' = NextId(w) /\ d.flushed >= db[w].flushed
    <3>1. d.flushed \in Nat
      BY <2>1, DbNumbers, Zenon
    <3> QED BY <1>1, <1>4, <2>1, <2>2, <2>3, <3>1
            DEF Established, Fencing, Live, Replaying, Running, NextId
  <2>5. DataOK(d)
    <3>1. manifest.replay_after \in Nat /\ manifest.l0_seq \in Nat /\ d.empty \in Nat
      BY <1>1, <2>1, DbNumbers, WalRows, Zenon
    <3>2. DOMAIN d.imm = {}
      BY <2>2
    <3>3. TablesOK(d) /\ StampsOK(d)
      BY <2>2, <3>1, <3>2 DEF TablesOK, StampsOK
    <3>4. ReplayOK(d)
      <4>1. /\ manifest.replay_after <= d.memwal /\ d.memwal < d.cursor
            /\ d.cursor <= d.empty + 1 /\ d.view.l0_seq <= manifest.l0_seq
        BY <2>2, <2>3, <3>1
      <4>2. ASSUME NEW i \in DOMAIN wal, manifest.replay_after < i
            PROVE  ~ (i <= d.memwal) /\ ~ (d.memwal < i /\ i < d.cursor)
        <5>1. i \in Nat
          BY <1>1, WalRows, Zenon
        <5> QED BY <2>2, <2>3, <3>1, <4>2, <5>1
      <4> QED BY <2>2, <4>1, <4>2, Zenon DEF ReplayOK
    <3> QED BY <2>2, <3>3, <3>4, Zenon DEF DataOK
  <2>6. OpeningOK(w)'
    BY <2>1, <2>2 DEF OpeningOK, Replaying, Running, Fencing
  <2>7. FilesOK(w)'
    BY <1>1, <1>2, <2>1, <2>2, <2>4, Zenon DEF FilesOK, Reached, Exists
  <2> QED BY <1>2, <2>1, <2>2, <2>4, <2>5, <2>6, <2>7, LocalStep, Zenon
<1> QED BY <1>3, <1>4

\* The rows of the file read are newer than all read before and older than all
\* to come, since the files' sequence numbers increase.
LEMMA ReplayFileOK ==
  ASSUME IndInv, NEW w \in Writer, ReplayFile(w)
  PROVE  IndInv'
<1> DEFINE c == db[w].cursor
           new == {r \in wal[c] : r.seq > db[w].view.l0_seq}
           d == [db[w] EXCEPT !.cursor = c + 1, !.table = @ \cup new]
<1>1. /\ TypeOK /\ WalSeqsIncrease
      /\ db[w].pc = "replay" /\ c <= db[w].empty /\ Exists(c)
  BY DEF IndInv, LogInv, ReplayFile
<1>2. UNCHANGED <<setup, manifest, pins, wal, gcphase, keep, doomed, acked>>
  BY Zenon DEF ReplayFile
<1>3. c \in WalIds /\ c \in Nat /\ c + 1 \in 0 .. MaxWal + 1 /\ new \subseteq Rows
  BY <1>1, WalRows DEF Exists, WalIds
<1>4. d \in Dbs /\ db' = [db EXCEPT ![w] = d]
  <2>1. db' = [db EXCEPT ![w] = d]
    BY Zenon DEF ReplayFile
  <2>2. d \in Dbs
    <3>1. db[w] \in Dbs /\ db[w].table \cup new \subseteq Rows
      BY <1>1, <1>3, Fields
    <3> HIDE DEF c, new
    <3> QED BY <1>3, <3>1, Zenon DEF Dbs
  <2> QED BY <2>1, <2>2
<1>5. /\ d.pc = "replay" /\ d.epoch = db[w].epoch /\ d.view = db[w].view
      /\ d.empty = db[w].empty /\ d.flushed = db[w].flushed /\ d.cursor = c + 1
      /\ d.memwal = db[w].memwal /\ d.last_seq = db[w].last_seq
      /\ d.durable = db[w].durable /\ d.table = db[w].table \cup new
      /\ d.mem = db[w].mem /\ d.imm = db[w].imm /\ d.buf = db[w].buf
      /\ d.putting = db[w].putting
  <2>1. db[w] \in Dbs
    BY <1>1, Fields, Zenon
  <2> HIDE DEF c, new
  <2> QED BY <1>1, <2>1, Zenon DEF Dbs
<1> HIDE DEF d
<1>6. ASSUME Current(w)
      PROVE  DataOK(d)
  <2>1. TablesOK(db[w]) /\ StampsOK(db[w]) /\ ReplayOK(db[w])
    BY <1>1, <1>6 DEF IndInv, DataInv, DataOK
  <2>2. TablesOK(d)
    BY <1>1, <1>5, <2>1, Zenon DEF TablesOK
  <2>3. StampsOK(d)
    BY <1>5, <2>1, Zenon DEF StampsOK
  <2>4. Held(d) = Held(db[w])
    BY <1>5 DEF Held
  <2>5. /\ manifest.replay_after < c /\ db[w].memwal < c /\ db[w].memwal \in Nat
        /\ manifest.replay_after \in Nat /\ db[w].empty \in Nat
    <3>1. /\ manifest.replay_after \in Nat /\ db[w].memwal \in Nat /\ c \in Nat
          /\ db[w].empty \in Nat
      BY <1>1, Positions, Zenon
    <3>2. manifest.replay_after <= db[w].memwal /\ db[w].memwal < c
      BY <2>1, Zenon DEF ReplayOK
    <3> HIDE DEF c
    <3> QED BY <3>1, <3>2
  <2>6. \A r \in new : /\ r \in wal[c] /\ db[w].last_seq < r.seq
                       /\ r.seq \in Nat /\ r.seq > db[w].view.l0_seq
                       /\ \A q \in db[w].table : q.seq < r.seq
    <3> SUFFICES ASSUME NEW r \in wal[c], r.seq > db[w].view.l0_seq
                 PROVE  /\ db[w].last_seq < r.seq /\ r.seq \in Nat
                        /\ \A q \in db[w].table : q.seq < r.seq
      BY Zenon
    <3>1. c \in DOMAIN wal /\ c <= c
      BY <1>1, <1>3 DEF Exists
    <3>2. r.seq \in Nat
      BY <1>1, <3>1, WalRows, Zenon
    <3>3. c <= c => /\ db[w].last_seq < r.seq
                    /\ \A q \in db[w].table : q.seq < r.seq
      BY <2>1, <2>5, <3>1, Zenon DEF ReplayOK
    <3> QED BY <3>1, <3>2, <3>3, Zenon
  <2>7. \A r \in wal[c] : r.seq <= db[w].view.l0_seq \/ r \in new
    <3> SUFFICES ASSUME NEW r \in wal[c], ~ (r.seq > db[w].view.l0_seq)
                 PROVE  r.seq <= db[w].view.l0_seq
      BY Zenon
    <3>1. r.seq \in Nat
      BY <1>1, WalRows, Zenon DEF Exists
    <3>2. db[w].view.l0_seq \in 0 .. MaxSeq /\ MaxSeq \in Nat
      BY <1>1, Fields, Zenon
    <3> QED BY <3>1, <3>2
  <2> HIDE DEF new
  <2>8. ASSUME NEW i \in DOMAIN wal, manifest.replay_after < i, NEW r \in wal[i]
        PROVE  /\ i <= d.memwal => /\ r.seq <= d.last_seq
                                   /\ r.seq > manifest.l0_seq => r \in Held(d)
               /\ d.memwal < i /\ i < d.cursor => r.seq <= d.view.l0_seq \/ r \in d.table
               /\ d.cursor <= i /\ r.seq > d.view.l0_seq =>
                    /\ d.last_seq < r.seq
                    /\ \A q \in d.table : q.seq < r.seq
    <3>1. i \in Nat
      BY <1>1, WalRows
    <3>2. i <= d.memwal => /\ r.seq <= d.last_seq
                           /\ r.seq > manifest.l0_seq => r \in Held(d)
      BY <1>5, <2>1, <2>4, <2>8, Zenon DEF ReplayOK
    <3>3. d.memwal < i /\ i < d.cursor => r.seq <= d.view.l0_seq \/ r \in d.table
      <4>1. CASE i < c
        BY <1>5, <2>1, <2>8, <4>1, Zenon DEF ReplayOK
      <4>2. CASE i = c
        BY <1>5, <2>7, <4>2, Zenon
      <4>3. CASE i > c
        <5>1. d.cursor = c + 1
          BY <1>5, Zenon
        <5> QED BY <1>3, <3>1, <4>3, <5>1
      <4> QED BY <1>3, <3>1, <4>1, <4>2, <4>3
    <3>4. ASSUME d.cursor <= i, r.seq > d.view.l0_seq
          PROVE  /\ d.last_seq < r.seq
                 /\ \A q \in d.table : q.seq < r.seq
      <4>1. c < i /\ c <= i
        <5>1. d.cursor = c + 1
          BY <1>5, Zenon
        <5> QED BY <1>3, <3>1, <3>4, <5>1
      <4>2. db[w].last_seq < r.seq /\ \A q \in db[w].table : q.seq < r.seq
        BY <1>5, <2>1, <2>8, <3>4, <4>1, Zenon DEF ReplayOK
      <4>3. \A q \in new : q.seq < r.seq
        BY <1>1, <2>5, <2>6, <2>8, <4>1, Zenon DEF WalSeqsIncrease, Exists
      <4> QED BY <1>5, <4>2, <4>3, Zenon
    <3> QED BY <3>2, <3>3, <3>4, Zenon
  <2>9. ReplayOK(d)
    <3>1. /\ manifest.replay_after <= d.memwal /\ d.memwal < d.cursor
          /\ d.cursor <= d.empty + 1 /\ d.memwal # d.cursor - 1
      <4>1. /\ manifest.replay_after <= db[w].memwal /\ c <= db[w].empty
        BY <1>1, <2>1, Zenon DEF ReplayOK
      <4>2. d.memwal = db[w].memwal /\ d.cursor = c + 1 /\ d.empty = db[w].empty
        BY <1>5, Zenon
      <4> QED BY <1>3, <2>5, <4>1, <4>2
    <3>2. /\ d.durable = d.last_seq /\ d.view.l0_seq <= manifest.l0_seq /\ d.buf = {}
          /\ \A r \in d.table : d.last_seq < r.seq
      BY <1>5, <2>1, <2>6, Zenon DEF ReplayOK
    <3> QED BY <2>8, <3>1, <3>2, Zenon DEF ReplayOK
  <2> QED BY <1>5, <2>2, <2>3, <2>9, Zenon DEF DataOK
<1> QED BY <1>1, <1>2, <1>4, <1>5, <1>6, ProcessStep, Zenon

\* Only a superseded writer misses a file: no id is missing after the replay
\* position, and the fence is at the end of what is replayed.
LEMMA ReplayTruncatedOK ==
  ASSUME IndInv, NEW w \in Writer, ReplayTruncated(w)
  PROVE  IndInv'
<1>1. UNCHANGED <<setup, manifest, pins, wal, gcphase, keep, doomed, acked>>
  BY DEF ReplayTruncated
<1>2. CASE Superseded(w)
  BY <1>1, <1>2, EndStep, Zenon DEF ReplayTruncated
<1>3. CASE ~ Superseded(w)
  <2>1. /\ TypeOK /\ WalUnbroken /\ FilesOK(w)
        /\ db[w].pc = "replay" /\ db[w].cursor <= db[w].empty /\ ~ Exists(db[w].cursor)
    BY Zenon DEF IndInv, LogInv, FilesInv, ReplayTruncated
  <2>2. ReplayOK(db[w])
    BY <1>3, <2>1 DEF IndInv, DataInv, DataOK, Current, Replaying
  <2>3. db[w].flushed = db[w].empty /\ Reached(db[w].empty)
    BY <2>1, Zenon DEF FilesOK, Established
  <2>a. /\ MaxWal \in Nat /\ manifest.replay_after \in Nat /\ db[w].empty \in Nat
        /\ db[w].cursor \in Nat /\ db[w].memwal \in Nat
    BY <2>1, Positions, Zenon
  <2>4. manifest.replay_after < db[w].cursor
    <3>1. manifest.replay_after <= db[w].memwal /\ db[w].memwal < db[w].cursor
      BY <2>2, Zenon DEF ReplayOK
    <3> QED BY <2>a, <3>1
  <2>5. Exists(db[w].empty) /\ db[w].empty \in WalIds
    <3>1. ~ (db[w].empty <= manifest.replay_after)
      BY <2>1, <2>4, <2>a
    <3>2. DOMAIN wal \subseteq WalIds
      BY <2>1, WalRows, Zenon
    <3> QED BY <2>3, <3>1, <3>2, Zenon DEF Reached, Exists
  <2>6. db[w].cursor \in WalIds
    BY <2>1, <2>4, <2>5, <2>a DEF WalIds
  <2>7. db[w].cursor = db[w].empty \/ db[w].cursor < db[w].empty
    BY <2>1, <2>a
  <2> QED BY <2>1, <2>4, <2>5, <2>6, <2>7 DEF WalUnbroken
<1> QED BY <1>2, <1>3

=============================================================================
