-------------------------- MODULE WalFencingSteps ---------------------------
(***************************************************************************)
(* Steps that keep IndInv and create no file: the end of a replay, writes, *)
(* the freezing of memtables, the outcome of a put, the claim of an epoch, *)
(* checkpoints and what the collector reads.                               *)
(***************************************************************************)
EXTENDS WalFencingInvariant

\* The frozen memtable is stamped with the files it covers, not with those
\* read for the table that replaces it.
LEMMA InstallTableOK ==
  ASSUME SeqsHaveMax, IndInv, NEW w \in Writer, InstallTable(w)
  PROVE  IndInv'
<1> DEFINE e == db[w]
           seq == Max({e.last_seq, MaxSeqOf(e.table)})
           f == Frozen(e, e.memwal)
           d == [f EXCEPT !.mem = e.table, !.table = {}, !.memwal = e.cursor - 1,
                          !.last_seq = seq, !.durable = seq]
<1>1. /\ TypeOK /\ e.pc = "replay" /\ e.cursor - 1 > e.memwal
  BY DEF IndInv, InstallTable
<1>2. UNCHANGED <<setup, manifest, pins, wal, gcphase, keep, doomed, acked>>
  BY DEF InstallTable
<1>3. e \in Dbs /\ e.memwal \in 0 .. MaxWal /\ e.cursor - 1 \in 0 .. MaxWal
  <2>1. /\ e.cursor \in 0 .. MaxWal + 1 /\ e.memwal \in 0 .. MaxWal /\ MaxWal \in Nat
        /\ e \in Dbs
    BY <1>1, Fields
  <2> QED BY <1>1, <2>1
<1>4. /\ seq \in 0 .. MaxSeq /\ seq \in Nat /\ seq >= e.last_seq
      /\ \A r \in e.table : r.seq <= seq
      /\ seq = e.last_seq \/ \E r \in e.table : r.seq = seq
  <2>1. /\ e.last_seq \in 0 .. MaxSeq /\ MaxSeq \in Nat /\ e.table \subseteq Rows
    BY <1>1, Fields
  <2>2. /\ MaxSeqOf(e.table) \in 0 .. MaxSeq
        /\ \A r \in e.table : r.seq <= MaxSeqOf(e.table) /\ r.seq \in Nat
        /\ e.table # {} => \E r \in e.table : r.seq = MaxSeqOf(e.table)
    BY <1>1, <2>1, WalRows DEF SeqsHaveMax
  <2>3. e.table = {} => MaxSeqOf(e.table) = 0
    <3>1. {r.seq : r \in {}} \cup {0} = {0}
      OBVIOUS
    <3>2. Max({0}) = 0
      BY DEF Max
    <3> QED BY <3>1, <3>2 DEF MaxSeqOf
  <2>4. seq = IF e.last_seq >= MaxSeqOf(e.table) THEN e.last_seq ELSE MaxSeqOf(e.table)
    BY <2>1, <2>2, MaxOfTwo
  <2> HIDE DEF seq, e
  <2> QED BY <2>1, <2>2, <2>3, <2>4
<1>5. /\ f \in Dbs /\ f.pc = "replay" /\ f.epoch = e.epoch /\ f.view = e.view
      /\ f.empty = e.empty /\ f.flushed = e.flushed /\ f.cursor = e.cursor
      /\ f.memwal = e.memwal /\ f.last_seq = e.last_seq
      /\ f.durable = e.durable /\ f.table = e.table /\ f.mem = {} /\ f.buf = e.buf
      /\ f.putting = e.putting
  BY <1>1, <1>3, FrozenFields, Zenon
<1>6. d \in Dbs /\ db' = [db EXCEPT ![w] = d]
  <2>1. db' = [db EXCEPT ![w] = d]
    BY DEF InstallTable
  <2>2. e.table \subseteq Rows
    BY <1>1, Fields
  <2> HIDE DEF e, seq, f
  <2>3. d \in Dbs
    BY <1>3, <1>4, <1>5, <2>2, Zenon DEF Dbs
  <2> QED BY <2>1, <2>3
<1>7. /\ d.pc = "replay" /\ d.epoch = e.epoch /\ d.view = e.view
      /\ d.empty = e.empty /\ d.flushed = e.flushed /\ d.cursor = e.cursor
      /\ d.memwal = e.cursor - 1 /\ d.last_seq = seq
      /\ d.durable = seq /\ d.table = {} /\ d.mem = e.table /\ d.imm = f.imm
      /\ d.buf = e.buf /\ d.putting = e.putting
  <2> HIDE DEF e, seq, f
  <2> QED BY <1>5 DEF Dbs
<1> HIDE DEF d, seq, f
<1>8. ASSUME Current(w)
      PROVE  DataOK(d)
  <2>1. TablesOK(e) /\ StampsOK(e) /\ ReplayOK(e)
    BY <1>1, <1>8 DEF IndInv, DataInv, DataOK
  <2> HIDE DEF e
  <2>2. TablesOK(f) /\ StampsOK(f) /\ Held(f) = Held(e)
    <3>1. \A k \in DOMAIN e.imm : e.imm[k].wal <= e.memwal
      BY <1>1, <2>1 DEF TablesOK
    <3>2. e.memwal <= (IF e.pc = "running" THEN e.flushed ELSE e.memwal)
      BY <1>1, <1>3, DbNumbers
    <3>3. manifest.replay_after <= e.memwal
      BY <2>1 DEF ReplayOK
    <3>4. \A i \in DOMAIN wal : manifest.replay_after < i /\ i <= e.memwal =>
            \A r \in wal[i] : r.seq > manifest.l0_seq => r \in Held(e)
      BY <2>1 DEF ReplayOK
    <3> QED BY <1>1, <1>3, <2>1, <3>1, <3>2, <3>3, <3>4, FrozenOK DEF f
  <2>3. /\ e.memwal \in Nat /\ e.cursor \in Nat /\ e.last_seq \in Nat /\ e.durable \in Nat
        /\ e.view.l0_seq \in Nat /\ manifest.l0_seq \in Nat /\ manifest.replay_after \in Nat
        /\ \A r \in e.table : r.seq \in Nat
        /\ e.table \subseteq Rows
    BY <1>1, <1>3, DbNumbers, WalRows, Zenon
  <2>4. TablesOK(d)
    <3>1. manifest.l0_seq <= d.durable /\ d.durable <= d.last_seq
      BY <1>4, <1>7, <2>1, <2>3 DEF TablesOK
    <3>2. ASSUME NEW k \in DOMAIN d.imm
          PROVE  /\ d.imm[k].rows # {}
                 /\ manifest.replay_after <= d.imm[k].wal
                 /\ d.imm[k].wal <= (IF d.pc = "running" THEN d.flushed ELSE d.memwal)
                 /\ \A r \in d.imm[k].rows :
                      /\ manifest.l0_seq < r.seq /\ r.seq <= d.last_seq
                      /\ \A q \in d.mem : r.seq < q.seq
      <4>1. /\ f.imm[k].rows # {} /\ manifest.replay_after <= f.imm[k].wal
            /\ f.imm[k].wal <= e.memwal /\ f.imm[k].wal \in Nat
        BY <1>5, <1>7, <2>2, DbNumbers, Zenon DEF TablesOK
      <4>2. ASSUME NEW r \in f.imm[k].rows
            PROVE  /\ manifest.l0_seq < r.seq /\ r.seq <= seq
                   /\ \A q \in e.table : r.seq < q.seq
        <5>1. r.seq \in Nat
          BY <1>1, <1>5, <1>7, DbNumbers, WalRows, Zenon
        <5>2. manifest.l0_seq < r.seq /\ r.seq <= e.last_seq
          BY <1>5, <1>7, <2>2, Zenon DEF TablesOK
        <5>3. \A q \in e.table : e.last_seq < q.seq
          BY <2>1, Zenon DEF ReplayOK
        <5> QED BY <1>4, <2>3, <5>1, <5>2, <5>3
      <4> QED BY <1>1, <1>7, <2>3, <4>1, <4>2
    <3>3. ASSUME NEW k \in DOMAIN d.imm, NEW l \in DOMAIN d.imm, k < l
          PROVE  /\ d.imm[k].wal <= d.imm[l].wal
                 /\ \A r \in d.imm[k].rows, q \in d.imm[l].rows : r.seq < q.seq
      BY <1>7, <2>2, <3>3, Zenon DEF TablesOK
    <3>4. \A r \in d.mem : manifest.l0_seq < r.seq /\ r.seq <= d.last_seq
      <4>1. \A q \in e.table : e.last_seq < q.seq
        BY <2>1 DEF ReplayOK
      <4>2. manifest.l0_seq <= e.durable /\ e.durable <= e.last_seq
        BY <2>1 DEF TablesOK
      <4> QED BY <1>4, <1>7, <2>3, <4>1, <4>2
    <3> QED BY <3>1, <3>2, <3>3, <3>4, Zenon DEF TablesOK
  <2>5. StampsOK(d)
    BY <1>7, <2>2 DEF StampsOK
  <2>6. Held(e) \subseteq Held(d) /\ e.table \subseteq Held(d)
    <3>1. Held(f) \subseteq Held(d)
      BY <1>5, <1>7 DEF Held
    <3> QED BY <1>7, <2>2, <3>1 DEF Held
  <2>7. ASSUME NEW i \in DOMAIN wal, manifest.replay_after < i, NEW r \in wal[i]
        PROVE  /\ i <= d.memwal => /\ r.seq <= d.last_seq
                                   /\ r.seq > manifest.l0_seq => r \in Held(d)
               /\ ~ (d.memwal < i /\ i < d.cursor)
               /\ d.cursor <= i /\ r.seq > d.view.l0_seq => d.last_seq < r.seq
    <3>1. i \in Nat /\ r.seq \in Nat
      BY <1>1, WalRows
    <3>2. e.view.l0_seq <= manifest.l0_seq /\ manifest.l0_seq <= e.last_seq
      BY <2>1, <2>3 DEF ReplayOK, TablesOK
    <3>3. CASE i <= e.memwal
      <4>1. r.seq <= e.last_seq /\ (r.seq > manifest.l0_seq => r \in Held(e))
        BY <2>1, <2>7, <3>3, Zenon DEF ReplayOK
      <4> QED BY <1>1, <1>4, <1>7, <2>3, <2>6, <3>1, <3>3, <4>1
    <3>4. CASE e.memwal < i /\ i < e.cursor
      <4>1. r.seq <= e.view.l0_seq \/ r \in e.table
        BY <2>1, <2>7, <3>4, Zenon DEF ReplayOK
      <4> QED BY <1>4, <1>7, <2>3, <2>6, <3>1, <3>2, <3>4, <4>1
    <3>5. CASE e.cursor <= i
      <4>1. r.seq > e.view.l0_seq =>
              e.last_seq < r.seq /\ \A q \in e.table : q.seq < r.seq
        BY <2>1, <2>7, <3>5 DEF ReplayOK
      <4> QED BY <1>4, <1>7, <2>3, <3>1, <3>5, <4>1
    <3> QED BY <2>3, <3>1, <3>3, <3>4, <3>5
  <2>8. ReplayOK(d)
    <3>1. /\ manifest.replay_after <= d.memwal /\ d.memwal < d.cursor
          /\ d.cursor <= d.empty + 1
      BY <1>1, <1>7, <2>1, <2>3 DEF ReplayOK
    <3>2. /\ d.durable = d.last_seq /\ d.view.l0_seq <= manifest.l0_seq /\ d.buf = {}
          /\ d.table = {}
      BY <1>7, <2>1 DEF ReplayOK
    <3> QED BY <2>7, <3>1, <3>2, Zenon DEF ReplayOK
  <2> QED BY <1>7, <2>4, <2>5, <2>8, Zenon DEF DataOK
<1> QED BY <1>1, <1>2, <1>6, <1>7, <1>8, ProcessStep, Zenon

\* All files with rows are before the fence of a current writer or its own.
LEMMA FinishReplayOK ==
  ASSUME IndInv, NEW w \in Writer, FinishReplay(w)
  PROVE  IndInv'
<1> DEFINE e == db[w]
           d == [e EXCEPT !.pc = "running"]
<1>1. /\ TypeOK /\ FilesOK(w) /\ e.pc = "replay" /\ e.cursor > e.empty
      /\ e.cursor - 1 = e.memwal
  BY DEF IndInv, FilesInv, FinishReplay
<1>2. UNCHANGED <<setup, manifest, pins, wal, gcphase, keep, doomed, acked>>
  BY DEF FinishReplay
<1>3. d \in Dbs /\ db' = [db EXCEPT ![w] = d] /\ e \in Dbs
  <2>1. db' = [db EXCEPT ![w] = d]
    BY DEF FinishReplay
  <2>2. e \in Dbs
    BY <1>1, Fields, Zenon
  <2> QED BY <2>1, <2>2, Zenon DEF Dbs, PCs
<1>4. /\ d.pc = "running" /\ d.epoch = e.epoch /\ d.empty = e.empty
      /\ d.flushed = e.flushed /\ d.last_seq = e.last_seq /\ d.durable = e.durable
      /\ d.mem = e.mem /\ d.imm = e.imm /\ d.buf = e.buf /\ d.putting = e.putting
  BY <1>3 DEF Dbs
<1>5. e.flushed = e.empty /\ e.putting = {}
  BY <1>1 DEF FilesOK, Established
<1> HIDE DEF d
<1>6. ASSUME Current(w)
      PROVE  DataOK(d)
  <2>1. TablesOK(e) /\ StampsOK(e) /\ ReplayOK(e) /\ FrontierOK(w)
    BY <1>1, <1>6 DEF IndInv, DataInv, DataOK, FrontierInv, Live, Replaying
  <2>2. NextId(w) = e.flushed + 1
    BY <1>5 DEF NextId
  <2>3. \A j \in DOMAIN wal : j > e.flushed => wal[j] = {}
    <3>1. e.flushed \in Nat /\ \A j \in DOMAIN wal : j \in Nat
      BY <1>1, <1>3, DbNumbers, WalRows, Zenon
    <3> QED BY <1>6, <2>1, <2>2, <3>1 DEF FrontierOK, Current, Exists
  <2> HIDE DEF e
  <2>4. e.memwal = e.flushed /\ e.flushed \in Nat
    <3>1. e.cursor \in Nat /\ e.empty \in Nat /\ e.cursor <= e.empty + 1 /\ e.memwal \in Nat
      BY <1>3, <2>1, DbNumbers, Zenon DEF ReplayOK
    <3> QED BY <1>1, <1>5, <3>1
  <2>5. TablesOK(d)
    BY <1>1, <1>4, <2>1, <2>4, Zenon DEF TablesOK
  <2>6. StampsOK(d)
    BY <1>4, <2>1 DEF StampsOK
  <2>7. Held(d) = Held(e)
    BY <1>4 DEF Held
  <2>8. RunningOK(d)
    <3>1. ASSUME NEW i \in DOMAIN wal, manifest.replay_after < i, NEW r \in wal[i]
          PROVE  /\ i <= d.flushed => r.seq <= d.durable
                 /\ r.seq > manifest.l0_seq => r \in Held(d)
      <4>1. i <= e.flushed
        BY <1>1, <2>3, <2>4, <3>1, WalRows
      <4> QED BY <1>4, <2>1, <2>4, <2>7, <3>1, <4>1, Zenon DEF ReplayOK
    <3>2. manifest.replay_after <= d.flushed /\ d.buf = {} /\ d.putting = {}
      BY <1>4, <1>5, <2>1, <2>4 DEF ReplayOK
    <3> QED BY <3>1, <3>2, Zenon DEF RunningOK
  <2> QED BY <1>4, <2>5, <2>6, <2>8, Zenon DEF DataOK
<1> QED BY <1>1, <1>2, <1>3, <1>4, <1>6, ProcessStep, Zenon

\* Freezing the memtable of a running writer
LEMMA RunningFrozenOK ==
  ASSUME TypeOK, NEW d \in Dbs, d.pc = "running", DataOK(d)
  PROVE  DataOK(Frozen(d, d.flushed))
<1> DEFINE f == Frozen(d, d.flushed)
<1>1. TablesOK(d) /\ StampsOK(d) /\ RunningOK(d)
  BY DEF DataOK
<1>2. d.flushed \in 0 .. MaxWal /\ d.flushed \in Nat
  BY DbNumbers, Zenon DEF Dbs
<1>3. TablesOK(f) /\ StampsOK(f) /\ Held(f) = Held(d)
  <2>1. \A k \in DOMAIN d.imm : d.imm[k].wal <= d.flushed
    BY <1>1 DEF TablesOK
  <2>2. manifest.replay_after <= d.flushed
    BY <1>1 DEF RunningOK
  <2>3. \A i \in DOMAIN wal : manifest.replay_after < i /\ i <= d.flushed =>
          \A r \in wal[i] : r.seq > manifest.l0_seq => r \in Held(d)
    BY <1>1 DEF RunningOK
  <2>4. d.flushed <= (IF d.pc = "running" THEN d.flushed ELSE d.memwal)
    BY <1>2
  <2> QED BY <1>1, <1>2, <2>1, <2>2, <2>3, <2>4, FrozenOK, Zenon
<1>4. /\ f.pc = "running" /\ f.flushed = d.flushed /\ f.buf = d.buf /\ f.durable = d.durable
      /\ f.last_seq = d.last_seq /\ f.putting = d.putting
  BY <1>2, FrozenFields, Zenon
<1> HIDE DEF f
<1>5. RunningOK(f)
  BY <1>1, <1>3, <1>4 DEF RunningOK
<1>6. DataOK(f)
  BY <1>3, <1>4, <1>5 DEF DataOK
<1> QED BY <1>6 DEF f

\* A freeze on request stamps the memtable with the last flushed file.
LEMMA FreezeMemtableOK ==
  ASSUME IndInv, NEW w \in Writer, FreezeMemtable(w)
  PROVE  IndInv'
<1> DEFINE e == db[w]
           d == Frozen(e, e.flushed)
<1>1. TypeOK /\ e.pc = "running" /\ e \in Dbs /\ e.flushed \in 0 .. MaxWal
  BY Fields DEF IndInv, FreezeMemtable
<1>2. /\ UNCHANGED <<setup, manifest, pins, wal, gcphase, keep, doomed, acked>>
      /\ db' = [db EXCEPT ![w] = d]
  BY DEF FreezeMemtable
<1>3. /\ d \in Dbs /\ d.pc = "running" /\ d.epoch = e.epoch /\ d.empty = e.empty
      /\ d.flushed = e.flushed /\ d.putting = e.putting
  BY <1>1, FrozenFields, Zenon
<1>4. ASSUME Current(w)
      PROVE  DataOK(d)
  <2>1. DataOK(e)
    BY <1>4 DEF IndInv, DataInv
  <2> QED BY <1>1, <2>1, RunningFrozenOK
<1> HIDE DEF d
<1> QED BY <1>1, <1>2, <1>3, <1>4, ProcessStep, Zenon

\* A row gets the next sequence number: newer than all the writer knows of.
LEMMA WriteOK ==
  ASSUME IndInv, NEW w \in Writer, Write(w)
  PROVE  IndInv'
<1> DEFINE e == db[w]
           r == [by |-> w, seq |-> e.last_seq + 1]
           n == [e EXCEPT !.last_seq = e.last_seq + 1, !.mem = @ \cup {r}, !.buf = @ \cup {r}]
<1>1. /\ TypeOK /\ e.pc = "running" /\ e \in Dbs /\ e.last_seq + 1 <= setup.max_seq
  BY Fields DEF IndInv, Write
<1>2. UNCHANGED <<setup, manifest, pins, wal, gcphase, keep, doomed, acked>>
  BY DEF Write
<1>3. PICK full \in BOOLEAN : db' = [db EXCEPT ![w] = IF full THEN Frozen(n, n.flushed) ELSE n]
  BY Zenon DEF Write
<1>4. e.last_seq + 1 \in 0 .. MaxSeq /\ r \in Rows /\ r.seq = e.last_seq + 1
  <2>1. setup.max_seq \in 0 .. MaxSeq /\ MaxSeq \in Nat
    BY <1>1, BoundsAssumption, Zenon DEF TypeOK, Setup
  <2>2. e.last_seq \in Nat
    BY <1>1, DbNumbers
  <2>3. e.last_seq + 1 \in 1 .. MaxSeq
    BY <1>1, <2>1, <2>2
  <2> QED BY <2>1, <2>3 DEF Rows
<1> HIDE DEF r
<1>5. n \in Dbs
  <2>1. e.mem \cup {r} \subseteq Rows /\ e.buf \cup {r} \subseteq Rows
    BY <1>1, <1>4, DbNumbers, Zenon
  <2> HIDE DEF e
  <2> QED BY <1>1, <1>4, <2>1, Zenon DEF Dbs
<1>6. /\ n.pc = "running" /\ n.epoch = e.epoch /\ n.empty = e.empty
      /\ n.flushed = e.flushed /\ n.last_seq = e.last_seq + 1 /\ n.durable = e.durable
      /\ n.mem = e.mem \cup {r} /\ n.imm = e.imm /\ n.buf = e.buf \cup {r}
      /\ n.putting = e.putting
  BY <1>1 DEF Dbs
<1> HIDE DEF n
<1>7. ASSUME Current(w)
      PROVE  DataOK(n)
  <2>1. TablesOK(e) /\ StampsOK(e) /\ RunningOK(e)
    BY <1>1, <1>7, Zenon DEF IndInv, DataInv, DataOK
  <2> HIDE DEF e
  <2>2. /\ e.last_seq \in Nat /\ e.durable \in Nat /\ manifest.l0_seq \in Nat
        /\ \A q \in Rows : q.seq \in Nat
        /\ e.mem \subseteq Rows /\ e.buf \subseteq Rows
        /\ \A k \in DOMAIN e.imm : e.imm[k].rows \subseteq Rows
    BY <1>1, DbNumbers, WalRows
  <2>3. Held(n) = Held(e) \cup {r}
    BY <1>6, Zenon DEF Held
  <2>4. manifest.l0_seq <= e.durable /\ e.durable <= e.last_seq
    BY <2>1, Zenon DEF TablesOK
  <2>5. TablesOK(n)
    <3>1. ASSUME NEW k \in DOMAIN n.imm, NEW p \in n.imm[k].rows
          PROVE  /\ manifest.l0_seq < p.seq /\ p.seq <= n.last_seq
                 /\ \A q \in n.mem : p.seq < q.seq
      <4>1. /\ p.seq \in Nat /\ manifest.l0_seq < p.seq /\ p.seq <= e.last_seq
            /\ \A q \in e.mem : p.seq < q.seq
        BY <1>6, <2>1, <2>2 DEF TablesOK
      <4> QED BY <1>4, <1>6, <2>2, <4>1
    <3>2. \A q \in n.mem : manifest.l0_seq < q.seq /\ q.seq <= n.last_seq
      <4>1. \A q \in e.mem : manifest.l0_seq < q.seq /\ q.seq <= e.last_seq
        BY <2>1 DEF TablesOK
      <4> QED BY <1>4, <1>6, <2>2, <2>4, <4>1
    <3>3. manifest.l0_seq <= n.durable /\ n.durable <= n.last_seq
      BY <1>6, <2>2, <2>4
    <3>4. \A k \in DOMAIN n.imm :
            /\ n.imm[k].rows # {}
            /\ manifest.replay_after <= n.imm[k].wal
            /\ n.imm[k].wal <= (IF n.pc = "running" THEN n.flushed ELSE n.memwal)
      BY <1>1, <1>6, <2>1, Zenon DEF TablesOK
    <3>5. \A k, l \in DOMAIN n.imm : k < l =>
            /\ n.imm[k].wal <= n.imm[l].wal
            /\ \A p \in n.imm[k].rows, q \in n.imm[l].rows : p.seq < q.seq
      BY <1>6, <2>1, Zenon DEF TablesOK
    <3> QED BY <3>1, <3>2, <3>3, <3>4, <3>5, Zenon DEF TablesOK
  <2>6. StampsOK(n)
    BY <1>6, <2>1, Zenon DEF StampsOK
  <2>7. RunningOK(n)
    <3>1. \A q \in n.buf : n.durable < q.seq /\ q.seq <= n.last_seq /\ q \in Held(n)
      <4>1. \A q \in e.buf : e.durable < q.seq /\ q.seq <= e.last_seq /\ q \in Held(e)
        BY <2>1 DEF RunningOK
      <4> QED BY <1>4, <1>6, <2>2, <2>3, <2>4, <4>1
    <3>2. n.putting \subseteq n.buf
      BY <1>6, <2>1 DEF RunningOK
    <3>3. ASSUME NEW p \in n.putting, NEW q \in n.buf \ n.putting
          PROVE  p.seq < q.seq
      <4>1. p \in e.buf /\ p.seq <= e.last_seq /\ p.seq \in Nat
        BY <1>6, <2>1, <2>2 DEF RunningOK
      <4>2. CASE q = r
        BY <1>4, <2>2, <4>1, <4>2
      <4>3. CASE q # r
        BY <1>6, <2>1, <4>3, Zenon DEF RunningOK
      <4> QED BY <4>2, <4>3, Zenon
    <3>4. manifest.replay_after <= n.flushed
      BY <1>6, <2>1, Zenon DEF RunningOK
    <3>5. \A i \in DOMAIN wal : manifest.replay_after < i => \A q \in wal[i] :
            /\ i <= n.flushed => q.seq <= n.durable
            /\ q.seq > manifest.l0_seq => q \in Held(n)
      BY <1>6, <2>1, <2>3 DEF RunningOK
    <3> QED BY <3>1, <3>2, <3>3, <3>4, <3>5, Zenon DEF RunningOK
  <2> QED BY <1>6, <2>5, <2>6, <2>7, Zenon DEF DataOK
<1>8. CASE full
  <2> DEFINE d == Frozen(n, n.flushed)
  <2>1. n.flushed \in 0 .. MaxWal
    BY <1>5 DEF Dbs
  <2>2. /\ d \in Dbs /\ d.pc = "running" /\ d.epoch = e.epoch /\ d.empty = e.empty
        /\ d.flushed = e.flushed /\ d.putting = e.putting
    BY <1>5, <1>6, <2>1, FrozenFields, Zenon
  <2>3. Current(w) => DataOK(d)
    BY <1>1, <1>5, <1>6, <1>7, RunningFrozenOK
  <2>4. db' = [db EXCEPT ![w] = d]
    BY <1>3, <1>8
  <2> HIDE DEF d
  <2> QED BY <1>1, <1>2, <2>2, <2>3, <2>4, ProcessStep, Zenon
<1>9. CASE ~ full
  <2>1. db' = [db EXCEPT ![w] = n]
    BY <1>3, <1>9
  <2> QED BY <1>1, <1>2, <1>5, <1>6, <1>7, <2>1, ProcessStep, Zenon
<1> QED BY <1>8, <1>9

\* others put nothing but fences there.
LEMMA PutRefusedOK ==
  ASSUME IndInv, NEW w \in Writer, PutRefused(w)
  PROVE  IndInv'
<1> DEFINE e == db[w]
<1>1. TypeOK /\ e.pc = "running" /\ e \in Dbs /\ Exists(e.flushed + 1)
  BY Fields DEF IndInv, PutRefused
<1>2. UNCHANGED <<setup, manifest, pins, wal, gcphase, keep, doomed, acked>>
  BY DEF PutRefused
<1>3. PICK rows \in NextPuts(e), attributes \in BOOLEAN :
        db' = IF attributes /\ Verified(e.flushed + 1, rows)
              THEN [db EXCEPT ![w].putting = rows]
              ELSE [db EXCEPT ![w] = Ended]
  BY DEF PutRefused
<1>4. CASE attributes /\ Verified(e.flushed + 1, rows)
  <2>1. e.putting # {}
    <3> SUFFICES ASSUME e.putting = {}
                 PROVE  FALSE
      OBVIOUS
    <3>1. FrontierOK(w) /\ NextId(w) = e.flushed + 1
      BY <1>1 DEF IndInv, FrontierInv, Live, Running, NextId
    <3>2. wal[e.flushed + 1] = {}
      BY <1>1, <3>1 DEF FrontierOK
    <3> QED BY <1>1, <1>4, <3>2, NextPutsRows DEF Verified
  <2>2. rows = e.putting
    BY <1>1, <2>1, NextPutsRows
  <2>3. db' = [db EXCEPT ![w] = [e EXCEPT !.putting = rows]]
    BY <1>3, <1>4
  <2>4. [e EXCEPT !.putting = rows] = e
    BY <1>1, <2>2 DEF Dbs
  <2>5. db' = [db EXCEPT ![w] = e]
    BY <2>3, <2>4, Zenon
  <2>6. Current(w) => DataOK(e)
    BY DEF IndInv, DataInv
  <2> QED BY <1>1, <1>2, <2>5, <2>6, ProcessStep, Zenon
<1>5. CASE ~ (attributes /\ Verified(e.flushed + 1, rows))
  BY <1>2, <1>3, <1>5, EndStep, Zenon
<1> QED BY <1>4, <1>5

\* The rows reported durable are in a file: the writer's own at the next id.
LEMMA RecordWalOK ==
  ASSUME SeqsHaveMax, IndInv, NEW w \in Writer, RecordWal(w)
  PROVE  IndInv'
<1> DEFINE e == db[w]
           m == MaxSeqOf(e.putting)
           d == [e EXCEPT !.flushed = e.flushed + 1, !.durable = m,
                          !.buf = @ \ e.putting, !.putting = {}]
<1>1. TypeOK /\ FilesOK(w) /\ e.pc = "running" /\ e \in Dbs /\ e.putting # {}
  BY Fields DEF IndInv, FilesInv, RecordWal
<1>2. /\ UNCHANGED <<setup, manifest, pins, wal, gcphase, keep, doomed>>
      /\ acked' = acked \cup e.putting
  BY DEF RecordWal
<1>3. /\ e.flushed + 1 \in WalIds /\ Reached(e.flushed + 1)
      /\ e.flushed + 1 > manifest.replay_after => wal[e.flushed + 1] = e.putting
  <2>1. /\ e.flushed + 1 \in WalIds
        /\ e.flushed + 1 > manifest.replay_after
             => Exists(e.flushed + 1) /\ wal[e.flushed + 1] = e.putting
    BY <1>1, Zenon DEF FilesOK, Established
  <2>2. e.flushed \in Nat /\ manifest.replay_after \in Nat
    BY <1>1, DbNumbers, WalRows, Zenon
  <2> QED BY <2>1, <2>2 DEF Reached
<1>4. /\ m \in 0 .. MaxSeq /\ m \in Nat
      /\ \A r \in e.putting : r.seq <= m
      /\ \E r \in e.putting : r.seq = m
  BY <1>1, DbNumbers, BoundsAssumption DEF SeqsHaveMax
<1>5. d \in Dbs /\ db' = [db EXCEPT ![w] = d] /\ db'[w] = d
  <2>1. db' = [db EXCEPT ![w] = d]
    BY Zenon DEF RecordWal
  <2>2. e.flushed + 1 \in 0 .. MaxWal
    BY <1>3, BoundsAssumption DEF WalIds
  <2> HIDE DEF m
  <2>3. d \in Dbs
    <3> HIDE DEF e
    <3> QED BY <1>1, <1>4, <2>2, Zenon DEF Dbs
  <2> QED BY <1>1, <2>1, <2>3 DEF TypeOK
<1> HIDE DEF m
<1>6. /\ d.pc = "running" /\ d.epoch = e.epoch /\ d.empty = e.empty
      /\ d.flushed = e.flushed + 1 /\ d.last_seq = e.last_seq /\ d.durable = m
      /\ d.mem = e.mem /\ d.imm = e.imm /\ d.buf = e.buf \ e.putting /\ d.putting = {}
  BY <1>1, Zenon DEF Dbs
<1> HIDE DEF d
<1>7. /\ Established(w) /\ Established(w)' /\ ~ Fencing(w)'
      /\ Live(w) /\ NextId(w)' = NextId(w) /\ d.flushed >= e.flushed
  <2>1. e.flushed \in Nat
    BY <1>1, DbNumbers
  <2> QED BY <1>1, <1>5, <1>6, <2>1
          DEF Established, Fencing, Live, Replaying, Running, NextId
<1>8. Current(w)' => Current(w)
  BY <1>1, <1>2, <1>5, <1>6, <1>7, Zenon DEF Current, Replaying, Running, Superseded, Exists
<1>9. ASSUME Current(w)
      PROVE  DataOK(d)
  <2>1. TablesOK(e) /\ StampsOK(e) /\ RunningOK(e)
    BY <1>1, <1>9 DEF IndInv, DataInv, DataOK
  <2> HIDE DEF e
  <2>2. /\ e.last_seq \in Nat /\ e.durable \in Nat /\ manifest.l0_seq \in Nat
        /\ \A q \in Rows : q.seq \in Nat
        /\ e.buf \subseteq Rows /\ e.putting \subseteq Rows /\ e.flushed \in Nat
        /\ manifest.replay_after \in Nat
        /\ \A k \in DOMAIN e.imm : e.imm[k].wal \in Nat
    BY <1>1, DbNumbers, WalRows, Zenon
  <2>3. Held(d) = Held(e)
    BY <1>6, Zenon DEF Held
  <2>4. e.durable <= m /\ m <= e.last_seq
    <3>1. \A r \in e.putting : e.durable < r.seq /\ r.seq <= e.last_seq /\ r.seq \in Nat
      BY <2>1, <2>2, Zenon DEF RunningOK
    <3> QED BY <1>4, <2>2, <3>1
  <2>5. TablesOK(d)
    <3>1. manifest.l0_seq <= d.durable /\ d.durable <= d.last_seq
      BY <1>4, <1>6, <2>1, <2>2, <2>4 DEF TablesOK
    <3>2. \A k \in DOMAIN d.imm :
            /\ manifest.replay_after <= d.imm[k].wal
            /\ d.imm[k].wal <= (IF d.pc = "running" THEN d.flushed ELSE d.memwal)
      <4>1. \A k \in DOMAIN e.imm :
              manifest.replay_after <= e.imm[k].wal /\ e.imm[k].wal <= e.flushed
        BY <1>1, <2>1 DEF TablesOK
      <4> QED BY <1>6, <2>2, <4>1
    <3> QED BY <1>6, <2>1, <3>1, <3>2, Zenon DEF TablesOK
  <2>6. StampsOK(d)
    BY <1>6, <2>1, Zenon DEF StampsOK
  <2>7. RunningOK(d)
    <3>1. ASSUME NEW q \in d.buf
          PROVE  d.durable < q.seq /\ q.seq <= d.last_seq /\ q \in Held(d)
      <4>1. q \in e.buf \ e.putting
        BY <1>6
      <4>2. \A r \in e.putting : r.seq < q.seq
        BY <2>1, <4>1 DEF RunningOK
      <4>3. q.seq <= e.last_seq /\ q \in Held(e)
        BY <2>1, <4>1, Zenon DEF RunningOK
      <4> QED BY <1>4, <1>6, <2>3, <4>2, <4>3, Zenon
    <3>2. manifest.replay_after <= d.flushed
      BY <1>6, <2>1, <2>2 DEF RunningOK
    <3>3. ASSUME NEW i \in DOMAIN wal, manifest.replay_after < i, NEW q \in wal[i]
          PROVE  /\ i <= d.flushed => q.seq <= d.durable
                 /\ q.seq > manifest.l0_seq => q \in Held(d)
      <4>1. i \in Nat /\ q.seq \in Nat
        BY <1>1, WalRows, Zenon
      <4>2. q.seq > manifest.l0_seq => q \in Held(d)
        BY <2>1, <2>3, <3>3, Zenon DEF RunningOK
      <4>3. CASE i <= e.flushed
        <5>1. q.seq <= e.durable
          BY <2>1, <3>3, <4>3, Zenon DEF RunningOK
        <5> QED BY <1>4, <1>6, <2>2, <2>4, <4>1, <4>2, <5>1
      <4>4. CASE i = e.flushed + 1
        BY <1>3, <1>4, <1>6, <3>3, <4>2, <4>4, Zenon
      <4>5. CASE i > e.flushed + 1
        BY <1>6, <2>2, <4>1, <4>2, <4>5
      <4> QED BY <2>2, <4>1, <4>3, <4>4, <4>5
    <3> QED BY <1>6, <3>1, <3>2, <3>3, Zenon DEF RunningOK
  <2> QED BY <1>6, <2>5, <2>6, <2>7, Zenon DEF DataOK
<1>10. OpeningOK(w)'
  BY <1>5, <1>6 DEF OpeningOK, Replaying, Running, Fencing
<1>11. FilesOK(w)'
  <2>1. Reached(db[w].flushed)'
    BY <1>2, <1>3, <1>5, <1>6, Zenon DEF Reached, Exists
  <2> QED BY <1>5, <1>6, <2>1, Zenon DEF FilesOK
<1>12. \A r \in d.putting : Safe(r)
  BY <1>6
<1>13. d.pc \notin {"broken", "truncated", "fence", "retry"}
  BY <1>6
<1> QED BY <1>2, <1>5, <1>6, <1>7, <1>8, <1>9, <1>10, <1>11, <1>12, <1>13, LocalStep, Zenon

\* A crash, a close or a fenced task ends the process.
LEMMA StopOK ==
  ASSUME IndInv, NEW w \in Writer, Stop(w)
  PROVE  IndInv'
  BY EndStep, Zenon DEF Stop

-----------------------------------------------------------------------------
(***************************************************************************)
(* The claim of an epoch supersedes every other process, and nothing else  *)
(* in the manifest changes.                                                *)
(***************************************************************************)
LEMMA ClaimOK ==
  ASSUME IndInv, NEW w \in Writer, Claim(w)
  PROVE  IndInv'
<1> DEFINE e == db[w]
           pc == IF e.empty <= manifest.replay_after THEN "reload" ELSE "fence"
           d == [e EXCEPT !.pc = pc, !.epoch = manifest.epoch + 1, !.view = manifest']
<1>1. TypeOK /\ OpeningOK(w) /\ EpochInv /\ e.pc = "claim" /\ e \in Dbs
  BY Fields DEF IndInv, OpeningInv, Claim
<1>2. UNCHANGED <<setup, pins, wal, gcphase, keep, doomed, acked>>
  BY DEF Claim
<1>3. /\ manifest' \in Manifests /\ manifest'.epoch = manifest.epoch + 1
      /\ manifest'.replay_after = manifest.replay_after
      /\ manifest'.next_wal = manifest.next_wal
      /\ manifest'.l0_seq = manifest.l0_seq /\ manifest'.l0 = manifest.l0
      /\ manifest.epoch \in Nat
  <2>1. manifest \in Manifests /\ manifest.epoch \in Nat /\ manifest.epoch + 1 \in Nat
    BY <1>1, Fields
  <2>2. manifest' = [manifest EXCEPT !.epoch = manifest.epoch + 1]
    BY DEF Claim
  <2> QED BY <2>1, <2>2, Zenon DEF Manifests
<1>4. d \in Dbs /\ db' = [db EXCEPT ![w] = d]
  <2>1. db' = [db EXCEPT ![w] = d]
    BY Zenon DEF Claim
  <2>2. pc \in PCs /\ manifest.epoch + 1 \in Nat
    BY <1>3 DEF PCs
  <2>3. d \in Dbs
    <3> HIDE DEF e, pc
    <3> QED BY <1>1, <1>3, <2>2, Zenon DEF Dbs
  <2> QED BY <2>1, <2>3
<1>5. /\ d.pc \in {"reload", "fence"} /\ d.epoch = manifest.epoch + 1 /\ d.view = manifest'
      /\ d.empty = e.empty /\ (d.pc = "fence" => e.empty > manifest.replay_after)
      /\ d.table = {} /\ d.mem = {} /\ d.imm = << >> /\ d.buf = {} /\ d.putting = {}
  <2>1. /\ e.table = {} /\ e.mem = {} /\ e.imm = << >> /\ e.buf = {} /\ e.putting = {}
    BY <1>1, Zenon DEF OpeningOK, Replaying, Running
  <2>2. /\ e.empty \in Nat /\ manifest.replay_after \in Nat
    BY <1>1, DbNumbers, WalRows, Zenon
  <2>3. pc \in {"reload", "fence"} /\ (pc = "fence" => e.empty > manifest.replay_after)
    BY <2>2
  <2> HIDE DEF e, pc
  <2> QED BY <1>1, <2>1, <2>3, Zenon DEF Dbs
<1> HIDE DEF d
<1>6. db' \in [Writer -> Dbs] /\ db'[w] = d /\ \A v \in Writer : v # w => db'[v] = db[v]
  BY <1>1, <1>4, Zenon DEF TypeOK
<1>7. TypeOK'
  BY <1>1, <1>2, <1>3, <1>6 DEF TypeOK
<1>8. AssertionsHold' /\ PinnedWalsSurvive' /\ GcInv' /\ LogInv'
  <2>1. AssertionsHold'
    BY <1>5, <1>6 DEF IndInv, AssertionsHold
  <2>2. PinnedWalsSurvive'
    BY <1>2 DEF IndInv, PinnedWalsSurvive, Exists
  <2>3. GcInv'
    BY <1>2, <1>3, Zenon DEF IndInv, GcInv, Spared, Exists
  <2>4. LogInv'
    BY <1>2, <1>3, Zenon DEF IndInv, LogInv, WalUnbroken, WalSeqsIncrease, Reached, Exists
  <2> QED BY <2>1, <2>2, <2>3, <2>4, Zenon
<1>9. \A v \in Writer : v # w => Superseded(v)' /\ db'[v].epoch <= manifest.epoch
  <2>1. \A v \in Writer : db[v].epoch \in Nat /\ db[v].epoch <= manifest.epoch
    BY <1>1, Fields, Zenon DEF EpochInv
  <2> QED BY <1>3, <1>6, <2>1 DEF Superseded
<1>10. EpochInv'
  <2>1. \A v \in Writer : db[v].epoch \in Nat /\ db'[v].epoch \in Nat
    BY <1>3, <1>5, <1>6, <1>1, Fields
  <2>2. \A v \in Writer : db'[v].epoch <= manifest'.epoch
    BY <1>3, <1>5, <1>6, <1>9, <2>1
  <2>3. \A v \in Writer : (Fencing(v) \/ Established(v))' => db'[v].epoch > 0
    <3>1. db'[w].epoch > 0
      BY <1>3, <1>5, <1>6
    <3>2. \A v \in Writer : v # w /\ (Fencing(v) \/ Established(v))'
                              => Fencing(v) \/ Established(v)
      BY <1>6, Zenon DEF Fencing, Established
    <3> QED BY <1>1, <1>6, <3>1, <3>2, Zenon DEF EpochInv
  <2>4. \A u, v \in Writer : u # v /\ db'[u].epoch > 0 => db'[u].epoch # db'[v].epoch
    BY <1>1, <1>3, <1>5, <1>6, <1>9, <2>1 DEF EpochInv
  <2> QED BY <2>2, <2>3, <2>4, Zenon DEF EpochInv
<1>11. OpeningInv'
  <2>1. OpeningOK(w)'
    <3>1. e.empty >= 1 /\ Reached(e.empty - 1)
      BY <1>1, Zenon DEF OpeningOK
    <3>2. Reached(db[w].empty - 1)'
      BY <1>2, <1>3, <1>5, <1>6, <3>1, Zenon DEF Reached, Exists
    <3>3. manifest.replay_after \in Nat
      BY <1>1, WalRows, Zenon
    <3> QED BY <1>3, <1>5, <1>6, <3>1, <3>2, <3>3 DEF OpeningOK
  <2>2. ASSUME NEW v \in Writer, v # w
        PROVE  OpeningOK(v)'
    <3>1. OpeningOK(v)
      BY DEF IndInv, OpeningInv
    <3> QED BY <1>2, <1>3, <1>6, <1>9, <2>2, <3>1, Zenon
            DEF OpeningOK, Fencing, Replaying, Running, Reached, Exists
  <2> QED BY <2>1, <2>2, Zenon DEF OpeningInv
<1>12. FilesInv'
  <2> SUFFICES ASSUME NEW v \in Writer
               PROVE  FilesOK(v)'
    BY Zenon DEF FilesInv
  <2>1. CASE v = w
    BY <1>5, <1>6, <2>1, Zenon DEF FilesOK, Established
  <2>2. CASE v # w
    BY <1>2, <1>3, <1>6, <2>2, Zenon DEF IndInv, FilesInv, FilesOK, Established, Reached, Exists
  <2> QED BY <2>1, <2>2
<1>13. FrontierInv'
  <2> SUFFICES ASSUME NEW v \in Writer, Live(v)'
               PROVE  FrontierOK(v)'
    BY DEF FrontierInv
  <2>1. v # w
    BY <1>5, <1>6, Zenon DEF Live, Replaying, Running
  <2>2. Superseded(v)' /\ db'[v] = db[v]
    BY <1>6, <1>9, <2>1, Zenon
  <2>3. FrontierOK(v)
    BY <2>2, Zenon DEF IndInv, FrontierInv, Live, Replaying, Running
  <2>4. NextId(v)' = NextId(v)
    BY <2>2, Zenon DEF NextId
  <2>5. \A u \in Writer : (Established(u))' => Established(u) /\ db'[u] = db[u]
    BY <1>5, <1>6, Zenon DEF Established
  <2>6. \A u \in Writer : db'[u].pc \in {"fence", "retry"} =>
          db'[u] = db[u] \/ db'[u].empty > manifest.replay_after
    BY <1>5, <1>6, Zenon
  <2> QED BY <1>2, <1>3, <2>2, <2>3, <2>4, <2>5, <2>6, Zenon DEF FrontierOK, Exists
<1>14. DataInv'
  <2> SUFFICES ASSUME NEW v \in Writer, Current(v)'
               PROVE  DataOK(db[v])'
    BY Zenon DEF DataInv
  <2>1. v # w
    BY <1>5, <1>6, Zenon DEF Current, Replaying, Running
  <2>2. Current(v)
    BY <1>2, <1>6, <1>9, <2>1, Zenon DEF Current, Replaying, Running, NextId, Exists
  <2>3. PICK x : x = db[v]
    OBVIOUS
  <2>4. DataOK(x)
    BY <2>2, <2>3, Zenon DEF IndInv, DataInv
  <2>5. DataOK(x)'
    BY <1>2, <1>3, <2>4, DataKept, Zenon
  <2> QED BY <1>6, <2>1, <2>3, <2>5, Zenon
<1>15. RowsInv'
  <2>1. \A r : Safe(r) => Safe(r)'
    BY <1>2, <1>3, Zenon DEF Safe
  <2> QED BY <1>2, <1>5, <1>6, <2>1, Zenon DEF IndInv, RowsInv
<1> QED BY <1>7, <1>8, <1>10, <1>11, <1>12, <1>13, <1>14, <1>15, Zenon DEF IndInv

-----------------------------------------------------------------------------
(***************************************************************************)
(* Checkpoints and the collector                                           *)
(***************************************************************************)
\* Checkpoints and the collector's reading change no more of the manifest than
\* next_wal_sst_id.
LEMMA PinStep ==
  ASSUME IndInv, UNCHANGED <<setup, wal, db, acked>>,
         manifest'.epoch = manifest.epoch,
         manifest'.replay_after = manifest.replay_after,
         manifest'.l0_seq = manifest.l0_seq, manifest'.l0 = manifest.l0,
         Reached(manifest'.next_wal - 1),
         \A v \in Writer : Live(v) /\ ~ Superseded(v)
                             => manifest'.next_wal <= db[v].flushed + 1,
         TypeOK', PinnedWalsSurvive', GcInv'
  PROVE  IndInv'
<1>1. AssertionsHold' /\ EpochInv'
  BY Zenon DEF IndInv, AssertionsHold, EpochInv, Fencing, Established
<1>2. LogInv' /\ OpeningInv' /\ FilesInv'
  <2>1. LogInv'
    BY Zenon DEF IndInv, LogInv, WalUnbroken, WalSeqsIncrease, Reached, Exists
  <2>2. OpeningInv'
    BY Zenon DEF IndInv, OpeningInv, OpeningOK, Fencing, Replaying, Running, Superseded, Reached,
           Exists
  <2>3. FilesInv'
    BY Zenon DEF IndInv, FilesInv, FilesOK, Established, Reached, Exists
  <2> QED BY <2>1, <2>2, <2>3, Zenon
<1>3. FrontierInv'
  BY Zenon DEF IndInv, FrontierInv, FrontierOK, Live, Replaying, Running, NextId, Superseded,
         Established, Exists
<1>4. DataInv'
  <2> SUFFICES ASSUME NEW v \in Writer, Current(v)'
               PROVE  DataOK(db[v])'
    BY Zenon DEF DataInv
  <2>1. Current(v)
    BY Zenon DEF Current, NextId, Replaying, Running, Superseded, Exists
  <2>2. PICK x : x = db[v]
    BY Zenon
  <2>3. DataOK(x)
    BY <2>1, <2>2, Zenon DEF IndInv, DataInv
  <2>4. DataOK(x)'
    BY <2>3, DataKept, Zenon
  <2> QED BY <2>2, <2>4, Zenon
<1>5. RowsInv'
  BY Zenon DEF IndInv, RowsInv, Safe
<1> QED BY <1>1, <1>2, <1>3, <1>4, <1>5, Zenon DEF IndInv

\* ... or nothing of it.
LEMMA CollectorStep ==
  ASSUME IndInv, UNCHANGED <<setup, manifest, wal, db, acked>>,
         TypeOK', PinnedWalsSurvive', GcInv'
  PROVE  IndInv'
<1>1. Reached(manifest.next_wal - 1)
  BY Zenon DEF IndInv, LogInv
<1>2. \A v \in Writer : Live(v) /\ ~ Superseded(v) => manifest.next_wal <= db[v].flushed + 1
  BY DEF IndInv, FrontierInv, FrontierOK
<1> QED BY <1>1, <1>2, PinStep

\* Whatever the collector finds unreferenced lies before the replay position and
\* belongs to no checkpoint.
LEMMA GcReadOK ==
  ASSUME IndInv, GcRead
  PROVE  IndInv'
<1>1. TypeOK /\ manifest.replay_after \in Nat /\ MaxWal \in Nat
  BY WalRows DEF IndInv
<1>2. /\ gcphase = "idle" /\ keep' = Referenced /\ gcphase' = "list"
      /\ UNCHANGED <<setup, manifest, pins, wal, db, doomed, acked>>
  BY DEF GcRead
<1>3. Referenced \subseteq 0 .. MaxWal
  <2>1. \A p \in pins : p.replay_after \in 0 .. MaxWal /\ p.next_wal \in 1 .. MaxWal + 1
    BY <1>1, Zenon DEF TypeOK, Pins
  <2> QED BY <1>1, <2>1 DEF Referenced
<1>4. TypeOK'
  BY <1>1, <1>2, <1>3, Zenon DEF TypeOK
<1>5. PinnedWalsSurvive'
  BY <1>2 DEF IndInv, PinnedWalsSurvive, Exists
<1>6. \A i \in WalIds : i \notin Referenced => ~ Spared(i)
  BY <1>1 DEF Referenced, Spared, WalIds
<1>7. GcInv'
  BY <1>2, <1>6, Zenon DEF IndInv, GcInv, Spared, Exists
<1> QED BY <1>2, <1>4, <1>5, <1>7, CollectorStep, Zenon

\* Files with rows are listed, fences are not.
LEMMA GcListOK ==
  ASSUME IndInv, ~ FenceGc, GcList
  PROVE  IndInv'
<1>1. TypeOK
  BY Zenon DEF IndInv
<1>2. /\ gcphase = "list" /\ keep' = {} /\ gcphase' = "delete"
      /\ doomed' = {i \in DOMAIN wal : i \notin keep /\ wal[i] # {}}
      /\ UNCHANGED <<setup, manifest, pins, wal, db, acked>>
  BY Zenon DEF GcList
<1>3. TypeOK'
  BY <1>1, <1>2, Zenon DEF TypeOK
<1>4. PinnedWalsSurvive'
  BY <1>2, Zenon DEF IndInv, PinnedWalsSurvive, Exists
<1>5. GcInv'
  <2>1. \A i \in doomed' : i \in WalIds /\ i \notin keep /\ Exists(i) /\ wal[i] # {}
    BY <1>1, <1>2, Zenon DEF TypeOK, Exists
  <2>2. \A i \in doomed' : ~ Spared(i)
    BY <1>2, <2>1, Zenon DEF IndInv, GcInv
  <2> QED BY <1>2, <2>1, <2>2, Zenon DEF GcInv, Spared, Exists
<1> QED BY <1>2, <1>3, <1>4, <1>5, CollectorStep, Zenon

\* The end of a pass forgets what was not deleted.
LEMMA GcFinishOK ==
  ASSUME IndInv, GcFinish
  PROVE  IndInv'
<1>1. /\ gcphase' = "idle" /\ doomed' = {}
      /\ UNCHANGED <<setup, manifest, pins, wal, db, keep, acked>>
  BY Zenon DEF GcFinish
<1>2. TypeOK'
  BY <1>1, Zenon DEF IndInv, TypeOK
<1>3. PinnedWalsSurvive' /\ GcInv'
  BY <1>1, Zenon DEF IndInv, PinnedWalsSurvive, GcInv, Exists
<1> QED BY <1>1, <1>2, <1>3, CollectorStep, Zenon

\* What a checkpoint of a manifest without a gap before next_wal_sst_id pins
\* is there, and none of it is what a collector on its way may delete.
LEMMA NewPin ==
  ASSUME IndInv, NEW m \in Manifests, m.replay_after = manifest.replay_after,
         Reached(m.next_wal - 1), pins' = pins \cup {Pin(m)},
         manifest'.replay_after = manifest.replay_after,
         UNCHANGED <<wal, gcphase, keep, doomed>>
  PROVE  pins' \subseteq Pins /\ PinnedWalsSurvive' /\ GcInv'
<1>1. TypeOK /\ manifest.replay_after \in Nat /\ MaxWal \in Nat
  BY WalRows, Zenon DEF IndInv
<1>2. /\ m.replay_after \in 0 .. MaxWal /\ m.next_wal \in 1 .. MaxWal + 1
      /\ Pin(m) \in Pins
      /\ Pin(m).replay_after = m.replay_after /\ Pin(m).next_wal = m.next_wal
  BY Zenon DEF Manifests, Pin, Pins
<1>3. pins' \subseteq Pins
  BY <1>1, <1>2 DEF TypeOK
<1>4. ASSUME NEW i \in m.replay_after + 1 .. m.next_wal - 1
      PROVE  Exists(i)
  <2>1. /\ i \in WalIds /\ i > manifest.replay_after /\ m.next_wal - 1 \in WalIds
        /\ i = m.next_wal - 1 \/ i < m.next_wal - 1
    BY <1>1, <1>2 DEF WalIds
  <2>2. Exists(m.next_wal - 1)
    BY <1>1, <1>2, <2>1 DEF Reached, WalIds
  <2> QED BY <2>1, <2>2, Zenon DEF IndInv, LogInv, WalUnbroken
<1>5. PinnedWalsSurvive'
  BY <1>2, <1>4, Zenon DEF IndInv, PinnedWalsSurvive, Exists
<1>6. ASSUME NEW i \in WalIds, ~ Spared(i)
      PROVE  ~ Spared(i)'
  <2>1. i < manifest.replay_after /\ i \in Nat
    BY <1>1, <1>6 DEF Spared, WalIds
  <2>2. i \notin m.replay_after + 1 .. m.next_wal - 1
    BY <1>1, <1>2, <2>1
  <2> QED BY <1>2, <1>6, <2>2, Zenon DEF Spared
<1>7. GcInv'
  <2>1. doomed \subseteq WalIds
    BY <1>1, Zenon DEF TypeOK
  <2> QED BY <1>6, <2>1, Zenon DEF IndInv, GcInv, Exists
<1> QED BY <1>3, <1>5, <1>7, Zenon

\* A checkpoint of the latest manifest pins files that exist.
LEMMA WriteCheckpointOK ==
  ASSUME IndInv, WriteCheckpoint
  PROVE  IndInv'
<1>1. /\ pins' = pins \cup {Pin(manifest)}
      /\ UNCHANGED <<setup, manifest, wal, db, gcphase, keep, doomed, acked>>
  BY Zenon DEF WriteCheckpoint
<1>2. TypeOK /\ manifest \in Manifests /\ Reached(manifest.next_wal - 1)
  BY DEF IndInv, LogInv, TypeOK
<1>3. pins' \subseteq Pins /\ PinnedWalsSurvive' /\ GcInv'
  BY <1>1, <1>2, NewPin, Zenon
<1>4. TypeOK'
  BY <1>1, <1>2, <1>3, Zenon DEF TypeOK
<1> QED BY <1>1, <1>3, <1>4, CollectorStep, Zenon

\* A deleted checkpoint only gives files free.
LEMMA DeleteCheckpointOK ==
  ASSUME IndInv, NEW p \in pins, DeleteCheckpoint(p)
  PROVE  IndInv'
<1>1. /\ pins' = pins \ {p}
      /\ UNCHANGED <<setup, manifest, wal, db, gcphase, keep, doomed, acked>>
  BY Zenon DEF DeleteCheckpoint
<1>2. TypeOK'
  BY <1>1, Zenon DEF IndInv, TypeOK
<1>3. PinnedWalsSurvive' /\ GcInv'
  BY <1>1, Zenon DEF IndInv, PinnedWalsSurvive, GcInv, Spared, Exists
<1> QED BY <1>1, <1>2, <1>3, CollectorStep, Zenon

\* The writer's own checkpoint moves next_wal_sst_id up to its last file.
LEMMA CreateCheckpointOK ==
  ASSUME IndInv, NEW w \in Writer, CreateCheckpoint(w)
  PROVE  IndInv'
<1> DEFINE f == db[w].flushed
           m == [manifest EXCEPT !.next_wal = f + 1]
<1>1. TypeOK /\ EpochInv /\ db[w].pc = "running" /\ ~ Superseded(w)
  BY DEF IndInv, CreateCheckpoint
<1>2. /\ manifest' = m /\ pins' = pins \cup {Pin(m)}
      /\ UNCHANGED <<setup, wal, db, gcphase, keep, doomed, acked>>
  BY Zenon DEF CreateCheckpoint
<1>3. f \in Nat /\ f + 1 \in 1 .. MaxWal + 1 /\ manifest \in Manifests
  BY <1>1, Fields
<1>4. /\ m \in Manifests /\ m.epoch = manifest.epoch /\ m.next_wal = f + 1
      /\ m.replay_after = manifest.replay_after
      /\ m.l0_seq = manifest.l0_seq /\ m.l0 = manifest.l0
  BY <1>3, Zenon DEF Manifests
<1>5. Reached(f)
  BY <1>1, Zenon DEF IndInv, FilesInv, FilesOK, Established
<1> HIDE DEF m
<1>6. m.next_wal - 1 = f
  BY <1>3, <1>4
<1>7. pins' \subseteq Pins /\ PinnedWalsSurvive' /\ GcInv'
  BY <1>2, <1>4, <1>5, <1>6, NewPin, Zenon
<1>8. TypeOK'
  BY <1>1, <1>2, <1>4, <1>7, Zenon DEF TypeOK
<1>9. \A v \in Writer : Live(v) /\ ~ Superseded(v) => v = w
  <2>1. \A v \in Writer : db[v].epoch \in Nat /\ db[v].epoch <= manifest.epoch
    BY <1>1, Fields, Zenon DEF EpochInv
  <2>2. manifest.epoch \in Nat /\ db[w].epoch > 0
    BY <1>1, Fields, Zenon DEF EpochInv, Established
  <2> QED BY <1>1, <2>1, <2>2 DEF EpochInv, Superseded
<1>10. \A v \in Writer : Live(v) /\ ~ Superseded(v) => m.next_wal <= db[v].flushed + 1
  BY <1>3, <1>4, <1>9
<1> QED BY <1>2, <1>4, <1>5, <1>6, <1>7, <1>8, <1>10, PinStep, Zenon
=============================================================================
