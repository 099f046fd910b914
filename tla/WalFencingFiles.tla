-------------------------- MODULE WalFencingFiles ---------------------------
(***************************************************************************)
(* Steps that keep IndInv and change the files of the log or L0: deletions, *)
(* new files, fences and the flush of a memtable.                          *)
(***************************************************************************)
EXTENDS WalFencingInvariant

(***************************************************************************)
(* A file that is not replayed any more comes or goes.  It is not a fence, *)
(* so no writer takes its next id for free again.                          *)
(***************************************************************************)
LEMMA OldFileStep ==
  ASSUME IndInv, NEW i \in WalIds, i <= manifest.replay_after,
         UNCHANGED <<setup, manifest, db, acked>>,
         \A j : j # i => (j \in DOMAIN wal' <=> j \in DOMAIN wal),
         \A j \in DOMAIN wal' : j # i => wal'[j] = wal[j],
         ~ (Exists(i) /\ wal[i] = {}),
         TypeOK', PinnedWalsSurvive', GcInv'
  PROVE  IndInv'
<1>1. TypeOK
  BY DEF IndInv
<1>2. i \in Nat /\ manifest.replay_after \in Nat
  BY <1>1, WalRows, BoundsAssumption DEF WalIds
<1>3. \A j : j > manifest.replay_after => j # i
  BY <1>2
<1>4. \A j : Reached(j) => Reached(j)'
  BY DEF Reached, Exists
<1>5. AssertionsHold' /\ EpochInv'
  BY DEF IndInv, AssertionsHold, EpochInv, Fencing, Established
<1>6. LogInv'
  <2>1. WalUnbroken'
    <3> SUFFICES ASSUME NEW j \in WalIds, NEW k \in WalIds,
                        manifest.replay_after < j, j < k, k \in DOMAIN wal'
                 PROVE  j \in DOMAIN wal'
      BY DEF WalUnbroken, Exists
    <3>1. j # i /\ k # i /\ k \in DOMAIN wal
      BY <1>2, BoundsAssumption DEF WalIds
    <3> QED BY <3>1 DEF IndInv, LogInv, WalUnbroken, Exists
  <2>2. WalSeqsIncrease'
    <3> SUFFICES ASSUME NEW j \in DOMAIN wal', NEW k \in DOMAIN wal',
                        manifest.replay_after < j, j < k
                 PROVE  \A r \in wal'[j], q \in wal'[k] : r.seq < q.seq
      BY DEF WalSeqsIncrease
    <3>1. j \in Nat /\ k \in Nat
      BY BoundsAssumption DEF TypeOK, WalIds
    <3>2. j # i /\ k # i
      BY <1>2, <3>1
    <3> QED BY <3>2 DEF IndInv, LogInv, WalSeqsIncrease
  <2>3. Reached(manifest.next_wal - 1)'
    BY <1>4 DEF IndInv, LogInv
  <2> QED BY <2>1, <2>2, <2>3 DEF LogInv
<1>7. OpeningInv'
  <2> SUFFICES ASSUME NEW w \in Writer PROVE OpeningOK(w)'
    BY DEF OpeningInv
  <2>1. OpeningOK(w)
    BY DEF IndInv, OpeningInv
  <2> QED BY <1>4, <2>1 DEF OpeningOK, Fencing, Replaying, Running, Superseded
<1>8. FilesInv'
  <2> SUFFICES ASSUME NEW w \in Writer, Established(w) PROVE FilesOK(w)'
    BY DEF FilesInv, FilesOK, Established
  <2>1. FilesOK(w)
    BY DEF IndInv, FilesInv
  <2>2. Reached(db[w].flushed)'
    BY <1>4, <2>1 DEF FilesOK
  <2>3. db[w].flushed + 1 > manifest.replay_after => db[w].flushed + 1 # i
    BY <1>3, Zenon
  <2> QED BY <2>1, <2>2, <2>3, Zenon DEF FilesOK, Established, Exists
<1>9. FrontierInv'
  <2> SUFFICES ASSUME NEW v \in Writer, Live(v)
               PROVE  FrontierOK(v)'
    BY DEF FrontierInv, Live, Replaying, Running, Superseded
  <2>1. FrontierOK(v)
    BY DEF IndInv, FrontierInv
  <2>2. NextId(v)' = NextId(v)
    BY DEF NextId
  <2>3. PICK n : n = NextId(v)
    OBVIOUS
  <2>4. n # i
    BY <1>3, <2>1, <2>3, Zenon DEF FrontierOK
  <2>5. n \in Nat
    BY <1>1, <2>3, Fields DEF NextId
  <2>6. n \in DOMAIN wal' <=> n \in DOMAIN wal
    BY <2>4, Zenon
  <2>7. n \in DOMAIN wal => wal'[n] = {}
    BY <2>1, <2>3, <2>4, <2>6, Zenon DEF FrontierOK, Exists
  <2>8. ASSUME n \notin DOMAIN wal
        PROVE  /\ n > manifest.replay_after
               /\ \A j \in DOMAIN wal' : j < n
               /\ \A w \in Writer : Established(w) => db[w].epoch <= db[v].epoch
               /\ \A w \in Writer : db[w].pc \in {"fence", "retry"} /\ db[v].epoch < db[w].epoch
                                      => db[w].empty > manifest.replay_after
    BY <1>2, <2>1, <2>3, <2>5, <2>8 DEF FrontierOK, Exists
  <2>9. ASSUME ~ Superseded(v)
        PROVE  /\ n > manifest.replay_after
               /\ manifest.next_wal <= db[v].flushed + 1
               /\ \A j \in DOMAIN wal' : j >= n => wal'[j] = {}
    BY <1>2, <2>1, <2>3, <2>5, <2>9 DEF FrontierOK
  <2> QED BY <2>2, <2>3, <2>6, <2>7, <2>8, <2>9, Zenon
          DEF FrontierOK, Exists, Established, Superseded
<1>10. DataInv'
  <2> SUFFICES ASSUME NEW v \in Writer, Current(v)'
               PROVE  DataOK(db[v])'
    BY DEF DataInv
  <2>1. FrontierOK(v)
    BY DEF IndInv, FrontierInv, Live, Current, Replaying, Running
  <2>2. NextId(v) # i \/ ~ Exists(i)
    BY <2>1, Zenon DEF FrontierOK
  <2>3. Current(v)
    BY <2>2 DEF Current, NextId, Replaying, Running, Superseded, Exists
  <2>4. PICK x : x = db[v]
    BY Zenon
  <2>5. DataOK(x)
    BY <2>3, <2>4, Zenon DEF IndInv, DataInv
  <2>6. DataOK(x)'
    BY <1>3, <2>5, DataKept, Zenon
  <2> QED BY <2>4, <2>6
<1>11. RowsInv'
  <2>1. \A r : Safe(r) => Safe(r)'
    BY <1>3 DEF Safe
  <2> QED BY <2>1 DEF IndInv, RowsInv
<1> QED BY <1>5, <1>6, <1>7, <1>8, <1>9, <1>10, <1>11 DEF IndInv

\* What it deletes is not replayed, and not a fence.
LEMMA GcDeleteOK ==
  ASSUME IndInv, NEW i \in WalIds, GcDelete(i)
  PROVE  IndInv'
<1>1. TypeOK /\ i \in doomed /\ MaxWal \in Nat
  BY BoundsAssumption DEF IndInv, GcDelete
<1>2. /\ doomed' = doomed \ {i} /\ wal' = [j \in DOMAIN wal \ {i} |-> wal[j]]
      /\ UNCHANGED <<setup, manifest, pins, db, gcphase, keep, acked>>
  BY DEF GcDelete, Restrict
<1>3. Exists(i) /\ wal[i] # {} /\ ~ Spared(i)
  BY <1>1 DEF IndInv, GcInv
<1>4. DOMAIN wal' = DOMAIN wal \ {i} /\ \A j \in DOMAIN wal' : wal'[j] = wal[j]
  BY <1>2
<1>5. i <= manifest.replay_after
  BY <1>1, <1>3, WalRows DEF Spared, WalIds
<1>6. TypeOK'
  BY <1>1, <1>2, <1>4 DEF TypeOK
<1>7. PinnedWalsSurvive'
  <2> SUFFICES ASSUME NEW p \in pins, NEW j \in p.replay_after + 1 .. p.next_wal - 1
               PROVE  j \in DOMAIN wal'
    BY <1>2 DEF PinnedWalsSurvive, Exists
  <2>1. j \in DOMAIN wal
    BY DEF IndInv, PinnedWalsSurvive, Exists
  <2>2. j # i
    BY <1>3 DEF Spared
  <2> QED BY <1>4, <2>1, <2>2
<1>8. GcInv'
  BY <1>2, <1>4 DEF IndInv, GcInv, Spared, Exists
<1> QED BY <1>2, <1>3, <1>4, <1>5, <1>6, <1>7, <1>8, OldFileStep, Zenon

-----------------------------------------------------------------------------
(***************************************************************************)
(* New files                                                               *)
(***************************************************************************)
\* There is no gap before the next id of a writer.
LEMMA NextIdReached ==
  ASSUME IndInv, NEW v \in Writer, Established(v)
  PROVE  NextId(v) \in Nat /\ NextId(v) >= 1 /\ Reached(NextId(v) - 1)
<1>1. TypeOK /\ FilesOK(v)
  BY DEF IndInv, FilesInv
<1>2. PICK f : f = db[v].flushed
  OBVIOUS
<1>3. f \in Nat /\ manifest.replay_after \in Nat
  BY <1>1, <1>2, Fields
<1>4. CASE db[v].putting = {}
  <2>1. NextId(v) = f + 1 /\ Reached(f)
    BY <1>1, <1>2, <1>4 DEF FilesOK, NextId
  <2>2. f + 1 - 1 = f
    BY <1>3
  <2> QED BY <1>3, <2>1, <2>2
<1>5. CASE db[v].putting # {}
  <2>1. NextId(v) = f + 2 /\ Reached(f + 1)
    BY <1>1, <1>2, <1>3, <1>5 DEF FilesOK, NextId, Reached
  <2>2. f + 2 - 1 = f + 1
    BY <1>3
  <2> QED BY <1>3, <2>1, <2>2
<1> QED BY <1>4, <1>5

\* A free id that is replayed is the end of the log.
LEMMA EndOfLog ==
  ASSUME IndInv, NEW k \in WalIds, ~ Exists(k), k > manifest.replay_after
  PROVE  \A j \in DOMAIN wal : j < k
<1>1. TypeOK
  BY DEF IndInv
<1>2. k \in Nat
  BY BoundsAssumption DEF WalIds
<1>3. \A j \in DOMAIN wal : j \in WalIds /\ j \in Nat /\ j # k
  BY <1>1, WalRows DEF Exists
<1>4. \A j \in DOMAIN wal : ~ (k < j)
  BY <1>3 DEF IndInv, LogInv, WalUnbroken, Exists
<1> QED BY <1>2, <1>3, <1>4

\* Two free ids without a gap before them are the same.
LEMMA OneFrontier ==
  ASSUME IndInv, NEW k \in WalIds, ~ Exists(k), k > manifest.replay_after, Reached(k - 1),
         NEW n \in Nat, ~ Exists(n), n > manifest.replay_after, Reached(n - 1)
  PROVE  k = n
<1>1. TypeOK
  BY DEF IndInv
<1>2. k \in Nat /\ manifest.replay_after \in Nat
  BY <1>1, WalRows, BoundsAssumption DEF WalIds
<1>3. \A j \in DOMAIN wal : j \in Nat /\ j < k
  BY <1>1, WalRows, EndOfLog
<1>4. ~ (k < n)
  <2> SUFFICES ASSUME k < n PROVE FALSE
    OBVIOUS
  <2>1. n - 1 > manifest.replay_after /\ n - 1 >= k
    BY <1>2
  <2>2. Exists(n - 1)
    BY <1>2, <2>1 DEF Reached
  <2> QED BY <1>2, <1>3, <2>1, <2>2 DEF Exists
<1>5. ~ (n < k)
  <2> SUFFICES ASSUME n < k PROVE FALSE
    OBVIOUS
  <2>1. n \in WalIds /\ k - 1 > manifest.replay_after /\ (n = k - 1 \/ n < k - 1)
    BY <1>2, BoundsAssumption DEF WalIds
  <2>2. Exists(k - 1) /\ k - 1 \in WalIds
    BY <1>1, <1>2, <2>1, WalRows DEF Reached, Exists
  <2>3. Exists(n)
    BY <2>1, <2>2 DEF IndInv, LogInv, WalUnbroken
  <2> QED BY <2>3
<1> QED BY <1>2, <1>4, <1>5

\* A file created where there was none
LEMMA CreatedFile ==
  ASSUME NEW k, NEW rows, wal' = Created(k, rows), ~ Exists(k)
  PROVE  /\ DOMAIN wal' = DOMAIN wal \cup {k} /\ k \notin DOMAIN wal
         /\ wal'[k] = rows
         /\ \A j \in DOMAIN wal : j # k /\ wal'[j] = wal[j]
  BY DEF Created, Exists

\* What a new file after an unbroken log leaves as it was
LEMMA NewFileKeeps ==
  ASSUME IndInv, NEW k \in WalIds, NEW rows, wal' = Created(k, rows), ~ Exists(k),
         Reached(k - 1), UNCHANGED <<setup, manifest, pins, gcphase, keep, doomed>>
  PROVE  /\ PinnedWalsSurvive' /\ GcInv' /\ WalUnbroken'
         /\ \A i : Reached(i) => Reached(i)'
         /\ \A r : Safe(r) => Safe(r)'
         /\ Reached(k)'
         /\ Reached(manifest.next_wal - 1)'
<1>1. TypeOK
  BY DEF IndInv
<1>2. /\ DOMAIN wal' = DOMAIN wal \cup {k} /\ k \notin DOMAIN wal
      /\ wal'[k] = rows /\ \A j \in DOMAIN wal : j # k /\ wal'[j] = wal[j]
  BY CreatedFile, Zenon
<1>3. PinnedWalsSurvive'
  BY <1>2, Zenon DEF IndInv, PinnedWalsSurvive, Exists
<1>4. GcInv'
  BY <1>2, Zenon DEF IndInv, GcInv, Spared, Exists
<1>5. WalUnbroken'
  <2> SUFFICES ASSUME NEW i \in WalIds, NEW j \in WalIds, manifest.replay_after < i, i < j,
                      j \in DOMAIN wal'
               PROVE  i \in DOMAIN wal'
    BY DEF WalUnbroken, Exists
  <2>1. CASE j \in DOMAIN wal
    BY <1>2, <2>1, Zenon DEF IndInv, LogInv, WalUnbroken, Exists
  <2>2. CASE j = k
    <3>1. i \in Nat /\ k \in Nat /\ manifest.replay_after \in Nat
      BY <1>1, WalRows, BoundsAssumption DEF WalIds
    <3>2. (i = k - 1 \/ i < k - 1) /\ k - 1 > manifest.replay_after
      BY <2>2, <3>1
    <3>3. Exists(k - 1) /\ k - 1 \in WalIds
      BY <1>1, <3>1, <3>2, WalRows DEF Reached, Exists
    <3> QED BY <1>2, <3>2, <3>3, Zenon DEF IndInv, LogInv, WalUnbroken, Exists
  <2> QED BY <1>2, <2>1, <2>2
<1>6. \A i : Reached(i) => Reached(i)'
  BY <1>2 DEF Reached, Exists
<1>7. \A r : Safe(r) => Safe(r)'
  BY <1>2 DEF Safe
<1>8. Reached(k)'
  BY <1>2 DEF Reached, Exists
<1>9. Reached(manifest.next_wal - 1)'
  BY <1>6 DEF IndInv, LogInv
<1> QED BY <1>3, <1>4, <1>5, <1>6, <1>7, <1>8, <1>9, Zenon

(***************************************************************************)
(* A put of new rows succeeds at the end of the log only: nobody who came  *)
(* later has a fence, and all other writers have met theirs.  A put that   *)
(* is retried may recreate a file the collector has deleted.               *)
(***************************************************************************)
LEMMA PutWalOK ==
  ASSUME IndInv, NEW w \in Writer, PutWal(w)
  PROVE  IndInv'
<1>1. PICK e : e = db[w]
  OBVIOUS
<1>2. TypeOK /\ EpochInv /\ FilesOK(w) /\ e.pc = "running" /\ e \in Dbs
  BY <1>1, Fields DEF IndInv, FilesInv, PutWal
<1>3. UNCHANGED <<setup, manifest, pins, gcphase, keep, doomed, acked>>
  BY DEF PutWal
<1>4. PICK n : n = e.flushed + 1
  OBVIOUS
<1>5. n \in WalIds /\ ~ Exists(n)
  BY <1>1, <1>4 DEF PutWal
<1>6. PICK rows \in NextPuts(e) :
        wal' = Created(n, rows) /\ db' = [db EXCEPT ![w].putting = rows]
  BY <1>1, <1>4, Zenon DEF PutWal
<1>7. /\ n \in Nat /\ e.flushed \in Nat /\ manifest.replay_after \in Nat
      /\ n - 1 = e.flushed /\ Reached(n - 1) /\ Established(w)
  <2>1. e.flushed \in Nat /\ manifest.replay_after \in Nat
    BY <1>2, DbNumbers, WalRows
  <2>2. n - 1 = e.flushed /\ n \in Nat
    BY <1>4, <2>1
  <2>3. Established(w)
    BY <1>1, <1>2, Zenon DEF Established
  <2>4. Reached(e.flushed)
    BY <1>1, <1>2, <2>3 DEF FilesOK
  <2> QED BY <2>1, <2>2, <2>3, <2>4, Zenon
<1>8. /\ rows # {} /\ rows \subseteq Rows
      /\ e.putting # {} => rows = e.putting
      /\ e.putting = {} => /\ rows \subseteq e.buf
                           /\ \A r \in rows, q \in e.buf \ rows : r.seq < q.seq
  BY <1>2, NextPutsRows
<1>9. /\ DOMAIN wal' = DOMAIN wal \cup {n} /\ n \notin DOMAIN wal /\ wal'[n] = rows
      /\ \A j \in DOMAIN wal : j # n /\ wal'[j] = wal[j]
  BY <1>5, <1>6, CreatedFile, Zenon
<1>10. /\ PinnedWalsSurvive' /\ GcInv' /\ WalUnbroken'
       /\ \A i : Reached(i) => Reached(i)'
       /\ \A r : Safe(r) => Safe(r)'
       /\ Reached(n)' /\ Reached(manifest.next_wal - 1)'
  BY <1>3, <1>5, <1>6, <1>7, NewFileKeeps, Zenon
<1> DEFINE d == [e EXCEPT !.putting = rows]
<1>11. d \in Dbs /\ db' = [db EXCEPT ![w] = d]
  BY <1>1, <1>2, <1>6, <1>8, Zenon DEF Dbs
<1>12. db' \in [Writer -> Dbs] /\ db'[w] = d /\ \A v \in Writer : v # w => db'[v] = db[v]
  BY <1>2, <1>11 DEF TypeOK
<1>13. TypeOK'
  BY <1>2, <1>3, <1>5, <1>8, <1>9, <1>12, Zenon DEF TypeOK
<1>14. CASE e.putting # {}
  <2>1. d = e
    BY <1>2, <1>8, <1>14 DEF Dbs
  <2>2. db' = db
    BY <1>1, <1>2, <1>11, <2>1, Zenon DEF TypeOK
  <2>3. n <= manifest.replay_after
    BY <1>1, <1>2, <1>4, <1>5, <1>7, <1>14 DEF FilesOK
  <2>4. \A j : j # n => (j \in DOMAIN wal' <=> j \in DOMAIN wal)
    BY <1>9
  <2>5. \A j \in DOMAIN wal' : j # n => wal'[j] = wal[j]
    BY <1>9
  <2> QED BY <1>3, <1>5, <1>10, <1>13, <2>2, <2>3, <2>4, <2>5, OldFileStep, Zenon
<1>15. CASE e.putting = {}
  <2>1. /\ d.pc = "running" /\ d.epoch = e.epoch /\ d.flushed = e.flushed /\ d.mem = e.mem
        /\ d.imm = e.imm /\ d.buf = e.buf /\ d.putting = rows /\ d.memwal = e.memwal
        /\ d.last_seq = e.last_seq /\ d.durable = e.durable
    BY <1>2, Zenon DEF Dbs
  <2> HIDE DEF d
  <2>2. NextId(w) = n /\ NextId(w)' = n + 1 /\ Live(w) /\ FrontierOK(w) /\ Current(w)
    <3>1. Live(w) /\ NextId(w) = n
      BY <1>1, <1>2, <1>4, <1>15, Zenon DEF Live, Running, NextId
    <3>2. NextId(w)' = n + 1
      BY <1>4, <1>7, <1>8, <1>12, <2>1 DEF NextId
    <3> QED BY <1>1, <1>2, <1>5, <3>1, <3>2, Zenon
            DEF Current, Running, IndInv, FrontierInv
  <2>3. /\ n > manifest.replay_after
        /\ \A j \in DOMAIN wal : j < n
        /\ \A u \in Writer : Established(u) => db[u].epoch <= e.epoch
        /\ \A u \in Writer : db[u].pc \in {"fence", "retry"} /\ e.epoch < db[u].epoch
                               => db[u].empty > manifest.replay_after
    BY <1>1, <1>5, <2>2, Zenon DEF FrontierOK
  <2>4. TablesOK(e) /\ StampsOK(e) /\ RunningOK(e)
    BY <1>1, <1>2, <2>2, Zenon DEF IndInv, DataInv, DataOK
  <2>5. /\ e.durable \in Nat /\ manifest.l0_seq \in Nat /\ manifest.l0_seq <= e.durable
        /\ \A r \in rows : r.seq \in Nat /\ e.durable < r.seq /\ r \in Held(e)
        /\ \A k \in DOMAIN e.imm : e.imm[k].wal \in Nat /\ e.imm[k].wal <= e.flushed
    <3>1. \A r \in rows : r \in e.buf /\ r.seq \in Nat
      BY <1>2, <1>8, <1>15, WalRows, Zenon
    <3>2. e.durable \in Nat /\ manifest.l0_seq \in Nat
      BY <1>2, DbNumbers, WalRows, Zenon
    <3>3. manifest.l0_seq <= e.durable
      BY <2>4, Zenon DEF TablesOK
    <3>4. \A k \in DOMAIN e.imm : e.imm[k].wal \in Nat /\ e.imm[k].wal <= e.flushed
      BY <1>2, <2>4, DbNumbers, Zenon DEF TablesOK
    <3>5. \A r \in rows : e.durable < r.seq /\ r \in Held(e)
      BY <2>4, <3>1, Zenon DEF RunningOK
    <3> QED BY <3>1, <3>2, <3>3, <3>4, <3>5, Zenon
  <2>6. \A j \in DOMAIN wal : j \in Nat /\ j <= e.flushed
    <3>1. \A j \in DOMAIN wal : j \in Nat
      BY <1>2, WalRows, Zenon
    <3> QED BY <1>4, <1>7, <2>3, <3>1
  <2>7. ASSUME NEW v \in Writer, v # w, Live(v)'
        PROVE  /\ Live(v) /\ Superseded(v)' /\ Exists(NextId(v))
               /\ NextId(v)' = NextId(v) /\ FrontierOK(v)
    <3>1. Live(v) /\ db'[v] = db[v]
      BY <1>3, <1>12, <2>7, Zenon DEF Live, Replaying, Running, Superseded
    <3>2. FrontierOK(v) /\ Established(v)
      BY <3>1, Zenon DEF IndInv, FrontierInv, Live, Replaying, Running, Established
    <3>3. db[v].epoch \in Nat /\ e.epoch \in Nat /\ manifest.epoch \in Nat
      BY <1>1, <1>2, Fields, Zenon
    <3>4. db[v].epoch <= e.epoch /\ db[v].epoch # e.epoch /\ e.epoch <= manifest.epoch
      BY <1>1, <1>2, <2>3, <2>7, <3>2, Zenon DEF EpochInv
    <3>5. Superseded(v)'
      BY <1>3, <3>1, <3>3, <3>4 DEF Superseded
    <3>6. Exists(NextId(v))
      BY <1>1, <1>7, <3>2, <3>3, <3>4 DEF FrontierOK
    <3>7. NextId(v)' = NextId(v)
      BY <3>1 DEF NextId
    <3> QED BY <3>1, <3>2, <3>5, <3>6, <3>7, Zenon
  <2>8. AssertionsHold' /\ LogInv'
    <3>1. AssertionsHold'
      BY <1>12, <2>1, Zenon DEF IndInv, AssertionsHold
    <3>2. WalSeqsIncrease'
      <4> SUFFICES ASSUME NEW i \in DOMAIN wal', NEW j \in DOMAIN wal',
                          manifest.replay_after < i, i < j,
                          NEW r \in wal'[i], NEW q \in wal'[j]
                   PROVE  r.seq < q.seq
        BY <1>3, Zenon DEF WalSeqsIncrease
      <4>1. i \in DOMAIN wal
        BY <1>7, <1>9, <2>3, <2>6
      <4>2. CASE j \in DOMAIN wal
        BY <1>9, <4>1, <4>2, Zenon DEF IndInv, LogInv, WalSeqsIncrease
      <4>3. CASE j = n
        <5>1. r \in wal[i] /\ r.seq \in Nat /\ i <= e.flushed
          BY <1>2, <1>9, <2>6, <4>1, WalRows, Zenon
        <5>2. r.seq <= e.durable
          BY <2>4, <4>1, <5>1, Zenon DEF RunningOK
        <5>3. q \in rows
          BY <1>9, <4>3, Zenon
        <5> QED BY <2>5, <5>1, <5>2, <5>3
      <4> QED BY <1>9, <4>2, <4>3, Zenon
    <3> QED BY <1>10, <3>1, <3>2, Zenon DEF LogInv
  <2>9. EpochInv'
    <3>1. \A v \in Writer : db'[v].epoch = db[v].epoch /\ db'[v].pc = db[v].pc
      BY <1>1, <1>2, <1>12, <2>1, Zenon
    <3> QED BY <1>2, <1>3, <3>1 DEF EpochInv, Fencing, Established
  <2>10. OpeningInv'
    <3>1. OpeningOK(w)'
      BY <1>12, <2>1 DEF OpeningOK, Fencing, Replaying, Running
    <3>2. ASSUME NEW v \in Writer, v # w
          PROVE  OpeningOK(v)'
      <4>1. OpeningOK(v) /\ db'[v] = db[v]
        BY <1>12, <3>2, Zenon DEF IndInv, OpeningInv
      <4>2. \A i : Reached(i) => Reached(i)'
        BY <1>10
      <4> QED BY <1>3, <4>1, <4>2, Zenon DEF OpeningOK, Fencing, Replaying, Running, Superseded
    <3> QED BY <3>1, <3>2, Zenon DEF OpeningInv
  <2>11. FilesInv'
    <3> SUFFICES ASSUME NEW v \in Writer
                 PROVE  FilesOK(v)'
      BY Zenon DEF FilesInv
    <3>1. CASE v = w
      <4>1. Reached(e.flushed)'
        BY <1>7, <1>10, Zenon
      <4>2. db'[v] = d /\ d.flushed + 1 = n
        BY <1>4, <1>12, <2>1, <3>1, Zenon
      <4> QED BY <1>5, <1>9, <2>1, <4>1, <4>2, Zenon DEF FilesOK, Exists
    <3>2. CASE v # w
      <4>1. FilesOK(v) /\ db'[v] = db[v]
        BY <1>12, <3>2, Zenon DEF IndInv, FilesInv
      <4> QED BY <1>3, <1>9, <1>10, <4>1, Zenon DEF FilesOK, Established, Exists
    <3> QED BY <3>1, <3>2
  <2>12. FrontierInv'
    <3> SUFFICES ASSUME NEW v \in Writer, Live(v)'
                 PROVE  FrontierOK(v)'
      BY Zenon DEF FrontierInv
    <3>1. CASE v = w
      <4>1. \A j \in DOMAIN wal' : j \in Nat /\ j < n + 1
        BY <1>7, <1>9, <2>3, <2>6
      <4>2. n + 1 > manifest.replay_after /\ n + 1 \notin DOMAIN wal'
        BY <1>7, <2>3, <4>1
      <4>3. \A j \in DOMAIN wal' : ~ (j >= n + 1)
        BY <1>7, <4>1
      <4>4. /\ \A u \in Writer : (Established(u))' => db'[u].epoch <= db'[w].epoch
            /\ \A u \in Writer :
                 db'[u].pc \in {"fence", "retry"} /\ db'[w].epoch < db'[u].epoch
                   => db'[u].empty > manifest.replay_after
        <5>1. Established(w) /\ \A u \in Writer : (Established(u))' => Established(u)
          BY <1>7, <1>12, Zenon DEF Established
        <5>2. \A u \in Writer : db'[u].epoch = db[u].epoch
          BY <1>1, <1>12, <2>1, Zenon
        <5>3. \A u \in Writer : db'[u].pc \in {"fence", "retry"} => db'[u] = db[u]
          BY <1>12, <2>1, Zenon
        <5> QED BY <1>1, <2>3, <5>1, <5>2, <5>3, Zenon
      <4>5. ~ Superseded(w)' => manifest.next_wal <= db'[w].flushed + 1
        BY <1>1, <1>3, <1>12, <2>1, <2>2, Zenon DEF FrontierOK, Superseded
      <4> QED BY <1>3, <2>2, <3>1, <4>1, <4>2, <4>3, <4>4, <4>5, Zenon DEF FrontierOK, Exists
    <3>2. CASE v # w
      <4>1. /\ Superseded(v)' /\ Exists(NextId(v)) /\ NextId(v)' = NextId(v)
            /\ FrontierOK(v)
        BY <2>7, <3>2, Zenon
      <4>2. wal[NextId(v)] = {} /\ NextId(v) \in DOMAIN wal
        BY <4>1 DEF FrontierOK, Exists
      <4> QED BY <1>9, <4>1, <4>2, Zenon DEF FrontierOK, Exists
    <3> QED BY <3>1, <3>2, Zenon
  <2>13. DataInv'
    <3> SUFFICES ASSUME NEW v \in Writer, Current(v)'
                 PROVE  DataOK(db[v])'
      BY Zenon DEF DataInv
    <3>1. v = w
      <4> SUFFICES ASSUME v # w PROVE FALSE
        BY Zenon
      <4>1. Live(v)'
        BY Zenon DEF Current, Live
      <4>2. Superseded(v)' /\ Exists(NextId(v)) /\ NextId(v)' = NextId(v)
        BY <2>7, <4>1, Zenon
      <4>3. Exists(NextId(v))'
        BY <1>9, <4>2, Zenon DEF Exists
      <4> QED BY <4>2, <4>3, Zenon DEF Current
    <3>2. PICK x : x = d
      BY Zenon
    <3>3. Held(x) = Held(e)
      BY <2>1, <3>2 DEF Held
    <3>4. TablesOK(x)'
      BY <1>2, <1>3, <2>1, <2>4, <3>2 DEF TablesOK
    <3>5. StampsOK(x)'
      <4> SUFFICES ASSUME NEW k \in DOMAIN x.imm, NEW i \in DOMAIN wal',
                          manifest.replay_after < i, i <= x.imm[k].wal,
                          NEW r \in wal'[i], r.seq > manifest.l0_seq
                   PROVE  \E l \in DOMAIN x.imm : l <= k /\ r \in x.imm[l].rows
        BY <1>3, Zenon DEF StampsOK
      <4>1. i # n
        BY <1>4, <1>7, <2>1, <2>5, <3>2
      <4> QED BY <1>9, <2>1, <2>4, <3>2, <4>1, Zenon DEF StampsOK
    <3>6. RunningOK(x)'
      <4>1. ASSUME NEW i \in DOMAIN wal', manifest.replay_after < i, NEW r \in wal'[i]
            PROVE  /\ i <= e.flushed => r.seq <= e.durable
                   /\ r.seq > manifest.l0_seq => r \in Held(e)
        <5>1. CASE i = n
          BY <1>4, <1>7, <1>9, <2>5, <5>1
        <5>2. CASE i # n
          BY <1>9, <2>4, <4>1, <5>2, Zenon DEF RunningOK
        <5> QED BY <5>1, <5>2, Zenon
      <4>2. /\ manifest.replay_after <= e.flushed
            /\ \A r \in e.buf : e.durable < r.seq /\ r.seq <= e.last_seq /\ r \in Held(e)
        BY <2>4 DEF RunningOK
      <4>3. Held(x)' = Held(x)
        BY Zenon DEF Held
      <4> QED BY <1>3, <1>8, <1>15, <2>1, <3>2, <3>3, <4>1, <4>2, <4>3, Zenon DEF RunningOK
    <3>7. DataOK(x)'
      BY <2>1, <3>2, <3>4, <3>5, <3>6, Zenon DEF DataOK
    <3> QED BY <1>12, <3>1, <3>2, <3>7
  <2>14. RowsInv'
    <3>1. \A r \in rows : Safe(r)'
      <4>1. \A r \in rows : r.seq > manifest.l0_seq
        BY <2>5
      <4> QED BY <1>3, <1>9, <2>3, <4>1, Zenon DEF Safe
    <3> QED BY <1>3, <1>10, <1>12, <2>1, <3>1 DEF IndInv, RowsInv
  <2> QED BY <1>10, <1>13, <2>8, <2>9, <2>10, <2>11, <2>12, <2>13, <2>14, Zenon DEF IndInv
<1> QED BY <1>14, <1>15

(***************************************************************************)
(* A fence takes the next id of every writer that could still have         *)
(* appended to the log, or lies before the replay position, in which case  *)
(* the final refresh will refuse its writer.                               *)
(***************************************************************************)
LEMMA WriteFenceOK ==
  ASSUME IndInv, NEW w \in Writer, WriteFence(w)
  PROVE  IndInv'
<1>1. TypeOK /\ OpeningOK(w) /\ EpochInv /\ db[w].pc = "fence" /\ db[w] \in Dbs
  BY Fields DEF IndInv, OpeningInv, WriteFence
<1>2. UNCHANGED <<setup, manifest, pins, gcphase, keep, doomed, acked>>
  BY DEF WriteFence
<1>3. PICK k : k = db[w].empty
  OBVIOUS
<1>4. k \in WalIds /\ ~ Exists(k) /\ wal' = Created(k, {})
  BY <1>3, Zenon DEF WriteFence
<1>5. /\ k \in Nat /\ manifest.replay_after \in Nat /\ Reached(k - 1)
      /\ db[w].view.replay_after \in 0 .. MaxWal /\ MaxWal \in Nat
      /\ k > db[w].view.replay_after
      /\ db[w].view.replay_after <= manifest.replay_after
      /\ ~ Superseded(w) => db[w].view.replay_after = manifest.replay_after
  <2>1. k \in Nat /\ manifest.replay_after \in Nat
    BY <1>1, <1>4, WalRows, BoundsAssumption DEF WalIds
  <2> QED BY <1>1, <1>3, <2>1, Fields, Zenon DEF OpeningOK, Fencing
<1>6. PICK d \in Dbs :
        /\ db' = [db EXCEPT ![w] = d]
        /\ d.pc \in {"retry", "confirm"} /\ d.epoch = db[w].epoch /\ d.view = db[w].view
        /\ d.empty = k
        /\ d.pc = "confirm" => d.cursor = d.view.replay_after + 1 /\ d.flushed = k
        /\ d.table = {} /\ d.mem = {} /\ d.imm = << >> /\ d.buf = {} /\ d.putting = {}
  <2> DEFINE e == db[w]
             fenced == [e EXCEPT !.pc = "confirm", !.cursor = e.view.replay_after + 1,
                                 !.flushed = k]
             retried == [e EXCEPT !.pc = "retry"]
  <2>1. db' = [db EXCEPT ![w] = retried] \/ db' = [db EXCEPT ![w] = fenced]
    BY <1>3, <1>5, Zenon DEF WriteFence
  <2>2. e.table = {} /\ e.mem = {} /\ e.imm = << >> /\ e.buf = {} /\ e.putting = {}
    BY <1>1, Zenon DEF OpeningOK, Replaying, Running
  <2>3. e.view.replay_after + 1 \in 0 .. MaxWal + 1 /\ k \in 0 .. MaxWal
    BY <1>4, <1>5 DEF WalIds
  <2>4. e \in Dbs /\ e.empty = k
    BY <1>1, <1>3
  <2> HIDE DEF e
  <2>5. fenced \in Dbs /\ retried \in Dbs
    BY <2>3, <2>4, Zenon DEF Dbs, PCs
  <2>6. /\ fenced.pc = "confirm" /\ fenced.epoch = e.epoch /\ fenced.view = e.view
        /\ fenced.empty = k /\ fenced.cursor = e.view.replay_after + 1 /\ fenced.flushed = k
        /\ fenced.table = {} /\ fenced.mem = {} /\ fenced.imm = << >> /\ fenced.buf = {}
        /\ fenced.putting = {}
    BY <2>2, <2>4 DEF Dbs
  <2>7. /\ retried.pc = "retry" /\ retried.epoch = e.epoch /\ retried.view = e.view
        /\ retried.empty = k
        /\ retried.table = {} /\ retried.mem = {} /\ retried.imm = << >> /\ retried.buf = {}
        /\ retried.putting = {}
    BY <2>2, <2>4 DEF Dbs
  <2>8. e = db[w]
    BY Zenon DEF e
  <2> HIDE DEF fenced, retried
  <2> QED BY <2>1, <2>5, <2>6, <2>7, <2>8, Zenon
<1>7. db' \in [Writer -> Dbs] /\ db'[w] = d /\ \A v \in Writer : v # w => db'[v] = db[v]
  BY <1>1, <1>6 DEF TypeOK
<1>8. /\ DOMAIN wal' = DOMAIN wal \cup {k} /\ k \notin DOMAIN wal /\ wal'[k] = {}
      /\ \A j \in DOMAIN wal : j # k /\ wal'[j] = wal[j]
  BY <1>4, CreatedFile, Zenon
<1>9. /\ PinnedWalsSurvive' /\ GcInv' /\ WalUnbroken'
      /\ \A i : Reached(i) => Reached(i)'
      /\ \A r : Safe(r) => Safe(r)'
      /\ Reached(k)' /\ Reached(manifest.next_wal - 1)'
  BY <1>2, <1>4, <1>5, NewFileKeeps, Zenon
<1>10. TypeOK' /\ AssertionsHold' /\ LogInv'
  <2>1. TypeOK'
    BY <1>1, <1>2, <1>4, <1>7, <1>8, Zenon DEF TypeOK
  <2>2. AssertionsHold'
    BY <1>6, <1>7, Zenon DEF IndInv, AssertionsHold
  <2>3. WalSeqsIncrease'
    BY <1>2, <1>8, Zenon DEF IndInv, LogInv, WalSeqsIncrease
  <2> QED BY <1>9, <2>1, <2>2, <2>3, Zenon DEF LogInv
<1>11. EpochInv'
  <2>1. \A v \in Writer : db'[v].epoch = db[v].epoch
    BY <1>6, <1>7, Zenon
  <2>2. \A v \in Writer : (Fencing(v) \/ Established(v))' => Fencing(v) \/ Established(v)
    BY <1>1, <1>7 DEF Fencing, Established
  <2> QED BY <1>1, <1>2, <2>1, <2>2, Zenon DEF EpochInv
<1>12. OpeningInv'
  <2>1. OpeningOK(w)'
    BY <1>1, <1>2, <1>4, <1>5, <1>6, <1>7, <1>9, Zenon
       DEF OpeningOK, Fencing, Replaying, Running, Superseded
  <2>2. ASSUME NEW v \in Writer, v # w
        PROVE  OpeningOK(v)'
    <3>1. OpeningOK(v) /\ db'[v] = db[v]
      BY <1>7, <2>2 DEF IndInv, OpeningInv
    <3>2. \A i : Reached(i) => Reached(i)'
      BY <1>9
    <3> QED BY <1>2, <3>1, <3>2, Zenon DEF OpeningOK, Fencing, Replaying, Running, Superseded
  <2> QED BY <2>1, <2>2, Zenon DEF OpeningInv
<1>13. FilesInv'
  <2> SUFFICES ASSUME NEW v \in Writer
               PROVE  FilesOK(v)'
    BY Zenon DEF FilesInv
  <2>1. CASE v = w
    BY <1>6, <1>7, <1>9, <2>1, Zenon DEF FilesOK, Established
  <2>2. CASE v # w
    <3>1. FilesOK(v) /\ db'[v] = db[v]
      BY <1>7, <2>2 DEF IndInv, FilesInv
    <3> QED BY <1>2, <1>8, <1>9, <3>1, Zenon DEF FilesOK, Established, Exists
  <2> QED BY <2>1, <2>2
<1>14. FrontierInv'
  <2> SUFFICES ASSUME NEW v \in Writer, Live(v)'
               PROVE  FrontierOK(v)'
    BY Zenon DEF FrontierInv
  <2>1. CASE v = w
    <3>1. /\ d.pc = "confirm" /\ ~ Superseded(w) /\ ~ Superseded(w)'
      BY <1>2, <1>6, <1>7, <2>1, Zenon DEF Live, Replaying, Running, Superseded
    <3>2. k > manifest.replay_after /\ NextId(w)' = k + 1 /\ db'[w].flushed = k
      BY <1>5, <1>6, <1>7, <3>1, Zenon DEF NextId
    <3>3. \A j \in DOMAIN wal : j \in Nat /\ j < k
      BY <1>1, <1>4, <3>2, EndOfLog, WalRows, Zenon
    <3>4. \A j \in DOMAIN wal' : j \in Nat /\ j < k + 1
      BY <1>5, <1>8, <3>3
    <3>5. \A u \in Writer : db'[u].epoch <= db'[w].epoch
      <4>1. \A u \in Writer : db[u].epoch \in Nat /\ db[u].epoch <= manifest.epoch
        BY <1>1, Fields, Zenon DEF EpochInv
      <4>2. manifest.epoch \in Nat /\ ~ (manifest.epoch > db[w].epoch)
        BY <1>1, <3>1, Fields, Zenon DEF Superseded
      <4>3. \A u \in Writer : db[u].epoch <= db[w].epoch
        BY <4>1, <4>2
      <4> QED BY <1>6, <1>7, <4>3, Zenon
    <3>6. \A u \in Writer : db'[u].epoch \in Nat
      BY <1>7, Zenon DEF Dbs
    <3>7. manifest.next_wal <= k + 1
      <4>1. manifest.next_wal \in Nat
        BY <1>1, Fields
      <4>2. Reached(manifest.next_wal - 1)
        BY Zenon DEF IndInv, LogInv
      <4> QED BY <1>5, <3>2, <3>3, <4>1, <4>2 DEF Reached, Exists
    <3>8. ~ Exists(k + 1)'
      BY <1>5, <3>4 DEF Exists
    <3>9. k + 1 > manifest.replay_after
      BY <1>5, <3>2
    <3>10. ~ \E u \in Writer : db'[w].epoch < db'[u].epoch
      BY <3>5, <3>6
    <3>11. \A j \in DOMAIN wal' : ~ (j >= k + 1)
      BY <1>5, <3>4
    <3> QED BY <1>2, <2>1, <3>2, <3>4, <3>5, <3>7, <3>8, <3>9, <3>10, <3>11, Zenon
            DEF FrontierOK, Exists
  <2>2. CASE v # w
    <3>1. db'[v] = db[v] /\ Live(v) /\ FrontierOK(v) /\ (Superseded(v)' <=> Superseded(v))
      BY <1>2, <1>7, <2>2, Zenon DEF IndInv, FrontierInv, Live, Replaying, Running, Superseded
    <3>2. PICK n : n = NextId(v)
      BY Zenon
    <3>3. NextId(v)' = n
      BY <3>1, <3>2, Zenon DEF NextId
    <3>4. n \in Nat /\ Reached(n - 1)
      BY <3>1, <3>2, NextIdReached, Zenon DEF Live, Replaying, Running, Established
    <3>5. n \in DOMAIN wal' => wal'[n] = {}
      BY <1>8, <3>1, <3>2, Zenon DEF FrontierOK, Exists
    <3>6. ASSUME n \notin DOMAIN wal'
          PROVE  /\ n > manifest.replay_after
                 /\ \A j \in DOMAIN wal' : j < n
                 /\ \A u \in Writer : (Established(u))' => db'[u].epoch <= db'[v].epoch
                 /\ \A u \in Writer :
                      db'[u].pc \in {"fence", "retry"} /\ db'[v].epoch < db'[u].epoch
                        => db'[u].empty > manifest.replay_after
      <4>1. ~ Exists(n) /\ n # k /\ n > manifest.replay_after
        BY <1>8, <3>1, <3>2, <3>6, Zenon DEF FrontierOK, Exists
      <4>2. /\ \A j \in DOMAIN wal : j < n
            /\ \A u \in Writer : Established(u) => db[u].epoch <= db[v].epoch
            /\ \A u \in Writer : db[u].pc \in {"fence", "retry"} /\ db[v].epoch < db[u].epoch
                                   => db[u].empty > manifest.replay_after
        BY <3>1, <3>2, <4>1, Zenon DEF FrontierOK
      <4>3. ~ (k > manifest.replay_after)
        BY <1>4, <1>5, <3>4, <4>1, OneFrontier, Zenon
      <4>4. k < n
        BY <1>5, <3>4, <4>1, <4>3
      <4>5. db[w].epoch \in Nat /\ db[v].epoch \in Nat
        BY <1>1, Fields, Zenon
      <4>6. db[w].epoch <= db[v].epoch
        BY <1>1, <1>3, <4>2, <4>3, <4>5
      <4>7. \A u \in Writer : (Established(u))' => db'[u].epoch <= db'[v].epoch
        BY <1>6, <1>7, <3>1, <4>2, <4>6, Zenon DEF Established
      <4>8. \A u \in Writer :
              db'[u].pc \in {"fence", "retry"} /\ db'[v].epoch < db'[u].epoch
                => db'[u].empty > manifest.replay_after
        BY <1>6, <1>7, <3>1, <4>2, <4>5, <4>6
      <4> QED BY <1>8, <4>1, <4>2, <4>4, <4>7, <4>8, Zenon
    <3>7. ~ Superseded(v)' =>
             /\ n > manifest.replay_after
             /\ manifest.next_wal <= db'[v].flushed + 1
             /\ \A j \in DOMAIN wal' : j >= n => wal'[j] = {}
      BY <1>8, <3>1, <3>2, Zenon DEF FrontierOK
    <3> QED BY <1>2, <3>3, <3>5, <3>6, <3>7, Zenon DEF FrontierOK, Exists
  <2> QED BY <2>1, <2>2, Zenon
<1>15. DataInv'
  <2> SUFFICES ASSUME NEW v \in Writer, Current(v)'
               PROVE  DataOK(db[v])'
    BY Zenon DEF DataInv
  <2>1. v # w
    BY <1>6, <1>7, Zenon DEF Current, Replaying, Running
  <2>2. Current(v)
    BY <1>2, <1>7, <1>8, <2>1, Zenon DEF Current, Replaying, Running, NextId, Exists, Superseded
  <2>3. PICK x : x = db[v]
    OBVIOUS
  <2>4. DataOK(x)
    BY <2>2, <2>3, Zenon DEF IndInv, DataInv
  <2>5. DataOK(x)'
    BY <1>2, <1>8, <2>4, DataKept, Zenon
  <2> QED BY <1>7, <2>1, <2>3, <2>5, Zenon
<1>16. RowsInv'
  BY <1>2, <1>6, <1>7, <1>9, Zenon DEF IndInv, RowsInv
<1> QED BY <1>9, <1>10, <1>11, <1>12, <1>13, <1>14, <1>15, <1>16, Zenon DEF IndInv

-----------------------------------------------------------------------------
(***************************************************************************)
(* The flush of a memtable to L0                                           *)
(***************************************************************************)
\* The first element and the rest of a sequence
LEMMA HeadAndTail ==
  ASSUME NEW S, NEW s \in Seq(S), s # << >>
  PROVE  /\ 1 \in DOMAIN s /\ Head(s) = s[1] /\ Tail(s) \in Seq(S)
         /\ \A k \in DOMAIN Tail(s) : /\ k \in Nat /\ k >= 1 /\ k + 1 \in DOMAIN s
                                      /\ Tail(s)[k] = s[k + 1]
         /\ \A k \in DOMAIN s : k \in Nat /\ k >= 1 /\ (k = 1 \/ k - 1 \in DOMAIN Tail(s))
<1>1. DOMAIN s = 1 .. Len(s) /\ Len(s) \in Nat /\ Len(s) >= 1
  OBVIOUS
<1>2. Tail(s) \in Seq(S) /\ DOMAIN Tail(s) = 1 .. Len(s) - 1
      /\ \A k \in 1 .. Len(s) - 1 : Tail(s)[k] = s[k + 1]
  BY <1>1
<1>3. Head(s) = s[1]
  OBVIOUS
<1> QED BY <1>1, <1>2, <1>3

\* The manifest a writer wants to write is legal: the oldest memtable is newer
\* than L0, and next_wal_sst_id does not move back.
LEMMA FlushLegal ==
  ASSUME SeqsHaveMax, IndInv, NEW w \in Writer, NEW e, e = db[w], FlushL0(w)
  PROVE  /\ e \in Dbs /\ e.pc \in {"replay", "running"} /\ ~ Superseded(w)
         /\ Live(w) /\ Current(w) /\ FrontierOK(w) /\ Established(w)
         /\ TablesOK(e) /\ StampsOK(e)
         /\ e.pc = "replay" => ReplayOK(e)
         /\ e.pc = "running" => RunningOK(e)
         /\ e.imm \in Seq(Memtables) /\ e.imm # << >> /\ 1 \in DOMAIN e.imm
         /\ MaxSeqOf(e.imm[1].rows) \in 0 .. MaxSeq
         /\ MaxSeqOf(e.imm[1].rows) > manifest.l0_seq
         /\ MaxSeqOf(e.imm[1].rows) <= e.durable
         /\ manifest' = [manifest EXCEPT !.replay_after = e.imm[1].wal,
                                         !.next_wal = e.flushed + 1,
                                         !.l0_seq = MaxSeqOf(e.imm[1].rows),
                                         !.l0 = manifest.l0 \cup e.imm[1].rows]
         /\ db' = [db EXCEPT ![w] = [e EXCEPT !.imm = Tail(e.imm)]]
         /\ UNCHANGED <<setup, pins, wal, gcphase, keep, doomed, acked>>
<1>1. TypeOK /\ e \in Dbs /\ e.pc \in {"replay", "running"} /\ ~ Superseded(w)
  BY Fields, Zenon DEF IndInv, FlushL0
<1>2. Live(w) /\ Current(w) /\ Established(w)
  BY <1>1 DEF Live, Current, Replaying, Running, Established
<1>3. FrontierOK(w) /\ DataOK(e)
  BY <1>2 DEF IndInv, FrontierInv, DataInv
<1>4. e.imm \in Seq(Memtables) /\ e.imm # << >>
  BY <1>1, DbNumbers, Zenon DEF FlushL0
<1>5. 1 \in DOMAIN e.imm /\ Head(e.imm) = e.imm[1]
  BY <1>4, HeadAndTail, Zenon
<1>6. /\ e.imm[1].rows # {} /\ e.imm[1].rows \subseteq Rows
      /\ \A r \in e.imm[1].rows : manifest.l0_seq < r.seq
  BY <1>1, <1>3, <1>5, DbNumbers, Zenon DEF DataOK, TablesOK
<1>7. /\ MaxSeqOf(e.imm[1].rows) \in 0 .. MaxSeq
      /\ MaxSeqOf(e.imm[1].rows) > manifest.l0_seq
  BY <1>1, <1>6, WalRows, Zenon DEF SeqsHaveMax
<1>8. e.flushed + 1 >= manifest.next_wal
  <2>1. manifest.next_wal <= e.flushed + 1
    BY <1>1, <1>3, Zenon DEF FrontierOK
  <2>2. manifest.next_wal \in Nat /\ e.flushed \in Nat
    BY <1>1, Fields
  <2> QED BY <2>1, <2>2
<1>9. MaxSeqOf(Head(e.imm).rows) <= e.durable
  BY Zenon DEF FlushL0
<1>10. /\ manifest' = [manifest EXCEPT !.replay_after = e.imm[1].wal,
                                       !.next_wal = e.flushed + 1,
                                       !.l0_seq = MaxSeqOf(e.imm[1].rows),
                                       !.l0 = manifest.l0 \cup e.imm[1].rows]
       /\ db' = [db EXCEPT ![w].imm = Tail(db[w].imm)]
  BY <1>5, <1>7, <1>8 DEF FlushL0
<1>11. UNCHANGED <<setup, pins, wal, gcphase, keep, doomed, acked>>
  BY Zenon DEF FlushL0
<1> QED BY <1>1, <1>2, <1>3, <1>4, <1>5, <1>7, <1>9, <1>10, <1>11, Zenon DEF DataOK

\* t is s without its first element, by index.
PoppedFrom(t, s) ==
  /\ 1 \in DOMAIN s
  /\ \A k \in DOMAIN t : k \in Nat /\ k >= 1 /\ k + 1 \in DOMAIN s /\ t[k] = s[k + 1]
  /\ \A k \in DOMAIN s : k \in Nat /\ k >= 1 /\ (k = 1 \/ k - 1 \in DOMAIN t)

\* The types FlushedData needs: R, L are the replay position and l0_last_seq
\* before the flush, R1, L1 after it.
FlushNumbers(e, R, L, R1, L1) ==
  /\ R \in Nat /\ L \in Nat /\ R1 \in Nat /\ L1 \in Nat /\ e.durable \in Nat
  /\ e.last_seq \in Nat /\ e.flushed \in Nat /\ e.memwal \in Nat /\ e.view.l0_seq \in Nat
  /\ e.cursor \in Nat /\ e.pc \in {"replay", "running"}
  /\ \A r \in Rows : r.seq \in Nat
  /\ \A k \in DOMAIN e.imm : e.imm[k].rows \subseteq Rows /\ e.imm[k].wal \in Nat
  /\ e.mem \subseteq Rows /\ e.table \subseteq Rows /\ e.buf \subseteq Rows
  /\ \A i \in DOMAIN wal : i \in Nat /\ wal[i] \subseteq Rows

\* The rows of the flushed memtable end at L1.
FlushedTop(rows, L1) ==
  /\ \A r \in rows : r.seq <= L1
  /\ \E r \in rows : r.seq = L1

\* Only the immutable memtables of a process change.
SameButImm(d, e) ==
  /\ d.pc = e.pc /\ d.mem = e.mem /\ d.memwal = e.memwal /\ d.cursor = e.cursor
  /\ d.empty = e.empty /\ d.table = e.table /\ d.view = e.view /\ d.buf = e.buf
  /\ d.putting = e.putting /\ d.flushed = e.flushed /\ d.last_seq = e.last_seq
  /\ d.durable = e.durable

\* L0 gains the rows of memtable t, all of them durable, and replay starts after
\* the file t is stamped with.
L0Gains(t, durable) ==
  /\ manifest'.replay_after = t.wal
  /\ manifest'.l0 = manifest.l0 \cup t.rows
  /\ manifest'.l0_seq <= durable
  /\ wal' = wal

\* The memtables that are left fit the manifest with the flushed one in L0, and
\* no row that only the log had is skipped by the new replay position.
LEMMA FlushedData ==
  ASSUME NEW e, NEW d, PoppedFrom(d.imm, e.imm), SameButImm(d, e), DataOK(e),
         FlushNumbers(e, manifest.replay_after, manifest.l0_seq,
                      manifest'.replay_after, manifest'.l0_seq),
         FlushedTop(e.imm[1].rows, manifest'.l0_seq), L0Gains(e.imm[1], e.durable)
  PROVE  DataOK(d)' /\ \A r : Safe(r) => Safe(r)'
<1>1. PICK R, L, R1, L1 : /\ R = manifest.replay_after /\ L = manifest.l0_seq
                          /\ R1 = manifest'.replay_after /\ L1 = manifest'.l0_seq
  OBVIOUS
<1>2. /\ 1 \in DOMAIN e.imm
      /\ \A k \in DOMAIN d.imm : k \in Nat /\ k >= 1 /\ k + 1 \in DOMAIN e.imm
                                 /\ d.imm[k] = e.imm[k + 1]
      /\ \A k \in DOMAIN e.imm : k \in Nat /\ k >= 1 /\ (k = 1 \/ k - 1 \in DOMAIN d.imm)
  BY Zenon DEF PoppedFrom
<1>3. /\ R \in Nat /\ L \in Nat /\ R1 \in Nat /\ L1 \in Nat /\ e.durable \in Nat
      /\ e.last_seq \in Nat /\ e.flushed \in Nat /\ e.memwal \in Nat /\ e.view.l0_seq \in Nat
      /\ e.cursor \in Nat /\ e.pc \in {"replay", "running"}
  BY <1>1, Zenon DEF FlushNumbers
<1>4. /\ \A k \in DOMAIN e.imm : \A r \in e.imm[k].rows : r.seq \in Nat
      /\ \A r \in e.mem : r.seq \in Nat
      /\ \A r \in e.buf : r.seq \in Nat
      /\ \A i \in DOMAIN wal : i \in Nat /\ \A r \in wal[i] : r.seq \in Nat
  BY Zenon DEF FlushNumbers
<1>5. /\ wal' = wal /\ R1 = e.imm[1].wal /\ L1 <= e.durable
      /\ manifest'.l0 = manifest.l0 \cup e.imm[1].rows
  BY <1>1, Zenon DEF L0Gains
<1>6. \A r \in e.imm[1].rows : r.seq <= L1
  BY <1>1, Zenon DEF FlushedTop
<1>7. PICK top \in e.imm[1].rows : top.seq = L1
  BY <1>1, Zenon DEF FlushedTop
<1>8. /\ e.durable <= e.last_seq
      /\ \A r \in e.mem : r.seq <= e.last_seq
      /\ \A k \in DOMAIN e.imm : /\ e.imm[k].rows # {}
                                 /\ R <= e.imm[k].wal
                                 /\ \A r \in e.imm[k].rows : L < r.seq /\ r.seq <= e.last_seq
  BY <1>1, Zenon DEF DataOK, TablesOK
<1>9. \A k \in DOMAIN e.imm : \A r \in e.imm[k].rows, q \in e.mem : r.seq < q.seq
  BY Zenon DEF DataOK, TablesOK
<1>10. \A k, l \in DOMAIN e.imm : k < l =>
         /\ e.imm[k].wal <= e.imm[l].wal
         /\ \A r \in e.imm[k].rows, q \in e.imm[l].rows : r.seq < q.seq
  BY Zenon DEF DataOK, TablesOK
<1>11. R <= R1 /\ L < L1
  BY <1>2, <1>5, <1>7, <1>8, Zenon
<1>12. ASSUME NEW k \in DOMAIN e.imm, k # 1
       PROVE  /\ k \in Nat /\ k - 1 \in DOMAIN d.imm /\ d.imm[k - 1] = e.imm[k] /\ 1 < k
              /\ \A r \in e.imm[k].rows : L1 < r.seq
  <2>1. k \in Nat /\ k >= 1 /\ k - 1 \in DOMAIN d.imm
    BY <1>2, <1>12, Zenon
  <2>2. k - 1 + 1 = k /\ 1 < k
    BY <1>12, <2>1
  <2>3. d.imm[k - 1] = e.imm[k]
    BY <1>2, <2>1, <2>2, Zenon
  <2> QED BY <1>2, <1>7, <1>10, <2>1, <2>2, <2>3, Zenon
<1>13. \A r \in e.mem : L1 < r.seq
  BY <1>2, <1>7, <1>9, Zenon
<1>14. d.mem = e.mem
  BY Zenon DEF SameButImm
<1>15. ASSUME NEW r, r \in Held(e)
       PROVE  /\ r \in Held(d) \/ r \in e.imm[1].rows
              /\ r.seq <= L1 => r \in e.imm[1].rows
  <2>1. CASE r \in e.mem
    <3>1. r \in Held(d)
      BY <1>14, <2>1 DEF Held
    <3>2. L1 < r.seq /\ r.seq \in Nat
      BY <1>4, <1>13, <2>1, Zenon
    <3>3. L1 \in Nat
      BY <1>3, Zenon
    <3>4. ~ (r.seq <= L1)
      BY <3>2, <3>3
    <3> QED BY <3>1, <3>4, Zenon
  <2>2. ASSUME NEW k \in DOMAIN e.imm, r \in e.imm[k].rows, k # 1
        PROVE  r \in Held(d) /\ ~ (r.seq <= L1)
    <3>1. k - 1 \in DOMAIN d.imm /\ d.imm[k - 1] = e.imm[k] /\ L1 < r.seq /\ r.seq \in Nat
      BY <1>4, <1>12, <2>2, Zenon
    <3>2. r \in Held(d)
      BY <2>2, <3>1, Zenon DEF Held
    <3>3. L1 < r.seq /\ r.seq \in Nat /\ L1 \in Nat
      BY <1>3, <3>1, Zenon
    <3>4. ~ (r.seq <= L1)
      BY <3>3
    <3> QED BY <3>2, <3>4, Zenon
  <2>3. PICK k \in DOMAIN e.imm : r \in e.mem \/ r \in e.imm[k].rows
    BY <1>2, <1>15, Zenon DEF Held
  <2> QED BY <2>1, <2>2, <2>3, Zenon
<1>16. ASSUME NEW r, r \in Held(e), r.seq > L1
       PROVE  r \in Held(d)
  <2>1. r \in e.imm[1].rows => r.seq \in Nat /\ r.seq <= L1
    BY <1>2, <1>4, <1>6, Zenon
  <2>2. r \notin e.imm[1].rows
    <3>1. L1 \in Nat /\ r.seq > L1
      BY <1>3, <1>16, Zenon
    <3>2. ~ (r.seq \in Nat /\ r.seq <= L1)
      BY <3>1
    <3> QED BY <2>1, <3>2, Zenon
  <2> QED BY <1>15, <1>16, <2>2, Zenon
<1>17. TablesOK(d)'
  <2>1. /\ d.pc = e.pc /\ d.flushed = e.flushed /\ d.memwal = e.memwal
        /\ d.last_seq = e.last_seq /\ d.durable = e.durable
    BY Zenon DEF SameButImm
  <2>2. ASSUME NEW k \in DOMAIN d.imm
        PROVE  /\ k + 1 \in DOMAIN e.imm /\ d.imm[k] = e.imm[k + 1] /\ 1 < k + 1
               /\ k \in Nat /\ k + 1 # 1
    <3>1. k \in Nat /\ k >= 1 /\ k + 1 \in DOMAIN e.imm /\ d.imm[k] = e.imm[k + 1]
      BY <1>2, Zenon
    <3> QED BY <3>1
  <2>3. ASSUME NEW k \in DOMAIN d.imm
        PROVE  /\ d.imm[k].rows # {} /\ R1 <= d.imm[k].wal
               /\ \A r \in d.imm[k].rows : /\ L1 < r.seq /\ r.seq <= e.last_seq
                                           /\ \A q \in e.mem : r.seq < q.seq
    <3>1. R1 <= e.imm[k + 1].wal
      BY <1>2, <1>5, <1>10, <2>2, Zenon
    <3>2. \A r \in e.imm[k + 1].rows : L1 < r.seq
      BY <1>12, <2>2, Zenon
    <3> QED BY <1>8, <1>9, <2>2, <3>1, <3>2, Zenon
  <2>4. ASSUME NEW k \in DOMAIN d.imm
        PROVE  d.imm[k].wal <= (IF e.pc = "running" THEN e.flushed ELSE e.memwal)
    <3>1. \A l \in DOMAIN e.imm :
            e.imm[l].wal <= (IF e.pc = "running" THEN e.flushed ELSE e.memwal)
      BY Zenon DEF DataOK, TablesOK
    <3> QED BY <2>2, <3>1, Zenon
  <2>5. ASSUME NEW k \in DOMAIN d.imm, NEW l \in DOMAIN d.imm, k < l
        PROVE  /\ d.imm[k].wal <= d.imm[l].wal
               /\ \A r \in d.imm[k].rows, q \in d.imm[l].rows : r.seq < q.seq
    <3>1. k + 1 < l + 1
      BY <2>2, <2>5
    <3> QED BY <1>10, <2>2, <3>1, Zenon
  <2>6. /\ L1 <= e.durable /\ e.durable <= e.last_seq
        /\ \A r \in e.mem : L1 < r.seq /\ r.seq <= e.last_seq
    BY <1>5, <1>8, <1>13, Zenon
  <2> QED BY <1>1, <1>14, <2>1, <2>3, <2>4, <2>5, <2>6 DEF TablesOK
<1>18. StampsOK(d)'
  <2> SUFFICES ASSUME NEW k \in DOMAIN d.imm, NEW i \in DOMAIN wal, R1 < i,
                      i <= d.imm[k].wal, NEW r \in wal[i], r.seq > L1
               PROVE  \E l \in DOMAIN d.imm : l <= k /\ r \in d.imm[l].rows
    BY <1>1, <1>5 DEF StampsOK
  <2>1. k \in Nat /\ k + 1 \in DOMAIN e.imm /\ d.imm[k] = e.imm[k + 1]
    BY <1>2, Zenon
  <2>2. i \in Nat /\ r.seq \in Nat
    BY <1>4, Zenon
  <2>3. R < i /\ r.seq > L
    BY <1>3, <1>11, <2>2
  <2>4. PICK l \in DOMAIN e.imm : l <= k + 1 /\ r \in e.imm[l].rows
    BY <1>1, <2>1, <2>3, Zenon DEF DataOK, StampsOK
  <2>5. ~ (r.seq <= L1)
    BY <1>3, <2>2
  <2>6. l # 1
    BY <1>6, <2>4, <2>5, Zenon
  <2>7. l \in Nat /\ l - 1 \in DOMAIN d.imm /\ d.imm[l - 1] = e.imm[l]
    BY <1>12, <2>6, Zenon
  <2>8. l - 1 <= k
    BY <2>1, <2>4, <2>7
  <2> QED BY <2>4, <2>7, <2>8, Zenon
<1>19. \A x : Held(x)' = Held(x)
  BY Zenon DEF Held
<1>20. ASSUME NEW i \in DOMAIN wal, R1 < i
       PROVE  R < i
  BY <1>3, <1>4, <1>11, <1>20
<1>21. ASSUME NEW i \in DOMAIN wal, NEW r \in wal[i], r.seq > L1
       PROVE  r.seq > L
  BY <1>3, <1>4, <1>11, <1>21
<1>22. ASSUME d.pc = "replay" PROVE ReplayOK(d)'
  <2>1. /\ d.memwal = e.memwal /\ d.cursor = e.cursor /\ d.empty = e.empty
        /\ d.table = e.table /\ d.view = e.view /\ d.buf = e.buf
        /\ d.last_seq = e.last_seq /\ d.durable = e.durable /\ d.pc = e.pc
    BY Zenon DEF SameButImm
  <2>2. ReplayOK(e)
    BY <1>22, <2>1, Zenon DEF DataOK
  <2>3. R1 <= e.memwal /\ e.view.l0_seq <= L1
    <3>1. e.imm[1].wal <= (IF e.pc = "running" THEN e.flushed ELSE e.memwal)
      BY <1>2, Zenon DEF DataOK, TablesOK
    <3>2. e.view.l0_seq <= L
      BY <1>1, <2>2, Zenon DEF ReplayOK
    <3> QED BY <1>3, <1>5, <1>11, <1>22, <2>1, <3>1, <3>2
  <2>4. ASSUME NEW i \in DOMAIN wal, R1 < i, NEW r \in wal[i]
        PROVE  /\ i <= e.memwal => /\ r.seq <= e.last_seq
                                   /\ r.seq > L1 => r \in Held(d)
               /\ e.memwal < i /\ i < e.cursor => r.seq <= e.view.l0_seq \/ r \in e.table
               /\ e.cursor <= i /\ r.seq > e.view.l0_seq =>
                    /\ e.last_seq < r.seq
                    /\ \A q \in e.table : q.seq < r.seq
    BY <1>1, <1>16, <1>20, <1>21, <2>2, <2>4, Zenon DEF ReplayOK
  <2>5. /\ e.memwal < e.cursor /\ e.cursor <= e.empty + 1 /\ e.durable = e.last_seq
        /\ e.memwal = e.cursor - 1 => e.table = {}
        /\ \A r \in e.table : e.last_seq < r.seq
        /\ e.buf = {}
    BY <2>2, Zenon DEF ReplayOK
  <2> QED BY <1>1, <1>5, <1>19, <2>1, <2>3, <2>4, <2>5, Zenon DEF ReplayOK
<1>23. ASSUME d.pc = "running" PROVE RunningOK(d)'
  <2>1. /\ d.flushed = e.flushed /\ d.buf = e.buf /\ d.putting = e.putting
        /\ d.last_seq = e.last_seq /\ d.durable = e.durable /\ d.pc = e.pc
    BY Zenon DEF SameButImm
  <2>2. RunningOK(e)
    BY <1>23, <2>1, Zenon DEF DataOK
  <2>3. R1 <= e.flushed
    <3>1. e.imm[1].wal <= (IF e.pc = "running" THEN e.flushed ELSE e.memwal)
      BY <1>2, Zenon DEF DataOK, TablesOK
    <3> QED BY <1>5, <1>23, <2>1, <3>1, Zenon
  <2>4. ASSUME NEW r \in e.buf
        PROVE  e.durable < r.seq /\ r.seq <= e.last_seq /\ r \in Held(d)
    <3>1. e.durable < r.seq /\ r.seq <= e.last_seq /\ r \in Held(e) /\ r.seq \in Nat
      BY <1>4, <2>2, Zenon DEF RunningOK
    <3>2. r.seq > L1
      BY <1>3, <1>5, <3>1
    <3> QED BY <1>16, <3>1, <3>2, Zenon
  <2>5. ASSUME NEW i \in DOMAIN wal, R1 < i, NEW r \in wal[i]
        PROVE  /\ i <= e.flushed => r.seq <= e.durable
               /\ r.seq > L1 => r \in Held(d)
    BY <1>1, <1>16, <1>20, <1>21, <2>2, <2>5, Zenon DEF RunningOK
  <2>6. /\ e.putting \subseteq e.buf
        /\ \A r \in e.putting, q \in e.buf \ e.putting : r.seq < q.seq
    BY <2>2, Zenon DEF RunningOK
  <2> QED BY <1>1, <1>5, <1>19, <2>1, <2>3, <2>4, <2>5, <2>6, Zenon DEF RunningOK
<1>24. ASSUME NEW r, Safe(r)
       PROVE  Safe(r)'
  <2>1. r \in manifest.l0 \/ r \in e.imm[1].rows => Safe(r)'
    BY <1>5, Zenon DEF Safe
  <2>2. ASSUME NEW i \in DOMAIN wal, R < i, r \in wal[i], r.seq > L
        PROVE  Safe(r)'
    <3>1. i \in Nat /\ r.seq \in Nat
      BY <1>4, <2>2, Zenon
    <3>2. CASE i <= R1
      <4>1. PICK l \in DOMAIN e.imm : l <= 1 /\ r \in e.imm[l].rows
        BY <1>1, <1>2, <1>5, <2>2, <3>2, Zenon DEF DataOK, StampsOK
      <4>2. l \in Nat /\ l >= 1
        BY <1>2, Zenon
      <4>3. l = 1
        BY <4>1, <4>2
      <4> QED BY <2>1, <4>1, <4>3, Zenon
    <3>3. CASE i > R1 /\ r.seq > L1
      <4>1. R1 < i
        BY <3>3, Zenon
      <4> QED BY <1>1, <1>5, <2>2, <3>3, <4>1, Zenon DEF Safe
    <3>4. CASE r.seq <= L1
      <4>1. r.seq <= e.last_seq /\ ~ (e.last_seq < r.seq)
        BY <1>3, <1>5, <1>8, <3>1, <3>4
      <4>2. CASE e.pc = "running"
        <5>1. r \in Held(e)
          BY <1>1, <2>2, <4>2, Zenon DEF DataOK, RunningOK
        <5> QED BY <1>15, <2>1, <3>4, <5>1, Zenon
      <4>3. CASE e.pc = "replay"
        <5>1. /\ i <= e.memwal => r \in Held(e)
              /\ e.memwal < i /\ i < e.cursor => r.seq <= e.view.l0_seq \/ r \in e.table
              /\ e.cursor <= i /\ r.seq > e.view.l0_seq => e.last_seq < r.seq
              /\ r \in e.table => e.last_seq < r.seq
              /\ e.view.l0_seq <= L
          BY <1>1, <2>2, <4>3, Zenon DEF DataOK, ReplayOK
        <5>2. r \in Held(e)
          BY <1>3, <2>2, <3>1, <4>1, <5>1
        <5> QED BY <1>15, <2>1, <3>4, <5>2, Zenon
      <4> QED BY <1>3, <4>2, <4>3, Zenon
    <3> QED BY <1>3, <3>1, <3>2, <3>3, <3>4
  <2> QED BY <1>1, <1>24, <2>1, <2>2, Zenon DEF Safe
<1> QED BY <1>17, <1>18, <1>22, <1>23, <1>24, Zenon DEF DataOK

\* The flush leaves the current writer's next id after the replay position, and
\* all others are superseded and have met their fence.
LEMMA FlushL0OK ==
  ASSUME SeqsHaveMax, IndInv, NEW w \in Writer, FlushL0(w)
  PROVE  IndInv'
<1>1. PICK e : e = db[w]
  OBVIOUS
<1> DEFINE t == e.imm[1]
           seq == MaxSeqOf(t.rows)
           d == [e EXCEPT !.imm = Tail(e.imm)]
<1>2. TypeOK /\ EpochInv /\ FilesOK(w)
  BY DEF IndInv, FilesInv
<1>3. /\ e \in Dbs /\ e.pc \in {"replay", "running"} /\ ~ Superseded(w)
      /\ Live(w) /\ Current(w) /\ FrontierOK(w) /\ Established(w)
      /\ TablesOK(e) /\ StampsOK(e)
      /\ e.pc = "replay" => ReplayOK(e)
      /\ e.pc = "running" => RunningOK(e)
      /\ e.imm \in Seq(Memtables) /\ e.imm # << >> /\ 1 \in DOMAIN e.imm
      /\ seq \in 0 .. MaxSeq /\ seq > manifest.l0_seq /\ seq <= e.durable
      /\ manifest' = [manifest EXCEPT !.replay_after = t.wal, !.next_wal = e.flushed + 1,
                                      !.l0_seq = seq, !.l0 = manifest.l0 \cup t.rows]
      /\ db' = [db EXCEPT ![w] = d]
      /\ UNCHANGED <<setup, pins, wal, gcphase, keep, doomed, acked>>
  BY <1>1, FlushLegal, Zenon
<1>4. /\ t.wal \in 0 .. MaxWal /\ t.wal \in Nat /\ t.rows \subseteq Rows
      /\ e.flushed \in Nat /\ e.flushed + 1 \in 1 .. MaxWal + 1
      /\ manifest \in Manifests /\ manifest.l0 \subseteq Rows
      /\ manifest.replay_after \in Nat /\ manifest.epoch \in Nat
  <2>1. t \in Memtables
    BY <1>3
  <2>2. e.flushed \in 0 .. MaxWal /\ MaxWal \in Nat /\ manifest \in Manifests
    BY <1>1, <1>2, Fields, Zenon
  <2>3. t.wal \in 0 .. MaxWal /\ t.rows \subseteq Rows
    BY <2>1 DEF Memtables
  <2>4. manifest.l0 \subseteq Rows /\ manifest.epoch \in Nat
    BY <2>2 DEF Manifests
  <2> QED BY <1>2, <2>2, <2>3, <2>4, WalRows
<1>5. /\ manifest' \in Manifests /\ manifest'.epoch = manifest.epoch
      /\ manifest'.replay_after = t.wal /\ manifest'.next_wal = e.flushed + 1
      /\ manifest'.l0_seq = seq /\ manifest'.l0 = manifest.l0 \cup t.rows
  <2> HIDE DEF seq, t
  <2>1. manifest.l0 \cup t.rows \in SUBSET Rows
    BY <1>4
  <2> QED BY <1>3, <1>4, <2>1, Zenon DEF Manifests
<1>6. d \in Dbs
  <2>1. Tail(e.imm) \in Seq(Memtables)
    BY <1>3, HeadAndTail
  <2> QED BY <1>3, <2>1, Zenon DEF Dbs
<1>7. /\ d.imm = Tail(e.imm) /\ d.pc = e.pc /\ d.mem = e.mem /\ d.memwal = e.memwal
      /\ d.cursor = e.cursor /\ d.empty = e.empty /\ d.table = e.table /\ d.view = e.view
      /\ d.buf = e.buf /\ d.putting = e.putting /\ d.flushed = e.flushed
      /\ d.last_seq = e.last_seq /\ d.durable = e.durable /\ d.epoch = e.epoch
  BY <1>3 DEF Dbs
<1> HIDE DEF d
<1>8. db' \in [Writer -> Dbs] /\ db'[w] = d /\ \A v \in Writer : v # w => db'[v] = db[v]
  BY <1>2, <1>3, <1>6 DEF TypeOK
<1>9. DataOK(d)' /\ \A r : Safe(r) => Safe(r)'
  <2>1. manifest'.l0_seq <= e.durable
    BY <1>3, <1>5
  <2>2. PoppedFrom(d.imm, e.imm)
    BY <1>3, <1>7, HeadAndTail DEF PoppedFrom
  <2>3. FlushNumbers(e, manifest.replay_after, manifest.l0_seq,
                     manifest'.replay_after, manifest'.l0_seq)
    <3>1. manifest'.replay_after \in Nat /\ manifest'.l0_seq \in Nat
      BY <1>3, <1>4, <1>5
    <3> QED BY <1>2, <1>3, <3>1, WalRows, DbNumbers, Zenon DEF FlushNumbers
  <2>4. FlushedTop(t.rows, manifest'.l0_seq)
    <3>1. t.rows # {}
      BY <1>3, Zenon DEF TablesOK
    <3>2. /\ \A r \in t.rows : r.seq <= MaxSeqOf(t.rows)
          /\ \E r \in t.rows : r.seq = MaxSeqOf(t.rows)
      BY <1>4, <3>1, Zenon DEF SeqsHaveMax
    <3> QED BY <1>5, <3>2, Zenon DEF FlushedTop
  <2>5. SameButImm(d, e)
    BY <1>7 DEF SameButImm
  <2>6. L0Gains(t, e.durable)
    BY <1>3, <1>5, <2>1 DEF L0Gains
  <2>7. DataOK(e)
    BY <1>3 DEF DataOK
  <2> QED BY <2>2, <2>3, <2>4, <2>5, <2>6, <2>7, FlushedData, Zenon
<1>10. manifest.replay_after <= t.wal /\ t.wal <= e.flushed
  <2>1. /\ manifest.replay_after <= t.wal
        /\ t.wal <= (IF e.pc = "running" THEN e.flushed ELSE e.memwal)
    BY <1>3 DEF TablesOK
  <2>2. CASE e.pc = "running"
    BY <2>1, <2>2, Zenon
  <2>3. CASE e.pc = "replay"
    <3>1. e.memwal < e.cursor /\ e.cursor <= e.empty + 1 /\ e.flushed = e.empty
      BY <1>1, <1>2, <1>3, <2>3, Zenon DEF ReplayOK, FilesOK
    <3>2. e.memwal \in Nat /\ e.cursor \in Nat /\ e.empty \in Nat
      BY <1>3, DbNumbers, Zenon
    <3> QED BY <1>4, <2>1, <2>3, <3>1, <3>2
  <2> QED BY <1>3, <2>2, <2>3, Zenon
<1> HIDE DEF t, seq
<1>11. \A v \in Writer : /\ db[v].epoch \in Nat /\ db[v].epoch <= db[w].epoch
                         /\ v # w /\ db[v].epoch > 0 => Superseded(v)
  <2>1. \A v \in Writer : db[v].epoch \in Nat /\ db[v].epoch <= manifest.epoch
    BY <1>2, Fields DEF EpochInv
  <2>2. db[w].epoch = manifest.epoch
    <3>1. ~ (db[w].epoch < manifest.epoch) /\ manifest.epoch \in Nat
      BY <1>3, <1>4, Zenon DEF Superseded
    <3> QED BY <2>1, <3>1
  <2>3. \A v \in Writer : v # w /\ db[v].epoch > 0 => db[v].epoch # db[w].epoch
    BY <1>2, Zenon DEF EpochInv
  <2>4. manifest.epoch \in Nat
    BY <1>4, Zenon
  <2>5. ASSUME NEW v \in Writer, db[v].epoch # db[w].epoch PROVE db[v].epoch < manifest.epoch
    BY <2>1, <2>2, <2>4, <2>5
  <2> QED BY <2>1, <2>2, <2>3, <2>5, Zenon DEF Superseded
<1>12. \A v \in Writer : Superseded(v)' <=> Superseded(v)
  BY <1>1, <1>5, <1>7, <1>8, Zenon DEF Superseded
<1>13. \A i \in Int : Reached(i) => Reached(i)'
  BY <1>3, <1>4, <1>5, <1>10 DEF Reached, Exists
<1>14. TypeOK' /\ AssertionsHold' /\ PinnedWalsSurvive'
  <2>1. TypeOK'
    BY <1>2, <1>3, <1>5, <1>8, Zenon DEF TypeOK
  <2>2. AssertionsHold'
    BY <1>3, <1>7, <1>8 DEF IndInv, AssertionsHold
  <2>3. PinnedWalsSurvive'
    BY <1>3 DEF IndInv, PinnedWalsSurvive, Exists
  <2> QED BY <2>1, <2>2, <2>3, Zenon
<1>15. GcInv'
  <2>1. \A i \in WalIds : ~ Spared(i) => ~ Spared(i)'
    <3>1. \A i \in WalIds : i \in Nat
      BY BoundsAssumption DEF WalIds
    <3> QED BY <1>3, <1>4, <1>5, <1>10, <3>1 DEF Spared
  <2>2. doomed \subseteq WalIds
    BY <1>2 DEF TypeOK
  <2> QED BY <1>3, <2>1, <2>2 DEF IndInv, GcInv, Exists
<1>16. LogInv'
  <2>1. WalUnbroken'
    <3>1. \A i \in WalIds : i \in Nat
      BY BoundsAssumption DEF WalIds
    <3>2. \A i \in WalIds : t.wal < i => manifest.replay_after < i
      BY <1>4, <1>10, <3>1
    <3> QED BY <1>3, <1>5, <3>2, Zenon DEF IndInv, LogInv, WalUnbroken, Exists
  <2>2. WalSeqsIncrease'
    <3>1. \A i \in DOMAIN wal : i \in Nat
      BY <1>2, WalRows, Zenon
    <3>2. \A i \in DOMAIN wal : t.wal < i => manifest.replay_after < i
      BY <1>4, <1>10, <3>1
    <3> QED BY <1>3, <1>5, <3>2, Zenon DEF IndInv, LogInv, WalSeqsIncrease
  <2>3. Reached(manifest.next_wal - 1)'
    <3>1. Reached(e.flushed)
      BY <1>1, <1>2, <1>3, Zenon DEF FilesOK
    <3>2. manifest'.next_wal - 1 = e.flushed
      BY <1>4, <1>5
    <3>3. Reached(e.flushed)'
      <4>1. e.flushed \in Int
        BY <1>4
      <4> QED BY <1>13, <3>1, <4>1, Zenon
    <3> QED BY <3>2, <3>3
  <2> QED BY <2>1, <2>2, <2>3 DEF LogInv
<1>17. EpochInv'
  <2>1. \A v \in Writer : db'[v].epoch = db[v].epoch /\ db'[v].pc = db[v].pc
    BY <1>1, <1>7, <1>8
  <2> QED BY <1>2, <1>5, <2>1 DEF EpochInv, Fencing, Established
<1>18. OpeningInv'
  <2>1. OpeningOK(w)'
    BY <1>3, <1>7, <1>8, Zenon DEF OpeningOK, Fencing, Replaying, Running
  <2>2. ASSUME NEW v \in Writer, v # w
        PROVE  OpeningOK(v)'
    <3>1. OpeningOK(v) /\ db'[v] = db[v]
      BY <1>8, <2>2, Zenon DEF IndInv, OpeningInv
    <3>2. /\ db[v].view.replay_after \in Nat /\ db[v].empty \in Int
          /\ db[v].empty - 1 \in Int
      BY <1>2, Fields
    <3>3. Fencing(v) \/ db[v].pc = "confirm" => Superseded(v)
      BY <1>2, <1>11, <2>2, Zenon DEF EpochInv, Established
    <3>4. db[v].view.replay_after <= manifest.replay_after
            => db[v].view.replay_after <= manifest'.replay_after
      BY <1>4, <1>5, <1>10, <3>2
    <3> QED BY <1>12, <1>13, <3>1, <3>2, <3>3, <3>4, Zenon DEF OpeningOK, Fencing, Replaying, Running
  <2> QED BY <2>1, <2>2 DEF OpeningInv
<1>19. FilesInv'
  <2> SUFFICES ASSUME NEW v \in Writer
               PROVE  FilesOK(v)'
    BY DEF FilesInv
  <2>1. FilesOK(v)
    BY Zenon DEF IndInv, FilesInv
  <2>2. /\ db'[v].pc = db[v].pc /\ db'[v].flushed = db[v].flushed
        /\ db'[v].empty = db[v].empty /\ db'[v].putting = db[v].putting
    BY <1>1, <1>7, <1>8, Zenon
  <2>3. db[v].flushed \in Nat
    BY <1>2, Fields
  <2>4. db[v].flushed + 1 > manifest'.replay_after
          => db[v].flushed + 1 > manifest.replay_after
    BY <1>4, <1>5, <1>10, <2>3
  <2>5. Reached(db[v].flushed) => Reached(db[v].flushed)'
    <3>1. PICK f \in Int : f = db[v].flushed
      BY <2>3
    <3> QED BY <1>13, <2>2, <3>1, Zenon
  <2> QED BY <1>3, <2>1, <2>2, <2>4, <2>5, Zenon DEF FilesOK, Established, Exists
<1>20. \A v \in Writer : v # w /\ Live(v)' =>
         /\ Superseded(v)' /\ Exists(NextId(v)) /\ wal[NextId(v)] = {}
         /\ NextId(v)' = NextId(v)
  <2> SUFFICES ASSUME NEW v \in Writer, v # w, Live(v)'
               PROVE  /\ Superseded(v)' /\ Exists(NextId(v)) /\ wal[NextId(v)] = {}
                      /\ NextId(v)' = NextId(v)
    BY Zenon
  <2>1. Live(v) /\ Established(v) /\ FrontierOK(v) /\ NextId(v)' = NextId(v)
    BY <1>8, <1>12, Zenon DEF IndInv, FrontierInv, Live, Replaying, Running, Established, NextId
  <2>2. db[v].epoch > 0 /\ db[v].epoch # db[w].epoch
    BY <1>2, <2>1, Zenon DEF EpochInv
  <2>3. Superseded(v)'
    BY <1>11, <1>12, <2>2, Zenon
  <2>4. ~ (db[w].epoch <= db[v].epoch)
    BY <1>11, <2>2
  <2> QED BY <1>3, <2>1, <2>3, <2>4, Zenon DEF FrontierOK
<1>21. FrontierInv'
  <2> SUFFICES ASSUME NEW v \in Writer, Live(v)'
               PROVE  FrontierOK(v)'
    BY DEF FrontierInv
  <2>1. CASE v = w
    <3>1. PICK n : n = NextId(w)
      BY Zenon
    <3>2. n \in Nat /\ n > e.flushed /\ n > t.wal /\ NextId(w)' = n
      <4>1. n > e.flushed /\ n \in Nat
        BY <1>1, <1>4, <3>1 DEF NextId
      <4>2. NextId(w)' = n
        BY <1>1, <1>7, <1>8, <3>1, Zenon DEF NextId
      <4> QED BY <1>4, <1>10, <4>1, <4>2
    <3>3. \A u \in Writer : ~ (db'[w].epoch < db'[u].epoch)
      <4>1. \A u \in Writer : db'[u].epoch = db[u].epoch
        BY <1>1, <1>7, <1>8, Zenon
      <4> QED BY <1>11, <4>1
    <3>4. \A u \in Writer : (Established(u))' => db'[u].epoch <= db'[w].epoch
      <4>1. \A u \in Writer : db'[u].epoch = db[u].epoch
        BY <1>1, <1>7, <1>8
      <4> QED BY <1>11, <4>1, Zenon
    <3>5. /\ Exists(n) => wal[n] = {}
          /\ ~ Exists(n) => \A j \in DOMAIN wal : j < n
          /\ \A j \in DOMAIN wal : j >= n => wal[j] = {}
      BY <1>3, <3>1, Zenon DEF FrontierOK
    <3>6. manifest'.next_wal <= db'[w].flushed + 1
      BY <1>4, <1>5, <1>7, <1>8
    <3> QED BY <1>3, <1>5, <2>1, <3>2, <3>3, <3>4, <3>5, <3>6, Zenon DEF FrontierOK, Exists
  <2>2. CASE v # w
    BY <1>3, <1>20, <2>2, Zenon DEF FrontierOK, Exists
  <2> QED BY <2>1, <2>2
<1>22. DataInv'
  <2> SUFFICES ASSUME NEW v \in Writer, Current(v)'
               PROVE  DataOK(db[v])'
    BY DEF DataInv
  <2>1. v = w
    <3> SUFFICES ASSUME v # w PROVE FALSE
      BY Zenon
    <3>1. Live(v)'
      BY DEF Current, Live
    <3> QED BY <1>3, <1>20, <3>1, Zenon DEF Current, Exists
  <2>2. PICK x : x = d
    OBVIOUS
  <2>3. DataOK(x)'
    BY <1>3, <1>9, <2>2, Zenon DEF d
  <2> QED BY <1>8, <2>1, <2>2, <2>3, Zenon
<1>23. RowsInv'
  <2>1. \A v \in Writer : db'[v].putting = db[v].putting
    BY <1>1, <1>7, <1>8
  <2> QED BY <1>3, <1>9, <2>1, Zenon DEF IndInv, RowsInv
<1> QED BY <1>14, <1>15, <1>16, <1>17, <1>18, <1>19, <1>21, <1>22, <1>23, Zenon DEF IndInv
=============================================================================
