------------------------- MODULE TransactionsProofs -------------------------
(***************************************************************************)
(* Proofs about Transactions, for any set of transactions and keys.        *)
(*                                                                         *)
(* The properties of commits follow from IndInv.  Its heart is RecentInv:  *)
(* the manager forgets commits, yet still has every one that an active     *)
(* transaction can conflict with, so the check of the few is a check of    *)
(* all; and nothing commits between the check and the commit.              *)
(***************************************************************************)
EXTENDS Transactions, TLAPS

\* Sequence numbers in flight are ahead of what is visible.
SeqInv ==
  /\ last_committed_seq <= last_seq
  /\ writer.phase \in {"append", "track"} =>
       writer.seq <= last_seq /\ last_committed_seq < writer.seq
  /\ \A t \in Txn : txns[t].started_seq <= last_committed_seq

\* A transaction stays registered until its commit or its end, and what it
\* guards is tracked when it is checked.
PhaseInv ==
  \A t \in Txn :
    /\ txns[t].phase \in {"open", "committing", "sending"} => txns[t].active
    /\ txns[t].phase = "new" => ~ txns[t].active
    /\ txns[t].guarded \subseteq txns[t].read_keys \cup txns[t].scanned
    /\ txns[t].phase \in {"committing", "sending", "queued"} =>
         txns[t].guarded \subseteq txns[t].read_keys

\* The requests own their transactions, each its own.
QueueInv ==
  \A i \in 1 .. Len(queue) : queue[i].txn \in Txn =>
    /\ txns[queue[i].txn].phase = "queued"
    /\ txns[queue[i].txn].active
    /\ writer.phase \in {"append", "track", "freeze", "respond"} => writer.req.txn # queue[i].txn
    /\ \A j \in 1 .. Len(queue) : j # i => queue[j].txn # queue[i].txn

\* Commits with writes are visible.
CommitInv ==
  \A e \in commits :
    /\ e.committed_seq <= last_committed_seq + 1
    /\ e.write_keys # {} => e.committed_seq <= last_committed_seq

\* The manager has every commit that an active transaction can conflict with.
RecentInv ==
  \A t \in Txn : txns[t].active =>
    \A e \in commits : e.committed_seq > txns[t].started_seq /\ e.write_keys # {} =>
      [committed_seq |-> e.committed_seq, write_keys |-> e.write_keys] \in recent

\* Nothing that was committed since its snapshot disturbs t.
Clean(t) ==
  \A e \in commits : e.committed_seq > txns[t].started_seq =>
    /\ txns[t].write_keys \cap e.write_keys = {}
    /\ txns[t].guarded \cap e.write_keys = {}

\* The transaction the writer is committing was checked.
WriterInv ==
  writer.req.txn \in Txn =>
    /\ writer.phase \in {"append", "track", "freeze", "respond"} =>
         txns[writer.req.txn].phase = "queued"
    /\ writer.phase \in {"append", "track"} =>
         txns[writer.req.txn].active /\ Clean(writer.req.txn)

NeededInv ==
  \/ writer.phase \in {"freeze", "respond"} /\ writer.req.txn \in Txn
  \/ \A e \in recent : \E t \in Txn : txns[t].active /\ txns[t].started_seq <= e.committed_seq

IndInv ==
  /\ TypeOK /\ SeqInv /\ PhaseInv /\ QueueInv /\ CommitInv /\ RecentInv /\ WriterInv
  /\ NeededInv /\ NoLostUpdates /\ GuardedReadsHold

-----------------------------------------------------------------------------
(***************************************************************************)
(* The steps of a client that only change its own transaction.             *)
(***************************************************************************)
LocalStep(t) ==
  \/ \E level \in Levels : Begin(t, level)
  \/ \E k \in Key : Get(t, k) \/ MarkRead(t, k) \/ Put(t, k) \/ UnmarkWrite(t, k)
  \/ \E range \in Ranges : Scan(t, range)
  \/ Commit(t)

\* u is what a local step may make of transaction t.
LocalChange(t, u) ==
  /\ u \in TxnStates
  /\ txns' = [txns EXCEPT ![t] = u]
  /\ txns[t].phase \in {"new", "open"}
  /\ u.phase \in {"open", "committing", "sending"}
  /\ u.active
  /\ u.started_seq = IF txns[t].phase = "new" THEN last_committed_seq ELSE txns[t].started_seq
  /\ u.guarded \subseteq u.read_keys \cup u.scanned
  /\ u.phase # "open" => u.guarded \subseteq u.read_keys

\* Updates of a transaction keep its type.
LEMMA BeginUpdate ==
  ASSUME NEW v \in TxnStates, NEW p \in Phases, NEW l \in Levels, NEW q \in Seqs
  PROVE  [v EXCEPT !.phase = p, !.isolation_level = l, !.active = TRUE,
                   !.started_seq = q] \in TxnStates
BY ZenonT(60) DEF TxnStates

LEMMA ReadUpdate ==
  ASSUME NEW v \in TxnStates, NEW A \in SUBSET Key, NEW B \in SUBSET Key
  PROVE  /\ [v EXCEPT !.read_keys = A, !.guarded = B] \in TxnStates
         /\ [v EXCEPT !.scanned = A, !.guarded = B] \in TxnStates
BY Zenon DEF TxnStates

LEMMA CommitUpdate ==
  ASSUME NEW v \in TxnStates, NEW p \in Phases, NEW A \in SUBSET Key, NEW B \in SUBSET Key
  PROVE  [v EXCEPT !.phase = p, !.read_keys = A, !.write_keys = B] \in TxnStates
BY ZenonT(60) DEF TxnStates

LEMMA LocalEffect ==
  ASSUME IndInv, NEW t \in Txn, LocalStep(t)
  PROVE  /\ \E u : LocalChange(t, u)
         /\ UNCHANGED <<last_seq, last_committed_seq, recent, queue, writer, rows, commits>>
<1>0. /\ txns \in [Txn -> TxnStates] /\ last_committed_seq \in Seqs
      /\ txns[t].guarded \subseteq txns[t].read_keys \cup txns[t].scanned
      /\ txns[t].phase = "open" => txns[t].active
      /\ \A r \in Ranges : r \subseteq Key
  BY TxnAssumption DEF IndInv, TypeOK, PhaseInv
<1>1. CASE \E level \in Levels : Begin(t, level)
  <2>1. PICK level \in Levels : Begin(t, level)
    BY <1>1
  <2> DEFINE u == [txns[t] EXCEPT !.phase = "open", !.isolation_level = level,
                                   !.active = TRUE, !.started_seq = last_committed_seq]
  <2>a. "open" \in Phases
    BY <1>0 DEF TxnStates, Phases
  <2>2. u \in TxnStates
    BY <1>0, <2>a, BeginUpdate, Zenon
  <2>3. txns' = [txns EXCEPT ![t] = u] /\ txns[t].phase = "new"
    BY <1>0, <2>1, Zenon DEF Begin
  <2>4. LocalChange(t, u)
    BY <1>0, <2>2, <2>3 DEF LocalChange, TxnStates
  <2> QED
    BY <2>1, <2>4 DEF Begin, oracle
<1>2. CASE \E k \in Key : Get(t, k) \/ MarkRead(t, k)
  <2>1. PICK k \in Key : Get(t, k) \/ MarkRead(t, k)
    BY <1>2
  <2> DEFINE u == [txns[t] EXCEPT !.read_keys = @ \cup {k}, !.guarded = @ \cup {k}]
  <2>a. txns[t].read_keys \cup {k} \in SUBSET Key /\ txns[t].guarded \cup {k} \in SUBSET Key
    BY <1>0 DEF TxnStates, Phases
  <2>2. u \in TxnStates
    BY <1>0, <2>a, ReadUpdate, Zenon
  <2>3. txns' = [txns EXCEPT ![t] = u] /\ txns[t].phase = "open"
    BY <1>0, <2>1, Zenon DEF Get, MarkRead, MayCall
  <2>4. LocalChange(t, u)
    BY <1>0, <2>2, <2>3 DEF LocalChange, TxnStates
  <2> QED
    BY <2>1, <2>4 DEF Get, MarkRead, MayCall, oracle
<1>3. CASE \E k \in Key : Put(t, k)
  <2>1. PICK k \in Key : Put(t, k)
    BY <1>3
  <2>2. LocalChange(t, [txns[t] EXCEPT !.batch = @ \cup {k}])
    BY <1>0, <2>1 DEF Put, MayCall, LocalChange, TxnStates, Phases
  <2> QED
    BY <2>1, <2>2 DEF Put, oracle
<1>4. CASE \E k \in Key : UnmarkWrite(t, k)
  <2>1. PICK k \in Key : UnmarkWrite(t, k)
    BY <1>4
  <2>2. LocalChange(t, [txns[t] EXCEPT !.untracked = @ \cup {k}])
    BY <1>0, <2>1 DEF UnmarkWrite, MayCall, LocalChange, TxnStates, Phases
  <2> QED
    BY <2>1, <2>2 DEF UnmarkWrite, oracle
<1>5. CASE \E range \in Ranges : Scan(t, range)
  <2>1. PICK range \in Ranges : Scan(t, range)
    BY <1>5
  <2> DEFINE u == [txns[t] EXCEPT !.scanned = @ \cup range, !.guarded = @ \cup range]
  <2>a. txns[t].scanned \cup range \in SUBSET Key /\ txns[t].guarded \cup range \in SUBSET Key
    BY <1>0 DEF TxnStates, Phases
  <2>2. u \in TxnStates
    BY <1>0, <2>a, ReadUpdate, Zenon
  <2>3. txns' = [txns EXCEPT ![t] = u] /\ txns[t].phase = "open"
    BY <1>0, <2>1, Zenon DEF Scan, MayCall
  <2>4. LocalChange(t, u)
    BY <1>0, <2>2, <2>3 DEF LocalChange, TxnStates
  <2> QED
    BY <2>1, <2>4 DEF Scan, MayCall, oracle
<1>6. CASE Commit(t)
  <2> DEFINE u == [txns[t] EXCEPT
            !.phase = IF txns[t].batch = {} THEN "committing" ELSE "sending",
            !.read_keys = @ \cup txns[t].scanned,
            !.write_keys = txns[t].batch \ txns[t].untracked]
  <2>a. /\ (IF txns[t].batch = {} THEN "committing" ELSE "sending") \in Phases
        /\ txns[t].read_keys \cup txns[t].scanned \in SUBSET Key
        /\ txns[t].batch \ txns[t].untracked \in SUBSET Key
    BY <1>0, Zenon DEF TxnStates, Phases
  <2>2. u \in TxnStates
    BY <1>0, <2>a, CommitUpdate, Zenon
  <2>3. txns' = [txns EXCEPT ![t] = u] /\ txns[t].phase = "open"
    BY <1>0, <1>6, Zenon DEF Commit
  <2>4. LocalChange(t, u)
    BY <1>0, <2>2, <2>3, Zenon DEF LocalChange, TxnStates
  <2> QED
    BY <1>6, <2>4, Zenon DEF Commit, oracle
<1> QED
  BY <1>1, <1>2, <1>3, <1>4, <1>5, <1>6 DEF LocalStep

LEMMA LocalKeeps ==
  ASSUME IndInv, NEW t \in Txn, LocalStep(t)
  PROVE  IndInv'
<1>0. PICK u : LocalChange(t, u)
  BY LocalEffect
<1>1. UNCHANGED <<last_seq, last_committed_seq, recent, queue, writer, rows, commits>>
  BY LocalEffect
<1>2. /\ u \in TxnStates /\ txns \in [Txn -> TxnStates]
      /\ last_committed_seq \in Seqs /\ commits \subseteq Records /\ MaxSeq \in Nat
  BY <1>0, TxnAssumption DEF LocalChange, IndInv, TypeOK
<1>3. /\ \A s \in Txn : s # t => txns'[s] = txns[s]
      /\ txns'[t] = u
      /\ txns[t].phase \in {"new", "open"}
      /\ u.phase \in {"open", "committing", "sending"} /\ u.active
      /\ u.started_seq = IF txns[t].phase = "new" THEN last_committed_seq
                         ELSE txns[t].started_seq
  BY <1>0, <1>2 DEF LocalChange
<1>4. TypeOK'
  BY <1>0, <1>1, <1>2 DEF IndInv, TypeOK, LocalChange
<1>5. SeqInv'
  BY <1>1, <1>3, <1>2 DEF IndInv, SeqInv, Seqs
<1>6. PhaseInv'
  BY <1>0, <1>3 DEF LocalChange, IndInv, PhaseInv
<1>7. QueueInv'
  BY <1>1, <1>3 DEF IndInv, QueueInv
<1>8. CommitInv' /\ NoLostUpdates' /\ GuardedReadsHold'
  BY <1>1 DEF IndInv, CommitInv, NoLostUpdates, GuardedReadsHold
<1>9. RecentInv'
  <2>1. CASE txns[t].phase = "new"
    BY <2>1, <1>1, <1>2, <1>3 DEF IndInv, RecentInv, CommitInv, Seqs, Records
  <2>2. CASE txns[t].phase = "open"
    BY <2>2, <1>1, <1>3, Zenon DEF IndInv, RecentInv, PhaseInv
  <2> QED
    BY <2>1, <2>2, <1>3
<1>10. WriterInv'
  <2>1. writer.phase \in {"append", "track", "freeze", "respond"} => writer.req.txn # t
    BY <1>3 DEF IndInv, WriterInv
  <2> QED
    BY <2>1, <1>1, <1>3 DEF IndInv, WriterInv, Clean
<1>11. NeededInv'
  <2>1. \A e \in recent, s \in Txn : txns[s].active /\ txns[s].started_seq <= e.committed_seq
           /\ s = t /\ txns[t].phase = "open" => u.active /\ u.started_seq <= e.committed_seq
    BY <1>3
  <2>2. txns[t].phase = "new" => ~ txns[t].active
    BY DEF IndInv, PhaseInv
  <2> QED
    BY <2>1, <2>2, <1>1, <1>3 DEF IndInv, NeededInv
<1> QED
  BY <1>4, <1>5, <1>6, <1>7, <1>8, <1>9, <1>10, <1>11 DEF IndInv

-----------------------------------------------------------------------------
(***************************************************************************)
(* drop_txn ends one transaction and forgets what nobody else needs.       *)
(***************************************************************************)
LEMMA DropEffect ==
  ASSUME IndInv, NEW t \in Txn, drop_txn(t), UNCHANGED oracle
  PROVE  /\ txns' \in [Txn -> TxnStates]
         /\ \A s \in Txn : s # t => txns'[s] = txns[s]
         /\ txns'[t].phase = "ended" /\ ~ txns'[t].active
         /\ txns'[t].started_seq = 0
         /\ recent' \subseteq recent
         /\ PhaseInv'
         /\ \A s \in Txn : txns'[s].active =>
              \A e \in commits : e.committed_seq > txns[s].started_seq /\ e.write_keys # {} =>
                [committed_seq |-> e.committed_seq, write_keys |-> e.write_keys] \in recent'
         /\ \A e \in recent' : \E s \in Txn :
              txns'[s].active /\ txns'[s].started_seq <= e.committed_seq
<1> DEFINE u == [NewTxn EXCEPT !.phase = "ended"]
<1>1. /\ txns \in [Txn -> TxnStates] /\ MaxSeq \in Nat
      /\ commits \subseteq Records /\ recent \subseteq Commits
  BY TxnAssumption DEF IndInv, TypeOK
<1>2. u \in TxnStates
  <2>1. NewTxn \in TxnStates
    BY <1>1 DEF NewTxn, TxnStates, Phases, Levels, Seqs
  <2> QED
    BY <2>1 DEF TxnStates, Phases
<1>3. txns' = [txns EXCEPT ![t] = u]
  BY DEF drop_txn, Released
<1>4. /\ txns' \in [Txn -> TxnStates]
      /\ \A s \in Txn : s # t => txns'[s] = txns[s]
      /\ txns'[t] = u
  BY <1>1, <1>2, <1>3
<1>5. /\ txns'[t].phase = "ended" /\ ~ txns'[t].active
      /\ txns'[t].started_seq = 0 /\ txns'[t].guarded = {}
  BY <1>4 DEF NewTxn
<1>6. recent' = {e \in recent : \E s \in Txn :
                   txns'[s].active /\ txns'[s].started_seq <= e.committed_seq}
  BY DEF drop_txn, recycle_recent_committed_txns
<1>7. PhaseInv'
  BY <1>4, <1>5, Zenon DEF IndInv, PhaseInv
<1>8. ASSUME NEW s \in Txn, txns'[s].active,
             NEW e \in commits, e.committed_seq > txns[s].started_seq, e.write_keys # {}
      PROVE  [committed_seq |-> e.committed_seq, write_keys |-> e.write_keys] \in recent'
  <2>1. s # t /\ txns[s].active /\ txns'[s] = txns[s]
    BY <1>8, <1>4, <1>5, Zenon
  <2>2. [committed_seq |-> e.committed_seq, write_keys |-> e.write_keys] \in recent
    BY <2>1, <1>8 DEF IndInv, RecentInv
  <2>3. txns[s].started_seq <= e.committed_seq
    BY <1>1, <1>8 DEF TxnStates, Records, Seqs
  <2> QED
    BY <2>1, <2>2, <2>3, <1>6, <1>8
<1> QED
  BY <1>4, <1>5, <1>6, <1>7, <1>8

\* What a drop leaves of the invariant, when nothing else happens to the
\* commits and the oracle.
LEMMA DropKeeps ==
  ASSUME IndInv, NEW t \in Txn, drop_txn(t), UNCHANGED <<oracle, commits>>
  PROVE  PhaseInv' /\ RecentInv' /\ CommitInv' /\ NoLostUpdates' /\ GuardedReadsHold'
         /\ NeededInv' /\ \A s \in Txn : txns'[s].started_seq <= last_committed_seq'
<1>1. /\ txns \in [Txn -> TxnStates] /\ last_committed_seq \in Nat /\ MaxSeq \in Nat
      /\ \A s \in Txn : txns[s].started_seq <= last_committed_seq
  BY TxnAssumption DEF IndInv, TypeOK, SeqInv, Seqs
<1>2. UNCHANGED oracle
  OBVIOUS
<1>3. /\ \A s \in Txn : s # t => txns'[s] = txns[s]
      /\ ~ txns'[t].active /\ txns'[t].started_seq = 0
      /\ PhaseInv'
      /\ \A s \in Txn : txns'[s].active =>
           \A e \in commits : e.committed_seq > txns[s].started_seq /\ e.write_keys # {} =>
             [committed_seq |-> e.committed_seq, write_keys |-> e.write_keys] \in recent'
      /\ \A e \in recent' : \E s \in Txn :
           txns'[s].active /\ txns'[s].started_seq <= e.committed_seq
  BY <1>2, DropEffect
<1>4. RecentInv'
  BY <1>3 DEF RecentInv
<1>5. CommitInv' /\ NoLostUpdates' /\ GuardedReadsHold'
  BY DEF IndInv, CommitInv, NoLostUpdates, GuardedReadsHold, oracle
<1>6. NeededInv'
  BY <1>3 DEF NeededInv
<1>7. \A s \in Txn : txns'[s].started_seq <= last_committed_seq'
  BY <1>1, <1>3 DEF oracle
<1> QED
  BY <1>3, <1>4, <1>5, <1>6, <1>7

LEMMA RollbackKeeps ==
  ASSUME IndInv, NEW t \in Txn, Rollback(t)
  PROVE  IndInv'
<1>1. /\ drop_txn(t) /\ txns[t].phase \in {"open", "sending"}
      /\ UNCHANGED <<oracle, commits>> /\ UNCHANGED <<queue, writer, rows>>
  BY DEF Rollback
<1>2. /\ PhaseInv' /\ RecentInv' /\ CommitInv' /\ NoLostUpdates' /\ GuardedReadsHold'
      /\ NeededInv' /\ \A s \in Txn : txns'[s].started_seq <= last_committed_seq'
  BY <1>1, DropKeeps
<1>3. /\ txns' \in [Txn -> TxnStates] /\ recent' \subseteq recent
      /\ \A s \in Txn : s # t => txns'[s] = txns[s]
  BY <1>1, DropEffect
<1>4. TypeOK'
  BY <1>1, <1>3 DEF IndInv, TypeOK, oracle
<1>5. SeqInv'
  BY <1>1, <1>2 DEF IndInv, SeqInv, oracle
<1>6. QueueInv'
  BY <1>1, <1>3, Zenon DEF IndInv, QueueInv
<1>7. WriterInv'
  <2>1. writer.phase \in {"append", "track", "freeze", "respond"} => writer.req.txn # t
    BY <1>1 DEF IndInv, WriterInv
  <2> QED
    BY <2>1, <1>1, <1>3 DEF IndInv, WriterInv, Clean
<1> QED
  BY <1>2, <1>4, <1>5, <1>6, <1>7 DEF IndInv

LEMMA CommitReadOnlyKeeps ==
  ASSUME IndInv, NEW t \in Txn, CommitReadOnly(t)
  PROVE  IndInv'
<1> DEFINE c == [started_seq |-> txns[t].started_seq,
                 committed_seq |-> last_committed_seq + 1,
                 write_keys |-> {}, guarded |-> txns[t].guarded]
<1>1. /\ drop_txn(t) /\ txns[t].phase = "committing"
      /\ UNCHANGED oracle /\ UNCHANGED <<last_seq, last_committed_seq>>
      /\ UNCHANGED <<queue, writer, rows>>
      /\ commits' = commits \/ (commits' = commits \cup {c} /\ ~ check_has_conflict(t))
  BY Zenon DEF CommitReadOnly, oracle
<1>2. /\ txns' \in [Txn -> TxnStates] /\ recent' \subseteq recent /\ PhaseInv'
      /\ \A s \in Txn : s # t => txns'[s] = txns[s]
      /\ ~ txns'[t].active /\ txns'[t].started_seq = 0
      /\ \A s \in Txn : txns'[s].active =>
           \A e \in commits : e.committed_seq > txns[s].started_seq /\ e.write_keys # {} =>
             [committed_seq |-> e.committed_seq, write_keys |-> e.write_keys] \in recent'
      /\ \A e \in recent' : \E s \in Txn :
           txns'[s].active /\ txns'[s].started_seq <= e.committed_seq
  BY <1>1, DropEffect, Zenon
<1>3. /\ txns \in [Txn -> TxnStates] /\ commits \subseteq Records /\ MaxSeq \in Nat
      /\ last_committed_seq \in Seqs /\ txns[t].active
      /\ txns[t].guarded \subseteq txns[t].read_keys
  BY <1>1, TxnAssumption DEF IndInv, TypeOK, PhaseInv
<1>4. c \in Records
  BY <1>3 DEF Records, TxnStates, Seqs
<1>5. c.write_keys = {} /\ c.committed_seq = last_committed_seq + 1
      /\ c.started_seq = txns[t].started_seq /\ c.guarded = txns[t].guarded
  BY Zenon
<1>6. TypeOK'
  BY <1>1, <1>2, <1>3, <1>4, Zenon DEF IndInv, TypeOK
<1>7. SeqInv'
  BY <1>1, <1>2, <1>3 DEF IndInv, SeqInv, Seqs
<1>8. QueueInv'
  BY <1>1, <1>2 DEF IndInv, QueueInv
<1>9. CommitInv'
  BY <1>1, <1>3, <1>5 DEF IndInv, CommitInv, Seqs, Records
<1>10. RecentInv'
  BY <1>1, <1>2, <1>5, Zenon DEF RecentInv
<1>11. WriterInv'
  <2>1. writer.phase \in {"append", "track", "freeze", "respond"} => writer.req.txn # t
    BY <1>1, Zenon DEF IndInv, WriterInv
  <2>2. \A s \in Txn : s # t /\ Clean(s) => Clean(s)'
    BY <1>1, <1>2, <1>5, Zenon DEF Clean
  <2> QED
    BY <2>1, <2>2, <1>1, <1>2, Zenon DEF IndInv, WriterInv
<1>12. NeededInv'
  BY <1>2, Zenon DEF NeededInv
<1>13. NoLostUpdates'
  BY <1>1, <1>5, Zenon DEF IndInv, NoLostUpdates
<1>14. GuardedReadsHold'
  <2>1. CASE commits' = commits
    BY <2>1, Zenon DEF IndInv, GuardedReadsHold
  <2>2. CASE commits' = commits \cup {c} /\ ~ check_has_conflict(t)
    <3>1. ASSUME NEW e \in commits, e.committed_seq > txns[t].started_seq
          PROVE  txns[t].guarded \cap e.write_keys = {}
      <4>1. CASE e.write_keys = {}
        BY <4>1, Zenon
      <4>2. CASE e.write_keys # {}
        <5>1. [committed_seq |-> e.committed_seq, write_keys |-> e.write_keys] \in recent
          BY <4>2, <3>1, <1>3 DEF IndInv, RecentInv
        <5> QED
          BY <5>1, <3>1, <2>2, <1>3 DEF check_has_conflict, has_read_write_conflict
      <4> QED
        BY <4>1, <4>2
    <3> QED
      BY <3>1, <2>2, <1>5 DEF IndInv, GuardedReadsHold, Concurrent
  <2> QED
    BY <1>1, <2>1, <2>2
<1> QED
  BY <1>2, <1>6, <1>7, <1>8, <1>9, <1>10, <1>11, <1>12, <1>13, <1>14, Zenon DEF IndInv

LEMMA SendKeeps ==
  ASSUME IndInv, NEW t \in Txn, Send(t)
  PROVE  IndInv'
<1> DEFINE r == [txn |-> t, keys |-> txns[t].batch]
<1>1. /\ txns[t].phase = "sending"
      /\ txns' = [txns EXCEPT ![t].phase = "queued"] /\ queue' = Append(queue, r)
      /\ UNCHANGED <<last_seq, last_committed_seq, recent, writer, rows, commits>>
  BY DEF Send, oracle
<1>2. /\ txns \in [Txn -> TxnStates] /\ queue \in Seq(Requests)
      /\ txns[t].active /\ txns[t].guarded \subseteq txns[t].read_keys
  BY <1>1 DEF IndInv, TypeOK, PhaseInv
<1>3. /\ \A s \in Txn : s # t => txns'[s] = txns[s]
      /\ txns'[t] = [txns[t] EXCEPT !.phase = "queued"]
  BY <1>1, <1>2
<1>4. /\ txns'[t].phase = "queued" /\ txns'[t].active
      /\ txns'[t].started_seq = txns[t].started_seq
      /\ txns'[t].guarded = txns[t].guarded /\ txns'[t].read_keys = txns[t].read_keys
      /\ txns'[t].write_keys = txns[t].write_keys /\ txns'[t].scanned = txns[t].scanned
  BY <1>2, <1>3 DEF TxnStates
<1>5. TypeOK'
  <2>1. r \in Requests
    BY <1>2 DEF Requests, TxnStates
  <2>2. [txns[t] EXCEPT !.phase = "queued"] \in TxnStates
    <3>1. txns[t] \in TxnStates
      BY <1>2, Zenon
    <3> QED
      BY <3>1 DEF TxnStates, Phases
  <2>3. txns' \in [Txn -> TxnStates]
    BY <2>2, <1>1, <1>2
  <2> QED
    BY <2>1, <2>3, <1>1, <1>2 DEF IndInv, TypeOK
<1>6. SeqInv' /\ PhaseInv'
  BY <1>1, <1>2, <1>3, <1>4 DEF IndInv, SeqInv, PhaseInv
<1>7. QueueInv'
  <2>1. \A i \in 1 .. Len(queue) : queue[i].txn # t
    BY <1>1 DEF IndInv, QueueInv
  <2>2. writer.phase \in {"append", "track", "freeze", "respond"} => writer.req.txn # t
    BY <1>1 DEF IndInv, WriterInv
  <2>3. /\ Len(queue') = Len(queue) + 1 /\ Len(queue) \in Nat
        /\ \A i \in 1 .. Len(queue) : queue'[i] = queue[i]
        /\ queue'[Len(queue) + 1] = r
    BY <1>1, <1>2
  <2> QED
    BY <2>1, <2>2, <2>3, <1>1, <1>3, <1>4 DEF IndInv, QueueInv
<1>8. CommitInv' /\ NoLostUpdates' /\ GuardedReadsHold'
  BY <1>1 DEF IndInv, CommitInv, NoLostUpdates, GuardedReadsHold
<1>9. RecentInv' /\ NeededInv'
  <2>1. \A s \in Txn : /\ txns'[s].active <=> txns[s].active
                       /\ txns'[s].started_seq = txns[s].started_seq
    BY <1>2, <1>3, <1>4, Zenon
  <2> QED
    BY <2>1, <1>1 DEF IndInv, RecentInv, NeededInv
<1>10. WriterInv'
  <2>1. writer.phase \in {"append", "track", "freeze", "respond"} => writer.req.txn # t
    BY <1>1 DEF IndInv, WriterInv
  <2> QED
    BY <2>1, <1>1, <1>3 DEF IndInv, WriterInv, Clean
<1> QED
  BY <1>5, <1>6, <1>7, <1>8, <1>9, <1>10 DEF IndInv

LEMMA WriteKeeps ==
  ASSUME IndInv, NEW keys \in Batches, Write(keys)
  PROVE  IndInv'
<1>1. /\ queue' = Append(queue, [txn |-> NoTxn, keys |-> keys])
      /\ UNCHANGED <<last_seq, last_committed_seq, txns, recent, writer, rows, commits>>
      /\ queue \in Seq(Requests)
  BY DEF Write, oracle, IndInv, TypeOK
<1>2. TypeOK'
  BY <1>1, TxnAssumption DEF IndInv, TypeOK, Requests
<1>3. QueueInv'
  <2>1. /\ Len(queue') = Len(queue) + 1 /\ Len(queue) \in Nat
        /\ \A i \in 1 .. Len(queue) : queue'[i] = queue[i]
        /\ queue'[Len(queue) + 1].txn = NoTxn
    BY <1>1
  <2> QED
    BY <2>1, <1>1, TxnAssumption DEF IndInv, QueueInv
<1>4. SeqInv' /\ PhaseInv' /\ CommitInv' /\ RecentInv' /\ WriterInv' /\ NeededInv'
      /\ NoLostUpdates' /\ GuardedReadsHold'
  BY <1>1, Zenon DEF IndInv, SeqInv, PhaseInv, CommitInv, RecentInv, WriterInv, Clean, NeededInv,
              NoLostUpdates, GuardedReadsHold
<1> QED
  BY <1>2, <1>3, <1>4 DEF IndInv

-----------------------------------------------------------------------------
(***************************************************************************)
(* The batch writer                                                        *)
(***************************************************************************)
LEMMA Dequeue ==
  ASSUME IndInv, queue # << >>
  PROVE  /\ queue[1] = Head(queue) /\ Head(queue) \in Requests
         /\ Tail(queue) \in Seq(Requests)
         /\ Len(queue) \in Nat /\ 1 \in 1 .. Len(queue)
         /\ Len(Tail(queue)) = Len(queue) - 1
         /\ \A i \in 1 .. Len(queue) - 1 :
              Tail(queue)[i] = queue[i + 1] /\ i + 1 \in 1 .. Len(queue) /\ i + 1 # 1
         /\ Head(queue).txn \in Txn =>
              /\ txns[Head(queue).txn].phase = "queued" /\ txns[Head(queue).txn].active
              /\ \A i \in 1 .. Len(queue) - 1 : Tail(queue)[i].txn # Head(queue).txn
<1>1. queue \in Seq(Requests)
  BY DEF IndInv, TypeOK
<1>2. /\ queue[1] = Head(queue) /\ Head(queue) \in Requests
      /\ Tail(queue) \in Seq(Requests)
      /\ Len(queue) \in Nat /\ 1 \in 1 .. Len(queue)
      /\ Len(Tail(queue)) = Len(queue) - 1
      /\ \A i \in 1 .. Len(queue) - 1 :
           Tail(queue)[i] = queue[i + 1] /\ i + 1 \in 1 .. Len(queue) /\ i + 1 # 1
  BY <1>1
<1> QED
  BY <1>2 DEF IndInv, QueueInv

\* A transaction that the check lets pass is undisturbed by all commits.
LEMMA CheckSuffices ==
  ASSUME IndInv, NEW t \in Txn, txns[t].phase = "queued", txns[t].active,
         ~ check_has_conflict(t)
  PROVE  Clean(t)
<1> SUFFICES ASSUME NEW e \in commits, e.committed_seq > txns[t].started_seq,
                    e.write_keys # {}
             PROVE  /\ txns[t].write_keys \cap e.write_keys = {}
                    /\ txns[t].guarded \cap e.write_keys = {}
  BY DEF Clean
<1>1. [committed_seq |-> e.committed_seq, write_keys |-> e.write_keys] \in recent
  BY DEF IndInv, RecentInv
<1>2. txns[t].guarded \subseteq txns[t].read_keys
  BY DEF IndInv, PhaseInv
<1> QED
  BY <1>1, <1>2
     DEF check_has_conflict, has_write_write_conflict, has_read_write_conflict

LEMMA AcceptKeeps ==
  ASSUME IndInv, NEW seq \in Seqs, Accept(seq)
  PROVE  IndInv'
<1> DEFINE r == Head(queue)
<1>1. /\ writer.phase = "idle" /\ queue # << >> /\ seq > last_seq
      /\ last_seq' = seq /\ queue' = Tail(queue)
      /\ writer'.phase = (IF r.txn \in Txn /\ check_has_conflict(r.txn)
                          THEN "respond" ELSE "append")
      /\ writer'.req = r /\ writer'.seq = seq
      /\ writer' = [phase |-> writer'.phase, req |-> r, seq |-> seq]
      /\ UNCHANGED <<last_committed_seq, txns, recent, rows, commits>>
  BY DEF Accept
<1>2. /\ r \in Requests /\ Tail(queue) \in Seq(Requests)
      /\ Len(queue) \in Nat /\ Len(Tail(queue)) = Len(queue) - 1
      /\ \A i \in 1 .. Len(queue) - 1 : Tail(queue)[i] = queue[i + 1]
                                        /\ i + 1 \in 1 .. Len(queue)
      /\ r.txn \in Txn => /\ txns[r.txn].phase = "queued" /\ txns[r.txn].active
                          /\ \A i \in 1 .. Len(queue) - 1 : Tail(queue)[i].txn # r.txn
  BY <1>1, Dequeue, Zenon
<1>3. TypeOK'
  BY <1>1, <1>2 DEF IndInv, TypeOK
<1>4. SeqInv'
  BY <1>1, TxnAssumption DEF IndInv, SeqInv, TypeOK, Seqs
<1>5. PhaseInv' /\ CommitInv' /\ RecentInv' /\ NoLostUpdates' /\ GuardedReadsHold'
  BY <1>1, Zenon DEF IndInv, PhaseInv, CommitInv, RecentInv, NoLostUpdates, GuardedReadsHold
<1>6. QueueInv'
  BY <1>1, <1>2 DEF IndInv, QueueInv
<1>7. WriterInv'
  <2>1. r.txn \in Txn /\ writer'.phase = "append" => Clean(r.txn)
    BY <1>1, <1>2, CheckSuffices, Zenon
  <2>2. \A t \in Txn : Clean(t) => Clean(t)'
    BY <1>1 DEF Clean
  <2> QED
    BY <2>1, <2>2, <1>1, <1>2 DEF WriterInv
<1>8. NeededInv'
  BY <1>1 DEF IndInv, NeededInv
<1> QED
  BY <1>3, <1>4, <1>5, <1>6, <1>7, <1>8, Zenon DEF IndInv

LEMMA InvalidSequenceNumberKeeps ==
  ASSUME IndInv, InvalidSequenceNumber
  PROVE  IndInv'
<1> DEFINE r == Head(queue)
<1>1. /\ writer.phase = "idle" /\ queue # << >> /\ queue' = Tail(queue)
      /\ writer' = [phase |-> "respond", req |-> r, seq |-> last_seq]
      /\ UNCHANGED <<last_seq, last_committed_seq, txns, recent, rows, commits>>
  BY Zenon DEF InvalidSequenceNumber, oracle
<1>2. /\ r \in Requests /\ Tail(queue) \in Seq(Requests)
      /\ Len(queue) \in Nat /\ Len(Tail(queue)) = Len(queue) - 1
      /\ \A i \in 1 .. Len(queue) - 1 : Tail(queue)[i] = queue[i + 1]
                                        /\ i + 1 \in 1 .. Len(queue)
      /\ r.txn \in Txn => /\ txns[r.txn].phase = "queued"
                          /\ \A i \in 1 .. Len(queue) - 1 : Tail(queue)[i].txn # r.txn
  BY <1>1, Dequeue, Zenon
<1>3. TypeOK'
  BY <1>1, <1>2, Zenon DEF IndInv, TypeOK
<1>4. SeqInv' /\ PhaseInv' /\ CommitInv' /\ RecentInv' /\ NoLostUpdates' /\ GuardedReadsHold'
  BY <1>1, Zenon DEF IndInv, SeqInv, PhaseInv, CommitInv, RecentInv, NoLostUpdates, GuardedReadsHold
<1>5. QueueInv'
  BY <1>1, <1>2 DEF IndInv, QueueInv
<1>6. WriterInv' /\ NeededInv'
  BY <1>1, <1>2 DEF IndInv, WriterInv, NeededInv
<1> QED
  BY <1>3, <1>4, <1>5, <1>6 DEF IndInv

LEMMA AppendKeeps ==
  ASSUME IndInv, Reject \/ AppendEntries
  PROVE  IndInv'
<1>1. /\ writer.phase = "append"
      /\ writer'.phase \in {"track", "respond"}
      /\ writer'.req = writer.req /\ writer'.seq = writer.seq
      /\ writer' \in [phase : {"idle", "append", "track", "freeze", "respond", "failed"},
                      req : Requests, seq : Seqs]
      /\ UNCHANGED <<last_seq, last_committed_seq, txns, recent, queue, commits>>
  BY DEF Reject, AppendEntries, oracle, IndInv, TypeOK
<1>2. TypeOK'
  BY <1>1 DEF IndInv, TypeOK, Reject, AppendEntries, Requests
<1>3. SeqInv' /\ PhaseInv' /\ QueueInv' /\ CommitInv' /\ RecentInv' /\ NoLostUpdates'
      /\ GuardedReadsHold'
  BY <1>1 DEF IndInv, SeqInv, PhaseInv, QueueInv, CommitInv, RecentInv, NoLostUpdates,
              GuardedReadsHold
<1>4. WriterInv' /\ NeededInv'
  BY <1>1 DEF IndInv, WriterInv, NeededInv, Clean
<1> QED
  BY <1>2, <1>3, <1>4 DEF IndInv

\* The writer ends the transaction of the request it holds, and is done with it.
LEMMA EndRequestKeeps ==
  ASSUME IndInv, AppendFails \/ FreezeFails \/ Respond
  PROVE  IndInv'
<1>1. /\ writer.phase \in {"append", "freeze", "respond"}
      /\ writer'.phase \in {"idle", "failed"}
      /\ writer' \in [phase : {"idle", "append", "track", "freeze", "respond", "failed"},
                      req : Requests, seq : Seqs]
      /\ UNCHANGED oracle /\ UNCHANGED <<last_seq, last_committed_seq>>
      /\ UNCHANGED <<queue, rows, commits>>
  BY TxnAssumption
     DEF AppendFails, FreezeFails, Respond, oracle, Idle, NoRequest, Requests, Seqs, IndInv, TypeOK
<1>2. WriterInv'
  BY <1>1, Zenon DEF WriterInv
<1>3. CASE writer.req.txn \in Txn
  <2> DEFINE t == writer.req.txn
  <2>1. drop_txn(t) /\ UNCHANGED <<oracle, commits>>
    BY <1>1, <1>3, Zenon DEF AppendFails, FreezeFails, Respond
  <2>2. /\ PhaseInv' /\ RecentInv' /\ CommitInv' /\ NoLostUpdates' /\ GuardedReadsHold'
        /\ NeededInv' /\ \A s \in Txn : txns'[s].started_seq <= last_committed_seq'
    BY <1>3, <2>1, DropKeeps, Zenon
  <2>3. /\ txns' \in [Txn -> TxnStates] /\ recent' \subseteq recent
        /\ \A s \in Txn : s # t => txns'[s] = txns[s]
    BY <1>3, <2>1, DropEffect
  <2>4. TypeOK'
    BY <1>1, <2>3, Zenon DEF IndInv, TypeOK
  <2>5. SeqInv'
    BY <1>1, <2>2, Zenon DEF IndInv, SeqInv
  <2>6. QueueInv'
    BY <1>1, <2>3 DEF IndInv, QueueInv
  <2> QED
    BY <1>2, <2>2, <2>4, <2>5, <2>6 DEF IndInv
<1>4. CASE writer.req.txn \notin Txn
  <2>1. UNCHANGED <<txns, recent>>
    BY <1>1, <1>4, Zenon DEF AppendFails, FreezeFails, Respond
  <2>2. TypeOK' /\ SeqInv' /\ PhaseInv' /\ QueueInv' /\ CommitInv' /\ RecentInv'
        /\ NoLostUpdates' /\ GuardedReadsHold'
    BY <1>1, <2>1 DEF IndInv, TypeOK, SeqInv, PhaseInv, QueueInv, CommitInv, RecentInv,
                      NoLostUpdates, GuardedReadsHold
  <2>3. NeededInv'
    BY <1>4, <2>1 DEF IndInv, NeededInv
  <2> QED
    BY <1>2, <2>2, <2>3 DEF IndInv
<1> QED
  BY <1>3, <1>4

LEMMA DrainKeeps ==
  ASSUME IndInv, Drain \/ ClockFails
  PROVE  IndInv'
<1> DEFINE r == Head(queue)
<1>1. /\ writer.phase \in {"idle", "failed"} /\ queue # << >> /\ queue' = Tail(queue)
      /\ UNCHANGED oracle /\ UNCHANGED <<last_seq, last_committed_seq>>
      /\ UNCHANGED <<rows, commits>>
      /\ writer'.phase = "failed"
      /\ writer' \in [phase : {"idle", "append", "track", "freeze", "respond", "failed"},
                      req : Requests, seq : Seqs]
  <2>1. CASE Drain
    BY <2>1, Zenon DEF Drain, oracle, IndInv, TypeOK
  <2>2. CASE ClockFails
    <3>1. [Idle EXCEPT !.phase = "failed"].phase = "failed"
      BY DEF Idle
    <3>2. [Idle EXCEPT !.phase = "failed"]
             \in [phase : {"idle", "append", "track", "freeze", "respond", "failed"},
                  req : Requests, seq : Seqs]
      BY TxnAssumption DEF Idle, NoRequest, Requests, Seqs
    <3> QED
      BY <2>2, <3>1, <3>2, Zenon DEF ClockFails, oracle
  <2> QED
    BY <2>1, <2>2, Zenon
<1>2. /\ r \in Requests /\ Tail(queue) \in Seq(Requests)
      /\ Len(queue) \in Nat /\ Len(Tail(queue)) = Len(queue) - 1
      /\ \A i \in 1 .. Len(queue) - 1 : Tail(queue)[i] = queue[i + 1]
                                        /\ i + 1 \in 1 .. Len(queue)
      /\ r.txn \in Txn => \A i \in 1 .. Len(queue) - 1 : Tail(queue)[i].txn # r.txn
  BY <1>1, Dequeue
<1>3. WriterInv'
  BY <1>1, Zenon DEF WriterInv
<1>4. CASE r.txn \in Txn
  <2>0. PICK t \in Txn : t = r.txn
    BY <1>4
  <2>1. drop_txn(t) /\ UNCHANGED <<oracle, commits>>
    BY <1>1, <1>4, <2>0 DEF Drain, ClockFails
  <2>2. /\ PhaseInv' /\ RecentInv' /\ CommitInv' /\ NoLostUpdates' /\ GuardedReadsHold'
        /\ NeededInv' /\ \A s \in Txn : txns'[s].started_seq <= last_committed_seq'
    BY <2>1, DropKeeps, Zenon
  <2>3. /\ txns' \in [Txn -> TxnStates] /\ recent' \subseteq recent
        /\ \A s \in Txn : s # t => txns'[s] = txns[s]
    BY <2>1, DropEffect, Zenon
  <2>4. TypeOK'
    BY <1>1, <1>2, <2>3, Zenon DEF IndInv, TypeOK
  <2>5. SeqInv'
    BY <1>1, <2>2, Zenon DEF IndInv, SeqInv
  <2>6. QueueInv'
    BY <1>1, <1>2, <2>0, <2>3 DEF IndInv, QueueInv
  <2> QED
    BY <1>3, <2>2, <2>4, <2>5, <2>6 DEF IndInv
<1>5. CASE r.txn \notin Txn
  <2>1. UNCHANGED <<txns, recent>>
    BY <1>5, Zenon DEF Drain, ClockFails
  <2>2. TypeOK' /\ SeqInv' /\ PhaseInv' /\ CommitInv' /\ RecentInv'
        /\ NoLostUpdates' /\ GuardedReadsHold'
    BY <1>1, <1>2, <2>1, Zenon DEF IndInv, TypeOK, SeqInv, PhaseInv, CommitInv, RecentInv,
                            NoLostUpdates, GuardedReadsHold
  <2>3. QueueInv'
    BY <1>1, <1>2, <2>1 DEF IndInv, QueueInv
  <2>4. NeededInv'
    BY <1>1, <2>1 DEF IndInv, NeededInv
  <2> QED
    BY <1>3, <2>2, <2>3, <2>4 DEF IndInv
<1> QED
  BY <1>4, <1>5

(***************************************************************************)
(* A commit with sequence number writer.seq becomes visible; c is what is  *)
(* recorded of it.  It follows every other one, so it disturbs none.       *)
(***************************************************************************)
LEMMA CommitOrder ==
  ASSUME IndInv, writer.phase = "track", NEW c \in Records,
         c.committed_seq = writer.seq, last_committed_seq' = writer.seq,
         commits' = commits \cup {c},
         \A e \in commits : c.started_seq < e.committed_seq =>
           c.write_keys \cap e.write_keys = {} /\ c.guarded \cap e.write_keys = {}
  PROVE  CommitInv' /\ NoLostUpdates' /\ GuardedReadsHold'
<1>1. /\ writer.seq \in Nat /\ last_committed_seq \in Nat /\ last_committed_seq < writer.seq
      /\ commits \subseteq Records
  BY TxnAssumption DEF IndInv, TypeOK, SeqInv, Seqs
<1>2. \A e \in commits : e.committed_seq \in Nat /\ e.committed_seq <= writer.seq
  BY <1>1, TxnAssumption DEF IndInv, CommitInv, Records
<1>3. CommitInv'
  BY <1>1, <1>2 DEF CommitInv
<1>4. \A e \in commits : ~ Concurrent(e, c)
  BY <1>1, <1>2 DEF Concurrent
<1>5. ~ Concurrent(c, c)
  BY <1>1 DEF Concurrent
<1>6. NoLostUpdates' /\ GuardedReadsHold'
  BY <1>4, <1>5 DEF IndInv, NoLostUpdates, GuardedReadsHold, Concurrent
<1> QED
  BY <1>3, <1>6, Zenon

LEMMA TrackTxnKeeps ==
  ASSUME IndInv, NEW t \in Txn, TrackTxn(t)
  PROVE  IndInv'
<1> DEFINE c == [started_seq |-> txns[t].started_seq, committed_seq |-> writer.seq,
                 write_keys |-> txns[t].write_keys, guarded |-> txns[t].guarded]
           m == [committed_seq |-> writer.seq, write_keys |-> txns[t].write_keys]
<1>1. /\ writer.phase = "track" /\ writer.req.txn = t
      /\ txns' = [txns EXCEPT ![t].active = FALSE]
      /\ last_committed_seq' = writer.seq /\ commits' = commits \cup {c}
      /\ writer' = [writer EXCEPT !.phase = "freeze"]
      /\ UNCHANGED <<last_seq, queue, rows>>
  BY DEF TrackTxn
<1>2. /\ txns \in [Txn -> TxnStates] /\ txns[t].active /\ txns[t].phase = "queued"
      /\ Clean(t)
      /\ writer \in [phase : {"idle", "append", "track", "freeze", "respond", "failed"},
                     req : Requests, seq : Seqs]
      /\ last_committed_seq \in Nat /\ last_seq \in Nat
      /\ last_committed_seq < writer.seq /\ writer.seq <= last_seq
      /\ writer.seq \in Nat /\ MaxSeq \in Nat
  BY <1>1, TxnAssumption DEF IndInv, TypeOK, WriterInv, SeqInv, Seqs
<1>3. /\ \A s \in Txn : s # t => txns'[s] = txns[s]
      /\ txns'[t] = [txns[t] EXCEPT !.active = FALSE]
      /\ writer'.phase = "freeze" /\ writer'.req = writer.req /\ writer'.seq = writer.seq
  BY <1>1, <1>2
<1>4. /\ ~ txns'[t].active /\ txns'[t].phase = "queued"
      /\ txns'[t].started_seq = txns[t].started_seq
      /\ txns'[t].guarded = txns[t].guarded /\ txns'[t].read_keys = txns[t].read_keys
      /\ txns'[t].scanned = txns[t].scanned
  BY <1>2, <1>3 DEF TxnStates
<1>5. recent' = (IF \E s \in Txn : txns'[s].active THEN recent \cup {m} ELSE {})
  BY <1>1, <1>2, Zenon DEF TrackTxn, track_recent_committed_state
<1>6. c \in Records /\ m \in Commits
  BY <1>2 DEF Records, Commits, TxnStates, Seqs
<1>7. TypeOK'
  <2>1. [txns[t] EXCEPT !.active = FALSE] \in TxnStates
    <3>1. txns[t] \in TxnStates
      BY <1>2, Zenon
    <3> QED
      BY <3>1, Zenon DEF TxnStates
  <2>2. txns' \in [Txn -> TxnStates]
    BY <2>1, <1>1, <1>2
  <2>3. recent' \subseteq Commits /\ commits' \subseteq Records
    BY <1>1, <1>5, <1>6 DEF IndInv, TypeOK
  <2> QED
    BY <2>2, <2>3, <1>1, <1>2 DEF IndInv, TypeOK
<1>8. SeqInv'
  <2>1. \A s \in Txn : txns'[s].started_seq = txns[s].started_seq
                       /\ txns[s].started_seq \in Nat
    BY <1>2, <1>3, <1>4 DEF TxnStates, Seqs
  <2> QED
    BY <2>1, <1>1, <1>2, <1>3 DEF IndInv, SeqInv
<1>9. PhaseInv'
  <2>1. ASSUME NEW s \in Txn, s # t
        PROVE  /\ txns'[s].phase \in {"open", "committing", "sending"} => txns'[s].active
               /\ txns'[s].phase = "new" => ~ txns'[s].active
               /\ txns'[s].guarded \subseteq txns'[s].read_keys \cup txns'[s].scanned
               /\ txns'[s].phase \in {"committing", "sending", "queued"} =>
                    txns'[s].guarded \subseteq txns'[s].read_keys
    BY <2>1, <1>3 DEF IndInv, PhaseInv
  <2>2. txns'[t].guarded \subseteq txns'[t].read_keys
    BY <1>2, <1>4, Zenon DEF IndInv, PhaseInv
  <2> QED
    BY <2>1, <2>2, <1>4 DEF PhaseInv
<1>10. QueueInv'
  <2>1. \A i \in 1 .. Len(queue) : queue[i].txn # t
    BY <1>1 DEF IndInv, QueueInv
  <2> QED
    BY <2>1, <1>1, <1>3 DEF IndInv, QueueInv
<1>11. CommitInv' /\ NoLostUpdates' /\ GuardedReadsHold'
  <2>1. \A e \in commits : c.started_seq < e.committed_seq =>
          c.write_keys \cap e.write_keys = {} /\ c.guarded \cap e.write_keys = {}
    <3>1. \A e \in commits : e.committed_seq > c.started_seq =>
            c.write_keys \cap e.write_keys = {} /\ c.guarded \cap e.write_keys = {}
      BY <1>2, Zenon DEF Clean
    <3>2. c.started_seq \in Nat /\ \A e \in commits : e.committed_seq \in Nat
      BY <1>2, <1>6 DEF IndInv, TypeOK, Records, Seqs
    <3> QED
      BY <3>1, <3>2
  <2>2. c.committed_seq = writer.seq
    OBVIOUS
  <2> QED
    BY <2>1, <2>2, <1>1, <1>6, CommitOrder, Zenon
<1>12. RecentInv'
  <2> SUFFICES ASSUME NEW s \in Txn, txns'[s].active, NEW e \in commits',
                      e.committed_seq > txns'[s].started_seq, e.write_keys # {}
               PROVE  [committed_seq |-> e.committed_seq, write_keys |-> e.write_keys]
                        \in recent'
    BY DEF RecentInv
  <2>1. s # t /\ txns'[s] = txns[s] /\ recent' = recent \cup {m}
    BY <1>3, <1>4, <1>5, Zenon
  <2>2. CASE e = c
    BY <2>1, <2>2, Zenon
  <2>3. CASE e \in commits
    BY <2>1, <2>3, Zenon DEF IndInv, RecentInv
  <2> QED
    BY <2>2, <2>3, <1>1, Zenon
<1>13. WriterInv' /\ NeededInv'
  BY <1>1, <1>3, <1>4, Zenon DEF WriterInv, NeededInv
<1> QED
  BY <1>7, <1>8, <1>9, <1>10, <1>11, <1>12, <1>13 DEF IndInv

LEMMA TrackBatchKeeps ==
  ASSUME IndInv, TrackBatch
  PROVE  IndInv'
<1> DEFINE c == [started_seq |-> writer.seq, committed_seq |-> writer.seq,
                 write_keys |-> writer.req.keys, guarded |-> {}]
           m == [committed_seq |-> writer.seq, write_keys |-> writer.req.keys]
<1>1. /\ writer.phase = "track" /\ writer.req.txn = NoTxn
      /\ last_committed_seq' = writer.seq /\ commits' = commits \cup {c}
      /\ writer' = [writer EXCEPT !.phase = "freeze"]
      /\ UNCHANGED <<last_seq, txns, queue, rows>>
  BY DEF TrackBatch
<1>2. /\ txns \in [Txn -> TxnStates]
      /\ writer \in [phase : {"idle", "append", "track", "freeze", "respond", "failed"},
                     req : Requests, seq : Seqs]
      /\ last_committed_seq \in Nat /\ last_seq \in Nat
      /\ last_committed_seq < writer.seq /\ writer.seq <= last_seq
      /\ writer.seq \in Nat /\ MaxSeq \in Nat /\ NoTxn \notin Txn
      /\ \A t \in Txn : txns[t].started_seq <= last_committed_seq
      /\ \A t \in Txn : txns[t].started_seq \in Nat
  BY <1>1, TxnAssumption DEF IndInv, TypeOK, SeqInv, Seqs, TxnStates
<1>3. writer'.phase = "freeze" /\ writer'.req = writer.req /\ writer'.seq = writer.seq
  BY <1>1, <1>2
<1>4. recent' = (IF \E t \in Txn : txns[t].active THEN recent \cup {m} ELSE {})
  BY Zenon DEF TrackBatch, track_recent_committed_state
<1>5. c \in Records /\ m \in Commits
  BY <1>2 DEF Records, Commits, Requests, Seqs
<1>6. TypeOK'
  <2>1. recent' \subseteq Commits /\ commits' \subseteq Records
    BY <1>1, <1>4, <1>5, Zenon DEF IndInv, TypeOK
  <2> QED
    BY <2>1, <1>1, <1>2, Zenon DEF IndInv, TypeOK
<1>7. SeqInv' /\ PhaseInv' /\ QueueInv'
  BY <1>1, <1>2, <1>3 DEF IndInv, SeqInv, PhaseInv, QueueInv
<1>8. CommitInv' /\ NoLostUpdates' /\ GuardedReadsHold'
  <2>1. \A e \in commits : ~ (c.started_seq < e.committed_seq)
    BY <1>2, TxnAssumption DEF IndInv, CommitInv, TypeOK, Records
  <2>2. c.committed_seq = writer.seq
    OBVIOUS
  <2> QED
    BY <2>1, <2>2, <1>1, <1>5, CommitOrder, Zenon
<1>9. RecentInv'
  BY <1>1, <1>4 DEF IndInv, RecentInv
<1>10. WriterInv'
  BY <1>1, <1>2, <1>3, Zenon DEF WriterInv
<1>11. NeededInv'
  <2>1. \A e \in recent : \E t \in Txn : txns[t].active /\ txns[t].started_seq <= e.committed_seq
    BY <1>1, Zenon DEF IndInv, NeededInv
  <2>2. \A t \in Txn : txns[t].started_seq <= m.committed_seq
    BY <1>2
  <2> QED
    BY <2>1, <2>2, <1>1, <1>4, Zenon DEF NeededInv
<1> QED
  BY <1>6, <1>7, <1>8, <1>9, <1>10, <1>11, Zenon DEF IndInv

-----------------------------------------------------------------------------
LEMMA InitInv == Init => IndInv
<1> SUFFICES ASSUME Init PROVE IndInv
  BY Zenon
<1>1. NewTxn \in TxnStates
  BY TxnAssumption DEF NewTxn, TxnStates, Phases, Levels, Seqs
<1>2. TypeOK
  BY <1>1, TxnAssumption DEF Init, TypeOK, Idle, NoRequest, Requests, Seqs
<1>3. SeqInv /\ PhaseInv
  BY DEF Init, SeqInv, PhaseInv, NewTxn, Idle
<1>4. QueueInv /\ CommitInv /\ RecentInv /\ WriterInv /\ NeededInv /\ NoLostUpdates
      /\ GuardedReadsHold
  BY DEF Init, QueueInv, CommitInv, RecentInv, WriterInv, NeededInv, NoLostUpdates,
         GuardedReadsHold, NewTxn, Idle
<1> QED
  BY <1>2, <1>3, <1>4 DEF IndInv

LEMMA NextKeeps == IndInv /\ [Next]_vars => IndInv'
<1> SUFFICES ASSUME IndInv, [Next]_vars PROVE IndInv'
  OBVIOUS
<1>1. ASSUME NEW t \in Txn, ClientStep(t) PROVE IndInv'
  <2>1. CASE LocalStep(t)
    BY <2>1, LocalKeeps, Zenon
  <2>2. CASE CommitReadOnly(t) \/ Send(t) \/ Rollback(t)
    BY <2>2, CommitReadOnlyKeeps, SendKeeps, RollbackKeeps, Zenon
  <2> QED
    BY <1>1, <2>1, <2>2, Zenon DEF ClientStep, LocalStep
<1>2. ASSUME NEW keys \in Batches, Write(keys) PROVE IndInv'
  BY <1>2, WriteKeeps, Zenon
<1>3. CASE WriterStep
  <2>1. ASSUME NEW seq \in Seqs, Accept(seq) PROVE IndInv'
    BY <2>1, AcceptKeeps, Zenon
  <2>2. CASE InvalidSequenceNumber
    BY <2>2, InvalidSequenceNumberKeeps, Zenon
  <2>3. CASE Reject \/ AppendEntries
    BY <2>3, AppendKeeps, Zenon
  <2>4. CASE AppendFails \/ FreezeFails \/ Respond
    BY <2>4, EndRequestKeeps, Zenon
  <2>5. ASSUME NEW t \in Txn, TrackTxn(t) PROVE IndInv'
    BY <2>5, TrackTxnKeeps, Zenon
  <2>6. CASE TrackBatch
    BY <2>6, TrackBatchKeeps, Zenon
  <2>7. CASE Drain \/ ClockFails
    BY <2>7, DrainKeeps, Zenon
  <2> QED
    BY <1>3, <2>1, <2>2, <2>3, <2>4, <2>5, <2>6, <2>7, Zenon DEF WriterStep
<1>4. CASE UNCHANGED vars
  <2>1. UNCHANGED <<last_seq, last_committed_seq, txns, recent, queue, writer, rows, commits>>
    BY <1>4 DEF vars
  <2> QED
    BY <2>1, Zenon DEF IndInv, TypeOK, SeqInv, PhaseInv, QueueInv, CommitInv, RecentInv, WriterInv,
                Clean, NeededInv, NoLostUpdates, GuardedReadsHold
<1> QED
  BY <1>1, <1>2, <1>3, <1>4 DEF Next

(***************************************************************************)
(* The inductive invariant holds in every reachable state.                 *)
(***************************************************************************)
THEOREM Invariance == Spec => []IndInv
BY InitInv, NextKeeps, PTL DEF Spec

\* Every variable of the manager, the writer and the clients has its type.
THEOREM TypeCorrect == Spec => []TypeOK
<1>1. IndInv => TypeOK
  BY DEF IndInv
<1> QED
  BY <1>1, Invariance, PTL

\* First committer wins: commits that were concurrent wrote no tracked key in
\* common, although recycle_recent_committed_txns forgets most commits.
THEOREM FirstCommitterWins == Spec => []NoLostUpdates
<1>1. IndInv => NoLostUpdates
  BY Zenon DEF IndInv
<1> QED
  BY <1>1, Invariance, PTL

\* What a committed transaction read under SerializableSnapshot, or marked,
\* was not written between its snapshot and its commit.
THEOREM Serializable == Spec => []GuardedReadsHold
<1>1. IndInv => GuardedReadsHold
  BY Zenon DEF IndInv
<1> QED
  BY <1>1, Invariance, PTL

\* recent_committed_txns holds only commits that an active transaction may
\* have to be checked against.
THEOREM RecentBounded == Spec => []RecentIsNeeded
<1>1. IndInv => RecentIsNeeded
  BY DEF IndInv, NeededInv, RecentIsNeeded
<1> QED
  BY <1>1, Invariance, PTL

\* write_batch adds no row below the snapshot of an active transaction.
THEOREM SnapshotsStable == Spec => SnapshotStable
<1> DEFINE Grow == \A t \in Txn : txns[t].active =>
                     \A r \in rows' \ rows : r.seq > txns[t].started_seq
<1>1. ASSUME IndInv, [Next]_vars PROVE [Grow]_vars
  <2>1. CASE AppendEntries
    <3>1. /\ writer.phase = "append" /\ writer.seq \in Nat /\ last_committed_seq \in Nat
          /\ last_committed_seq < writer.seq
          /\ \A t \in Txn : txns[t].started_seq <= last_committed_seq
                            /\ txns[t].started_seq \in Nat
      <4>1. /\ writer.phase = "append" /\ last_committed_seq < writer.seq
            /\ \A t \in Txn : txns[t].started_seq <= last_committed_seq
            /\ writer.seq \in Seqs /\ last_committed_seq \in Seqs
            /\ \A t \in Txn : txns[t].started_seq \in Seqs
        BY <1>1, <2>1, Zenon DEF AppendEntries, IndInv, TypeOK, SeqInv, TxnStates
      <4>2. Seqs \subseteq Nat
        BY TxnAssumption DEF Seqs
      <4> QED
        BY <4>1, <4>2, Zenon
    <3>2. \A r \in rows' \ rows : r.seq = writer.seq
      BY <2>1 DEF AppendEntries
    <3> QED
      BY <3>1, <3>2
  <2>2. CASE ~ AppendEntries /\ Next
    <3>1. rows' = rows
      <4>1. ASSUME NEW t \in Txn, ClientStep(t) PROVE rows' = rows
        BY <4>1, Zenon DEF ClientStep, Begin, Get, MarkRead, Put, UnmarkWrite, Scan, Commit,
                           CommitReadOnly, Send, Rollback
      <4>2. ASSUME WriterStep PROVE rows' = rows
        BY <2>2, <4>2, Zenon DEF WriterStep, Accept, Reject, InvalidSequenceNumber, ClockFails,
                                 AppendFails, TrackTxn, TrackBatch, FreezeFails, Respond, Drain
      <4>3. ASSUME NEW keys \in Batches, Write(keys) PROVE rows' = rows
        BY <4>3, Zenon DEF Write
      <4> QED
        BY <2>2, <4>1, <4>2, <4>3, Zenon DEF Next
    <3> QED
      BY <3>1, Zenon
  <2> QED
    BY <1>1, <2>1, <2>2, Zenon
<1> QED
  BY <1>1, Invariance, PTL DEF Spec, SnapshotStable
=============================================================================
