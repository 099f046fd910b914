---------------------------- MODULE Transactions ----------------------------
(***************************************************************************)
(* Transactions of one open database: the transaction manager's conflict   *)
(* detection and the batch writer, the only task that commits.  Clients    *)
(* begin, read, write, roll back and commit concurrently with it; they     *)
(* meet the writer at the manager's lock and at the writer's queue.        *)
(*                                                                         *)
(* A key range is the set of keys in it.  Values play no part in conflict  *)
(* detection: a row is a key and the sequence number it was written with.  *)
(***************************************************************************)
EXTENDS Integers, Sequences, FiniteSets

CONSTANTS
  Txn,      \* transaction handles, each used once
  Key,      \* keys
  Batches,  \* the key sets that writes without a transaction may have
  Ranges,   \* the ranges that transactions may scan
  MaxCalls, \* bound: the calls of a transaction that leave something behind
  MaxSeq,   \* bound: the highest sequence number
  NoTxn     \* stands for None in a write request

ASSUME TxnAssumption ==
  /\ MaxSeq \in Nat /\ MaxCalls \in Nat
  /\ Batches \subseteq SUBSET Key
  /\ Ranges \subseteq SUBSET Key
  /\ NoTxn \notin Txn

Seqs == 0 .. MaxSeq
Levels == {"Snapshot", "SerializableSnapshot"}

(***************************************************************************)
(* A DbTransaction together with its TransactionState.                     *)
(***************************************************************************)
Phases == {"new", "open", "committing", "sending", "queued", "ended"}
TxnStates == [phase : Phases,
              isolation_level : Levels,
              active : BOOLEAN,          \* it is in active_txns
              started_seq : Seqs,
              write_keys : SUBSET Key,   \* tracked for conflict detection
              read_keys : SUBSET Key,    \* tracked, those of read_ranges too
              batch : SUBSET Key,        \* the keys of write_batch
              untracked : SUBSET Key,    \* untracked_write_keys
              scanned : SUBSET Key,      \* the keys of range_trackers
              guarded : SUBSET Key]      \* history: read under SSI or marked

Requests == [txn : Txn \cup {NoTxn}, keys : SUBSET Key]
\* An entry of recent_committed_txns
Commits == [committed_seq : Seqs, write_keys : SUBSET Key]
\* A commit, as the properties see it: the keys it wrote with tracking on, and
\* those it relies on
Records == [started_seq : Seqs, committed_seq : 0 .. MaxSeq + 1,
            write_keys : SUBSET Key, guarded : SUBSET Key]

VARIABLES
  last_seq,            \* the oracle: the last sequence number given out
  last_committed_seq,  \* the oracle: what readers may see
  txns,                \* per handle: the transaction
  recent,              \* recent_committed_txns
  queue,               \* write requests on their way to the batch writer
  writer,              \* the batch writer: its phase, request and commit_seq
  rows,                \* the rows of the database
  commits              \* history: every commit

oracle == <<last_seq, last_committed_seq>>
vars == <<last_seq, last_committed_seq, txns, recent, queue, writer, rows, commits>>

NewTxn == [phase |-> "new", isolation_level |-> "Snapshot", active |-> FALSE,
           started_seq |-> 0, write_keys |-> {}, read_keys |-> {}, batch |-> {},
           untracked |-> {}, scanned |-> {}, guarded |-> {}]
NoRequest == [txn |-> NoTxn, keys |-> {}]
Idle == [phase |-> "idle", req |-> NoRequest, seq |-> 0]

Init ==
  /\ last_seq = 0
  /\ last_committed_seq = 0
  /\ txns = [t \in Txn |-> NewTxn]
  /\ recent = {}
  /\ queue = << >>
  /\ writer = Idle
  /\ rows = {}
  /\ commits = {}

-----------------------------------------------------------------------------
(***************************************************************************)
(* The transaction manager                                                 *)
(***************************************************************************)
\* Faulty variant: every drop clears the list.
RecycleAll(ts) == {}

\* recycle_recent_committed_txns: what an active transaction may have to be
\* checked against; nothing when there is none.
recycle_recent_committed_txns(ts) ==
  {e \in recent : \E t \in Txn : ts[t].active /\ ts[t].started_seq <= e.committed_seq}

\* Faulty variant: a commit is pushed and the list never cleared.
PushOnly(ts, e) == recent \cup {e}

\* track_recent_committed_state
track_recent_committed_state(ts, e) ==
  IF \E t \in Txn : ts[t].active THEN recent \cup {e} ELSE {}

has_write_write_conflict(t) ==
  \E e \in recent : /\ e.committed_seq > txns[t].started_seq
                    /\ e.write_keys \cap txns[t].write_keys # {}

has_read_write_conflict(t) ==
  \E e \in recent : /\ e.committed_seq > txns[t].started_seq
                    /\ e.write_keys \cap txns[t].read_keys # {}

\* Faulty variant: only write-write conflicts are looked for.
ChecksWritesOnly(t) == txns[t].active /\ has_write_write_conflict(t)

check_has_conflict(t) ==
  txns[t].active /\ (has_write_write_conflict(t) \/ has_read_write_conflict(t))

Released(t) == [txns EXCEPT ![t] = [NewTxn EXCEPT !.phase = "ended"]]

\* drop_txn, with the handle
drop_txn(t) ==
  /\ txns' = Released(t)
  /\ recent' = recycle_recent_committed_txns(Released(t))

-----------------------------------------------------------------------------
(***************************************************************************)
(* Clients                                                                 *)
(***************************************************************************)
\* Faulty variant: the snapshot is the last sequence number given out.
BeginAtLast(t, level) ==
  /\ txns[t].phase = "new"
  /\ txns' = [txns EXCEPT ![t].phase = "open", ![t].isolation_level = level,
                          ![t].active = TRUE, ![t].started_seq = last_seq]
  /\ UNCHANGED <<oracle, recent, queue, writer, rows, commits>>

\* new_transaction
Begin(t, level) ==
  /\ txns[t].phase = "new"
  /\ txns' = [txns EXCEPT ![t].phase = "open", ![t].isolation_level = level,
                          ![t].active = TRUE, ![t].started_seq = last_committed_seq]
  /\ UNCHANGED <<oracle, recent, queue, writer, rows, commits>>

MayCall(t) ==
  /\ txns[t].phase = "open"
  /\ Cardinality(txns[t].read_keys) + Cardinality(txns[t].scanned)
       + Cardinality(txns[t].batch) + Cardinality(txns[t].untracked) < MaxCalls

\* get: tracked under SSI, before the read; reads of SI leave no trace.
Get(t, k) ==
  /\ MayCall(t)
  /\ txns[t].isolation_level = "SerializableSnapshot"
  /\ txns' = [txns EXCEPT ![t].read_keys = @ \cup {k}, ![t].guarded = @ \cup {k}]
  /\ UNCHANGED <<oracle, recent, queue, writer, rows, commits>>

\* scan: the requested range is kept in the handle until the commit.
Scan(t, range) ==
  /\ MayCall(t)
  /\ txns[t].isolation_level = "SerializableSnapshot"
  /\ txns' = [txns EXCEPT ![t].scanned = @ \cup range, ![t].guarded = @ \cup range]
  /\ UNCHANGED <<oracle, recent, queue, writer, rows, commits>>

\* mark_read: tracked at either level
MarkRead(t, k) ==
  /\ MayCall(t)
  /\ txns' = [txns EXCEPT ![t].read_keys = @ \cup {k}, ![t].guarded = @ \cup {k}]
  /\ UNCHANGED <<oracle, recent, queue, writer, rows, commits>>

\* put, delete, merge
Put(t, k) ==
  /\ MayCall(t)
  /\ txns' = [txns EXCEPT ![t].batch = @ \cup {k}]
  /\ UNCHANGED <<oracle, recent, queue, writer, rows, commits>>

UnmarkWrite(t, k) ==
  /\ MayCall(t)
  /\ txns' = [txns EXCEPT ![t].untracked = @ \cup {k}]
  /\ UNCHANGED <<oracle, recent, queue, writer, rows, commits>>

\* commit_with_options up to the conflict check of a batch without writes or
\* the wait for backpressure of another one
Commit(t) ==
  /\ txns[t].phase = "open"
  /\ txns' = [txns EXCEPT
       ![t].phase = IF txns[t].batch = {} THEN "committing" ELSE "sending",
       ![t].read_keys = @ \cup txns[t].scanned,
       ![t].write_keys = txns[t].batch \ txns[t].untracked]
  /\ UNCHANGED <<oracle, recent, queue, writer, rows, commits>>

\* The check of a batch without writes; the handle is dropped with the result.
CommitReadOnly(t) ==
  /\ txns[t].phase = "committing"
  /\ commits' = IF check_has_conflict(t) THEN commits
                ELSE commits \cup {[started_seq |-> txns[t].started_seq,
                                    committed_seq |-> last_committed_seq + 1,
                                    write_keys |-> {},
                                    guarded |-> txns[t].guarded]}
  /\ drop_txn(t)
  /\ UNCHANGED <<oracle, queue, writer, rows>>

\* The request goes to the batch writer, and the transaction with it.
Send(t) ==
  /\ txns[t].phase = "sending"
  /\ last_seq + Len(queue) < MaxSeq
  /\ txns' = [txns EXCEPT ![t].phase = "queued"]
  /\ queue' = Append(queue, [txn |-> t, keys |-> txns[t].batch])
  /\ UNCHANGED <<oracle, recent, writer, rows, commits>>

\* rollback; or the commit is cancelled or fails before the request is sent
Rollback(t) ==
  /\ txns[t].phase \in {"open", "sending"}
  /\ drop_txn(t)
  /\ UNCHANGED <<oracle, queue, writer, rows, commits>>

\* put, delete, merge or write without a transaction
Write(keys) ==
  /\ last_seq + Len(queue) < MaxSeq
  /\ queue' = Append(queue, [txn |-> NoTxn, keys |-> keys])
  /\ UNCHANGED <<oracle, txns, recent, writer, rows, commits>>

-----------------------------------------------------------------------------
(***************************************************************************)
(* The batch writer: write_batch, step by step                             *)
(***************************************************************************)
\* The next request gets its sequence number, the next one or a larger one
\* that its options ask for, and is checked for conflicts.
Accept(seq) ==
  /\ writer.phase = "idle" /\ queue # << >>
  /\ seq > last_seq
  /\ last_seq' = seq
  /\ queue' = Tail(queue)
  /\ writer' = [phase |-> IF Head(queue).txn \in Txn /\ check_has_conflict(Head(queue).txn)
                          THEN "respond" ELSE "append",
                req |-> Head(queue), seq |-> seq]
  /\ UNCHANGED <<last_committed_seq, txns, recent, rows, commits>>

\* The clock went back: the event loop fails.
ClockFails ==
  /\ writer.phase = "idle" /\ queue # << >>
  /\ writer' = [Idle EXCEPT !.phase = "failed"]
  /\ queue' = Tail(queue)
  /\ IF Head(queue).txn \in Txn THEN drop_txn(Head(queue).txn)
     ELSE UNCHANGED <<txns, recent>>
  /\ UNCHANGED <<oracle, rows, commits>>

\* A sequence number that is not larger than the last one
InvalidSequenceNumber ==
  /\ writer.phase = "idle" /\ queue # << >>
  /\ queue' = Tail(queue)
  /\ writer' = [phase |-> "respond", req |-> Head(queue), seq |-> last_seq]
  /\ UNCHANGED <<oracle, txns, recent, rows, commits>>

\* extract_entries or validate_segment_antichain fails
Reject ==
  /\ writer.phase = "append"
  /\ writer' = [writer EXCEPT !.phase = "respond"]
  /\ UNCHANGED <<oracle, txns, recent, queue, rows, commits>>

\* The entries go to the WAL buffer and to the memtable.
AppendEntries ==
  /\ writer.phase = "append"
  /\ rows' = rows \cup {[key |-> k, seq |-> writer.seq] : k \in writer.req.keys}
  /\ writer' = [writer EXCEPT !.phase = "track"]
  /\ UNCHANGED <<oracle, txns, recent, queue, commits>>

\* WalWriter::append fails, and with it the event loop.
AppendFails ==
  /\ writer.phase = "append"
  /\ writer' = [Idle EXCEPT !.phase = "failed"]
  /\ IF writer.req.txn \in Txn THEN drop_txn(writer.req.txn)
     ELSE UNCHANGED <<txns, recent>>
  /\ UNCHANGED <<oracle, queue, rows, commits>>

\* track_recent_committed_txn, which also makes the rows visible
TrackTxn(t) ==
  LET ts == [txns EXCEPT ![t].active = FALSE] IN
  /\ writer.phase = "track" /\ writer.req.txn = t
  /\ txns' = ts
  /\ recent' = IF txns[t].active
               THEN track_recent_committed_state(ts, [committed_seq |-> writer.seq,
                                                      write_keys |-> txns[t].write_keys])
               ELSE recent
  /\ last_committed_seq' = writer.seq
  /\ commits' = commits \cup {[started_seq |-> txns[t].started_seq,
                               committed_seq |-> writer.seq,
                               write_keys |-> txns[t].write_keys,
                               guarded |-> txns[t].guarded]}
  /\ writer' = [writer EXCEPT !.phase = "freeze"]
  /\ UNCHANGED <<last_seq, queue, rows>>

\* Faulty variant: last_committed_seq is taken for the first sequence number
\* that readers may not see.
TrackBatchExclusive ==
  /\ writer.phase = "track" /\ writer.req.txn = NoTxn
  /\ recent' = track_recent_committed_state(txns, [committed_seq |-> writer.seq,
                                                   write_keys |-> writer.req.keys])
  /\ last_committed_seq' = writer.seq + 1
  /\ commits' = commits \cup {[started_seq |-> writer.seq, committed_seq |-> writer.seq,
                               write_keys |-> writer.req.keys, guarded |-> {}]}
  /\ writer' = [writer EXCEPT !.phase = "freeze"]
  /\ UNCHANGED <<last_seq, txns, queue, rows>>

\* track_recent_committed_write_batch
TrackBatch ==
  /\ writer.phase = "track" /\ writer.req.txn = NoTxn
  /\ recent' = track_recent_committed_state(txns, [committed_seq |-> writer.seq,
                                                   write_keys |-> writer.req.keys])
  /\ last_committed_seq' = writer.seq
  /\ commits' = commits \cup {[started_seq |-> writer.seq, committed_seq |-> writer.seq,
                               write_keys |-> writer.req.keys, guarded |-> {}]}
  /\ writer' = [writer EXCEPT !.phase = "freeze"]
  /\ UNCHANGED <<last_seq, txns, queue, rows>>

\* maybe_freeze_current_memtable finds the WAL closed: the event loop fails,
\* with the commit visible.
FreezeFails ==
  /\ writer.phase = "freeze"
  /\ writer' = [Idle EXCEPT !.phase = "failed"]
  /\ IF writer.req.txn \in Txn THEN drop_txn(writer.req.txn)
     ELSE UNCHANGED <<txns, recent>>
  /\ UNCHANGED <<oracle, queue, rows, commits>>

\* The result is sent and the request's transaction dropped.
Respond ==
  /\ writer.phase \in {"freeze", "respond"}
  /\ writer' = Idle
  /\ IF writer.req.txn \in Txn THEN drop_txn(writer.req.txn)
     ELSE UNCHANGED <<txns, recent>>
  /\ UNCHANGED <<oracle, queue, rows, commits>>

\* cleanup after a failure: what is queued is answered with the error.
Drain ==
  /\ writer.phase = "failed" /\ queue # << >>
  /\ queue' = Tail(queue)
  /\ IF Head(queue).txn \in Txn THEN drop_txn(Head(queue).txn)
     ELSE UNCHANGED <<txns, recent>>
  /\ UNCHANGED <<oracle, writer, rows, commits>>

-----------------------------------------------------------------------------
ClientStep(t) ==
  \/ \E level \in Levels : Begin(t, level)
  \/ \E k \in Key : Get(t, k) \/ MarkRead(t, k) \/ Put(t, k) \/ UnmarkWrite(t, k)
  \/ \E range \in Ranges : Scan(t, range)
  \/ Commit(t) \/ CommitReadOnly(t) \/ Send(t) \/ Rollback(t)

WriterStep ==
  \/ \E seq \in Seqs : Accept(seq)
  \/ ClockFails \/ InvalidSequenceNumber \/ Reject \/ AppendEntries \/ AppendFails
  \/ \E t \in Txn : TrackTxn(t)
  \/ TrackBatch \/ FreezeFails \/ Respond \/ Drain

Next ==
  \/ \E t \in Txn : ClientStep(t)
  \/ \E keys \in Batches : Write(keys)
  \/ WriterStep

Spec == Init /\ [][Next]_vars

-----------------------------------------------------------------------------
TypeOK ==
  /\ last_seq \in Seqs /\ last_committed_seq \in Seqs
  /\ txns \in [Txn -> TxnStates]
  /\ recent \subseteq Commits
  /\ queue \in Seq(Requests)
  /\ writer \in [phase : {"idle", "append", "track", "freeze", "respond", "failed"},
                 req : Requests, seq : Seqs]
  /\ rows \subseteq [key : Key, seq : Seqs]
  /\ commits \subseteq Records

\* e committed after the snapshot of c was taken and before c committed.
Concurrent(c, e) ==
  c.started_seq < e.committed_seq /\ e.committed_seq < c.committed_seq

(***************************************************************************)
(* Snapshot isolation, first committer wins: no update is lost.  Two       *)
(* commits that were concurrent wrote no key in common, unmark_write       *)
(* aside, although the manager has forgotten most of the commits.          *)
(***************************************************************************)
NoLostUpdates ==
  \A c, e \in commits : Concurrent(c, e) => c.write_keys \cap e.write_keys = {}

(***************************************************************************)
(* Serializability: what a transaction read by key or by range under       *)
(* SerializableSnapshot, or marked as read at either level, was not        *)
(* written between its snapshot and its commit, so it might as well have   *)
(* run at its commit.                                                      *)
(***************************************************************************)
GuardedReadsHold ==
  \A c, e \in commits : Concurrent(c, e) => c.guarded \cap e.write_keys = {}

(***************************************************************************)
(* A snapshot is complete when it is taken: no row with a sequence number  *)
(* that an active transaction sees is added later.                         *)
(***************************************************************************)
SnapshotStable ==
  [][\A t \in Txn : txns[t].active =>
       \A r \in rows' \ rows : r.seq > txns[t].started_seq]_vars

(***************************************************************************)
(* The manager keeps no commit that no active transaction can conflict     *)
(* with; a commit's own drop does the last of the cleaning.                *)
(***************************************************************************)
RecentIsNeeded ==
  writer.phase \notin {"freeze", "respond"} =>
    \A e \in recent : \E t \in Txn : txns[t].active /\ txns[t].started_seq <= e.committed_seq
====
