--------------------------- MODULE FlushPipeline ---------------------------
(***************************************************************************)
(* The memtable flush pipeline of one open database.  The batch writer     *)
(* appends rows to the WAL buffer and the memtable and freezes memtables;  *)
(* the tracker dispatches frozen memtables to a pool of uploaders; the     *)
(* manifest writer puts uploaded ones into the manifest in order, creates  *)
(* checkpoints and answers flush requests.  A compactor updates the same   *)
(* manifest.  Snapshots and transactions keep old versions of a key from   *)
(* being dropped.  The tasks talk through unbounded channels.              *)
(*                                                                         *)
(* A row is its sequence number; every write is a batch of one row.  A     *)
(* memtable is named by its last_seq, which is also the name of its L0     *)
(* SST.  There is no segment extractor, hence one LSM tree.                *)
(***************************************************************************)
EXTENDS Integers, Sequences, FiniteSetsExt, TLC

CONSTANTS
  Setups,       \* the settings and bounds explored, see Setup
  Parallelism,  \* l0_flush_parallelism
  Flush,        \* calls of flush_memtables
  Ckpt,         \* calls of begin_checkpoint
  Snapshot,     \* snapshots, each opened once
  Transaction,  \* transactions, each begun once
  NoSource      \* options.source of a checkpoint that has none

\* The settings wal_enabled and l0_max_ssts, and the bounds of one database: the
\* highest sequence number, how many calls are made and readers (snapshots and
\* transactions) opened, and whether the database is closed or a task fails.
Setup == [wal_enabled : BOOLEAN, l0_max : Nat \ {0}, max_seq : Nat,
          flushes : Nat, ckpts : Nat, readers : Nat, may_stop : BOOLEAN]

ASSUME ConstantsAssumption ==
  /\ Setups \subseteq Setup
  /\ Parallelism \in Nat \ {0}
  /\ NoSource \notin Ckpt

NoFile == -1          \* wal_file of a cursor when there is no WAL

(***************************************************************************)
(* A manifest: the L0 SSTs, newest first; the SSTs that are in sorted      *)
(* runs; last_compacted_l0 (0 if none); last_l0_seq; replay_after_wal_id;  *)
(* next_wal_sst_id; recent_snapshot_min_seq; the checkpoints.              *)
(***************************************************************************)
NewManifest == [l0 |-> << >>, sorted |-> {}, marker |-> 0, last_l0 |-> 0,
                replay_after |-> 0, next_wal |-> 1, recent |-> 0, ckpts |-> {}]

VARIABLES
  setup,      \* one of Setups; never changes
  appended,   \* the last row of the WAL buffers
  seq,        \* last_committed_seq
  walEnd,     \* walEnd[i]: the last row of WAL file i, frozen or flushed
  flushed,    \* last_flushed_wal_id
  durable,    \* durable_seq of the database status
  wake,       \* DurableSeqNotifier has a change to report
  frozen,     \* the memtables frozen so far
  imm,        \* imm_memtable, oldest first, each with recent_flushed_wal_id
  tq,         \* the tracker's channel
  tracked,    \* the tracker's frontier
  jobs,       \* the uploads dispatched and not reported, oldest first
  mq,         \* the manifest writer's channel
  ready,      \* memtables uploaded, to be retired
  l0durable,  \* the manifest writer's durable_seq
  waiting,    \* pending_flushes: calls and what they wait for
  pend,       \* pending_checkpoints
  mw,         \* the manifest writer: where it is and what it is writing
  local,      \* the manifest of the database state
  stored,     \* the latest manifest in the object store
  idCurrent,  \* the version the manifest writer holds is the stored one
  dirtyCurrent, \* the database state was taken from that version
  fl,         \* per flush call
  ck,         \* per checkpoint call
  opened,     \* per snapshot and transaction: its state and started_seq
  cut,        \* the retention boundaries that uploads are computing
  kept,       \* what is left of the rows of an SST
  sample,     \* the oldest readers the manifest writer has found
  merge,      \* the compaction that runs
  mode        \* "open", "closing" (clean shutdown) or "failed"

writer == <<setup, appended, seq, walEnd, flushed, frozen>>
tracker == <<tracked, jobs>>
manifests == <<local, stored, idCurrent, dirtyCurrent>>
mwriter == <<ready, l0durable, waiting, pend, mw>>
clients == <<fl, ck>>
retention == <<opened, cut, kept, sample, merge>>
vars == <<writer, durable, wake, imm, tq, tracker, mq, mwriter, manifests, clients,
          retention, mode>>

Idle == [pc |-> "idle", batch |-> << >>, ckpts |-> << >>, dirty |-> NewManifest,
         final |-> FALSE]
At(m, pc) == [m EXCEPT !.pc = pc]
Msg(k, x) == [kind |-> k, of |-> x]
Cursor(s, w) == [seq |-> s, wal |-> w]
NoCursor == Cursor(-1, NoFile)
Last(s) == s[Len(s)]

Reader == Snapshot \cup Transaction
NoMerge == [top |-> 0, min |-> 0]

Init ==
  /\ setup \in Setups
  /\ appended = 0 /\ seq = 0 /\ walEnd = << >> /\ flushed = 0
  /\ durable = 0 /\ wake = FALSE
  /\ frozen = {} /\ imm = << >>
  /\ tq = << >> /\ tracked = << >> /\ jobs = << >>
  /\ mq = << >> /\ ready = {} /\ l0durable = 0 /\ waiting = {} /\ pend = << >>
  /\ mw = Idle
  /\ local = NewManifest /\ stored = NewManifest
  /\ idCurrent = TRUE /\ dirtyCurrent = TRUE
  /\ fl = [f \in Flush |-> [st |-> "none", low |-> 0, wal |-> 0]]
  /\ ck = [c \in Ckpt |-> [st |-> "none", low |-> 0, high |-> 0,
                           source |-> NoSource, floor |-> NoCursor,
                           bound |-> NoCursor, l0 |-> 0, exact |-> TRUE]]
  /\ opened = [x \in Reader |-> [st |-> "new", seq |-> 0]]
  /\ cut = << >> /\ kept = << >> /\ sample = << >> /\ merge = NoMerge
  /\ mode = "open"

-----------------------------------------------------------------------------
(***************************************************************************)
(* The batch writer and the WAL                                            *)
(***************************************************************************)
LastFrozen == Max(frozen \cup {0})
LastWalRow == IF walEnd = << >> THEN 0 ELSE Last(walEnd)

\* freeze_current_wal
FrozenWal == IF setup.wal_enabled /\ appended > LastWalRow
             THEN Append(walEnd, appended) ELSE walEnd

\* freeze_current_memtable_with_state_guard: an empty memtable stays.
Freeze(last) ==
  IF last > LastFrozen
  THEN /\ imm' = Append(imm, [last |-> last, wal |-> flushed])
       /\ frozen' = frozen \cup {last}
       /\ tq' = Append(tq, Msg("frozen", 0))
  ELSE UNCHANGED <<imm, frozen, tq>>

\* write_batch up to the WAL append
AppendRow ==
  /\ setup.wal_enabled
  /\ mode = "open"
  /\ appended = seq /\ seq < setup.max_seq
  /\ appended' = seq + 1
  /\ UNCHANGED <<retention, setup, seq, walEnd, flushed, durable, wake, frozen, imm, tq,
                 tracker, mq, mwriter, manifests, clients, mode>>

\* The rest of it: the memtable, the commit, and a freeze if it got full
CommitRow ==
  /\ IF setup.wal_enabled THEN appended = seq + 1 ELSE mode = "open" /\ seq < setup.max_seq
  /\ seq' = seq + 1 /\ appended' = seq + 1
  /\ \/ Freeze(seq + 1)
     \/ UNCHANGED <<imm, frozen, tq>>
  /\ UNCHANGED <<retention, setup, walEnd, flushed, durable, wake, tracker,
                 mq, mwriter, manifests, clients, mode>>

\* do_flush, started by the ticker or the size of the buffer
FreezeWal ==
  /\ mw.pc # "closed"
  /\ walEnd' = FrozenWal
  /\ walEnd' # walEnd
  /\ UNCHANGED <<retention, setup, appended, seq, flushed, durable, wake, frozen, imm, tq,
                 tracker, mq, mwriter, manifests, clients, mode>>

WalNotified == flushed > 0 => durable >= walEnd[flushed]

\* The next WAL file is written and recorded.
FlushWal ==
  /\ mw.pc # "closed"
  /\ flushed < Len(walEnd)
  /\ WalNotified
  /\ flushed' = flushed + 1
  /\ UNCHANGED <<retention, setup, appended, seq, walEnd, durable, wake, frozen, imm, tq,
                 tracker, mq, mwriter, manifests, clients, mode>>

\* Faulty variant: the status change is not reported to the manifest writer.
NotifyWalSilently ==
  /\ ~ WalNotified
  /\ durable' = walEnd[flushed]
  /\ UNCHANGED <<retention, writer, wake, imm, tq, tracker, mq, mwriter, manifests, clients, mode>>

\* Its listener: the rows are durable.
NotifyWal ==
  /\ mw.pc # "closed"
  /\ ~ WalNotified
  /\ durable' = walEnd[flushed]
  /\ wake' = TRUE
  /\ UNCHANGED <<retention, writer, imm, tq, tracker, mq, mwriter, manifests, clients, mode>>

-----------------------------------------------------------------------------
(***************************************************************************)
(* Callers                                                                 *)
(***************************************************************************)
\* flush_batch_writer(freeze_memtable = true), run between two writes
BatchWriterFlush ==
  /\ mode = "open" /\ appended = seq
  /\ walEnd' = FrozenWal
  /\ Freeze(seq)
  /\ UNCHANGED <<retention, setup, appended, seq, flushed, durable, wake, tracker, mq,
                 mwriter, manifests, mode>>

\* Bound: another call may be made.
CallLeft(calls, bound) == Cardinality({x \in DOMAIN calls : calls[x].st # "none"}) < bound

FlushCall(f) ==
  /\ fl[f].st = "none" /\ CallLeft(fl, setup.flushes)
  /\ BatchWriterFlush
  /\ fl' = [fl EXCEPT ![f] = [st |-> "wal", low |-> seq, wal |-> Len(walEnd')]]
  /\ UNCHANGED ck

\* The WAL flush has completed, or the database has been closed.
FlushSend(f) ==
  /\ fl[f].st = "wal"
  /\ flushed >= fl[f].wal \/ mw.pc = "closed"
  /\ fl' = [fl EXCEPT ![f].st = "sent", ![f].wal = 0]
  /\ tq' = Append(tq, Msg("flush", f))
  /\ UNCHANGED <<retention, writer, durable, wake, imm, tracker, mq, mwriter, manifests, ck, mode>>

\* begin_checkpoint with CheckpointScope::All: first the batch writer
CheckpointAll(c) ==
  /\ ck[c].st = "none" /\ CallLeft(ck, setup.ckpts)
  /\ BatchWriterFlush
  /\ ck' = [ck EXCEPT ![c].st = "floor", ![c].low = seq,
                      ![c].floor = Cursor(seq, IF setup.wal_enabled THEN Len(walEnd') ELSE NoFile)]
  /\ UNCHANGED fl

\* Then, or at once with CheckpointScope::Durable, the flusher.  A source is
\* a checkpoint whose id the caller has: begin_checkpoint has returned it.
CheckpointSend(c) ==
  /\ ck[c].st = "floor" \/ (ck[c].st = "none" /\ CallLeft(ck, setup.ckpts) /\ mode = "open")
  /\ \E s \in {NoSource} \cup {d \in Ckpt : ck[d].st \in {"pending", "done", "failed"}} :
       ck' = [ck EXCEPT ![c].st = "sent", ![c].source = s,
                        ![c].low = IF ck[c].st = "none" THEN durable ELSE @]
  /\ tq' = Append(tq, Msg("checkpoint", c))
  /\ UNCHANGED <<retention, writer, durable, wake, imm, tracker, mq, mwriter, manifests, fl, mode>>

-----------------------------------------------------------------------------
(***************************************************************************)
(* Snapshots, transactions and what is kept for them                       *)
(***************************************************************************)
\* new_snapshot, new_transaction: at last_committed_seq
OpenReader(x) ==
  /\ mode = "open"
  /\ opened[x].st = "new"
  /\ Cardinality({y \in Reader : opened[y].st # "new"}) < setup.readers
  /\ opened' = [opened EXCEPT ![x] = [st |-> "open", seq |-> seq]]
  /\ UNCHANGED <<cut, kept, sample, merge, writer, durable, wake, imm, tq, tracker, mq,
                 mwriter, manifests, clients, mode>>

\* drop_snapshot, drop_txn
DropReader(x) ==
  /\ opened[x].st = "open"
  /\ opened' = [opened EXCEPT ![x] = [st |-> "dropped", seq |-> 0]]
  /\ UNCHANGED <<cut, kept, sample, merge, writer, durable, wake, imm, tq, tracker, mq,
                 mwriter, manifests, clients, mode>>

\* Where there are readers all rows are versions of one key, elsewhere of a key
\* each, and nothing is ever dropped.
Versions == setup.readers > 0

\* min_active_seq of the snapshot manager or of the transaction manager; a set
\* is an Option.
Oldest(S) == {x \in S : \A y \in S : x <= y}
MinActiveSeq(readers) == Oldest({opened[x].seq : x \in {y \in readers : opened[y].st = "open"}})

\* compute_flush_retention_seq: the minimum of these, read one after the other
RetentionInputs(m) ==
  <<{IF setup.wal_enabled THEN Max({durable, m}) ELSE durable},
    MinActiveSeq(Snapshot), MinActiveSeq(Transaction)>>

\* apply_retention_filter, for values of one key without a TTL: what is newer
\* than the boundary and the newest of the others
Filtered(rows, min) ==
  {s \in rows : \A t \in rows : s < t => t > min}

RowsOf(m) == {s \in 1 .. m : \A n \in frozen : n < m => n < s}

-----------------------------------------------------------------------------
(***************************************************************************)
(* The tracker and the uploaders                                           *)
(***************************************************************************)
\* register: dedup by last_seq
Reconciled(t) ==
  LET new == SelectSeq(imm, LAMBDA m : \A i \in DOMAIN t : t[i].last # m.last)
  IN  t \o [i \in DOMAIN new |-> [last |-> new[i].last, st |-> "pending"]]
Registered == Reconciled(tracked)

InFlight(t) == Cardinality({i \in DOMAIN t : t[i].st # "pending"})

\* dispatch_ready_memtables: in order, while can_dispatch finds a free slot
Slots(t) == Max({0, setup.l0_max - Len(local.l0) - InFlight(t)})
Dispatchable(t) ==
  LET p == {i \in DOMAIN t : t[i].st = "pending"} IN
  {i \in p : Cardinality({j \in p : j <= i}) <= Slots(t)}

Dispatched(t) ==
  [i \in DOMAIN t |-> IF i \in Dispatchable(t) THEN [t[i] EXCEPT !.st = "uploading"] ELSE t[i]]

NewJobs(t) ==
  LET u == SelectSeq([i \in DOMAIN t |-> i], LAMBDA i : i \in Dispatchable(t))
  IN  [k \in DOMAIN u |-> t[u[k]].last]

\* reconcile_and_dispatch from frontier t; a job submitted after the
\* uploader is shut down is refused.
Dispatch(t) ==
  /\ tracked' = Dispatched(t)
  /\ jobs' = IF mode = "open" THEN jobs \o NewJobs(t) ELSE jobs

\* Faulty variant: the oldest memtable is the target.
TargetOldest(t) == IF t = << >> THEN 0 ELSE Head(t).last

\* resolve_target; 0 if nothing is tracked
Target(t) == IF t = << >> THEN 0 ELSE Last(t).last

\* The manifest writer's channel is closed once it writes for the last time.
Listening == ~ mw.final /\ mw.pc # "closed"
Send(m) == mq' = IF Listening THEN Append(mq, m) ELSE mq

Request(m) == m.kind \in {"flush", "checkpoint"}

TrackerHandles(m) ==
  CASE m.kind \in {"frozen", "refreshed"} ->
         Dispatch(Registered) /\ UNCHANGED mq
    [] m.kind = "flush" ->
         /\ Dispatch(Registered)
         /\ Send([kind |-> "flush", of |-> m.of, through |-> Target(Registered)])
    [] m.kind = "checkpoint" ->
         Dispatch(Registered) /\ Send(m)
    [] m.kind = "uploaded" ->
         /\ tracked' = [i \in DOMAIN tracked |->
                          IF tracked[i].last = m.of THEN [tracked[i] EXCEPT !.st = "manifest"]
                          ELSE tracked[i]]
         /\ Send(m)
         /\ UNCHANGED jobs
    [] m.kind = "complete" ->
         \* retire_through, then as above
         /\ Dispatch(Reconciled(SelectSeq(tracked, LAMBDA t : t.last > m.of)))
         /\ UNCHANGED mq

TrackerStep ==
  /\ tq # << >>
  /\ Request(Head(tq)) => Listening
  /\ TrackerHandles(Head(tq))
  /\ tq' = Tail(tq)
  /\ UNCHANGED <<retention, writer, durable, wake, imm, mwriter, manifests, clients, mode>>

Failed(calls, asked) ==
  [x \in DOMAIN calls |-> IF x \in asked THEN [calls[x] EXCEPT !.st = "failed"] ELSE calls[x]]
Asked(q, k) == {q[i].of : i \in {j \in DOMAIN q : q[j].kind = k}}

\* A send of the tracker failed or it was shut down: drain_with_error
TrackerRefuses ==
  /\ mode # "open"
  /\ tq # << >> /\ Request(Head(tq))
  /\ tq' = Tail(tq)
  /\ fl' = Failed(fl, Asked(<<Head(tq)>>, "flush"))
  /\ ck' = Failed(ck, Asked(<<Head(tq)>>, "checkpoint"))
  /\ UNCHANGED <<retention, writer, durable, wake, imm, tracker, mq, mwriter, manifests, mode>>

\* A worker reads another input of the boundary, before the first attempt.
Working(i) ==
  /\ mode # "failed" /\ mw.pc # "closed"
  /\ i \in 1 .. Min({Parallelism, Len(jobs)})
Cut(m) == IF m \in DOMAIN cut THEN cut[m] ELSE [read |-> 0, min |-> {}]

ReadBoundary(i) ==
  LET c == Cut(jobs[i]) IN
  /\ Versions
  /\ Working(i)
  /\ c.read < 3
  /\ cut' = (jobs[i] :> [read |-> c.read + 1,
                         min |-> Oldest(c.min \cup RetentionInputs(jobs[i])[c.read + 1])]) @@ cut
  /\ UNCHANGED <<opened, kept, sample, merge, writer, durable, wake, imm, tq, tracker, mq,
                 mwriter, manifests, clients, mode>>

\* It has uploaded the memtable, after retries if need be.
Upload(i) ==
  LET m == jobs[i] IN
  /\ Working(i)
  /\ IF Versions
     THEN /\ Cut(m).read = 3
          /\ kept' = (m :> Filtered(RowsOf(m), Min(cut[m].min))) @@ kept
          /\ cut' = Restrict(cut, DOMAIN cut \ {m})
     ELSE UNCHANGED <<kept, cut>>
  /\ jobs' = SubSeq(jobs, 1, i - 1) \o SubSeq(jobs, i + 1, Len(jobs))
  /\ tq' = Append(tq, Msg("uploaded", m))
  /\ UNCHANGED <<opened, sample, merge, writer, durable, wake, imm, tracked, mq, mwriter,
                 manifests, clients, mode>>

-----------------------------------------------------------------------------
(***************************************************************************)
(* What a manifest holds                                                   *)
(***************************************************************************)
WalRows(i) == (IF i = 1 THEN 1 ELSE walEnd[i - 1] + 1) .. walEnd[i]
Tables(man) == Range(man.l0) \cup man.sorted

\* The rows a database opened from the manifest has, if it replays the WAL
\* up to file w.
TableRows(man) == UNION {RowsOf(m) : m \in Tables(man)}
Replayed(man, w) ==
  {s \in UNION {WalRows(i) : i \in man.replay_after + 1 .. w} : s > man.last_l0}
Rows(man, w) == TableRows(man) \cup Replayed(man, w)

-----------------------------------------------------------------------------
(***************************************************************************)
(* Checkpoints                                                             *)
(***************************************************************************)
IsPlain(c) == ck[c].source = NoSource

\* durable_checkpoint_cursor
DurableCursor ==
  IF setup.wal_enabled THEN Cursor(IF flushed = 0 THEN 0 ELSE walEnd[flushed], flushed)
  ELSE Cursor(local.last_l0, NoFile)

Floor(c) == IF ck[c].floor = NoCursor THEN DurableCursor ELSE ck[c].floor
\* Faulty variant: the floor is not raised to what is durable by now.
BoundAtFloor(c) == Floor(c)

Bound(c) == IF DurableCursor.seq > Floor(c).seq THEN DurableCursor ELSE Floor(c)
\* l0_through_seq, 0 for None
L0Through(c) ==
  IF ~ setup.wal_enabled THEN Bound(c).seq
  ELSE IF ck[c].floor = NoCursor THEN 0 ELSE Floor(c).seq

CursorLeq(a, b) == a.seq < b.seq \/ (a.seq = b.seq /\ a.wal <= b.wal)

\* The assertions of handle_create_checkpoint
BoundSound(c) ==
  /\ DurableCursor.seq > Floor(c).seq /\ setup.wal_enabled => DurableCursor.wal > Floor(c).wal
  /\ \A i \in DOMAIN pend :
       ck[pend[i]].bound.seq = Bound(c).seq => ck[pend[i]].bound = Bound(c)

\* handle_create_checkpoint: the request is accepted and queued by its bound.
Inserted(c) ==
  LET n == Cardinality({i \in DOMAIN pend : CursorLeq(ck[pend[i]].bound, Bound(c))})
  IN  SubSeq(pend, 1, n) \o <<c>> \o SubSeq(pend, n + 1, Len(pend))

IsReady(c, l0) == ck[c].bound.wal <= flushed /\ ck[c].l0 <= l0

\* take_ready_checkpoints: the oldest bound that is ready, and then the
\* checkpoints whose source does not have to wait.
PlainSelected(l0) ==
  LET P == {i \in DOMAIN pend : IsPlain(pend[i])}
      R == {i \in P : IsReady(pend[i], l0)}
      S == {i \in R : ck[pend[i]].bound.wal = ck[pend[Min(R)]].bound.wal}
  IN  {i \in S : \A j \in P \ S : j < i => ck[pend[j]].bound = ck[pend[i]].bound}

Selected(l0) ==
  LET taken[i \in DOMAIN pend] ==
        IF IsPlain(pend[i]) THEN i \in PlainSelected(l0)
        ELSE \A j \in DOMAIN pend :
               pend[j] = ck[pend[i]].source =>
                 IF IsPlain(pend[j]) THEN taken[j] ELSE j < i /\ taken[j]
  IN  {i \in DOMAIN pend : taken[i]}

PendAt(I) == LET ix == SelectSeq([i \in DOMAIN pend |-> i], LAMBDA i : i \in I)
             IN  [k \in DOMAIN ix |-> pend[ix[k]]]

ReadyCheckpoints(l0) ==
  LET sel == PendAt(Selected(l0))
  IN  SelectSeq(sel, IsPlain) \o SelectSeq(sel, LAMBDA c : ~ IsPlain(c))

NotReady(l0) == PendAt(DOMAIN pend \ Selected(l0))

\* The assertions at its end
SelectionSound(l0) ==
  \A i \in PlainSelected(l0) :
    LET b == ck[pend[i]].bound IN
    /\ b = ck[pend[Min(PlainSelected(l0))]].bound
    /\ l0 <= b.seq
    /\ setup.wal_enabled \/ l0 = b.seq

-----------------------------------------------------------------------------
(***************************************************************************)
(* The manifest writer                                                     *)
(***************************************************************************)
\* take_next_ready_batch
Retirable(m) ==
  /\ m \in ready
  /\ setup.wal_enabled => m <= durable
  /\ \A i \in DOMAIN pend : IsPlain(pend[i]) => m <= ck[pend[i]].bound.seq

NextBatch ==
  SubSeq(imm, 1, Max({k \in 0 .. Len(imm) : \A i \in 1 .. k : Retirable(imm[i].last)}))

Names(batch) == [i \in DOMAIN batch |-> batch[i].last]
NewestFirst(batch) == [i \in DOMAIN batch |-> batch[(Len(batch) - i) + 1].last]

\* Faulty variant: replay starts after the last WAL file flushed by now.
AppliedLate(man, batch) ==
  [man EXCEPT !.l0 = NewestFirst(batch) \o @,
              !.replay_after = flushed,
              !.last_l0 = Last(batch).last]

\* apply_uploaded_state, for a batch at the old end of imm
Applied(man, batch) ==
  [man EXCEPT !.l0 = NewestFirst(batch) \o @,
              !.replay_after = Last(batch).wal,
              !.last_l0 = Last(batch).last]

\* Faulty variants: the compacted SSTs stay in L0; the writer's checkpoints win.
MergedAllL0(mine, theirs) ==
  [mine EXCEPT !.sorted = theirs.sorted, !.marker = theirs.marker, !.ckpts = theirs.ckpts]
MergedOwnCheckpoints(mine, theirs) ==
  LET above == {k \in 0 .. Len(mine.l0) : \A i \in 1 .. k : mine.l0[i] # theirs.marker}
  IN  [mine EXCEPT !.l0 = SubSeq(@, 1, Max(above)),
                   !.sorted = theirs.sorted,
                   !.marker = theirs.marker]

\* merge_remote_manifest: L0 is the writer's, less what the compactor took.
Merged(mine, theirs) ==
  LET above == {k \in 0 .. Len(mine.l0) : \A i \in 1 .. k : mine.l0[i] # theirs.marker}
  IN  [mine EXCEPT !.l0 = SubSeq(@, 1, Max(above)),
                   !.sorted = theirs.sorted,
                   !.marker = theirs.marker,
                   !.ckpts = theirs.ckpts]

\* resolve_pending_flushes
Resolved(calls, through) ==
  [f \in Flush |-> IF \E w \in waiting : w.of = f /\ w.through <= through
                   THEN [calls[f] EXCEPT !.st = "done"] ELSE calls[f]]

\* Where the manifest writer goes: an assertion that fails is a panic.
Goto(sound, pc) == IF sound THEN pc ELSE "panic"

\* handle, up to process_ready_work
HandleUploaded(m) ==
  /\ ready' = ready \cup {m.of}
  /\ UNCHANGED <<waiting, pend, clients>>

HandleFlush(m) ==
  /\ IF m.through <= l0durable
     THEN fl' = [fl EXCEPT ![m.of].st = "done"] /\ UNCHANGED waiting
     ELSE waiting' = waiting \cup {m} /\ UNCHANGED fl
  /\ UNCHANGED <<ready, pend, ck>>

HandleCheckpoint(m) ==
  /\ pend' = Inserted(m.of)
  /\ ck' = [ck EXCEPT ![m.of].st = "pending", ![m.of].high = appended,
                      ![m.of].bound = Bound(m.of), ![m.of].l0 = L0Through(m.of)]
  /\ UNCHANGED <<ready, waiting, fl>>

CommandSound(m) ==
  /\ m.kind = "uploaded" => m.of \notin ready
  /\ m.kind = "checkpoint" => BoundSound(m.of)

TakeCommand ==
  /\ mw.pc = "idle" /\ mode # "failed"
  /\ mq # << >>
  /\ LET m == Head(mq) IN
     /\ mw' = At(mw, Goto(CommandSound(m), "work"))
     /\ \/ m.kind = "uploaded" /\ HandleUploaded(m)
        \/ m.kind = "flush" /\ HandleFlush(m)
        \/ m.kind = "checkpoint" /\ HandleCheckpoint(m)
  /\ mq' = Tail(mq)
  /\ UNCHANGED <<retention, writer, durable, wake, imm, tq, tracker, l0durable, manifests, mode>>

\* PollManifest: the ticker, a stall on L0 or refresh_manifest.  A poll that
\* would find nothing is left out.
Poll ==
  /\ mw.pc = "idle" /\ mode = "open"
  /\ ~ (idCurrent /\ dirtyCurrent)
  /\ local' = Merged(local, stored)
  /\ idCurrent' = TRUE /\ dirtyCurrent' = TRUE
  /\ tq' = Append(tq, Msg("refreshed", 0))
  /\ mw' = At(mw, "work")
  /\ UNCHANGED <<retention, writer, durable, wake, imm, tracker, mq, ready, l0durable, waiting, pend,
                 stored, clients, mode>>

\* process_ready_work
BatchSound ==
  LET through == Last(NextBatch).last IN SelectionSound(through) /\ through > local.last_l0

WorkSound ==
  /\ SelectionSound(local.last_l0)
  /\ ReadyCheckpoints(local.last_l0) = << >> /\ NextBatch # << >> => BatchSound

HasWork == ReadyCheckpoints(local.last_l0) # << >> \/ NextBatch # << >>

\* DurableSeqAdvanced; messages come first.  One that would find nothing to do
\* is left out.
Wake ==
  /\ mw.pc = "idle" /\ mq = << >> /\ mode = "open"
  /\ wake /\ HasWork
  /\ wake' = FALSE
  /\ mw' = At(mw, "work")
  /\ UNCHANGED <<retention, writer, durable, imm, tq, tracker, mq, ready, l0durable, waiting, pend,
                 manifests, clients, mode>>

\* write_ready_checkpoints
WriteCheckpoints ==
  /\ mw.pc = "work" /\ WorkSound
  /\ ReadyCheckpoints(local.last_l0) # << >>
  /\ mw' = [At(mw, "load") EXCEPT !.ckpts = ReadyCheckpoints(local.last_l0)]
  /\ pend' = NotReady(local.last_l0)
  /\ UNCHANGED <<retention, writer, durable, wake, imm, tq, tracker, mq, ready, l0durable, waiting,
                 manifests, clients, mode>>

RetireBatch ==
  /\ mw.pc = "work" /\ WorkSound
  /\ ReadyCheckpoints(local.last_l0) = << >>
  /\ NextBatch # << >>
  /\ mw' = [At(mw, "prepare") EXCEPT !.batch = Names(NextBatch),
                                     !.ckpts = ReadyCheckpoints(Last(NextBatch).last)]
  /\ pend' = NotReady(Last(NextBatch).last)
  /\ ready' = ready \ Range(Names(NextBatch))
  /\ imm' = SubSeq(imm, Len(NextBatch) + 1, Len(imm))
  /\ local' = Applied(local, NextBatch)
  /\ UNCHANGED <<retention, writer, durable, wake, tq, tracker, mq, l0durable, waiting,
                 stored, idCurrent, dirtyCurrent, clients, mode>>

NothingReady ==
  /\ mw.pc = "work" /\ ~ (WorkSound /\ HasWork)
  /\ mw' = At(mw, Goto(WorkSound, "idle"))
  /\ UNCHANGED <<retention, writer, durable, wake, imm, tq, tracker, mq, ready, l0durable, waiting,
                 pend, manifests, clients, mode>>

\* checkpoint_wal_id_last_seen and prepare_local_manifest_for_write: the
\* manifest names no WAL file past a checkpoint that is still to be created.
Attached == IF mw.final THEN << >> ELSE mw.ckpts
WalBounds(cs) == {ck[c].bound.wal : c \in {d \in cs : IsPlain(d)}}
\* Faulty variant: all that is flushed, though a checkpoint is to be created.
NextWalFlushed == flushed + 1

NextWal ==
  Min({flushed} \cup ((WalBounds(Range(pend)) \cup WalBounds(Range(Attached))) \ {NoFile})) + 1

\* new_checkpoint_in for each: a source has to be in the manifest.
Created(man, cs) ==
  LET have[i \in 0 .. Len(cs)] ==
        IF i = 0 THEN man.ckpts
        ELSE have[i - 1] \cup {c \in {cs[i]} : IsPlain(c) \/ ck[c].source \in have[i - 1]}
  IN  have[Len(cs)]

PrepareSound(man) == NextWal >= man.next_wal /\ Cardinality(WalBounds(Range(Attached))) <= 1

\* The readers are looked up before the lock is taken.
SampleReaders ==
  /\ Versions
  /\ mw.pc = "prepare" /\ Len(sample) < 2
  /\ sample' = Append(sample, MinActiveSeq(IF sample = << >> THEN Snapshot ELSE Transaction))
  /\ UNCHANGED <<opened, cut, kept, merge, writer, durable, wake, imm, tq, tracker, mq,
                 mwriter, manifests, clients, mode>>

\* Faulty variant: transactions are left out.
RecentSnapshots == IF sample = << >> \/ sample[1] = {} THEN local.last_l0 ELSE Min(sample[1])

\* recent_snapshot_min_seq
Recent ==
  LET active == UNION Range(sample) IN
  IF active = {} THEN local.last_l0 ELSE Min(active)

Prepare ==
  /\ mw.pc = "prepare"
  /\ Versions => Len(sample) = 2
  /\ local' = [local EXCEPT !.next_wal = NextWal, !.recent = Recent]
  /\ mw' = [At(mw, Goto(PrepareSound(local), "put")) EXCEPT
              !.dirty = [local' EXCEPT !.ckpts = Created(local, Attached)]]
  /\ sample' = << >>
  /\ UNCHANGED <<opened, cut, kept, merge, writer, durable, wake, imm, tq, tracker, mq, ready,
                 l0durable, waiting, pend, stored, idCurrent, dirtyCurrent, clients, mode>>

\* load_manifest, before checkpoints are written and after a conflict
Load ==
  /\ mw.pc = "load"
  /\ local' = Merged(local, stored)
  /\ mw' = At(mw, "prepare")
  /\ idCurrent' = TRUE /\ dirtyCurrent' = TRUE
  /\ UNCHANGED <<retention, writer, durable, wake, imm, tq, tracker, mq, ready, l0durable,
                 waiting, pend, stored, clients, mode>>

Conflict ==
  /\ mw.pc = "put"
  /\ ~ (idCurrent /\ dirtyCurrent)
  /\ mw' = [At(mw, "load") EXCEPT !.dirty = NewManifest]
  /\ UNCHANGED <<retention, writer, durable, wake, imm, tq, tracker, mq, ready, l0durable, waiting,
                 pend, manifests, clients, mode>>

\* complete_checkpoints; low, high and exact are kept for CheckpointExact.
Exact(c) == \E n \in ck[c].low .. ck[c].high : Rows(mw.dirty, mw.dirty.next_wal - 1) = 1 .. n
Completed ==
  [c \in Ckpt |->
     IF c \notin Range(mw.ckpts) THEN ck[c]
     ELSE IF c \notin mw.dirty.ckpts THEN [ck[c] EXCEPT !.st = "failed"]
     ELSE [ck[c] EXCEPT !.st = "done", !.exact = IsPlain(c) => Exact(c),
                        !.low = 0, !.high = 0, !.l0 = 0, !.floor = NoCursor, !.bound = NoCursor]]

\* finish_ready_batch, or complete_checkpoints alone.  The database state
\* keeps the version it was taken from, and misses the new checkpoints.
PutSucceeds ==
  /\ mw.pc = "put" /\ ~ mw.final
  /\ idCurrent /\ dirtyCurrent
  /\ stored' = mw.dirty /\ dirtyCurrent' = FALSE
  /\ ck' = Completed
  /\ IF mw.batch = << >>
     THEN UNCHANGED <<l0durable, durable, wake, fl, waiting, tq>>
     ELSE LET through == Last(mw.batch) IN
          /\ l0durable' = through
          /\ durable' = Max({durable, through})
          /\ wake' = (wake \/ durable' # durable)
          /\ fl' = Resolved(fl, through)
          /\ waiting' = {w \in waiting : w.through > through}
          /\ tq' = Append(tq, Msg("complete", through))
  /\ mw' = At(Idle, "work")
  /\ UNCHANGED <<retention, writer, imm, tracker, mq, ready, pend, local, idCurrent, mode>>

-----------------------------------------------------------------------------
(***************************************************************************)
(* Failure and shutdown                                                    *)
(***************************************************************************)
\* The end of cleanup: whoever still waits is told.
CloseWriter ==
  /\ mw' = At(Idle, "closed")
  /\ mq' = << >> /\ pend' = << >> /\ waiting' = {}
  /\ fl' = Failed(fl, Asked(mq, "flush") \cup {w.of : w \in waiting})
  /\ ck' = Failed(ck, Asked(mq, "checkpoint") \cup Range(pend) \cup Range(mw.ckpts))

\* The write fails with another error; it may still have been stored.
PutFails ==
  /\ setup.may_stop
  /\ mw.pc = "put"
  /\ \/ /\ idCurrent /\ dirtyCurrent
        /\ stored' = mw.dirty /\ idCurrent' = FALSE
     \/ UNCHANGED <<stored, idCurrent>>
  /\ \/ mw.final /\ CloseWriter
     \/ /\ mode = "closing" /\ ~ mw.final
        /\ CloseWriter
     \/ /\ ~ mw.final
        /\ mw' = Idle
        /\ ck' = Failed(ck, Range(mw.ckpts))
        /\ UNCHANGED <<mq, pend, waiting, fl>>
  /\ mode' = IF mode = "open" THEN "failed" ELSE mode
  /\ UNCHANGED <<retention, writer, durable, wake, imm, tq, tracker, ready, l0durable, local,
                 dirtyCurrent>>

\* close() marks the database as closed; another task fails.
Close ==
  /\ setup.may_stop /\ mode = "open"
  /\ mode' \in {"closing", "failed"}
  /\ UNCHANGED <<retention, writer, durable, wake, imm, tq, tracker, mq, mwriter, manifests, clients>>

\* try_graceful_cleanup: once its commands are handled, or at once after an
\* error, the manifest is written without the unfinished checkpoints.
StartFinal ==
  /\ mw.pc = "idle"
  /\ mode = "failed" \/ (mode = "closing" /\ jobs = << >> /\ mq = << >>)
  /\ mw' = [Idle EXCEPT !.pc = "prepare", !.ckpts = pend, !.final = TRUE]
  /\ pend' = << >>
  /\ UNCHANGED <<retention, writer, durable, wake, imm, tq, tracker, mq, ready, l0durable, waiting,
                 manifests, clients, mode>>

FinalPut ==
  /\ mw.pc = "put" /\ mw.final
  /\ idCurrent /\ dirtyCurrent
  /\ stored' = mw.dirty /\ dirtyCurrent' = FALSE
  /\ CloseWriter
  /\ UNCHANGED <<retention, writer, durable, wake, imm, tq, tracker, ready, l0durable, local,
                 idCurrent, mode>>

\* A fenced writer writes nothing.
FencedClose ==
  /\ mw.pc = "idle" /\ mode = "failed"
  /\ CloseWriter
  /\ UNCHANGED <<retention, writer, durable, wake, imm, tq, tracker, ready, l0durable, manifests, mode>>

-----------------------------------------------------------------------------
\* A compaction of the oldest L0 SSTs starts from a manifest.  It is a step of
\* its own where the boundary it takes from there matters.
StartCompaction ==
  /\ Versions
  /\ mw.pc # "closed" /\ merge = NoMerge
  /\ \E i \in DOMAIN stored.l0 : merge' = [top |-> stored.l0[i], min |-> stored.recent]
  /\ UNCHANGED <<opened, cut, kept, sample, writer, durable, wake, imm, tq, tracker, mq,
                 mwriter, manifests, clients, mode>>

\* What is left of the SSTs it merges
KeptBy(tables, min) ==
  LET rows == Filtered(UNION {kept[m] : m \in tables}, min) IN
  [m \in DOMAIN kept |-> IF m \in tables THEN kept[m] \cap rows ELSE kept[m]]

\* They go into a sorted run, alone or together with the runs there are.
Compact ==
  /\ mw.pc # "closed"
  /\ \E n \in 0 .. Len(stored.l0) - 1, runs \in {{}, stored.sorted} :
       LET from == {stored.l0[i] : i \in n + 1 .. Len(stored.l0)} IN
       /\ stored' = [stored EXCEPT !.l0 = SubSeq(@, 1, n),
                                   !.sorted = @ \cup from,
                                   !.marker = stored.l0[n + 1]]
       /\ IF Versions
          THEN merge.top = stored.l0[n + 1] /\ kept' = KeptBy(from \cup runs, merge.min)
          ELSE UNCHANGED kept
  /\ merge' = NoMerge
  /\ idCurrent' = FALSE
  /\ UNCHANGED <<opened, cut, sample, writer, durable, wake, imm, tq, tracker, mq, mwriter,
                 local, dirtyCurrent, clients, mode>>

WalStep == FreezeWal \/ FlushWal \/ NotifyWal
UploadStep == \E i \in 1 .. Parallelism : ReadBoundary(i) \/ Upload(i)
WriterStep ==
  \/ TakeCommand \/ Wake \/ WriteCheckpoints \/ RetireBatch
  \/ NothingReady \/ Load \/ SampleReaders \/ Prepare \/ Conflict \/ PutSucceeds
  \/ StartFinal \/ FinalPut \/ FencedClose
Sending == (\E f \in Flush : FlushSend(f)) \/ (\E c \in Ckpt : ck[c].st = "floor" /\ CheckpointSend(c))

\* Every call is answered and nothing is left to do.
Answered(calls, bound) ==
  /\ mode = "open" => ~ CallLeft(calls, bound)
  /\ \A x \in DOMAIN calls : calls[x].st \in {"none", "done", "failed"}
Quiescent ==
  /\ Answered(fl, setup.flushes) /\ Answered(ck, setup.ckpts)
  /\ seq = setup.max_seq \/ mode # "open"
  /\ UNCHANGED vars

Next ==
  \/ AppendRow \/ CommitRow \/ WalStep
  \/ \E f \in Flush : FlushCall(f)
  \/ \E c \in Ckpt : CheckpointAll(c) \/ CheckpointSend(c)
  \/ \E f \in Flush : FlushSend(f)
  \/ TrackerStep \/ TrackerRefuses \/ UploadStep \/ WriterStep \/ Poll
  \/ \E x \in Reader : OpenReader(x) \/ DropReader(x)
  \/ PutFails \/ Close \/ StartCompaction \/ Compact \/ Quiescent

Spec == Init /\ [][Next]_vars

-----------------------------------------------------------------------------
(***************************************************************************)
(* Properties                                                              *)
(***************************************************************************)
\* A row that was reported durable (durable_seq of the database status) is in
\* the database that is opened from the stored manifest and the WAL files
\* written so far, whatever batch of memtables was retired meanwhile and
\* with which replay_after_wal_id.
DurableRecoverable == 1 .. durable \subseteq Rows(stored, flushed)

\* begin_checkpoint: "the checkpoint includes writes that finish before the
\* call starts.  It excludes writes that start after the call returns"; with
\* CheckpointScope::Durable, it includes the rows that were durable at the
\* call.  It has no gap.  The manifest writer retires and creates other
\* checkpoints while it is pending.
CheckpointExact == \A c \in Ckpt : ck[c].st = "done" => ck[c].exact

\* A checkpoint that was reported as created is in the stored manifest, and
\* one of a pending source is never refused while the source is not: neither
\* a stale database state nor the merge with the compactor's manifest drops
\* it (write_manifest_update pushes checkpoints to the dirty copy only).
CheckpointKept ==
  \A c \in Ckpt :
    /\ ck[c].st = "done" => c \in stored.ckpts
    /\ ck[c].st = "failed" /\ mode = "open" => ~ IsPlain(c) /\ ck[ck[c].source].st = "failed"

\* When flush_memtables returns, the rows committed before the call are in
\* L0 or in sorted runs of the stored manifest (AwaitFlush, resolve_target).
FlushedIsStored ==
  \A f \in Flush : fl[f].st = "done" => 1 .. fl[f].low \subseteq TableRows(stored)

\* The stored tree has each retired memtable exactly once, L0 from the newest
\* to the oldest and above the sorted runs, and never more than l0_max_ssts
\* L0 SSTs, though uploads and the compactor run in parallel (can_dispatch,
\* merge_writer_and_compactor).
InOrder(man) ==
  /\ Tables(man) = {m \in frozen : m <= man.last_l0}
  /\ \A i, j \in DOMAIN man.l0 : i < j => man.l0[i] > man.l0[j]
  /\ \A i \in DOMAIN man.l0, m \in man.sorted : man.l0[i] > m
TreeIntact == InOrder(stored) /\ Len(stored.l0) <= setup.l0_max

\* The stored manifest never goes back, neither in what was flushed nor in what
\* was compacted: a put from a database state that has missed a compaction, or
\* that was already stored by a put that seemed to fail, is refused.
ManifestAdvances ==
  [][stored.last_l0 <= stored'.last_l0 /\ stored.marker <= stored'.marker]_vars

\* A snapshot or a transaction reads the version that was the latest when it
\* was opened, and a reader that asks for durable rows the latest of those,
\* whatever flushes and compactions drop: with one key and a version per
\* sequence number, that very version is still there.  The boundary of a flush
\* and recent_snapshot_min_seq are computed without a common lock and used later.
Retained ==
  {s \in 1 .. seq : s > LastFrozen}
    \cup UNION {RowsOf(imm[i].last) : i \in DOMAIN imm}
    \cup UNION {kept[m] : m \in Tables(local)}
ReadersServed ==
  Versions =>
    {opened[x].seq : x \in Reader} \cup {Min({durable, seq})} \subseteq Retained \cup {0}

\* No assertion of handle_create_checkpoint, take_ready_checkpoints and
\* apply_uploaded_state fails, and next_wal_sst_id is never set back.
AssertionsHold == mw.pc # "panic"

\* The fairness of the tasks: each runs when it can; the compactor runs.
Fairness ==
  /\ WF_vars(CommitRow) /\ WF_vars(WalStep) /\ WF_vars(Sending)
  /\ WF_vars(TrackerStep \/ TrackerRefuses) /\ WF_vars(UploadStep)
  /\ WF_vars(WriterStep) /\ WF_vars(Poll) /\ WF_vars(Compact)

FairSpec == Spec /\ Fairness

\* Every call of flush_memtables and begin_checkpoint is answered, though
\* memtables wait for WAL files, L0 slots and checkpoints, and checkpoints
\* for memtables.
EveryCallAnswered ==
  /\ \A f \in Flush : fl[f].st # "none" ~> fl[f].st \in {"done", "failed"}
  /\ \A c \in Ckpt : ck[c].st # "none" ~> ck[c].st \in {"done", "failed"}

====
