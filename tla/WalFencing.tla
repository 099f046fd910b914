----------------------------- MODULE WalFencing -----------------------------
(***************************************************************************)
(* Writers of one database taking over from each other through the         *)
(* write-ahead log.  WAL files have consecutive ids and are created with   *)
(* put-if-absent; a writer that opens the database claims a writer epoch   *)
(* in the manifest, occupies the next WAL id with an empty file (the       *)
(* fence), checks its epoch once more and replays what is not in L0.  The  *)
(* former writer may be paused anywhere and go on later.  A WAL collector  *)
(* deletes files below the manifest's replay position.                     *)
(*                                                                         *)
(* The manifest is one atomic object here: SequencedStorage shows that its *)
(* updates are serialised and refused to superseded epochs.  Rows are      *)
(* identified by their sequence number and the writer that accepted them.  *)
(***************************************************************************)
EXTENDS Integers, Sequences, FiniteSetsExt, Functions

CONSTANTS
  Writer,    \* openings of the database for writing, one process each
  MaxWal,    \* bound: the highest WAL id
  MaxSeq,    \* bound: the highest sequence number
  FenceGc,   \* whether the collector of fences deletes (no dry_run)
  Setups     \* the bounds of one instance, chosen by Init

\* Bounds: openings, the highest sequence number, checkpoints that exist at
\* the same time, and whether answers to puts get lost
Setup == [opens : Nat, max_seq : 0 .. MaxSeq, max_pins : Nat, losses : BOOLEAN]

ASSUME BoundsAssumption ==
  MaxWal \in Nat /\ MaxSeq \in Nat /\ FenceGc \in BOOLEAN /\ Setups \subseteq Setup

WalIds == 1 .. MaxWal
Rows == [by : Writer, seq : 1 .. MaxSeq]

\* The manifest: writer_epoch, replay_after_wal_id, next_wal_sst_id,
\* last_l0_seq and the rows of its SSTs.
Manifests == [epoch : Nat, replay_after : 0 .. MaxWal, next_wal : 1 .. MaxWal + 1,
              l0_seq : 0 .. MaxSeq, l0 : SUBSET Rows]
NewManifest ==
  [epoch |-> 0, replay_after |-> 0, next_wal |-> 1, l0_seq |-> 0, l0 |-> {}]

\* An immutable memtable and the WAL id it was stamped with
Memtables == [rows : SUBSET Rows, wal : 0 .. MaxWal]

(***************************************************************************)
(* A process that opens the database or has it open.                       *)
(***************************************************************************)
PCs == {"down", "load", "claim", "reload", "reloaded", "fence", "retry",
        "confirm", "replay", "running", "truncated", "broken", "stopped"}
Dbs == [pc : PCs,
        epoch : Nat,                  \* the epoch claimed
        view : Manifests,             \* the manifest as last read
        empty : 0 .. MaxWal + 1,      \* empty_wal_id
        cursor : 0 .. MaxWal + 1,     \* the next WAL file to replay
        table : SUBSET Rows,          \* the memtable replay is filling
        mem : SUBSET Rows,            \* the active memtable
        memwal : 0 .. MaxWal,         \* current_memtable_wal_id of the replay
        imm : Seq(Memtables),         \* the immutable memtables, oldest first
        buf : SUBSET Rows,            \* rows of the WAL buffers, not yet flushed
        putting : SUBSET Rows,        \* those of the file just created
        flushed : 0 .. MaxWal,        \* last_flushed_wal_id
        last_seq : 0 .. MaxSeq,       \* the oracle's last_seq
        durable : 0 .. MaxSeq]        \* the oracle's durable seq
NewDb == [pc |-> "down", epoch |-> 0, view |-> NewManifest, empty |-> 0,
          cursor |-> 0, table |-> {}, mem |-> {}, memwal |-> 0, imm |-> << >>,
          buf |-> {}, putting |-> {}, flushed |-> 0, last_seq |-> 0, durable |-> 0]
\* A process that crashed, was closed or found itself fenced
Ended == [NewDb EXCEPT !.pc = "stopped"]

VARIABLES
  setup,     \* the member of Setups this behaviour is about
  manifest,  \* the latest manifest
  pins,      \* the WAL ranges of the manifests of the active checkpoints
  wal,       \* the WAL directory; an empty file is a fence
  db,        \* per writer: its process
  gcphase,   \* the WAL collector: where its pass is
  keep,      \* the ids it found referenced
  doomed,    \* the files it is deleting
  acked      \* history: the rows reported durable

vars == <<setup, manifest, pins, wal, db, gcphase, keep, doomed, acked>>

Exists(i) == i \in DOMAIN wal
Created(i, rows) ==
  [j \in DOMAIN wal \cup {i} |-> IF j = i THEN rows ELSE wal[j]]
MaxSeqOf(rows) == Max({r.seq : r \in rows} \cup {0})

Init ==
  /\ setup \in Setups
  /\ manifest = NewManifest
  /\ pins = {}
  /\ wal = << >>
  /\ db = [w \in Writer |-> NewDb]
  /\ gcphase = "idle"
  /\ keep = {}
  /\ doomed = {}
  /\ acked = {}

-----------------------------------------------------------------------------
(***************************************************************************)
(* Opening: WriterFencer::fence                                            *)
(***************************************************************************)
\* The manifest the opening starts from
Open(w) ==
  /\ db[w].pc = "down"
  /\ Cardinality({v \in Writer : db[v].pc # "down"}) < setup.opens
  /\ db' = [db EXCEPT ![w].pc = "load", ![w].view = manifest]
  /\ UNCHANGED <<setup, manifest, pins, wal, gcphase, keep, doomed, acked>>

\* next_wal_sst_id: an id found missing whose predecessor was found present,
\* or the first one.  Files come in id order and only files below the replay
\* position go, so what the probes see over time was true at one moment.
NextWalIds(after) ==
  {i \in after + 1 .. MaxWal + 1 : ~ Exists(i) /\ (i = after + 1 \/ Exists(i - 1))}

LoadEmptyWalId(w) ==
  /\ db[w].pc = "load"
  /\ \E i \in NextWalIds(db[w].view.replay_after) :
       db' = [db EXCEPT ![w].pc = "claim", ![w].empty = i]
  /\ UNCHANGED <<setup, manifest, pins, wal, gcphase, keep, doomed, acked>>

\* Faulty variant: the id found before the claim is not checked again.
ClaimUnchecked(w) ==
  /\ db[w].pc = "claim"
  /\ manifest' = [manifest EXCEPT !.epoch = @ + 1]
  /\ db' = [db EXCEPT ![w].pc = "fence", ![w].epoch = manifest.epoch + 1,
                      ![w].view = manifest']
  /\ UNCHANGED <<setup, pins, wal, gcphase, keep, doomed, acked>>

\* init_writer; the id found before is useless if the replay position passed it
Claim(w) ==
  /\ db[w].pc = "claim"
  /\ manifest' = [manifest EXCEPT !.epoch = @ + 1]
  /\ db' = [db EXCEPT ![w].pc = IF db[w].empty <= manifest.replay_after
                                THEN "reload" ELSE "fence",
                      ![w].epoch = manifest.epoch + 1,
                      ![w].view = manifest']
  /\ UNCHANGED <<setup, pins, wal, gcphase, keep, doomed, acked>>

Reload(w) ==
  /\ db[w].pc = "reload"
  /\ \E i \in NextWalIds(db[w].view.replay_after) :
       db' = [db EXCEPT ![w].pc = "reloaded", ![w].empty = i]
  /\ UNCHANGED <<setup, manifest, pins, wal, gcphase, keep, doomed, acked>>

Superseded(w) == manifest.epoch > db[w].epoch

\* The refresh after it, with the assertion on what it read
ReloadRefresh(w) ==
  /\ db[w].pc = "reloaded"
  /\ db' = [db EXCEPT ![w] =
               IF Superseded(w) THEN Ended
               ELSE [db[w] EXCEPT !.view = manifest,
                                  !.pc = IF db[w].empty > manifest.replay_after
                                         THEN "fence" ELSE "broken"]]
  /\ UNCHANGED <<setup, manifest, pins, wal, gcphase, keep, doomed, acked>>

\* Faulty variant: the WAL writer starts one id too far behind the fence.
WriteFenceSkips(w) ==
  LET d == db[w] IN
  /\ d.pc = "fence"
  /\ d.empty \in WalIds
  /\ ~ Exists(d.empty)
  /\ wal' = Created(d.empty, {})
  /\ db' = [db EXCEPT ![w].pc = IF d.empty > d.view.replay_after
                                THEN "confirm" ELSE "broken",
                      ![w].cursor = d.view.replay_after + 1,
                      ![w].flushed = d.empty + 1]
  /\ UNCHANGED <<setup, manifest, pins, gcphase, keep, doomed, acked>>

\* write_wal_fence; once it is there the replay range is fixed and the WAL
\* writer starts behind it.  If the answer gets lost and the retried put cannot
\* be verified, the fence is taken for another writer's.
WriteFence(w) ==
  LET d == db[w]
      fenced == [d EXCEPT !.pc = IF d.empty > d.view.replay_after
                                 THEN "confirm" ELSE "broken",
                          !.cursor = d.view.replay_after + 1,
                          !.flushed = d.empty]
  IN
  /\ d.pc = "fence"
  /\ d.empty \in WalIds
  /\ ~ Exists(d.empty)
  /\ wal' = Created(d.empty, {})
  /\ \E lost \in {FALSE, setup.losses} :
       db' = [db EXCEPT ![w] = IF lost THEN [d EXCEPT !.pc = "retry"] ELSE fenced]
  /\ UNCHANGED <<setup, manifest, pins, gcphase, keep, doomed, acked>>

FenceTaken(w) ==
  /\ db[w].pc = "fence"
  /\ Exists(db[w].empty)
  /\ db' = [db EXCEPT ![w].pc = "retry"]
  /\ UNCHANGED <<setup, manifest, pins, wal, gcphase, keep, doomed, acked>>

RetryRefresh(w) ==
  /\ db[w].pc = "retry"
  /\ db' = [db EXCEPT ![w] = IF Superseded(w) THEN Ended
                             ELSE [db[w] EXCEPT !.pc = "fence", !.empty = @ + 1]]
  /\ UNCHANGED <<setup, manifest, pins, wal, gcphase, keep, doomed, acked>>

\* The final refresh; the database starts from what it read.
FinalRefresh(w) ==
  /\ db[w].pc = "confirm"
  /\ db' = [db EXCEPT ![w] =
               IF Superseded(w) THEN Ended
               ELSE [db[w] EXCEPT !.pc = "replay", !.view = manifest,
                                  !.memwal = manifest.replay_after,
                                  !.last_seq = manifest.l0_seq,
                                  !.durable = manifest.l0_seq]]
  /\ UNCHANGED <<setup, manifest, pins, wal, gcphase, keep, doomed, acked>>

-----------------------------------------------------------------------------
(***************************************************************************)
(* Replay: WalReplayIterator::next reads files until its table is full or  *)
(* the range ends; replay_memtable then freezes the active memtable and    *)
(* installs the table.  The memtable flusher runs meanwhile.               *)
(***************************************************************************)
\* freeze_current_memtable_with_state_guard: an empty memtable stays.
Frozen(d, id) ==
  IF d.mem = {} THEN d
  ELSE [d EXCEPT !.imm = Append(@, [rows |-> d.mem, wal |-> id]), !.mem = {}]

\* Rows that are in L0 already are skipped.
ReplayFile(w) ==
  LET d == db[w] IN
  /\ d.pc = "replay"
  /\ d.cursor <= d.empty
  /\ Exists(d.cursor)
  /\ db' = [db EXCEPT ![w].cursor = @ + 1,
                      ![w].table = @ \cup {r \in wal[d.cursor] : r.seq > d.view.l0_seq}]
  /\ UNCHANGED <<setup, manifest, pins, wal, gcphase, keep, doomed, acked>>

\* WalTruncated is reported as Fenced if the epoch has moved on.
ReplayTruncated(w) ==
  /\ db[w].pc = "replay"
  /\ db[w].cursor <= db[w].empty
  /\ ~ Exists(db[w].cursor)
  /\ db' = [db EXCEPT ![w] = IF Superseded(w) THEN Ended
                             ELSE [db[w] EXCEPT !.pc = "truncated"]]
  /\ UNCHANGED <<setup, manifest, pins, wal, gcphase, keep, doomed, acked>>

\* Faulty variant: the frozen memtable is stamped with the files read for the
\* next one.
InstallStampedLate(w) ==
  LET d == db[w]
      seq == Max({d.last_seq, MaxSeqOf(d.table)})
      f == Frozen(d, d.cursor - 1)
  IN
  /\ d.pc = "replay"
  /\ d.cursor - 1 > d.memwal
  /\ d.table # {} \/ d.cursor > d.empty
  /\ db' = [db EXCEPT ![w] = [f EXCEPT !.mem = d.table, !.table = {},
                                       !.memwal = d.cursor - 1,
                                       !.last_seq = seq, !.durable = seq]]
  /\ UNCHANGED <<setup, manifest, pins, wal, gcphase, keep, doomed, acked>>

\* The table is full, or the range has been read.
InstallTable(w) ==
  LET d == db[w]
      seq == Max({d.last_seq, MaxSeqOf(d.table)})
      f == Frozen(d, d.memwal)
  IN
  /\ d.pc = "replay"
  /\ d.cursor - 1 > d.memwal
  /\ d.table # {} \/ d.cursor > d.empty
  /\ db' = [db EXCEPT ![w] = [f EXCEPT !.mem = d.table, !.table = {},
                                       !.memwal = d.cursor - 1,
                                       !.last_seq = seq, !.durable = seq]]
  /\ UNCHANGED <<setup, manifest, pins, wal, gcphase, keep, doomed, acked>>

FinishReplay(w) ==
  /\ db[w].pc = "replay"
  /\ db[w].cursor > db[w].empty
  /\ db[w].cursor - 1 = db[w].memwal
  /\ db' = [db EXCEPT ![w].pc = "running"]
  /\ UNCHANGED <<setup, manifest, pins, wal, gcphase, keep, doomed, acked>>

-----------------------------------------------------------------------------
(***************************************************************************)
(* Writing                                                                 *)
(***************************************************************************)
\* write_batch: the WAL buffer, the memtable, and a freeze if it got `full`
\* or too many WAL files have been flushed since the last one.
Write(w) ==
  LET d == db[w]
      r == [by |-> w, seq |-> d.last_seq + 1]
      n == [d EXCEPT !.last_seq = r.seq, !.mem = @ \cup {r}, !.buf = @ \cup {r}]
  IN
  /\ d.pc = "running"
  /\ r.seq <= setup.max_seq
  /\ \E full \in BOOLEAN :
       db' = [db EXCEPT ![w] = IF full THEN Frozen(n, n.flushed) ELSE n]
  /\ UNCHANGED <<setup, manifest, pins, wal, gcphase, keep, doomed, acked>>

\* flush_batch_writer asked to freeze; the WAL flush it starts is PutWal.
FreezeMemtable(w) ==
  /\ db[w].pc = "running"
  /\ db[w].mem # {}
  /\ db' = [db EXCEPT ![w] = Frozen(db[w], db[w].flushed)]
  /\ UNCHANGED <<setup, manifest, pins, wal, gcphase, keep, doomed, acked>>

\* What do_flush puts next: the oldest frozen WAL buffer, a prefix of the rows
\* not flushed, or the same once more if the answer to the put got lost
NextPuts(d) ==
  IF d.putting # {} THEN IF setup.losses THEN {d.putting} ELSE {}
  ELSE {{r \in d.buf : r.seq <= last} : last \in {r.seq : r \in d.buf}}

\* Faulty variant: the WAL file is written with a plain put.
PutWalOver(w) ==
  LET d == db[w] IN
  /\ d.pc = "running"
  /\ d.flushed + 1 \in WalIds
  /\ \E rows \in NextPuts(d) :
       /\ wal' = Created(d.flushed + 1, rows)
       /\ db' = [db EXCEPT ![w].putting = rows]
  /\ UNCHANGED <<setup, manifest, pins, gcphase, keep, doomed, acked>>

PutWal(w) ==
  LET d == db[w] IN
  /\ d.pc = "running"
  /\ d.flushed + 1 \in WalIds
  /\ ~ Exists(d.flushed + 1)
  /\ \E rows \in NextPuts(d) :
       /\ wal' = Created(d.flushed + 1, rows)
       /\ db' = [db EXCEPT ![w].putting = rows]
  /\ UNCHANGED <<setup, manifest, pins, gcphase, keep, doomed, acked>>

\* Faulty variant: a file that exists is taken for one's own.
VerifiedAnyhow(i, rows) == Exists(i)

\* verify_put_succeeded: the file has the id of this very put.  Rows name their
\* writer, so no other put has the same ones.
Verified(i, rows) == Exists(i) /\ wal[i] = rows

\* The id is taken.  If the put cannot be verified, be it that the store keeps
\* no attributes, Fenced ends the WAL writer.
PutRefused(w) ==
  LET d == db[w] IN
  /\ d.pc = "running"
  /\ Exists(d.flushed + 1)
  /\ \E rows \in NextPuts(d), attributes \in BOOLEAN :
       db' = IF attributes /\ Verified(d.flushed + 1, rows)
             THEN [db EXCEPT ![w].putting = rows]
             ELSE [db EXCEPT ![w] = Ended]
  /\ UNCHANGED <<setup, manifest, pins, wal, gcphase, keep, doomed, acked>>

\* record_flushed_wal and its listener: the rows are durable.
RecordWal(w) ==
  LET d == db[w] IN
  /\ d.pc = "running"
  /\ d.putting # {}
  /\ db' = [db EXCEPT ![w].flushed = @ + 1,
                      ![w].durable = MaxSeqOf(d.putting),
                      ![w].buf = @ \ d.putting,
                      ![w].putting = {}]
  /\ acked' = acked \cup d.putting
  /\ UNCHANGED <<setup, manifest, pins, wal, gcphase, keep, doomed>>

\* The oldest immutable memtable, uploaded and durable in the WAL, goes into
\* the manifest, together with its replay position.
FlushL0(w) ==
  LET d == db[w]
      t == Head(d.imm)
      seq == MaxSeqOf(t.rows)
      legal == seq > manifest.l0_seq /\ d.flushed + 1 >= manifest.next_wal
  IN
  /\ d.pc \in {"replay", "running"}
  /\ d.imm # << >>
  /\ seq <= d.durable
  /\ ~ Superseded(w)
  /\ IF legal
     THEN /\ manifest' = [manifest EXCEPT !.replay_after = t.wal,
                                          !.next_wal = d.flushed + 1,
                                          !.l0_seq = seq, !.l0 = @ \cup t.rows]
          /\ db' = [db EXCEPT ![w].imm = Tail(@)]
     ELSE /\ db' = [db EXCEPT ![w].pc = "broken"]
          /\ UNCHANGED manifest
  /\ UNCHANGED <<setup, pins, wal, gcphase, keep, doomed, acked>>

\* The process ends: a crash, a close, or any of its tasks found it fenced.
Stop(w) ==
  /\ db[w].pc \notin {"down", "truncated", "broken", "stopped"}
  /\ db' = [db EXCEPT ![w] = Ended]
  /\ UNCHANGED <<setup, manifest, pins, wal, gcphase, keep, doomed, acked>>

-----------------------------------------------------------------------------
(***************************************************************************)
(* Checkpoints: each pins a manifest, hence the WAL files between its      *)
(* replay position and its next_wal_sst_id.                                *)
(***************************************************************************)
Pin(m) == [replay_after |-> m.replay_after, next_wal |-> m.next_wal]
Pins == [replay_after : 0 .. MaxWal, next_wal : 1 .. MaxWal + 1]

\* The writer's checkpoint: a manifest write of its own
CreateCheckpoint(w) ==
  /\ db[w].pc = "running"
  /\ ~ Superseded(w)
  /\ Cardinality(pins) < setup.max_pins
  /\ manifest' = [manifest EXCEPT !.next_wal = db[w].flushed + 1]
  /\ pins' = pins \cup {Pin(manifest')}
  /\ UNCHANGED <<setup, wal, db, gcphase, keep, doomed, acked>>

\* A checkpoint another process takes of the latest manifest
WriteCheckpoint ==
  /\ Cardinality(pins) < setup.max_pins
  /\ pins' = pins \cup {Pin(manifest)}
  /\ UNCHANGED <<setup, manifest, wal, db, gcphase, keep, doomed, acked>>

\* A checkpoint is deleted or expires.
DeleteCheckpoint(p) ==
  /\ pins' = pins \ {p}
  /\ UNCHANGED <<setup, manifest, wal, db, gcphase, keep, doomed, acked>>

-----------------------------------------------------------------------------
(***************************************************************************)
(* The WAL collector                                                       *)
(***************************************************************************)
\* Faulty variant: files of checkpoints are not referenced.
ReferencedByLatest == manifest.replay_after .. MaxWal

\* referenced_wal_ranges
Referenced ==
  (manifest.replay_after .. MaxWal)
    \cup UNION {p.replay_after + 1 .. p.next_wal - 1 : p \in pins}

GcRead ==
  /\ gcphase = "idle"
  /\ keep' = Referenced
  /\ gcphase' = "list"
  /\ UNCHANGED <<setup, manifest, pins, wal, db, doomed, acked>>

\* Faulty variant: fences are not told apart from files with rows.
GcListAll ==
  /\ gcphase = "list"
  /\ doomed' = {i \in DOMAIN wal : i \notin keep}
  /\ keep' = {}
  /\ gcphase' = "delete"
  /\ UNCHANGED <<setup, manifest, pins, wal, db, acked>>

\* WalGcMode: files with rows, and fences if their collector deletes
GcList ==
  /\ gcphase = "list"
  /\ doomed' = {i \in DOMAIN wal : i \notin keep /\ (wal[i] # {} \/ FenceGc)}
  /\ keep' = {}
  /\ gcphase' = "delete"
  /\ UNCHANGED <<setup, manifest, pins, wal, db, acked>>

\* In any order; files that are too young stay.
GcDelete(i) ==
  /\ gcphase = "delete"
  /\ i \in doomed
  /\ wal' = Restrict(wal, DOMAIN wal \ {i})
  /\ doomed' = doomed \ {i}
  /\ UNCHANGED <<setup, manifest, pins, db, gcphase, keep, acked>>

GcFinish ==
  /\ gcphase = "delete"
  /\ gcphase' = "idle"
  /\ doomed' = {}
  /\ UNCHANGED <<setup, manifest, pins, wal, db, keep, acked>>

-----------------------------------------------------------------------------
OpenStep(w) ==
  \/ Open(w) \/ LoadEmptyWalId(w) \/ Claim(w) \/ Reload(w) \/ ReloadRefresh(w)
  \/ WriteFence(w) \/ FenceTaken(w) \/ RetryRefresh(w) \/ FinalRefresh(w)
  \/ ReplayFile(w) \/ ReplayTruncated(w) \/ InstallTable(w) \/ FinishReplay(w)

WriterStep(w) ==
  \/ OpenStep(w)
  \/ Write(w) \/ FreezeMemtable(w) \/ PutWal(w) \/ PutRefused(w) \/ RecordWal(w)
  \/ FlushL0(w) \/ CreateCheckpoint(w) \/ Stop(w)

GcStep == GcRead \/ GcList \/ GcFinish \/ \E i \in WalIds : GcDelete(i)

Next ==
  \/ \E w \in Writer : WriterStep(w)
  \/ WriteCheckpoint
  \/ \E p \in pins : DeleteCheckpoint(p)
  \/ GcStep

Spec == Init /\ [][Next]_vars

-----------------------------------------------------------------------------
TypeOK ==
  /\ setup \in Setups
  /\ manifest \in Manifests
  /\ pins \subseteq Pins
  /\ DOMAIN wal \subseteq WalIds /\ \A i \in DOMAIN wal : wal[i] \subseteq Rows
  /\ db \in [Writer -> Dbs]
  /\ gcphase \in {"idle", "list", "delete"}
  /\ keep \subseteq 0 .. MaxWal
  /\ doomed \subseteq WalIds
  /\ acked \subseteq Rows

(***************************************************************************)
(* What an opening of the database now would recover: the rows of L0, and  *)
(* those of the WAL files after the replay position that are newer.        *)
(***************************************************************************)
Recoverable ==
  manifest.l0 \cup UNION {{r \in wal[i] : r.seq > manifest.l0_seq} :
                           i \in {j \in DOMAIN wal : j > manifest.replay_after}}

(***************************************************************************)
(* A row reported durable is never lost, whoever crashes, takes over, was  *)
(* paused or collects garbage.                                             *)
(***************************************************************************)
AckedNeverLost == acked \subseteq Recoverable

(***************************************************************************)
(* After the replay position no WAL id is missing below one that exists:   *)
(* what last_seen_wal_id's search and the replay rely on.                  *)
(***************************************************************************)
WalUnbroken ==
  \A i, j \in WalIds :
    manifest.replay_after < i /\ i < j /\ Exists(j) => Exists(i)

(***************************************************************************)
(* WAL files carry increasing sequence numbers, so that no row of another  *)
(* writer has a number that replay would skip or see twice.                *)
(***************************************************************************)
WalSeqsIncrease ==
  \A i, j \in DOMAIN wal :
    manifest.replay_after < i /\ i < j
      => \A r \in wal[i], q \in wal[j] : r.seq < q.seq

(***************************************************************************)
(* A writer that has finished opening and is not superseded serves every   *)
(* durable row, from L0 or from its memtables.                             *)
(***************************************************************************)
ServesAcked ==
  \A w \in Writer :
    db[w].pc = "running" /\ ~ Superseded(w)
      => acked \subseteq manifest.l0 \cup db[w].mem
                           \cup UNION {db[w].imm[k].rows : k \in DOMAIN db[w].imm}

(***************************************************************************)
(* The assertions of fence_and_init, of record_flushed_wal's caller and of *)
(* apply_uploaded_state hold, set_next_wal_id never moves back, and a WAL  *)
(* file is missing from a replay only if the writer is fenced.             *)
(***************************************************************************)
AssertionsHold == \A w \in Writer : db[w].pc \notin {"broken", "truncated"}

(***************************************************************************)
(* Once a writer has its fence in place, no writer with an older epoch     *)
(* creates another WAL file, however late its put arrives.                 *)
(***************************************************************************)
Established(w) == db[w].pc \in {"confirm", "replay", "running"}
OldWritersFenced ==
  [][\A v, w \in Writer :
       Established(w) /\ db[v].epoch < db[w].epoch
         => ~ (db[v].putting = {} /\ db'[v].putting # {})]_vars

(***************************************************************************)
(* The WAL files of a checkpoint stay as long as the checkpoint does.      *)
(***************************************************************************)
PinnedWalsSurvive ==
  \A p \in pins : \A i \in p.replay_after + 1 .. p.next_wal - 1 : Exists(i)
====
