----------------------------- MODULE Compaction -----------------------------
(***************************************************************************)
(* Distributed compaction of one LSM tree.  A coordinator plans jobs,      *)
(* keeps them in the .compactions object, commits finished ones to the     *)
(* manifest and takes jobs back from workers that fell silent.  Workers    *)
(* claim jobs by compare-and-set on .compactions, run them and record the  *)
(* outcome there.  A writer adds L0 SSTs to the manifest, an operator may  *)
(* submit jobs, and a collector deletes SSTs nothing refers to.            *)
(*                                                                         *)
(* .compactions and the manifest are atomic objects here (SequencedStorage *)
(* shows that updates of a version that is not the latest are refused).    *)
(* SSTs and jobs are named by the tick at which their ULID was minted, and *)
(* a row by the tick of the L0 SST that it arrived in.  A job writes one   *)
(* output SST.                                                             *)
(***************************************************************************)
EXTENDS Integers, SequencesExt, FiniteSetsExt, Functions

CONSTANTS
  Worker,    \* compaction workers, one process each
  None,      \* no worker
  Setups     \* the instances that Init chooses from

\* What an instance may have only so much of
Kinds == {"jobs", "flushes", "submits", "reclaims", "restarts", "stops",
          "failures", "collections"}
\* workers: how many run; slots: their max_concurrent_compactions; limit: the
\* coordinator's; l0, runs: the L0 SSTs and sorted runs there are at first; moves:
\* enable_trivial_move; left: the bounds
Setup == [workers : Nat, slots : Nat, limit : Nat, l0 : Nat, runs : Nat, moves : BOOLEAN,
          left : [Kinds -> Nat]]

ASSUME SetupsAssumption == Setups \subseteq Setup

Statuses == {"Submitted", "Scheduled", "Running", "Compacted", "Completed", "Failed"}
Active == Statuses \ {"Completed", "Failed"}

\* Compaction: its spec (the L0 SSTs and sorted runs it merges and the run it
\* writes), its status and worker, and its output: the SSTs of its context
\* while it is Running, those of its result from Compacted on
Job == [l0 : SUBSET Nat, runs : SUBSET Nat, dst : Nat, status : Statuses,
        worker : Worker \cup {None}, out : SUBSET Nat]
Submitted(spec) ==
  [l0 |-> spec.l0, runs |-> spec.runs, dst |-> spec.dst, status |-> "Submitted",
   worker |-> None, out |-> {}]

VARIABLES
  setup,       \* the instance
  left,        \* how much is left of the bounds
  clock,       \* the last tick minted
  sst,         \* the SSTs of the object store, with their rows
  manifest,    \* the stored manifest: L0 (newest first), sorted runs, last_compacted_l0
  jobs,        \* the stored .compactions
  co,          \* the coordinator
  wk,          \* per worker: the worker and its executor
  behind,      \* the handles whose object was updated since they read it
  uploaded,    \* L0 SSTs of the writer that are not in the manifest yet
  submission,  \* the operator's job that is not stored yet, if any
  gc,          \* the collector
  rows,        \* history: the rows that were in a manifest
  broken       \* history: an assertion of the code failed

vars == <<setup, left, clock, sst, manifest, jobs, co, wk, behind, uploaded,
          submission, gc, rows, broken>>
shared == <<sst, manifest, rows>>
others == <<setup, uploaded, submission, gc>>

(***************************************************************************)
(* Manifests                                                               *)
(***************************************************************************)
FilesOf(m) == Range(m.l0) \cup UNION Range(m.runs)
RowsOf(files) == UNION {sst[f] : f \in files \cap DOMAIN sst}
Without(f, S) == Restrict(f, DOMAIN f \ S)
Descending(S) == SetToSortSeq(S, LAMBDA a, b : a > b)

\* The sources of a tree in logical order, newest first
LogicalOrder(m) ==
  [i \in 1 .. Len(m.l0) |-> <<"l0", m.l0[i]>>]
    \o [i \in 1 .. Cardinality(DOMAIN m.runs) |-> <<"run", Descending(DOMAIN m.runs)[i]>>]
SourcesOf(j) == {<<"l0", f>> : f \in j.l0} \cup {<<"run", r>> : r \in j.runs}

\* Faulty variant: the stored last_compacted_l0 decides.
MergeManifestStoredLast(mine, stored) ==
  LET gone == {i \in DOMAIN stored.l0 : stored.l0[i] = stored.last} IN
  [mine EXCEPT !.l0 = IF gone = {} THEN stored.l0
                      ELSE SubSeq(stored.l0, 1, Min(gone) - 1)]

\* merge_remote_manifest: the stored L0 down to the last one compacted, and
\* the coordinator's own runs
MergeManifest(mine, stored) ==
  LET gone == {i \in DOMAIN stored.l0 : stored.l0[i] = mine.last} IN
  [mine EXCEPT !.l0 = IF gone = {} THEN stored.l0
                      ELSE SubSeq(stored.l0, 1, Min(gone) - 1)]

\* finish_compaction: the sources give way to the output, and the last
\* compacted L0 is the newest of the compacted ones at the old end.
Finished(m, j, out) ==
  LET From(i) == {m.l0[k] : k \in i .. Len(m.l0)}
      ends == {i \in DOMAIN m.l0 : From(i) \subseteq j.l0}
  IN
  [l0 |-> SelectSeq(m.l0, LAMBDA f : f \notin j.l0),
   runs |-> [r \in (DOMAIN m.runs \ j.runs) \cup {j.dst} |->
               IF r = j.dst THEN out ELSE m.runs[r]],
   last |-> IF ends = {} THEN m.last ELSE m.l0[Min(ends)]]

(***************************************************************************)
(* The jobs                                                                *)
(***************************************************************************)
WithStatus(js, statuses) == {i \in DOMAIN js : js[i].status \in statuses}

\* retain_active_and_last_finished
Retained(js) ==
  LET finished == WithStatus(js, Statuses \ Active) IN
  Restrict(js, WithStatus(js, Active) \cup
               (IF finished = {} THEN {} ELSE {Max(finished)}))

\* Faulty variant: a released job is not adopted.
AdoptsNoRelease(mine, stored) ==
  stored \in (CASE mine = "Submitted" -> {"Compacted"}
                [] mine = "Scheduled" -> {"Running", "Compacted"}
                [] mine = "Running"   -> {"Running", "Compacted"}
                [] mine = "Compacted" -> {"Compacted"}
                [] OTHER              -> {})

\* should_adopt_state_transition: the workers' transitions
Adopts(mine, stored) ==
  stored \in (CASE mine = "Submitted" -> {"Compacted"}
                [] mine = "Scheduled" -> {"Running", "Compacted"}
                [] mine = "Running"   -> {"Scheduled", "Running", "Compacted"}
                [] mine = "Compacted" -> {"Compacted"}
                [] OTHER              -> {})

\* merge_remote_compactions
MergeJobs(mine, stored) ==
  [i \in DOMAIN mine \cup WithStatus(stored, Statuses \ {"Scheduled", "Running"}) |->
     IF i \notin DOMAIN mine THEN stored[i]
     ELSE IF i \in DOMAIN stored /\ Adopts(mine[i].status, stored[i].status)
     THEN stored[i] ELSE mine[i]]

\* compaction_job_id_cutoff: a new job is not older than the newest stored one.
TooOld(new, stored) ==
  \E i \in DOMAIN new \ DOMAIN stored : \E k \in DOMAIN stored : i < k

\* validate_destination_overwrite
DestinationFree(m, j) == j.dst \in DOMAIN m.runs => j.dst \in j.runs

\* SizeTieredCompactionScheduler::validate: consecutive sources, into the
\* oldest run among them
SchedulerValid(m, j) ==
  LET order == LogicalOrder(m)
      at == {i \in DOMAIN order : order[i] \in SourcesOf(j)}
  IN
  /\ at = Min(at) .. Max(at)
  /\ j.runs # {} => j.dst = Min(j.runs)

\* validate_compaction
Valid(m, js, j) ==
  /\ SourcesOf(j) # {}
  /\ SourcesOf(j) \subseteq Range(LogicalOrder(m))
  /\ j.runs = {} => \A r \in DOMAIN m.runs : r < j.dst
  /\ DestinationFree(m, j)
  /\ j.l0 # {} => \A i \in WithStatus(js, {"Scheduled", "Running"}) : js[i].l0 = {}
  /\ SchedulerValid(m, j)

\* final_commit_is_applied
Applied(m, j) ==
  /\ j.l0 = {} /\ j.dst \in j.runs
  /\ j.dst \in DOMAIN m.runs /\ m.runs[j.dst] = j.out
  /\ (j.runs \ {j.dst}) \cap DOMAIN m.runs = {}

(***************************************************************************)
(* Shared steps                                                            *)
(***************************************************************************)
Spend(kind, n) ==
  /\ left[kind] >= n
  /\ left' = [left EXCEPT ![kind] = @ - n]

\* An update of .compactions by `who`: every other handle that is in use is
\* behind from now on.
Holders ==
  {w \in Worker : wk[w].pc = "claim"}
    \cup (IF co.pc \in {"down", "idle"} THEN {} ELSE {"compactions"})
UpdateJobs(who, new) ==
  /\ jobs' = new
  /\ behind' = (behind \cap {"manifest"}) \cup (Holders \ {who})

-----------------------------------------------------------------------------
(***************************************************************************)
(* The coordinator: CompactorEventHandler and CompactorStateWriter.  It    *)
(* works on copies of the manifest (view) and of .compactions (jobs).      *)
(***************************************************************************)
CoPCs == {"down", "fence", "idle", "load", "reclaim", "commit", "checkpoint",
          "manifest", "write", "schedule", "validate"}
Stopped == [pc |-> "down", then |-> "idle", tick |-> "poll", jobs |-> << >>,
            view |-> [l0 |-> << >>, runs |-> << >>, last |-> 0]]

\* What is left to do in this tick after commit_compacted_entries
AfterCommit(c) == IF c.tick = "poll" THEN "schedule" ELSE "idle"

\* A crash, or the end of the process
Crash ==
  /\ co.pc # "down"
  /\ Spend("restarts", 1)
  /\ co' = Stopped
  /\ behind' = behind \cap Worker
  /\ UNCHANGED <<shared, others, clock, jobs, wk, broken>>

\* The coordinator with state c goes on with `pc`, or with what follows where
\* the code finds nothing to do and returns.
Resumed(c, pc) ==
  LET Absent(statuses) == WithStatus(c.jobs, statuses) = {}
      afterReclaim == IF pc = "reclaim" /\ Absent({"Running"}) THEN "commit" ELSE pc
      afterCommit == IF afterReclaim = "commit" /\ Absent({"Compacted"})
                     THEN AfterCommit(c) ELSE afterReclaim
      to == IF afterCommit = "validate" /\ Absent({"Submitted"}) THEN "idle" ELSE afterCommit
  IN
  [c EXCEPT !.pc = to, !.then = "idle", !.tick = IF to = "idle" THEN "poll" ELSE @]

\* CompactorStateWriter::new: the manifest is fenced and read first, ...
FenceManifest ==
  /\ co.pc = "down"
  /\ co' = [co EXCEPT !.pc = "fence", !.view = manifest]
  /\ UNCHANGED <<shared, others, left, clock, jobs, wk, behind, broken>>

\* ... then .compactions, where unclaimed jobs are submitted again.
FenceCompactions ==
  LET reset == [i \in DOMAIN jobs |->
                  IF jobs[i].status = "Scheduled"
                  THEN [jobs[i] EXCEPT !.status = "Submitted", !.worker = None]
                  ELSE jobs[i]]
  IN
  /\ co.pc = "fence"
  /\ UpdateJobs("compactions", Retained(reset))
  /\ co' = [co EXCEPT !.pc = "idle", !.jobs = jobs']
  /\ UNCHANGED <<shared, others, left, clock, wk, broken>>

\* A tick of PollManifest, or of CommitCompacted when there are active jobs:
\* load_compactions
LoadCompactions(tick) ==
  /\ co.pc = "idle"
  /\ tick = "commit" => WithStatus(co.jobs, Active) # {}
  /\ co' = Resumed([co EXCEPT !.tick = tick, !.jobs = MergeJobs(co.jobs, jobs)],
                   IF tick = "poll" THEN "load" ELSE "commit")
  /\ behind' = behind \ {"compactions"}
  /\ UNCHANGED <<shared, others, left, clock, jobs, wk, broken>>

\* load_manifest
LoadManifest ==
  /\ co.pc = "load"
  /\ co' = Resumed([co EXCEPT !.view = MergeManifest(co.view, manifest)], "reclaim")
  /\ UNCHANGED <<shared, others, left, clock, jobs, wk, behind, broken>>

\* reclaim_stale_workers: a heartbeat may be too old because its worker is
\* gone, or because it is slow.
Reclaim(stale) ==
  LET slow == {i \in stale : wk[co.jobs[i].worker].pc # "down"} IN
  /\ co.pc = "reclaim"
  /\ stale \subseteq WithStatus(co.jobs, {"Running"})
  /\ Spend("reclaims", Cardinality(slow))
  /\ co' = IF stale = {} THEN Resumed(co, "commit")
           ELSE [co EXCEPT
              !.pc = "write", !.then = "commit",
              !.jobs = [i \in DOMAIN @ |->
                 IF i \in stale THEN [@[i] EXCEPT !.status = "Scheduled", !.worker = None]
                 ELSE @[i]]]
  /\ UNCHANGED <<shared, others, clock, jobs, wk, behind, broken>>

\* apply_final_commits, one job after the other
FinalCommit(st, i) ==
  LET j == st.jobs[i] IN
  CASE Applied(st.view, j) -> [st EXCEPT !.jobs[i].status = "Completed"]
    [] ~ Applied(st.view, j) /\ Valid(st.view, st.jobs, j) ->
         [st EXCEPT !.jobs[i].status = "Completed", !.changed = TRUE,
                    !.view = Finished(@, j, j.out)]
    [] OTHER -> [st EXCEPT !.jobs[i].status = "Failed"]

\* commit_compacted_entries
Commit ==
  LET due == WithStatus(co.jobs, {"Compacted"})
      st == FoldLeft(FinalCommit, [view |-> co.view, jobs |-> co.jobs, changed |-> FALSE],
                     SetToSortSeq(due, <))
  IN
  /\ co.pc = "commit"
  /\ co' = [co EXCEPT !.view = st.view, !.jobs = st.jobs, !.then = AfterCommit(co),
                      !.pc = IF st.changed THEN "checkpoint" ELSE "write"]
  /\ UNCHANGED <<shared, others, left, clock, jobs, wk, behind, broken>>

\* write_manifest_safely: load_manifest, and the checkpoint's manifest update,
\* after which the handle is at the latest version
WriteCheckpoint ==
  /\ co.pc = "checkpoint"
  /\ co' = [co EXCEPT !.pc = "manifest", !.view = MergeManifest(co.view, manifest)]
  /\ behind' = behind \ {"manifest"}
  /\ UNCHANGED <<shared, others, left, clock, jobs, wk, broken>>

\* The manifest update itself, or another round if the writer came first
WriteManifest ==
  /\ co.pc = "manifest"
  /\ IF "manifest" \in behind
     THEN co' = [co EXCEPT !.pc = "checkpoint"] /\ UNCHANGED manifest
     ELSE co' = [co EXCEPT !.pc = "write"] /\ manifest' = co.view
  /\ behind' = behind \ {"manifest"}
  /\ UNCHANGED <<others, sst, rows, left, clock, jobs, wk, broken>>

\* write_compactions_safely: the update succeeds, ...
WriteCompactions ==
  LET new == Retained(co.jobs) IN
  /\ co.pc = "write"
  /\ "compactions" \notin behind
  /\ ~ TooOld(new, jobs)
  /\ UpdateJobs("compactions", new)
  /\ co' = Resumed([co EXCEPT !.jobs = new], co.then)
  /\ UNCHANGED <<shared, others, left, clock, wk, broken>>

\* ... or a job of it is older than a stored one and the task fails, ...
WriteRefused ==
  /\ co.pc = "write"
  /\ "compactions" \notin behind
  /\ TooOld(Retained(co.jobs), jobs)
  /\ co' = Stopped
  /\ behind' = behind \cap Worker
  /\ UNCHANGED <<shared, others, left, clock, jobs, wk, broken>>

\* ... or it conflicts, and the stored jobs are merged before the next try.
MergeConflict ==
  /\ co.pc = "write"
  /\ "compactions" \in behind
  /\ co' = [co EXCEPT !.jobs = MergeJobs(co.jobs, jobs)]
  /\ behind' = behind \ {"compactions"}
  /\ UNCHANGED <<shared, others, left, clock, jobs, wk, broken>>

\* ConflictChecker: the sources and destinations that active jobs use
InUse(js) ==
  UNION {SourcesOf(js[i]) \cup {<<"run", js[i].dst>>} : i \in WithStatus(js, Active)}

\* next_global_sr_id
NextRun(m, js) ==
  Max({-1} \cup DOMAIN m.runs \cup {js[i].dst : i \in WithStatus(js, Active)}) + 1

\* The specs SizeTieredCompactionScheduler::propose may come up with: the
\* oldest L0 SSTs into a new run, or consecutive runs into the oldest of them.
\* Sizes, which decide among these, are not modelled.
Proposals(m, js) ==
  LET n == Len(m.l0)
      l0 == {[l0 |-> {m.l0[k] : k \in i .. n}, runs |-> {}, dst |-> NextRun(m, js)] :
               i \in 1 .. n}
      merges == {[l0 |-> {}, runs |-> {r \in DOMAIN m.runs : a <= r /\ r <= b}, dst |-> a] :
                   a, b \in DOMAIN m.runs}
  IN
  {spec \in l0 \cup merges :
     /\ spec.runs # {} => Cardinality(spec.runs) > 1
     /\ (SourcesOf(spec) \cup {<<"run", spec.dst>>}) \cap InUse(js) = {}}

\* maybe_schedule_compactions: add_compaction for each of the chosen specs
Schedule(specs) ==
  LET seq == SetToSeq(specs)
      n == Len(seq)
      new == [i \in clock + 1 .. clock + n |-> Submitted(seq[i - clock])]
  IN
  /\ co.pc = "schedule"
  /\ specs \subseteq Proposals(co.view, co.jobs)
  /\ \A a, b \in specs : a # b => (a.l0 \cap b.l0) \cup (a.runs \cap b.runs) = {}
  /\ n + Cardinality(WithStatus(co.jobs, {"Submitted", "Scheduled", "Running"})) <= setup.limit
     \/ n = 0
  /\ Spend("jobs", n)
  /\ clock' = clock + n
  /\ co' = IF n = 0 THEN Resumed(co, "validate")
           ELSE [co EXCEPT !.pc = "write", !.then = "validate", !.jobs = new @@ @]
  /\ UNCHANGED <<shared, others, jobs, wk, behind, broken>>

\* Faulty variant: the limit is not looked at.
ValidatedAnyNumber(moved, limit, st, i) ==
  LET j == st.jobs[i]
      inputs == j.l0 \cup UNION {st.view.runs[r] : r \in j.runs}
  IN
  CASE ~ Valid(st.view, st.jobs, j) -> [st EXCEPT !.jobs[i].status = "Failed"]
    [] Valid(st.view, st.jobs, j) /\ i \in moved ->
         [st EXCEPT !.jobs[i].status = "Completed", !.changed = TRUE,
                    !.view = Finished(@, j, inputs)]
    [] OTHER -> [st EXCEPT !.jobs[i].status = "Scheduled"]

\* maybe_validate_submitted_compactions, one job after the other; `moved` are
\* the jobs whose sources have disjoint key ranges (trivial_move_output).
Validated(moved, limit, st, i) ==
  LET j == st.jobs[i]
      claimed == WithStatus(st.jobs, {"Scheduled", "Running"})
      inputs == j.l0 \cup UNION {st.view.runs[r] : r \in j.runs}
  IN
  CASE ~ Valid(st.view, st.jobs, j) -> [st EXCEPT !.jobs[i].status = "Failed"]
    [] Valid(st.view, st.jobs, j) /\ i \in moved ->
         [st EXCEPT !.jobs[i].status = "Completed", !.changed = TRUE,
                    !.view = Finished(@, j, inputs)]
    [] Valid(st.view, st.jobs, j) /\ i \notin moved /\ Cardinality(claimed) < limit ->
         [st EXCEPT !.jobs[i].status = "Scheduled"]
    [] OTHER -> st

Validate(moved) ==
  LET due == WithStatus(co.jobs, {"Submitted"})
      st == FoldLeft(LAMBDA a, i : Validated(moved, setup.limit, a, i),
                     [view |-> co.view, jobs |-> co.jobs, changed |-> FALSE],
                     SetToSortSeq(due, <))
  IN
  /\ co.pc = "validate"
  /\ moved \subseteq due
  /\ moved # {} => setup.moves
  /\ co' = [co EXCEPT !.view = st.view, !.jobs = st.jobs, !.then = "idle",
                      !.pc = IF st.changed THEN "checkpoint" ELSE "write"]
  /\ UNCHANGED <<shared, others, left, clock, jobs, wk, behind, broken>>

-----------------------------------------------------------------------------
(***************************************************************************)
(* A worker: CompactionWorkerHandler, which handles one message at a time, *)
(* those of its executor before its tickers, and TokioCompactionExecutor.  *)
(***************************************************************************)
\* job_progress, the executor's tasks and the messages from it
Idle(w) == wk[w].pc = "idle" /\ wk[w].inbox = << >>
Owns(w, js, i) == i \in DOMAIN js /\ js[i].worker = w
NewWorker == [pc |-> "idle", room |-> 0, claim |-> << >>, progress |-> << >>,
              tasks |-> << >>, inbox |-> << >>]
GoneWorker == [NewWorker EXCEPT !.pc = "down"]

\* poll_and_claim, with room for so many more jobs.  A poll that finds no
\* job to claim changes nothing.
Poll(w) ==
  LET room == setup.slots - Cardinality(DOMAIN wk[w].progress) IN
  /\ Idle(w)
  /\ WithStatus(jobs, {"Scheduled"}) # {}
  /\ wk' = [wk EXCEPT ![w].pc = "scan", ![w].room = room]
  /\ UNCHANGED <<shared, others, left, clock, jobs, co, behind, broken>>

\* One round: a job that this worker still runs is stopped, and of the others
\* the first ones are chosen.
Scan(w) ==
  LET me == wk[w]
      open == {i \in WithStatus(jobs, {"Scheduled"}) : jobs[i].worker = None}
      mine == open \cap DOMAIN me.progress
      chosen == {i \in open \ mine : Cardinality({k \in open \ mine : k < i}) < me.room}
  IN
  /\ me.pc = "scan"
  /\ wk' = [wk EXCEPT ![w] = [@ EXCEPT
       !.pc = IF chosen = {} THEN "idle" ELSE "claim",
       !.room = IF chosen = {} THEN 0 ELSE @,
       !.claim = Restrict(jobs, chosen),
       !.progress = Without(@, mine), !.tasks = Without(@, mine)]]
  /\ UNCHANGED <<shared, others, left, clock, jobs, co, behind, broken>>

\* The claim is written, ...
Claim(w) ==
  LET me == wk[w] IN
  /\ me.pc = "claim"
  /\ w \notin behind
  /\ UpdateJobs(w, [i \in DOMAIN jobs |->
       IF i \in DOMAIN me.claim
       THEN [jobs[i] EXCEPT !.status = "Running", !.worker = w] ELSE jobs[i]])
  /\ wk' = [wk EXCEPT ![w].pc = "build"]
  /\ UNCHANGED <<shared, others, left, clock, co, broken>>

\* ... or it conflicts, and there is another round.
ClaimConflict(w) ==
  /\ wk[w].pc = "claim"
  /\ w \in behind
  /\ wk' = [wk EXCEPT ![w].pc = "scan", ![w].claim = << >>]
  /\ behind' = behind \ {w}
  /\ UNCHANGED <<shared, others, left, clock, jobs, co, broken>>

\* release_claim of the jobs in S
Released(w, S) ==
  [i \in DOMAIN jobs |->
     IF i \in S /\ Owns(w, jobs, i)
     THEN [jobs[i] EXCEPT !.status = "Scheduled", !.worker = None] ELSE jobs[i]]
UpdateIfChanged(w, new) ==
  IF new = jobs THEN UNCHANGED <<jobs, behind>> ELSE UpdateJobs(w, new)

\* Faulty variant: the job's context is not used.
JobArgsAfresh(j) ==
  [dst |-> j.dst, out |-> {},
   rows |-> RowsOf(j.l0 \cup UNION {manifest.runs[r] : r \in j.runs})]

\* StartCompactionJobArgs: the output so far comes from the job's context.
JobArgs(j) ==
  [dst |-> j.dst, out |-> j.out,
   rows |-> RowsOf(j.l0 \cup UNION {manifest.runs[r] : r \in j.runs})]

\* build_job_args against a manifest read now, start_compaction_job for the
\* jobs whose sources it has, release_claim for the others
Build(w) ==
  LET me == wk[w]
      ok == {i \in DOMAIN me.claim : /\ me.claim[i].l0 \subseteq Range(manifest.l0)
                                     /\ me.claim[i].runs \subseteq DOMAIN manifest.runs}
      args == [i \in ok |-> JobArgs(me.claim[i])]
  IN
  /\ me.pc = "build"
  /\ wk' = [wk EXCEPT ![w] = [@ EXCEPT
       !.pc = "idle", !.claim = << >>, !.room = 0,
       !.progress = [i \in ok |-> me.claim[i].out] @@ @,
       !.tasks = args @@ @]]
  /\ broken' = (broken \/ \E i \in ok : \/ i \in DOMAIN me.tasks
                                        \/ \E k \in DOMAIN me.tasks \cup (ok \ {i}) :
                                             (me.tasks @@ args)[k].dst = args[i].dst)
  /\ UpdateIfChanged(w, Released(w, DOMAIN me.claim \ ok))
  /\ UNCHANGED <<shared, others, left, clock, co>>

\* The executor writes the output SST, unless the job's context has it, and
\* reports progress, ...
Upload(w, i) ==
  LET f == clock + 1 IN
  /\ i \in DOMAIN wk[w].tasks
  /\ wk[w].tasks[i].out = {}
  /\ clock' = f
  /\ sst' = (f :> wk[w].tasks[i].rows) @@ sst
  /\ wk' = [wk EXCEPT ![w].tasks[i].out = {f},
                      ![w].inbox = Append(@, [id |-> i, kind |-> "progress", out |-> {f}])]
  /\ UNCHANGED <<others, manifest, rows, left, jobs, co, behind, broken>>

\* ... and ends the task, with a result ...
EndTask(w, i, out) ==
  wk' = [wk EXCEPT ![w].tasks = Without(@, {i}),
                   ![w].inbox = Append(@, [id |-> i, kind |-> "finished", out |-> out])]
Finish(w, i) ==
  /\ i \in DOMAIN wk[w].tasks
  /\ wk[w].tasks[i].out # {}
  /\ EndTask(w, i, wk[w].tasks[i].out)
  /\ UNCHANGED <<shared, others, left, clock, jobs, co, behind, broken>>

\* ... or an error.
Fail(w, i) ==
  /\ i \in DOMAIN wk[w].tasks
  /\ Spend("failures", 1)
  /\ EndTask(w, i, {})
  /\ UNCHANGED <<shared, others, clock, jobs, co, behind, broken>>

\* record_progress
RecordProgress(w) ==
  LET msg == Head(wk[w].inbox) IN
  /\ wk[w].pc = "idle" /\ wk[w].inbox # << >>
  /\ msg.kind = "progress"
  /\ wk' = [wk EXCEPT ![w].inbox = Tail(@),
                      ![w].progress = [i \in DOMAIN @ |-> IF i = msg.id THEN msg.out ELSE @[i]]]
  /\ UNCHANGED <<shared, others, left, clock, jobs, co, behind, broken>>

\* Faulty variant: the owner is not compared.
CompactedByAnyone(w, i, out) ==
  IF i \in DOMAIN jobs THEN [jobs EXCEPT ![i].status = "Compacted", ![i].out = out] ELSE jobs

\* write_compacted: only the owner's result counts.
Compacted(w, i, out) ==
  IF Owns(w, jobs, i) THEN [jobs EXCEPT ![i].status = "Compacted", ![i].out = out] ELSE jobs

\* Faulty variant: an error is treated as a result.
HandleFinishedAnyhow(w) ==
  LET msg == Head(wk[w].inbox) IN
  /\ wk[w].pc = "idle" /\ wk[w].inbox # << >>
  /\ msg.kind = "finished"
  /\ wk' = [wk EXCEPT ![w].inbox = Tail(@), ![w].progress = Without(@, {msg.id})]
  /\ UpdateIfChanged(w, Compacted(w, msg.id, msg.out))
  /\ UNCHANGED <<shared, others, left, clock, co, broken>>

\* handle_finished
HandleFinished(w) ==
  LET msg == Head(wk[w].inbox) IN
  /\ wk[w].pc = "idle" /\ wk[w].inbox # << >>
  /\ msg.kind = "finished"
  /\ wk' = [wk EXCEPT ![w].inbox = Tail(@), ![w].progress = Without(@, {msg.id})]
  /\ UpdateIfChanged(w, IF msg.out # {} THEN Compacted(w, msg.id, msg.out)
                        ELSE Released(w, {msg.id}))
  /\ UNCHANGED <<shared, others, left, clock, co, broken>>

\* heartbeat_owned_jobs: jobs that are no longer this worker's are stopped,
\* the context of the others is stored with the heartbeat.  set_ctx asserts
\* that the new context extends the stored one.
Heartbeat(w) ==
  LET me == wk[w]
      mine == {i \in DOMAIN me.progress : Owns(w, jobs, i)}
      news == {i \in mine : me.progress[i] # {} /\ jobs[i].status = "Running"}
      lost == DOMAIN me.progress \ mine
  IN
  /\ Idle(w)
  /\ me.progress # << >>
  /\ wk' = [wk EXCEPT ![w].progress = Without(@, lost), ![w].tasks = Without(@, lost)]
  /\ broken' = (broken \/ \E i \in news : ~ (jobs[i].out \subseteq me.progress[i]))
  /\ IF mine = {} THEN UNCHANGED <<jobs, behind>>
     ELSE UpdateJobs(w, [i \in DOMAIN jobs |->
            IF i \in news THEN [jobs[i] EXCEPT !.out = me.progress[i]] ELSE jobs[i]])
  /\ UNCHANGED <<shared, others, left, clock, co>>

\* cleanup at a graceful shutdown: the claims are released.
StopWorker(w) ==
  /\ wk[w].pc = "idle"
  /\ Spend("stops", 1)
  /\ wk' = [wk EXCEPT ![w] = GoneWorker]
  /\ UpdateIfChanged(w, Released(w, DOMAIN wk[w].progress))
  /\ UNCHANGED <<shared, others, clock, co, broken>>

\* A crash releases nothing.
CrashWorker(w) ==
  /\ wk[w].pc # "down"
  /\ Spend("stops", 1)
  /\ wk' = [wk EXCEPT ![w] = GoneWorker]
  /\ behind' = behind \ {w}
  /\ UNCHANGED <<shared, others, clock, jobs, co, broken>>

-----------------------------------------------------------------------------
(***************************************************************************)
(* The writer uploads an L0 SST and puts it into the manifest later.       *)
(***************************************************************************)
UploadL0 ==
  LET f == clock + 1 IN
  /\ Spend("flushes", 1)
  /\ clock' = f
  /\ sst' = (f :> {f}) @@ sst
  /\ uploaded' = Append(uploaded, f)
  /\ UNCHANGED <<setup, manifest, jobs, co, wk, behind, submission, gc, rows, broken>>

PublishL0 ==
  /\ uploaded # << >>
  /\ manifest' = [manifest EXCEPT !.l0 = <<Head(uploaded)>> \o @]
  /\ rows' = rows \cup {Head(uploaded)}
  /\ uploaded' = Tail(uploaded)
  /\ behind' = behind \cup (IF co.pc = "manifest" THEN {"manifest"} ELSE {})
  /\ UNCHANGED <<setup, left, clock, sst, jobs, co, wk, submission, gc, broken>>

(***************************************************************************)
(* An operator asks for a full compaction: plan_full_tree, and             *)
(* Compactor::submit, which names the job and then stores it.              *)
(***************************************************************************)
PlanFull ==
  /\ submission = << >>
  /\ manifest.runs # << >>
  /\ Spend("submits", 1)
  /\ clock' = clock + 1
  /\ submission' = (clock' :> Submitted([l0 |-> {}, runs |-> DOMAIN manifest.runs,
                                         dst |-> Min(DOMAIN manifest.runs)]))
  /\ UNCHANGED <<shared, setup, jobs, co, wk, behind, uploaded, gc, broken>>

Submit ==
  /\ submission # << >>
  /\ IF TooOld(submission, jobs) THEN UNCHANGED <<jobs, behind>>
     ELSE UpdateJobs("operator", submission @@ jobs)
  /\ submission' = << >>
  /\ UNCHANGED <<shared, setup, left, clock, co, wk, uploaded, gc, broken>>

(***************************************************************************)
(* CompactedGcTask::collect reads .compactions, then the manifest, and     *)
(* deletes what is older than every job and than the newest L0 SST.        *)
(***************************************************************************)
NewestL0(m) == IF m.l0 = << >> THEN m.last ELSE Max(Range(m.l0))

GcReadCompactions ==
  /\ gc.pc = "idle"
  /\ Spend("collections", 1)
  /\ gc' = [gc EXCEPT !.pc = "manifest",
                      !.cutoff = IF jobs = << >> THEN 0 ELSE Min(DOMAIN jobs)]
  /\ UNCHANGED <<shared, setup, clock, jobs, co, wk, behind, uploaded, submission, broken>>

\* Faulty variant: the newest L0 SST is no limit.
GcReadManifestNoBarrier ==
  /\ gc.pc = "manifest"
  /\ gc' = [gc EXCEPT !.pc = "delete", !.keep = FilesOf(manifest)]
  /\ UNCHANGED <<shared, setup, left, clock, jobs, co, wk, behind, uploaded, submission, broken>>

GcReadManifest ==
  /\ gc.pc = "manifest"
  /\ gc' = [pc |-> "delete", keep |-> FilesOf(manifest),
            cutoff |-> Min({gc.cutoff, NewestL0(manifest)})]
  /\ UNCHANGED <<shared, setup, left, clock, jobs, co, wk, behind, uploaded, submission, broken>>

GcDelete ==
  /\ gc.pc = "delete"
  /\ sst' = Without(sst, {f \in DOMAIN sst : f < gc.cutoff} \ gc.keep)
  /\ gc' = [pc |-> "idle", keep |-> {}, cutoff |-> 0]
  /\ UNCHANGED <<setup, manifest, rows, left, clock, jobs, co, wk, behind, uploaded,
                 submission, broken>>

-----------------------------------------------------------------------------
\* At first every run and every L0 SST has rows of its own, the older the
\* smaller its tick.
Init ==
  /\ setup \in Setups
  /\ left = setup.left
  /\ clock = setup.runs + setup.l0
  /\ sst = [f \in 1 .. clock |-> {f}]
  /\ manifest = [l0 |-> [i \in 1 .. setup.l0 |-> clock + 1 - i],
                 runs |-> [r \in 0 .. setup.runs - 1 |-> {r + 1}], last |-> 0]
  /\ jobs = << >>
  /\ co = Stopped
  /\ \E running \in kSubset(setup.workers, Worker) :
       wk = [w \in Worker |-> IF w \in running THEN NewWorker ELSE GoneWorker]
  /\ behind = {}
  /\ uploaded = << >>
  /\ submission = << >>
  /\ gc = [pc |-> "idle", keep |-> {}, cutoff |-> 0]
  /\ rows = 1 .. clock
  /\ broken = FALSE

CoordinatorStep ==
  \/ FenceManifest \/ FenceCompactions
  \/ \E tick \in {"poll", "commit"} : LoadCompactions(tick)
  \/ LoadManifest
  \/ \E stale \in SUBSET WithStatus(co.jobs, {"Running"}) : Reclaim(stale)
  \/ Commit \/ WriteCheckpoint \/ WriteManifest
  \/ WriteCompactions \/ WriteRefused \/ MergeConflict
  \/ \E specs \in SUBSET Proposals(co.view, co.jobs) : Schedule(specs)
  \/ \E moved \in SUBSET WithStatus(co.jobs, {"Submitted"}) : Validate(moved)

ExecutorStep(w) ==
  \E i \in DOMAIN wk[w].tasks : Upload(w, i) \/ Finish(w, i) \/ Fail(w, i)

WorkerStep(w) ==
  \/ Poll(w) \/ Scan(w) \/ Claim(w) \/ ClaimConflict(w) \/ Build(w)
  \/ RecordProgress(w) \/ HandleFinished(w)

Next ==
  \/ CoordinatorStep \/ Crash
  \/ \E w \in Worker :
       WorkerStep(w) \/ Heartbeat(w) \/ ExecutorStep(w) \/ StopWorker(w) \/ CrashWorker(w)
  \/ UploadL0 \/ PublishL0
  \/ PlanFull \/ Submit
  \/ GcReadCompactions \/ GcReadManifest \/ GcDelete

Spec == Init /\ [][Next]_vars

\* A job of a worker that is gone gets too old.
ReclaimGone ==
  \E stale \in SUBSET WithStatus(co.jobs, {"Running"}) :
    /\ \A i \in WithStatus(co.jobs, {"Running"}) : wk[co.jobs[i].worker].pc = "down" => i \in stale
    /\ Reclaim(stale)

\* Processes run and are restarted, every ticker fires, and a retried update
\* of .compactions succeeds in the end: heartbeats are far apart.
Fairness ==
  /\ WF_vars(CoordinatorStep)
  /\ SF_vars(LoadCompactions("poll")) /\ SF_vars(WriteCompactions) /\ SF_vars(ReclaimGone)
  /\ \A w \in Worker : WF_vars(WorkerStep(w)) /\ SF_vars(Claim(w)) /\ WF_vars(ExecutorStep(w))

FairSpec == Spec /\ Fairness

-----------------------------------------------------------------------------
IsManifest(m) ==
  /\ m.l0 \in Seq(1 .. clock) /\ m.last \in 0 .. clock
  /\ DOMAIN m.runs \subseteq Nat
  /\ \A r \in DOMAIN m.runs : m.runs[r] \in SUBSET (1 .. clock) \ {{}}
IsJobs(js) == DOMAIN js \subseteq 1 .. clock /\ \A i \in DOMAIN js : js[i] \in Job

TypeOK ==
  /\ setup \in Setups
  /\ left \in [Kinds -> Nat]
  /\ DOMAIN sst \subseteq 1 .. clock
  /\ IsManifest(manifest) /\ IsManifest(co.view)
  /\ IsJobs(jobs) /\ IsJobs(co.jobs) /\ IsJobs(submission)
  /\ behind \subseteq Worker \cup {"compactions", "manifest"}

(***************************************************************************)
(* The stored tree has every row that was put into it, in exactly one of   *)
(* its sources, and newer rows are in sources that come first: no crash    *)
(* between the two objects, reclaimed job, late worker, recycled run id or *)
(* concurrent flush makes finish_compaction drop, repeat or reorder rows.  *)
(***************************************************************************)
RowsIntact ==
  LET order == LogicalOrder(manifest)
      Content(i) == RowsOf(IF order[i][1] = "l0" THEN {order[i][2]}
                           ELSE manifest.runs[order[i][2]])
  IN
  /\ UNION {Content(i) : i \in DOMAIN order} = rows
  /\ \A i, k \in DOMAIN order :
       i < k => \A new \in Content(i), old \in Content(k) : old < new

(***************************************************************************)
(* CompactedGcTask never deletes an SST that the stored manifest refers    *)
(* to, nor one that an active job has as its output or stored progress and *)
(* that a commit or a resumed execution will put into the manifest.        *)
(***************************************************************************)
FilesExist ==
  FilesOf(manifest) \cup UNION {jobs[i].out : i \in WithStatus(jobs, Active)}
    \subseteq DOMAIN sst

(***************************************************************************)
(* A job stored as Completed or Failed is never stored as anything else:   *)
(* no late write of a worker and no merge of the coordinator revives it.   *)
(***************************************************************************)
TerminalIsFinal ==
  [][\A i \in WithStatus(jobs, Statuses \ Active) :
       i \in DOMAIN jobs' => jobs'[i].status = jobs[i].status]_vars

(***************************************************************************)
(* Workers never have more jobs to claim or to run than the coordinator's  *)
(* max_concurrent_compactions, although it decides on a copy of the jobs.  *)
(***************************************************************************)
LimitKept == Cardinality(WithStatus(jobs, {"Scheduled", "Running"})) <= setup.limit

(***************************************************************************)
(* No assertion of the workers fails: a job is not started twice, nor two  *)
(* with the same destination (start_compaction_job), and stored progress   *)
(* is only ever extended (validate_update).                                *)
(***************************************************************************)
AssertionsHold == ~ broken

(***************************************************************************)
(* Every job ends: there is always a later time when none is active,       *)
(* although workers stop, crash or fail, jobs are taken back from slow     *)
(* workers, coordinators restart and updates conflict.                     *)
(***************************************************************************)
EveryJobEnds == []<>(WithStatus(jobs, Active) = {})
====
