---------------------------- MODULE MCCompaction ----------------------------
(* Instances of Compaction for TLC. *)
EXTENDS Compaction

\* Instances with so many workers and slots, the coordinator's limit, and one
\* L0 SST above two runs; what `bounds` does not name does not happen.
Case(workers, slots, limit, bounds) ==
  [workers |-> workers, slots |-> slots, limit |-> limit, l0 |-> 1, runs |-> 2,
   moves |-> FALSE, left |-> bounds @@ [k \in Kinds |-> 0]]

CompactionSetups ==
  { \* two jobs, one after the other, the coordinator restarts and takes one back
    Case(2, 1, 1, [jobs |-> 2, restarts |-> 1, reclaims |-> 1]),
    \* two jobs at the same time
    Case(2, 1, 2, [jobs |-> 2]),
    \* three jobs, the last of which may use a run id again
    Case(1, 1, 1, [jobs |-> 3, restarts |-> 1]),
    \* an operator's job beside the scheduler's, within and above the limit
    [Case(1, 1, 2, [jobs |-> 1, submits |-> 1, failures |-> 1]) EXCEPT !.moves = TRUE],
    Case(1, 1, 1, [jobs |-> 1, submits |-> 1]),
    \* a worker stops or crashes
    Case(2, 1, 1, [jobs |-> 1, stops |-> 1, failures |-> 1]),
    \* a flush and a collection beside two jobs, or one that is taken back
    Case(1, 1, 1, [jobs |-> 2, flushes |-> 1, collections |-> 1]),
    Case(1, 1, 1, [jobs |-> 1, reclaims |-> 1, flushes |-> 1, collections |-> 1]) }

\* One merge of two runs, and every fault
LivenessSetups ==
  { [Case(2, 1, 1, [jobs |-> 1, restarts |-> 1, stops |-> 1]) EXCEPT !.l0 = 0],
    [Case(2, 1, 1, [jobs |-> 1, stops |-> 1, reclaims |-> 1, failures |-> 1]) EXCEPT !.l0 = 0],
    Case(1, 1, 1, [jobs |-> 1, submits |-> 1]) }

\* Two of the scheduler's jobs and a full compaction by the operator
SubmittedSetups == {Case(1, 2, 2, [jobs |-> 2, submits |-> 1])}

\* A worker with two slots, a job taken back from it and a restart
TwoSlotSetups == {Case(1, 2, 2, [jobs |-> 2, reclaims |-> 1, restarts |-> 1])}

Symmetry == Permutations(Worker)
====
