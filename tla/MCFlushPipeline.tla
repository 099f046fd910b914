---------------------------- MODULE MCFlushPipeline ----------------------------
(* Instances of FlushPipeline for TLC. *)
EXTENDS FlushPipeline

Runs(wal_modes, l0_max, rows, flushes, ckpts, may_stop) ==
  [wal_enabled : wal_modes, l0_max : {l0_max}, max_seq : {rows},
   flushes : {flushes}, ckpts : {ckpts}, readers : {0},
   may_stop : {may_stop}]

\* Three rows without a WAL; one flush of two rows with it; with any failure,
\* one flush of two rows without a WAL and of one with it.
FlushSetups ==
  Runs({FALSE}, 2, 3, 0, 0, FALSE) \cup Runs({TRUE}, 1, 2, 1, 0, FALSE)
    \cup Runs({FALSE}, 1, 2, 1, 0, TRUE) \cup Runs({TRUE}, 1, 1, 1, 0, TRUE)

\* Two rows and one checkpoint; one row and two checkpoints; one row, one
\* checkpoint and any failure.
CheckpointSetups ==
  Runs({FALSE}, 2, 2, 0, 1, FALSE) \cup Runs({TRUE}, 1, 2, 0, 1, FALSE)
    \cup Runs({TRUE}, 1, 1, 0, 2, FALSE) \cup Runs(BOOLEAN, 1, 1, 0, 1, TRUE)

\* A snapshot and a transaction, or one of them if there is a WAL
ReaderSetups ==
  {[s EXCEPT !.readers = 2] : s \in Runs({FALSE}, 2, 2, 0, 0, FALSE)}
    \cup {[s EXCEPT !.readers = 1] : s \in Runs({TRUE}, 1, 2, 0, 0, FALSE)}

PipelineSetups == FlushSetups \cup CheckpointSetups \cup ReaderSetups

\* A flush of two rows with one L0 slot; a flush and a checkpoint.
LivenessSetups ==
  Runs({FALSE}, 1, 2, 1, 0, FALSE) \cup Runs(BOOLEAN, 1, 1, 1, 1, FALSE)

\* Calls that have not started are interchangeable.
Symmetry == Permutations(Ckpt) \cup Permutations(Flush)
====
