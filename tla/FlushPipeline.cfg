CONSTANTS
  Setups <- PipelineSetups
  Parallelism = 2
  Flush = {f1}
  Ckpt = {c1, c2}
  Snapshot = {s1}
  Transaction = {t1}
  NoSource = NoSource
SPECIFICATION Spec
SYMMETRY Symmetry
INVARIANTS
  FlushedIsStored
  TreeIntact
  DurableRecoverable
  CheckpointExact
  CheckpointKept
  AssertionsHold
  ReadersServed
