CONSTANTS
  Setups <- LivenessSetups
  Parallelism = 2
  Flush = {f1}
  Ckpt = {c1}
  Snapshot = {s1}
  Transaction = {t1}
  NoSource = NoSource
SPECIFICATION FairSpec
PROPERTY EveryCallAnswered
