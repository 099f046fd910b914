SPECIFICATION Spec
CONSTANTS
  t1 = t1
  t2 = t2
  t3 = t3
  k1 = k1
  k2 = k2
  Txn = {t1, t2}
  Key = {k1, k2}
  Batches <- OneKeyBatches
  Ranges <- FullScan
  MaxCalls = 2
  MaxSeq = 2
  NoTxn = NoTxn
SYMMETRY Symmetry
CHECK_DEADLOCK FALSE
INVARIANTS
  TypeOK
  NoLostUpdates
  
  RecentIsNeeded
PROPERTY SnapshotStable
