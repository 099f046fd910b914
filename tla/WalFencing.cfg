SPECIFICATION Spec
CONSTANTS
  w1 = w1
  w2 = w2
  w3 = w3
  Writer = {w1, w2, w3}
  MaxWal = 5
  MaxSeq = 2
  FenceGc = FALSE
  Setups <- TakeoverSetups
SYMMETRY Symmetry
CHECK_DEADLOCK FALSE
INVARIANTS
  TypeOK
  AckedNeverLost
  WalUnbroken
  WalSeqsIncrease
  ServesAcked
  AssertionsHold
  PinnedWalsSurvive
PROPERTY OldWritersFenced
