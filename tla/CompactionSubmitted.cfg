CONSTANTS
  Worker = {w1}
  None = None
  Setups <- SubmittedSetups
SPECIFICATION Spec
INVARIANT
  RowsIntact
