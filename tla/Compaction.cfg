CONSTANTS
  Worker = {w1, w2}
  None = None
  Setups <- CompactionSetups
SPECIFICATION Spec
SYMMETRY Symmetry
INVARIANTS
  TypeOK
  RowsIntact
  FilesExist
  LimitKept
  
PROPERTY
  TerminalIsFinal
