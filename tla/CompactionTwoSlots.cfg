CONSTANTS
  Worker = {w1}
  None = None
  Setups <- TwoSlotSetups
SPECIFICATION Spec
PROPERTY
  TerminalIsFinal
