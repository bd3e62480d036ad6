SPECIFICATION Spec
CONSTANTS
  NoBinding = NoBinding
  NoOp = NoOp
  LastBinding = 2
  SignedIn = {1}
  Ops = {o1}
  Requests = {}
  Clears = {}
  MaxPauses = 2
  MaxGeneration = 2
CHECK_DEADLOCK FALSE
PROPERTIES PanelNeedsConfirmation
