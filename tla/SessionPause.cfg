SPECIFICATION FairSpec
CONSTANTS
  NoBinding = NoBinding
  NoOp = NoOp
  LastBinding = 2
  SignedIn = {1}
  Ops = {o1}
  Requests = {}
  Clears = {}
  MaxPauses = 1
  MaxGeneration = 1
CHECK_DEADLOCK FALSE
PROPERTIES PauseEnds
