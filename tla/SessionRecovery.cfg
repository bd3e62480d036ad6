SPECIFICATION Spec
CONSTANTS
  NoBinding = NoBinding
  NoOp = NoOp
  LastBinding = 2
  SignedIn = {1}
  Ops = {o1}
  Requests = {r1}
  Clears = {}
  MaxPauses = 1
  MaxGeneration = 3
CHECK_DEADLOCK FALSE
PROPERTIES RecoveryWaitsForWrites
