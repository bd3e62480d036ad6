SPECIFICATION Spec
CONSTANTS
  NoBinding = NoBinding
  NoOp = NoOp
  LastBinding = 2
  SignedIn = {1}
  Ops = {o1, o2}
  Requests = {r1}
  Clears = {c1}
  MaxPauses = 1
  MaxGeneration = 3
CONSTRAINT Workload
SYMMETRY Symmetry
CHECK_DEADLOCK FALSE
INVARIANTS TypeOK OneOwner ShieldedUnlessOwned PostIsExclusive
PROPERTIES NoUnexpectedIdentity ResponseReachesItsOwner PublishAfterWrites WriteNeedsConfirmation
