SPECIFICATION FairSpec
CONSTANTS
  Ops = {o1, o2, o3}
  NoOp = NoOp
  MaxHints = 1
  MaxEdits = 2
  MaxPauses = 1
  MaxEpoch = 2
  MaxActions = 2
  MaxChoices = 1
CONSTRAINT Workload
CHECK_DEADLOCK FALSE
INVARIANTS TypeOK OneAtATime NeverIdle StaleConcealed
PROPERTIES DraftsKept BaselineProven ScreensFollow OperationsSettle
