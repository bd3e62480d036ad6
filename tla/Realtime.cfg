SPECIFICATION FairSpec
CONSTANTS
  Conns = {c1, c2}
  Sessions = {1, 2}
  Users = {"alice"}
  UserOf <- UserOfEach
  NoSession = 0
  NoConn = NoConn
  MaxTotal = 1
  MaxPerUser = 2
  WireBound = 1
  MaxOwed = 1
  MaxVersion = 1
  MaxFaults = 1
CONSTRAINT Workload
CHECK_DEADLOCK FALSE
INVARIANTS TypeOK OneConnection NeverStalls
PROPERTIES SignedOutForCause EventuallyTold
