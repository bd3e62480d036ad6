SPECIFICATION FairSpec
CONSTANTS
  Streams = {t1, t2}
  Sessions = {"s1", "s2"}
  Users = {"alice", "bob"}
  NoSession = "none"
  UserOf <- UserOfEach
  MaxTotal = 2
  MaxPerUser = 1
  QueueBound = 2
  WireBound = 1
CONSTRAINT Workload
INVARIANTS TypeOK CapacityKept
PROPERTIES Promise LeaseReturned
