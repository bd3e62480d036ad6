SPECIFICATION MCSpec
CONSTANTS
  Users = {"alice", "bob"}
  Tasks = {1, 2, 3}
  Cats = {1, 2}
  None = 0
  Names = {"home", "Home"}
  Fold <- LowerCase
  Instants <- Moments
  Deadlines <- SomeDeadlines
  Undated <- NoDeadline
  Zones = {"z1", "z2"}
  Wall <- Texts
  Instant <- Named
  Clock = {13, 16, 25, 35}
  Requests = {r1, r2, r3}
  Starts <- BothStarts
  MaxTransfers = 1
  Reader = "alice"
  Statuses = {"all", "active"}
  PageSize = 1
  MaxPrefix = 2
  Day <- Days
  WeekDays = 2
  StreakWindow = 2
  NextLimit = 1
SYMMETRY Symmetry
CHECK_DEADLOCK FALSE
INVARIANTS OwnCategory UniqueNames ScreensLearn ListCatchesUp BoardHonest
PROPERTIES ScheduleKept
