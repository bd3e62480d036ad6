SPECIFICATION AccountSpec
CONSTANTS
  Requests = {r1, r2, r3}
  Origin = Origin
  None = None
  Ttl = 1
  MaxPassword = 1
  MaxSwitches = 1
  Themes = {"dark"}
  MaxFaults = 1
  MaxCrashes = 1
  Attempts = {r1, r2, r3}
  Peers <- Machines
  Names = {1}
  Tokens = {1}
  AddressLimit = 1
  AccountLimit = 1
  BiometricLimit = 1
  Window = 2
  BiometricWindow = 1
  MaxWindow = 1
  MaxOutages = 1
CHECK_DEADLOCK FALSE
INVARIANT LifetimeAbsolute
