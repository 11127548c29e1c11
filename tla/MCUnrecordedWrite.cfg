SPECIFICATION Spec
CONSTANTS
  r1 = r1
  r2 = r2
  Requests <- Goroutines
  Operations = {"createConnection", "deleteConnection", "setPermission", "query"}
  Usernames = {"admin"}
  Passwords = {"pw"}
  ConnectionNames = {"prod"}
  Targets = {"up"}
  Unopenable = {}
  Secrets = {"empty"}
  NoSecret = "empty"
  BootstrapUsername = "admin"
  BootstrapPassword = "pw"
  MaxUsers = 1
  MaxConnections = 1
  MaxStatements = 1
  Lifetime = 1
  MaxTime = 0
SYMMETRY Symmetry
CHECK_DEADLOCK FALSE
INVARIANT WritesThatRanAreRecorded
