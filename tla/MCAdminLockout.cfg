SPECIFICATION Spec
CONSTANTS
  r1 = r1
  r2 = r2
  Requests <- Goroutines
  Operations = {"createUser", "deleteUser"}
  Usernames = {"admin", "kim"}
  Passwords = {"pw"}
  ConnectionNames = {"prod"}
  Targets = {"up"}
  Unopenable = {}
  Secrets = {"empty"}
  NoSecret = "empty"
  BootstrapUsername = "admin"
  BootstrapPassword = "pw"
  MaxUsers = 2
  MaxConnections = 1
  MaxStatements = 1
  Lifetime = 1
  MaxTime = 0
SYMMETRY Symmetry
CHECK_DEADLOCK FALSE
INVARIANT AnAdminRemains
