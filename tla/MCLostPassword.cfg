SPECIFICATION Spec
CONSTANTS
  r1 = r1
  r2 = r2
  Requests <- Goroutines
  Operations = {"createConnection", "updateConnection"}
  Usernames = {"admin"}
  Passwords = {"pw"}
  ConnectionNames = {"prod"}
  Targets = {"up"}
  Unopenable = {}
  Secrets = {"empty", "s1", "s2"}
  NoSecret = "empty"
  BootstrapUsername = "admin"
  BootstrapPassword = "pw"
  MaxUsers = 1
  MaxConnections = 1
  MaxStatements = 1
  Lifetime = 1
  MaxTime = 0
SYMMETRY Symmetry
CHECK_DEADLOCK FALSE
PROPERTY EditsKeepPassword
