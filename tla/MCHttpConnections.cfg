\* Connections, grants and accounts change while statements are on their way:
\* several accounts and statements on one connection, or one of each on several
\* connections.
\* The system may stop: its clients may send nothing more.
SPECIFICATION Spec
CONSTANTS
  r1 = r1
  r2 = r2
  Requests <- Goroutines
  Operations = {"createUser", "deleteUser", "resetPassword", "createConnection", "updateConnection", "deleteConnection", "setPermission", "query", "inspect"}
  Usernames = {"admin", "kim"}
  Passwords = {"pw"}
  ConnectionNames = {"prod"}
  Targets = {"up", "broken"}
  Unopenable = {"broken"}
  Secrets = {"empty"}
  NoSecret = "empty"
  BootstrapUsername = "admin"
  BootstrapPassword = "pw"
  MaxUsers = 2
  MaxConnections = 2
  MaxStatements = 2
  Lifetime = 1
  MaxTime = 1
CONSTRAINT OneOfEach
SYMMETRY Symmetry
CHECK_DEADLOCK FALSE
INVARIANT ReferentialIntegrity
INVARIANT WritesAccountedFor
PROPERTY GrantsOutliveEdits
PROPERTY TrailSpec
