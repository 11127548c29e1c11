\* Accounts come and go while their tokens and requests live on, with what their
\* users were granted, and when.
\* The system may stop: its clients may send nothing more.
SPECIFICATION SpecW
CONSTANTS
  r1 = r1
  r2 = r2
  Requests <- Goroutines
  Operations = {"createUser", "deleteUser", "createConnection", "setPermission", "query"}
  Usernames = {"admin", "kim"}
  Passwords = {"pw"}
  ConnectionNames = {"prod"}
  Targets = {"up"}
  Unopenable = {}
  Secrets = {"empty"}
  NoSecret = "empty"
  BootstrapUsername = "admin"
  BootstrapPassword = "pw"
  MaxUsers = 3
  MaxConnections = 1
  MaxStatements = 1
  Lifetime = 1
  MaxTime = 0
SYMMETRY Symmetry
CHECK_DEADLOCK FALSE
INVARIANT TypeOK
INVARIANT TokensNameTheirUser
INVARIANT ReferentialIntegrity
PROPERTY IdsStayRetired
INVARIANT RunsOnlyWhenGranted
INVARIANT RefusesOnlyReaders
INVARIANT AuditIsTruthful
