---------------------------- MODULE Store_proofs ----------------------------
(***************************************************************************)
(* What the statements of the metadata store preserve, for every number of *)
(* users, connections and statements.                                      *)
(***************************************************************************)
EXTENDS Store, SequenceTheorems, TLAPS

----------------------------------------------------------------------------
(* Tables and the log *)

\* Rewriting every entry of a log in place gives a log of the same length.
LEMMA RewrittenLog ==
  ASSUME NEW log \in Seq(AuditEntry), NEW new,
         new = [i \in DOMAIN log |-> new[i]],
         \A i \in DOMAIN log : new[i] \in AuditEntry
  PROVE  /\ new \in Seq(AuditEntry)
         /\ DOMAIN new = DOMAIN log
<1>1. Len(log) \in Nat /\ DOMAIN log = 1..Len(log)
  BY LenProperties
<1>2. new \in [1..Len(log) -> AuditEntry]
  BY <1>1
<1> QED
  BY <1>1, <1>2, SeqDef

\* ON DELETE SET NULL leaves an audit entry.
LEMMA ForgetTyped ==
  ASSUME NEW e \in AuditEntry, NEW id
  PROVE  ForgetUser(e, id) \in AuditEntry /\ ForgetConnection(e, id) \in AuditEntry
BY DEF AuditEntry, ForgetUser, ForgetConnection

----------------------------------------------------------------------------
(* The tables keep their shape *)

LEMMA StoreInitTypeOK == StoreInit => StoreTypeOK
BY StoreAssumption DEF StoreInit, StoreTypeOK, AuditEntry, User, Connection

LEMMA InsertUserTypeOK ==
  ASSUME NEW name \in Usernames, NEW password \in Passwords,
         NEW admin \in BOOLEAN, StoreTypeOK, InsertUser(name, password, admin)
  PROVE  StoreTypeOK'
<1> DEFINE row == [name |-> name, password |-> password, admin |-> admin]
<1>1. row \in User
  BY DEF User
<1>2. /\ DOMAIN users' = DOMAIN users \cup {userSeq + 1}
      /\ users' \in [DOMAIN users' -> User]
  BY <1>1 DEF StoreTypeOK, InsertUser, NextUserId, Put
<1>3. userSeq' = userSeq + 1 /\ userSeq' \in 0..MaxUsers
  BY StoreAssumption DEF StoreTypeOK, InsertUser, NextUserId
<1>4. DOMAIN users' \subseteq 1..userSeq'
  BY <1>2, <1>3 DEF StoreTypeOK
<1> QED
  BY <1>2, <1>3, <1>4 DEF StoreTypeOK, InsertUser, connectionTable

LEMMA UpdateUserPasswordTypeOK ==
  ASSUME NEW u \in UserIds, NEW password \in Passwords,
         StoreTypeOK, UpdateUserPassword(u, password)
  PROVE  StoreTypeOK'
<1>1. DOMAIN users' = DOMAIN users /\ users' \in [DOMAIN users' -> User]
  BY DEF StoreTypeOK, UpdateUserPassword, User
<1> QED
  BY <1>1 DEF StoreTypeOK, UpdateUserPassword, connectionTable

LEMMA DeleteUserTypeOK ==
  ASSUME NEW u \in UserIds, StoreTypeOK, DeleteUser(u)
  PROVE  StoreTypeOK'
<1>1. DOMAIN users' \subseteq DOMAIN users /\ users' \in [DOMAIN users' -> User]
  BY DEF StoreTypeOK, DeleteUser, Without
<1>2. /\ DOMAIN permissions' \subseteq DOMAIN permissions
      /\ permissions' \in [DOMAIN permissions' -> {"read", "write"}]
  BY DEF StoreTypeOK, DeleteUser, Without
<1>3. auditLog' \in Seq(AuditEntry)
  <2>1. \A i \in DOMAIN auditLog : auditLog[i] \in AuditEntry
    BY ElementOfSeq, LenProperties DEF StoreTypeOK
  <2> QED
    BY <2>1, ForgetTyped, RewrittenLog DEF StoreTypeOK, DeleteUser
<1> QED
  BY <1>1, <1>2, <1>3 DEF StoreTypeOK, DeleteUser, connectionTable

LEMMA InsertConnectionTypeOK ==
  ASSUME NEW name \in ConnectionNames, NEW target \in Targets,
         NEW password \in Secrets, StoreTypeOK,
         InsertConnection(name, target, password)
  PROVE  StoreTypeOK'
<1> DEFINE row == [name |-> name, target |-> target, password |-> password]
<1>1. row \in Connection
  BY DEF Connection
<1>2. /\ DOMAIN connections' = DOMAIN connections \cup {connectionSeq + 1}
      /\ connections' \in [DOMAIN connections' -> Connection]
  BY <1>1 DEF StoreTypeOK, InsertConnection, Put
<1>3. connectionSeq' = connectionSeq + 1 /\ connectionSeq' \in 0..MaxConnections
  BY StoreAssumption DEF StoreTypeOK, InsertConnection
<1>4. DOMAIN connections' \subseteq 1..connectionSeq'
  BY <1>2, <1>3 DEF StoreTypeOK
<1> QED
  BY <1>2, <1>3, <1>4 DEF StoreTypeOK, InsertConnection, userTable

LEMMA UpdateConnectionTypeOK ==
  ASSUME NEW c \in ConnectionIds, NEW name \in ConnectionNames,
         NEW target \in Targets, NEW password \in Secrets, StoreTypeOK,
         UpdateConnection(c, name, target, password)
  PROVE  StoreTypeOK'
<1> DEFINE row == [name |-> name, target |-> target, password |-> password]
<1>1. row \in Connection
  BY DEF Connection
<1>2. /\ DOMAIN connections' = DOMAIN connections
      /\ connections' \in [DOMAIN connections' -> Connection]
  BY <1>1 DEF StoreTypeOK, UpdateConnection, Put
<1> QED
  BY <1>2 DEF StoreTypeOK, UpdateConnection, userTable

LEMMA DeleteConnectionTypeOK ==
  ASSUME NEW c \in ConnectionIds, StoreTypeOK, DeleteConnection(c)
  PROVE  StoreTypeOK'
<1>1. /\ DOMAIN connections' \subseteq DOMAIN connections
      /\ connections' \in [DOMAIN connections' -> Connection]
  BY DEF StoreTypeOK, DeleteConnection, Without
<1>2. /\ DOMAIN permissions' \subseteq DOMAIN permissions
      /\ permissions' \in [DOMAIN permissions' -> {"read", "write"}]
  BY DEF StoreTypeOK, DeleteConnection, Without
<1>3. auditLog' \in Seq(AuditEntry)
  <2>1. \A i \in DOMAIN auditLog : auditLog[i] \in AuditEntry
    BY ElementOfSeq, LenProperties DEF StoreTypeOK
  <2> QED
    BY <2>1, ForgetTyped, RewrittenLog DEF StoreTypeOK, DeleteConnection
<1> QED
  BY <1>1, <1>2, <1>3 DEF StoreTypeOK, DeleteConnection, userTable

LEMMA SetPermissionTypeOK ==
  ASSUME NEW u \in UserIds, NEW c \in ConnectionIds, NEW level \in Levels,
         StoreTypeOK, SetPermission(u, c, level)
  PROVE  StoreTypeOK'
<1>1. /\ DOMAIN permissions' \subseteq UserIds \X ConnectionIds
      /\ permissions' \in [DOMAIN permissions' -> {"read", "write"}]
  <2>1. CASE level = "none"
    BY <2>1 DEF StoreTypeOK, SetPermission, RemovePermission, Without
  <2>2. CASE level # "none"
    <3>1. level \in {"read", "write"}
      BY <2>2 DEF Levels
    <3>2. permissions' = Put(permissions, <<u, c>>, level)
      BY <2>2 DEF SetPermission, UpsertPermission
    <3>3. /\ DOMAIN permissions' = DOMAIN permissions \cup {<<u, c>>}
          /\ permissions' \in [DOMAIN permissions \cup {<<u, c>>} ->
                                 {"read", "write"}]
      BY <3>1, <3>2 DEF StoreTypeOK, Put
    <3> QED
      BY <3>3 DEF StoreTypeOK
  <2> QED
    BY <2>1, <2>2
<1>2. UNCHANGED <<users, userSeq, connections, connectionSeq, auditLog>>
  BY DEF SetPermission, RemovePermission, UpsertPermission, userTable,
         connectionTable
<1> QED
  BY <1>1, <1>2 DEF StoreTypeOK

LEMMA InsertAuditLogEntryTypeOK ==
  ASSUME NEW u \in UserIds, NEW c \in ConnectionIds,
         NEW statement \in Statements, NEW outcome \in Outcomes,
         StoreTypeOK, InsertAuditLogEntry(u, c, statement, outcome)
  PROVE  StoreTypeOK'
<1> DEFINE entry == [user |-> u, connection |-> c, statement |-> statement,
                     outcome |-> outcome]
<1>1. entry \in AuditEntry
  BY DEF AuditEntry
<1>2. auditLog' \in Seq(AuditEntry)
  BY <1>1, AppendProperties DEF StoreTypeOK, InsertAuditLogEntry
<1> QED
  BY <1>2 DEF StoreTypeOK, InsertAuditLogEntry, userTable, connectionTable

LEMMA StoreNextTypeOK ==
  ASSUME StoreTypeOK, [StoreNext]_storeVars
  PROVE  StoreTypeOK'
<1>1. CASE UNCHANGED storeVars
  BY <1>1 DEF StoreTypeOK, storeVars
<1>2. CASE StoreNext
  BY <1>2, InsertUserTypeOK, UpdateUserPasswordTypeOK, DeleteUserTypeOK,
     InsertConnectionTypeOK, UpdateConnectionTypeOK, DeleteConnectionTypeOK,
     SetPermissionTypeOK, InsertAuditLogEntryTypeOK DEF StoreNext
<1> QED
  BY <1>1, <1>2

\* Whatever statements are issued, in whatever order, the tables keep their
\* shape.
THEOREM StoreTypeCorrect == StoreSpec => []StoreTypeOK
<1>1. StoreInit => StoreTypeOK
  BY StoreInitTypeOK
<1>2. StoreTypeOK /\ [StoreNext]_storeVars => StoreTypeOK'
  BY StoreNextTypeOK
<1> QED
  BY <1>1, <1>2, PTL DEF StoreSpec

----------------------------------------------------------------------------
(* References stay sound *)

\* An entry of the log is an audit entry.
LEMMA LogEntries ==
  ASSUME StoreTypeOK
  PROVE  /\ Len(auditLog) \in Nat
         /\ DOMAIN auditLog = 1..Len(auditLog)
         /\ \A i \in DOMAIN auditLog : auditLog[i] \in AuditEntry
BY ElementOfSeq, LenProperties DEF StoreTypeOK

\* A statement that removes no row and no history, and whose new grants and
\* entries have their references, keeps the references sound.
LEMMA GrowingKeepsReferences ==
  ASSUME ReferentialIntegrity,
         DOMAIN users \subseteq DOMAIN users',
         DOMAIN connections \subseteq DOMAIN connections',
         \A p \in DOMAIN permissions' \ DOMAIN permissions :
           GrantRefsExist(p[1], p[2]),
         UNCHANGED auditLog
  PROVE  ReferentialIntegrity'
BY DEF ReferentialIntegrity, GrantRefsExist

LEMMA DeleteUserKeepsReferences ==
  ASSUME NEW u \in UserIds, StoreTypeOK, ReferentialIntegrity, DeleteUser(u)
  PROVE  ReferentialIntegrity'
<1>1. DOMAIN users' = DOMAIN users \ {u}
  BY DEF DeleteUser, Without
<1>2. connections' = connections
  BY DEF DeleteUser, connectionTable
<1>3. ASSUME NEW p \in DOMAIN permissions'
      PROVE  GrantRefsExist(p[1], p[2])'
  <2>1. p \in DOMAIN permissions /\ p \notin {u} \X ConnectionIds
    BY <1>3 DEF DeleteUser, Without
  <2>2. p \in UserIds \X ConnectionIds /\ p[1] # u
    BY <2>1 DEF StoreTypeOK
  <2> QED
    BY <1>1, <1>2, <2>1, <2>2 DEF ReferentialIntegrity, GrantRefsExist
<1>4. ASSUME NEW i \in DOMAIN auditLog'
      PROVE  /\ auditLog'[i].user \in DOMAIN users' \cup {Null}
             /\ auditLog'[i].connection \in DOMAIN connections' \cup {Null}
  <2>1. i \in DOMAIN auditLog /\ auditLog'[i] = ForgetUser(auditLog[i], u)
    BY <1>4 DEF DeleteUser
  <2>2. auditLog[i] \in AuditEntry
    BY <2>1, LogEntries
  <2> QED
    BY <1>1, <1>2, <2>1, <2>2 DEF ReferentialIntegrity, ForgetUser, AuditEntry
<1> QED
  BY <1>3, <1>4 DEF ReferentialIntegrity

LEMMA DeleteConnectionKeepsReferences ==
  ASSUME NEW c \in ConnectionIds, StoreTypeOK, ReferentialIntegrity,
         DeleteConnection(c)
  PROVE  ReferentialIntegrity'
<1>1. DOMAIN connections' = DOMAIN connections \ {c}
  BY DEF DeleteConnection, Without
<1>2. users' = users
  BY DEF DeleteConnection, userTable
<1>3. ASSUME NEW p \in DOMAIN permissions'
      PROVE  GrantRefsExist(p[1], p[2])'
  <2>1. p \in DOMAIN permissions /\ p \notin UserIds \X {c}
    BY <1>3 DEF DeleteConnection, Without
  <2>2. p \in UserIds \X ConnectionIds /\ p[2] # c
    BY <2>1 DEF StoreTypeOK
  <2> QED
    BY <1>1, <1>2, <2>1, <2>2 DEF ReferentialIntegrity, GrantRefsExist
<1>4. ASSUME NEW i \in DOMAIN auditLog'
      PROVE  /\ auditLog'[i].user \in DOMAIN users' \cup {Null}
             /\ auditLog'[i].connection \in DOMAIN connections' \cup {Null}
  <2>1. i \in DOMAIN auditLog /\ auditLog'[i] = ForgetConnection(auditLog[i], c)
    BY <1>4 DEF DeleteConnection
  <2>2. auditLog[i] \in AuditEntry
    BY <2>1, LogEntries
  <2> QED
    BY <1>1, <1>2, <2>1, <2>2
       DEF ReferentialIntegrity, ForgetConnection, AuditEntry
<1> QED
  BY <1>3, <1>4 DEF ReferentialIntegrity

LEMMA SetPermissionKeepsReferences ==
  ASSUME NEW u \in UserIds, NEW c \in ConnectionIds, NEW level \in Levels,
         StoreTypeOK, ReferentialIntegrity, SetPermission(u, c, level)
  PROVE  ReferentialIntegrity'
<1>1. UNCHANGED <<users, connections, auditLog>>
  BY DEF SetPermission, RemovePermission, UpsertPermission, userTable,
         connectionTable
<1>2. ASSUME NEW p \in DOMAIN permissions' \ DOMAIN permissions
      PROVE  GrantRefsExist(p[1], p[2])
  <2>1. CASE level = "none"
    BY <1>2, <2>1 DEF SetPermission, RemovePermission, Without
  <2>2. CASE level # "none"
    <3>1. p = <<u, c>> /\ GrantRefsExist(u, c)
      BY <1>2, <2>2 DEF SetPermission, UpsertPermission, Put
    <3> QED
      BY <3>1
  <2> QED
    BY <2>1, <2>2
<1> QED
  BY <1>1, <1>2, GrowingKeepsReferences

LEMMA InsertAuditLogEntryKeepsReferences ==
  ASSUME NEW u \in UserIds, NEW c \in ConnectionIds,
         NEW statement \in Statements, NEW outcome \in Outcomes,
         StoreTypeOK, ReferentialIntegrity,
         InsertAuditLogEntry(u, c, statement, outcome)
  PROVE  ReferentialIntegrity'
<1> DEFINE entry == [user |-> u, connection |-> c, statement |-> statement,
                     outcome |-> outcome]
<1>1. UNCHANGED <<users, connections, permissions>> /\ AuditRefsExist(u, c)
  BY DEF InsertAuditLogEntry, userTable, connectionTable
<1>2. ASSUME NEW i \in DOMAIN auditLog'
      PROVE  auditLog'[i] = entry \/ (i \in DOMAIN auditLog /\ auditLog'[i] = auditLog[i])
  <2>1. entry \in AuditEntry
    BY DEF AuditEntry
  <2>2. auditLog' = Append(auditLog, entry)
    BY DEF InsertAuditLogEntry
  <2> QED
    BY <1>2, <2>1, <2>2, LogEntries, AppendProperties DEF StoreTypeOK
<1>3. ASSUME NEW i \in DOMAIN auditLog'
      PROVE  /\ auditLog'[i].user \in DOMAIN users' \cup {Null}
             /\ auditLog'[i].connection \in DOMAIN connections' \cup {Null}
  BY <1>1, <1>2, <1>3 DEF ReferentialIntegrity, AuditRefsExist
<1>4. \A p \in DOMAIN permissions' : GrantRefsExist(p[1], p[2])'
  BY <1>1 DEF ReferentialIntegrity, GrantRefsExist
<1> QED
  BY <1>3, <1>4 DEF ReferentialIntegrity

LEMMA StoreNextKeepsReferences ==
  ASSUME StoreTypeOK, ReferentialIntegrity, [StoreNext]_storeVars
  PROVE  ReferentialIntegrity'
<1>1. CASE UNCHANGED storeVars
  BY <1>1, GrowingKeepsReferences DEF storeVars
<1>2. CASE \E name \in Usernames, password \in Passwords, admin \in BOOLEAN :
             InsertUser(name, password, admin)
  <2>1. DOMAIN users \subseteq DOMAIN users'
    BY <1>2 DEF InsertUser, Put
  <2> QED
    BY <1>2, <2>1, GrowingKeepsReferences DEF InsertUser, connectionTable
<1>3. CASE \E u \in UserIds, password \in Passwords :
             UpdateUserPassword(u, password)
  <2>1. DOMAIN users' = DOMAIN users
    BY <1>3 DEF UpdateUserPassword, StoreTypeOK
  <2> QED
    BY <1>3, <2>1, GrowingKeepsReferences
       DEF UpdateUserPassword, connectionTable
<1>4. CASE \E name \in ConnectionNames, target \in Targets, password \in Secrets :
             InsertConnection(name, target, password)
  <2>1. DOMAIN connections \subseteq DOMAIN connections'
    BY <1>4 DEF InsertConnection, Put
  <2> QED
    BY <1>4, <2>1, GrowingKeepsReferences DEF InsertConnection, userTable
<1>5. CASE \E c \in ConnectionIds, name \in ConnectionNames, target \in Targets,
              password \in Secrets : UpdateConnection(c, name, target, password)
  <2>1. DOMAIN connections' = DOMAIN connections
    BY <1>5 DEF UpdateConnection, Put
  <2> QED
    BY <1>5, <2>1, GrowingKeepsReferences DEF UpdateConnection, userTable
<1> QED
  BY <1>1, <1>2, <1>3, <1>4, <1>5, DeleteUserKeepsReferences,
     DeleteConnectionKeepsReferences, SetPermissionKeepsReferences,
     InsertAuditLogEntryKeepsReferences DEF StoreNext

\* A grant always has its user and its connection, and an audit entry names
\* only users and connections that exist: foreign keys, ON DELETE CASCADE and
\* ON DELETE SET NULL together.
THEOREM StoreReferencesSound == StoreSpec => []ReferentialIntegrity
<1>1. StoreInit => ReferentialIntegrity
  BY DEF StoreInit, ReferentialIntegrity
<1>2. StoreTypeOK /\ ReferentialIntegrity /\ [StoreNext]_storeVars
      => ReferentialIntegrity'
  BY StoreNextKeepsReferences
<1> QED
  BY <1>1, <1>2, StoreTypeCorrect, PTL DEF StoreSpec

----------------------------------------------------------------------------
(* Identities *)

\* What one statement does to the identities in the tables: at most the next
\* id of a counter becomes a row, and a user that stays keeps name and role.
LEMMA StepIdentities ==
  ASSUME StoreTypeOK, [StoreNext]_storeVars
  PROVE  /\ DOMAIN users' \subseteq DOMAIN users \cup {userSeq + 1}
         /\ DOMAIN connections' \subseteq DOMAIN connections \cup {connectionSeq + 1}
         /\ userSeq' \in Nat /\ userSeq <= userSeq'
         /\ connectionSeq' \in Nat /\ connectionSeq <= connectionSeq'
         /\ \A u \in DOMAIN users \cap DOMAIN users' :
              users'[u].name = users[u].name /\ users'[u].admin = users[u].admin
<1> DEFINE Goal == /\ DOMAIN users' \subseteq DOMAIN users \cup {userSeq + 1}
                   /\ DOMAIN connections' \subseteq DOMAIN connections \cup {connectionSeq + 1}
                   /\ userSeq <= userSeq'
                   /\ connectionSeq <= connectionSeq'
                   /\ \A u \in DOMAIN users \cap DOMAIN users' :
                        users'[u].name = users[u].name /\ users'[u].admin = users[u].admin
<1>1. /\ userSeq \in Nat /\ userSeq' \in Nat
      /\ connectionSeq \in Nat /\ connectionSeq' \in Nat
  BY StoreNextTypeOK, StoreAssumption DEF StoreTypeOK
<1>2. CASE UNCHANGED <<users, userSeq, connections, connectionSeq>>
  BY <1>1, <1>2
<1>3. CASE \E name \in Usernames, password \in Passwords, admin \in BOOLEAN :
             InsertUser(name, password, admin)
  <2>1. PICK name \in Usernames, password \in Passwords, admin \in BOOLEAN :
          InsertUser(name, password, admin)
    BY <1>3
  <2>2. /\ DOMAIN users' = DOMAIN users \cup {userSeq + 1}
        /\ \A u \in DOMAIN users : u # userSeq + 1 => users'[u] = users[u]
    BY <2>1 DEF InsertUser, NextUserId, Put
  <2>3. userSeq + 1 \notin DOMAIN users
    BY <1>1 DEF StoreTypeOK
  <2> QED
    BY <1>1, <2>1, <2>2, <2>3 DEF InsertUser, NextUserId, connectionTable
<1>4. CASE \E u \in UserIds, password \in Passwords : UpdateUserPassword(u, password)
  <2>1. PICK u \in UserIds, password \in Passwords : UpdateUserPassword(u, password)
    BY <1>4
  <2>2. DOMAIN users' = DOMAIN users
    BY <2>1 DEF UpdateUserPassword, StoreTypeOK
  <2>3. \A v \in DOMAIN users :
          users'[v].name = users[v].name /\ users'[v].admin = users[v].admin
    BY <2>1 DEF UpdateUserPassword, StoreTypeOK, User
  <2> QED
    BY <1>1, <2>1, <2>2, <2>3 DEF UpdateUserPassword, connectionTable
<1>5. CASE \E u \in UserIds : DeleteUser(u)
  BY <1>1, <1>5 DEF DeleteUser, Without, connectionTable
<1>6. CASE \E name \in ConnectionNames, target \in Targets, password \in Secrets :
             InsertConnection(name, target, password)
  BY <1>1, <1>6 DEF InsertConnection, Put, userTable
<1>7. CASE \E c \in ConnectionIds, name \in ConnectionNames, target \in Targets,
              password \in Secrets : UpdateConnection(c, name, target, password)
  BY <1>1, <1>7 DEF UpdateConnection, Put, userTable
<1>8. CASE \E c \in ConnectionIds : DeleteConnection(c)
  BY <1>1, <1>8 DEF DeleteConnection, Without, userTable
<1>9. CASE \E u \in UserIds, c \in ConnectionIds, level \in Levels :
             SetPermission(u, c, level)
  BY <1>2, <1>9 DEF SetPermission, RemovePermission, UpsertPermission,
     userTable, connectionTable
<1>10. CASE \E u \in UserIds, c \in ConnectionIds, statement \in Statements,
              outcome \in Outcomes : InsertAuditLogEntry(u, c, statement, outcome)
  BY <1>2, <1>10 DEF InsertAuditLogEntry, userTable, connectionTable
<1>11. CASE UNCHANGED storeVars
  BY <1>2, <1>11 DEF storeVars
<1>12. Goal
  BY <1>3, <1>4, <1>5, <1>6, <1>7, <1>8, <1>9, <1>10, <1>11 DEF StoreNext
<1> QED
  BY <1>1, <1>12

\* An id that was assigned once is never assigned again.
THEOREM StoreIdsRetired == StoreSpec => IdsStayRetired
<1> DEFINE Retired == /\ \A u \in 1..userSeq \ DOMAIN users : u \notin DOMAIN users'
                      /\ \A c \in 1..connectionSeq \ DOMAIN connections :
                           c \notin DOMAIN connections'
<1>1. StoreTypeOK /\ [StoreNext]_storeVars => [Retired]_storeVars
  <2> SUFFICES ASSUME StoreTypeOK, [StoreNext]_storeVars PROVE Retired
    OBVIOUS
  <2>1. userSeq \in Nat /\ connectionSeq \in Nat
    BY StoreAssumption DEF StoreTypeOK
  <2> QED
    BY <2>1, StepIdentities
<1>2. StoreSpec => [][Retired]_storeVars
  BY <1>1, StoreTypeCorrect, PTL DEF StoreSpec
<1> QED
  BY <1>2 DEF IdsStayRetired

----------------------------------------------------------------------------
(* Grants *)

\* A grant that a statement removes is revoked by it, or goes with its user or
\* its connection: an UPDATE of a connection takes none along.
THEOREM StoreGrantsOutliveEdits == StoreSpec => GrantsOutliveEdits
<1> DEFINE Outlive == \A p \in DOMAIN permissions \ DOMAIN permissions' :
                        \/ p[1] \notin DOMAIN users'
                        \/ p[2] \notin DOMAIN connections'
                        \/ RemovePermission(p[1], p[2])
<1>1. StoreTypeOK /\ [StoreNext]_storeVars => [Outlive]_storeVars
  <2> SUFFICES ASSUME StoreTypeOK, [StoreNext]_storeVars,
                      NEW p \in DOMAIN permissions \ DOMAIN permissions'
               PROVE  \/ p[1] \notin DOMAIN users'
                      \/ p[2] \notin DOMAIN connections'
                      \/ RemovePermission(p[1], p[2])
    OBVIOUS
  <2>1. p \in UserIds \X ConnectionIds
    BY DEF StoreTypeOK
  <2>2. CASE UNCHANGED permissions
    BY <2>2
  <2>3. CASE \E u \in UserIds : DeleteUser(u)
    BY <2>1, <2>3 DEF DeleteUser, Without
  <2>4. CASE \E c \in ConnectionIds : DeleteConnection(c)
    BY <2>1, <2>4 DEF DeleteConnection, Without
  <2>5. CASE \E u \in UserIds, c \in ConnectionIds, level \in Levels :
               SetPermission(u, c, level)
    <3>1. PICK u \in UserIds, c \in ConnectionIds, level \in Levels :
            SetPermission(u, c, level)
      BY <2>5
    <3>2. CASE RemovePermission(u, c)
      <4>1. p = <<u, c>>
        BY <3>2 DEF RemovePermission, Without
      <4> QED
        BY <3>2, <4>1
    <3>3. CASE UpsertPermission(u, c, level)
      BY <3>3 DEF UpsertPermission, Put
    <3> QED
      BY <3>1, <3>2, <3>3 DEF SetPermission
  <2>6. CASE \/ \E name \in Usernames, password \in Passwords, admin \in BOOLEAN :
                  InsertUser(name, password, admin)
             \/ \E u \in UserIds, password \in Passwords :
                  UpdateUserPassword(u, password)
             \/ \E name \in ConnectionNames, target \in Targets,
                   password \in Secrets : InsertConnection(name, target, password)
             \/ \E c \in ConnectionIds, name \in ConnectionNames,
                   target \in Targets, password \in Secrets :
                  UpdateConnection(c, name, target, password)
             \/ \E u \in UserIds, c \in ConnectionIds, statement \in Statements,
                   outcome \in Outcomes :
                  InsertAuditLogEntry(u, c, statement, outcome)
    BY <2>2, <2>6 DEF InsertUser, UpdateUserPassword, InsertConnection,
       UpdateConnection, InsertAuditLogEntry
  <2> QED
    BY <2>2, <2>3, <2>4, <2>5, <2>6 DEF StoreNext, storeVars
<1>2. StoreSpec => [][Outlive]_storeVars
  BY <1>1, StoreTypeCorrect, PTL DEF StoreSpec
<1> QED
  BY <1>2 DEF GrantsOutliveEdits

=============================================================================
