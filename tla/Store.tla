------------------------------- MODULE Store -------------------------------
(***************************************************************************)
(* The metadata store of the server (server/internal/store): four SQLite   *)
(* tables and one action per SQL statement the package issues.  A          *)
(* statement is atomic: SQLite runs it as a transaction of its own, and    *)
(* the package opens the database with a single pooled connection, on      *)
(* which PRAGMA foreign_keys is on, so that every statement enforces the   *)
(* REFERENCES clauses of the schema.                                       *)
(*                                                                         *)
(* A table is a function from its primary key to the rest of the row.  An  *)
(* AUTOINCREMENT table has a counter, its row of sqlite_sequence: an id is *)
(* one more than the largest id ever assigned.  Statements that fail on a  *)
(* constraint change nothing; the handlers that issue them branch on the   *)
(* conditions named here (UsernameTaken, AuditRefsExist, ...).             *)
(***************************************************************************)
EXTENDS Naturals, Sequences

CONSTANTS
  Usernames,        \* users.username values
  Passwords,        \* users.password_hash values, one per plain password
  ConnectionNames,  \* connections.name values
  Targets,          \* kind, host, port, username and service name of a row
  Secrets,          \* connections.password values
  MaxUsers,         \* bound: rows ever inserted in users
  MaxConnections,   \* bound: rows ever inserted in connections
  MaxStatements     \* bound: write statements ever submitted

ASSUME StoreAssumption ==
  /\ MaxUsers \in Nat
  /\ MaxConnections \in Nat
  /\ MaxStatements \in Nat

VARIABLES
  users,          \* id |-> [name, password, admin]
  userSeq,        \* sqlite_sequence of users
  connections,    \* id |-> [name, target, password]
  connectionSeq,  \* sqlite_sequence of connections
  permissions,    \* <<user id, connection id>> |-> "read" or "write"
  auditLog        \* the audit_log rows in the order of their ids

storeVars ==
  <<users, userSeq, connections, connectionSeq, permissions, auditLog>>

userTable == <<users, userSeq>>
connectionTable == <<connections, connectionSeq>>

----------------------------------------------------------------------------
(* Rows *)

Null == 0    \* no row has it: AUTOINCREMENT ids start at 1

UserIds == 1..MaxUsers
ConnectionIds == 1..MaxConnections
Statements == 1..MaxStatements

Levels == {"none", "read", "write"}

\* allowed and error_message of an audit_log row: allowed with no message,
\* the target's error, or refused for want of write permission.
Outcomes == {"ok", "failed", "refused"}

User == [name : Usernames, password : Passwords, admin : BOOLEAN]

Connection == [name : ConnectionNames, target : Targets, password : Secrets]

AuditEntry == [user : UserIds \cup {Null},
               connection : ConnectionIds \cup {Null},
               statement : Statements,
               outcome : Outcomes]

\* ON DELETE SET NULL of the two references of an audit_log row.
ForgetUser(entry, u) ==
  IF entry.user = u THEN [entry EXCEPT !.user = Null] ELSE entry

ForgetConnection(entry, c) ==
  IF entry.connection = c THEN [entry EXCEPT !.connection = Null] ELSE entry

Put(table, key, row) ==
  [k \in DOMAIN table \cup {key} |-> IF k = key THEN row ELSE table[k]]

Without(table, keys) == [k \in DOMAIN table \ keys |-> table[k]]

StoreInit ==
  /\ users = << >>
  /\ userSeq = 0
  /\ connections = << >>
  /\ connectionSeq = 0
  /\ permissions = << >>
  /\ auditLog = << >>

----------------------------------------------------------------------------
(* users *)

UsernameTaken(name) == \E u \in DOMAIN users : users[u].name = name

\* Mutant: INTEGER PRIMARY KEY without AUTOINCREMENT hands out the largest id
\* in the table plus one, and so that of a deleted last row once more.
NextUserIdReused ==
  CHOOSE n \in 1..MaxUsers + 1 :
    /\ n = 1 \/ n - 1 \in DOMAIN users
    /\ \A u \in DOMAIN users : u < n

NextUserId == userSeq + 1

InsertUser(name, password, admin) ==
  /\ ~UsernameTaken(name)
  /\ userSeq < MaxUsers
  /\ users' = Put(users, NextUserId,
                  [name |-> name, password |-> password, admin |-> admin])
  /\ userSeq' = NextUserId
  /\ UNCHANGED <<connectionTable, permissions, auditLog>>

\* No row has the id: the UPDATE succeeds and changes nothing.
UpdateUserPassword(u, password) ==
  /\ users' = IF u \in DOMAIN users
              THEN [users EXCEPT ![u].password = password] ELSE users
  /\ UNCHANGED <<userSeq, connectionTable, permissions, auditLog>>

\* Mutants: DELETE on a pooled connection without PRAGMA foreign_keys; the
\* user's entries are written anew without him, and the old ones deleted.
DeleteUserUnenforced(u) ==
  /\ users' = Without(users, {u})
  /\ UNCHANGED <<userSeq, connectionTable, permissions, auditLog>>

DeleteUserRewriting(u) ==
  /\ users' = Without(users, {u})
  /\ permissions' = Without(permissions, {u} \X ConnectionIds)
  /\ LET own == SelectSeq(auditLog, LAMBDA e : e.user = u)
     IN  auditLog' = SelectSeq(auditLog, LAMBDA e : e.user # u)
                       \o [i \in DOMAIN own |-> ForgetUser(own[i], u)]
  /\ UNCHANGED <<userSeq, connectionTable>>

\* permissions cascade, audit_log rows survive with user_id set to NULL.
DeleteUser(u) ==
  /\ users' = Without(users, {u})
  /\ permissions' = Without(permissions, {u} \X ConnectionIds)
  /\ auditLog' = [i \in DOMAIN auditLog |-> ForgetUser(auditLog[i], u)]
  /\ UNCHANGED <<userSeq, connectionTable>>

----------------------------------------------------------------------------
(* connections *)

NameTakenByAnother(c, name) ==
  \E d \in DOMAIN connections \ {c} : connections[d].name = name

InsertConnection(name, target, password) ==
  /\ ~NameTakenByAnother(Null, name)
  /\ connectionSeq < MaxConnections
  /\ connections' = Put(connections, connectionSeq + 1,
                        [name |-> name, target |-> target,
                         password |-> password])
  /\ connectionSeq' = connectionSeq + 1
  /\ UNCHANGED <<userTable, permissions, auditLog>>

\* Mutant: INSERT OR REPLACE deletes the row first, which cascades.
ReplaceConnection(c, name, target, password) ==
  /\ ~NameTakenByAnother(c, name)
  /\ c \in DOMAIN connections
  /\ connections' = Put(connections, c, [name |-> name, target |-> target,
                                         password |-> password])
  /\ permissions' = Without(permissions, UserIds \X {c})
  /\ UNCHANGED <<userTable, connectionSeq, auditLog>>

\* No row has the id: the UPDATE succeeds and changes nothing.
UpdateConnection(c, name, target, password) ==
  /\ c \in DOMAIN connections => ~NameTakenByAnother(c, name)
  /\ connections' = IF c \in DOMAIN connections
                    THEN Put(connections, c,
                             [name |-> name, target |-> target,
                              password |-> password])
                    ELSE connections
  /\ UNCHANGED <<userTable, connectionSeq, permissions, auditLog>>

\* Mutant: as DeleteUserUnenforced.
DeleteConnectionUnenforced(c) ==
  /\ connections' = Without(connections, {c})
  /\ UNCHANGED <<userTable, connectionSeq, permissions, auditLog>>

DeleteConnection(c) ==
  /\ connections' = Without(connections, {c})
  /\ permissions' = Without(permissions, UserIds \X {c})
  /\ auditLog' = [i \in DOMAIN auditLog |-> ForgetConnection(auditLog[i], c)]
  /\ UNCHANGED <<userTable, connectionSeq>>

----------------------------------------------------------------------------
(* permissions *)

GetPermission(u, c) ==
  IF <<u, c>> \in DOMAIN permissions THEN permissions[u, c] ELSE "none"

\* The foreign keys of a permissions row.
GrantRefsExist(u, c) == u \in DOMAIN users /\ c \in DOMAIN connections

\* "none" removes the grant instead of storing it, whatever the ids are.
RemovePermission(u, c) ==
  /\ permissions' = Without(permissions, {<<u, c>>})
  /\ UNCHANGED <<userTable, connectionTable, auditLog>>

UpsertPermission(u, c, level) ==
  /\ GrantRefsExist(u, c)
  /\ permissions' = Put(permissions, <<u, c>>, level)
  /\ UNCHANGED <<userTable, connectionTable, auditLog>>

\* Mutant: "none" is stored like any other level.
StorePermission(u, c, level) == UpsertPermission(u, c, level)

SetPermission(u, c, level) ==
  IF level = "none" THEN RemovePermission(u, c)
                    ELSE UpsertPermission(u, c, level)

----------------------------------------------------------------------------
(* audit_log *)

\* The foreign keys of an audit_log row that is being inserted.
AuditRefsExist(u, c) == u \in DOMAIN users /\ c \in DOMAIN connections

InsertAuditLogEntry(u, c, statement, outcome) ==
  /\ AuditRefsExist(u, c)
  /\ auditLog' = Append(auditLog,
                        [user |-> u, connection |-> c,
                         statement |-> statement, outcome |-> outcome])
  /\ UNCHANGED <<userTable, connectionTable, permissions>>

----------------------------------------------------------------------------
(* Every statement the package can issue, with every argument.             *)

StoreNext ==
  \/ \E name \in Usernames, password \in Passwords, admin \in BOOLEAN :
        InsertUser(name, password, admin)
  \/ \E u \in UserIds, password \in Passwords : UpdateUserPassword(u, password)
  \/ \E u \in UserIds : DeleteUser(u)
  \/ \E name \in ConnectionNames, target \in Targets, password \in Secrets :
        InsertConnection(name, target, password)
  \/ \E c \in ConnectionIds, name \in ConnectionNames, target \in Targets,
        password \in Secrets : UpdateConnection(c, name, target, password)
  \/ \E c \in ConnectionIds : DeleteConnection(c)
  \/ \E u \in UserIds, c \in ConnectionIds, level \in Levels :
        SetPermission(u, c, level)
  \/ \E u \in UserIds, c \in ConnectionIds, statement \in Statements,
        outcome \in Outcomes : InsertAuditLogEntry(u, c, statement, outcome)

StoreSpec == StoreInit /\ [][StoreNext]_storeVars

----------------------------------------------------------------------------
(* Properties *)

\* The shape of the tables.
StoreTypeOK ==
  /\ userSeq \in 0..MaxUsers
  /\ connectionSeq \in 0..MaxConnections
  /\ DOMAIN users \subseteq 1..userSeq
  /\ users \in [DOMAIN users -> User]
  /\ DOMAIN connections \subseteq 1..connectionSeq
  /\ connections \in [DOMAIN connections -> Connection]
  /\ DOMAIN permissions \subseteq UserIds \X ConnectionIds
  /\ permissions \in [DOMAIN permissions -> {"read", "write"}]
  /\ auditLog \in Seq(AuditEntry)

\* No row refers to a user or a connection that is gone: a grant needs both,
\* and an audit entry names only rows that still exist, or NULL.  With ids
\* that are never handed out twice this is what keeps a deleted user's
\* grants and history from passing to another user.
ReferentialIntegrity ==
  /\ \A p \in DOMAIN permissions : GrantRefsExist(p[1], p[2])
  /\ \A i \in DOMAIN auditLog :
       /\ auditLog[i].user \in DOMAIN users \cup {Null}
       /\ auditLog[i].connection \in DOMAIN connections \cup {Null}

\* An id that was once assigned and is free again stays free (AUTOINCREMENT),
\* also over restarts of the server.
IdsStayRetired ==
  [][/\ \A u \in 1..userSeq \ DOMAIN users : u \notin DOMAIN users'
     /\ \A c \in 1..connectionSeq \ DOMAIN connections :
          c \notin DOMAIN connections']_storeVars

\* A grant disappears only by a revocation or with its user or connection:
\* editing a Connection in place keeps every User's Permission on it
\* (handleUpdateConnection), and so does every other statement.
GrantsOutliveEdits ==
  [][\A p \in DOMAIN permissions \ DOMAIN permissions' :
        \/ p[1] \notin DOMAIN users'
        \/ p[2] \notin DOMAIN connections'
        \/ RemovePermission(p[1], p[2])]_storeVars

=============================================================================
