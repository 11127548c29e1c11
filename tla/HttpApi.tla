------------------------------ MODULE HttpApi ------------------------------
(***************************************************************************)
(* The HTTP server (server/internal/httpapi, internal/auth, cmd/server):   *)
(* every request runs in a goroutine of its own, and between two SQL       *)
(* statements of one handler those of the others run.  A handler is a      *)
(* sequence of actions, one for each statement it issues on the store or   *)
(* on a target database, with everything it decides from the result.       *)
(*                                                                         *)
(* Tokens are signed claims: the server keeps no session, never reads the  *)
(* user's row again, and honours a token until it expires.  They outlive a *)
(* restart, since the signing secret is configuration.                     *)
(*                                                                         *)
(* Responses are left out, and with them what only decides a response: the *)
(* requests that are refused before they reach the store, the handlers     *)
(* that list rows, and the row that createUser, resetPassword,             *)
(* createConnection and updateConnection read back after their write.      *)
(***************************************************************************)
EXTENDS Store

CONSTANTS
  Requests,           \* goroutines that can serve a request at the same time
  Operations,         \* the operations clients call
  Unopenable,         \* targets dbconn.Open refuses
  BootstrapUsername,  \* DBTOOL_BOOTSTRAP_ADMIN_USER
  BootstrapPassword,  \* DBTOOL_BOOTSTRAP_ADMIN_PASSWORD
  NoSecret,           \* the empty password: in an edit, keep the existing one
  Lifetime,           \* ticks a token is valid for
  MaxTime             \* bound: ticks of the clock

AdminOperations ==
  {"createUser", "resetPassword", "deleteUser", "createConnection",
   "updateConnection", "deleteConnection", "setPermission"}

\* query is handleExecuteQuery; inspect is any of handleListCatalogs,
\* handleDescribeSchema and handleFetchCell.
TargetOperations == {"query", "inspect"}

ASSUME HttpApiAssumption ==
  /\ Operations \subseteq AdminOperations \cup TargetOperations
  /\ Unopenable \subseteq Targets
  /\ BootstrapUsername \in Usernames
  /\ BootstrapPassword \in Passwords
  /\ NoSecret \in Secrets
  /\ Lifetime \in Nat
  /\ MaxTime \in Nat

VARIABLES
  serving,    \* the process is up and listens
  now,        \* the clock
  tokens,     \* every token ever issued
  requests,   \* the request each goroutine serves
  submitted,  \* write statements received: who sent them, to which connection
  ran,        \* write statements that took effect on a target database
  abandoned   \* write statements whose request died with the process

serverVars == <<serving, now, tokens, requests, submitted, ran, abandoned>>
vars == <<storeVars, serverVars>>

----------------------------------------------------------------------------
(* Requests *)

Claims == [user : UserIds, name : Usernames, admin : BOOLEAN]

Token == [claims : Claims, expires : 0..MaxTime + Lifetime]

NoClaims == [user |-> Null, name |-> BootstrapUsername, admin |-> FALSE]

\* at: the statement the handler issues next.  id: the user or connection of
\* the URL.  statement: 0 for a Read Query.  outcome: of the write that ran.
\* password: the one an edit of a connection asks for, NoSecret to keep the
\* existing one.  existing: the one the row had when the edit read it.
Request == [op : {"none", "login"} \cup AdminOperations \cup TargetOperations,
            at : {"idle", "issue", "start", "update", "connect", "execute",
                  "audit"},
            claims : Claims \cup {NoClaims},
            id : Nat,
            statement : Statements \cup {0},
            outcome : Outcomes,
            password : Secrets,
            existing : Secrets]

Idle == [op |-> "none", at |-> "idle", claims |-> NoClaims, id |-> 0,
         statement |-> 0, outcome |-> "ok", password |-> NoSecret,
         existing |-> NoSecret]

Free(r) == serving /\ requests[r] = Idle

Serves(r, op, at) == requests[r].op = op /\ requests[r].at = at

Become(r, request) == requests' = [requests EXCEPT ![r] = request]

Respond(r) == Become(r, Idle)

Continue(r, at) == Become(r, [requests[r] EXCEPT !.at = at])

Init ==
  /\ StoreInit
  /\ serving = FALSE
  /\ now = 0
  /\ tokens = {}
  /\ requests = [r \in Requests |-> Idle]
  /\ submitted = << >>
  /\ ran = {}
  /\ abandoned = {}

----------------------------------------------------------------------------
(* The process *)

\* main opens the store, and bootstrapAdmin inserts the first Admin only if
\* there is no user at all; then it listens.
Boot ==
  /\ ~serving
  /\ serving' = TRUE
  /\ \/ /\ users = << >>
        /\ InsertUser(BootstrapUsername, BootstrapPassword, TRUE)
     \/ /\ users # << >> \/ userSeq = MaxUsers
        /\ UNCHANGED storeVars
  /\ UNCHANGED <<now, tokens, requests, submitted, ran, abandoned>>

\* The process dies between any two statements.  A request that was writing
\* to a target leaves the effect behind and nobody to record it.
Crash ==
  /\ serving
  /\ serving' = FALSE
  /\ requests' = [r \in Requests |-> Idle]
  /\ abandoned' = abandoned \cup ({requests[r].statement : r \in Requests} \ {0})
  /\ UNCHANGED <<storeVars, now, tokens, submitted, ran>>

Tick ==
  /\ now < MaxTime
  /\ now' = now + 1
  /\ UNCHANGED <<storeVars, serving, tokens, requests, submitted, ran,
                 abandoned>>

----------------------------------------------------------------------------
(* handleLogin, requireAuth, requireAdmin *)

\* GetUserByUsername, then CheckPassword against the row that was read.
LoginLookup(r) ==
  /\ Free(r)
  /\ \E u \in DOMAIN users, password \in Passwords :
       /\ users[u].password = password
       /\ Become(r, [Idle EXCEPT
                       !.op = "login", !.at = "issue",
                       !.claims = [user |-> u, name |-> users[u].name,
                                   admin |-> users[u].admin]])
  /\ UNCHANGED <<storeVars, serving, now, tokens, submitted, ran, abandoned>>

LoginIssue(r) ==
  /\ Serves(r, "login", "issue")
  /\ tokens' = tokens \cup {[claims |-> requests[r].claims,
                             expires |-> now + Lifetime]}
  /\ Respond(r)
  /\ UNCHANGED <<storeVars, serving, now, submitted, ran, abandoned>>

Accepts(t, op) == now < t.expires /\ (op \in AdminOperations => t.claims.admin)

ReceiveAdmin(r) ==
  /\ Free(r)
  /\ \E t \in tokens, op \in Operations \cap AdminOperations :
       /\ Accepts(t, op)
       /\ Become(r, [Idle EXCEPT !.op = op, !.at = "start",
                                 !.claims = t.claims])
  /\ UNCHANGED <<storeVars, serving, now, tokens, submitted, ran, abandoned>>

\* query.IsWrite sorts the statement; a write is known by its number.
ReceiveTarget(r) ==
  /\ Free(r)
  /\ \E t \in tokens, op \in Operations \cap TargetOperations,
        c \in ConnectionIds, isWrite \in BOOLEAN :
       LET n == Len(submitted) + 1
       IN  /\ Accepts(t, op)
           /\ isWrite => op = "query" /\ n <= MaxStatements
           /\ Become(r, [Idle EXCEPT !.op = op, !.at = "start",
                                     !.claims = t.claims, !.id = c,
                                     !.statement = IF isWrite THEN n ELSE 0])
           /\ submitted' = IF isWrite
                           THEN Append(submitted, [user |-> t.claims.user,
                                                   connection |-> c])
                           ELSE submitted
  /\ UNCHANGED <<storeVars, serving, now, tokens, ran, abandoned>>

----------------------------------------------------------------------------
(* The handlers of users.  Any error of CreateUser is answered 409; a full *)
(* table (bound MaxUsers) is one.                                          *)

CreateUser(r) ==
  /\ Serves(r, "createUser", "start")
  /\ \E name \in Usernames, password \in Passwords, admin \in BOOLEAN :
       \/ InsertUser(name, password, admin)
       \/ /\ UsernameTaken(name) \/ userSeq = MaxUsers
          /\ UNCHANGED storeVars
  /\ Respond(r)
  /\ UNCHANGED <<serving, now, tokens, submitted, ran, abandoned>>

ResetUserPassword(r) ==
  /\ Serves(r, "resetPassword", "start")
  /\ \E u \in UserIds, password \in Passwords : UpdateUserPassword(u, password)
  /\ Respond(r)
  /\ UNCHANGED <<serving, now, tokens, submitted, ran, abandoned>>

\* Refuses the caller's own account, by the id in the claims.
HandleDeleteUser(r) ==
  /\ Serves(r, "deleteUser", "start")
  /\ \E u \in UserIds : \/ u # requests[r].claims.user /\ DeleteUser(u)
                        \/ u = requests[r].claims.user /\ UNCHANGED storeVars
  /\ Respond(r)
  /\ UNCHANGED <<serving, now, tokens, submitted, ran, abandoned>>

----------------------------------------------------------------------------
(* The handlers of connections and permissions *)

CreateConnection(r) ==
  /\ Serves(r, "createConnection", "start")
  /\ \E name \in ConnectionNames, target \in Targets, password \in Secrets :
       \/ InsertConnection(name, target, password)
       \/ /\ NameTakenByAnother(Null, name) \/ connectionSeq = MaxConnections
          /\ UNCHANGED storeVars
  /\ Respond(r)
  /\ UNCHANGED <<serving, now, tokens, submitted, ran, abandoned>>

\* handleUpdateConnection reads the row, or answers 404, and keeps the
\* password it finds there for a request that brings none.
EditConnectionRead(r) ==
  /\ Serves(r, "updateConnection", "start")
  /\ \E c \in ConnectionIds, password \in Secrets :
       \/ c \notin DOMAIN connections /\ Respond(r)
       \/ /\ c \in DOMAIN connections
          /\ Become(r, [requests[r] EXCEPT
                          !.at = "update", !.id = c, !.password = password,
                          !.existing = connections[c].password])
  /\ UNCHANGED <<storeVars, serving, now, tokens, submitted, ran, abandoned>>

PasswordToWrite(r) ==
  IF requests[r].password = NoSecret THEN requests[r].existing
                                     ELSE requests[r].password

EditConnectionWrite(r) ==
  /\ Serves(r, "updateConnection", "update")
  /\ \E name \in ConnectionNames, target \in Targets :
       \/ UpdateConnection(requests[r].id, name, target, PasswordToWrite(r))
       \/ /\ NameTakenByAnother(requests[r].id, name)
          /\ UNCHANGED storeVars
  /\ Respond(r)
  /\ UNCHANGED <<serving, now, tokens, submitted, ran, abandoned>>

HandleDeleteConnection(r) ==
  /\ Serves(r, "deleteConnection", "start")
  /\ \E c \in ConnectionIds : DeleteConnection(c)
  /\ Respond(r)
  /\ UNCHANGED <<serving, now, tokens, submitted, ran, abandoned>>

HandleSetPermission(r) ==
  /\ Serves(r, "setPermission", "start")
  /\ \E u \in UserIds, c \in ConnectionIds, level \in Levels :
       \/ SetPermission(u, c, level)
       \/ /\ level # "none" /\ ~GrantRefsExist(u, c)
          /\ UNCHANGED storeVars
  /\ Respond(r)
  /\ UNCHANGED <<serving, now, tokens, submitted, ran, abandoned>>

----------------------------------------------------------------------------
(* handleExecuteQuery and the handlers that inspect a target *)

IsWrite(r) == requests[r].statement # 0

\* Mutants: any grant is enough for a write; the comparison is inverted.
CheckAnyAccess(r) ==
  /\ requests[r].op \in TargetOperations /\ requests[r].at = "start"
  /\ LET level == GetPermission(requests[r].claims.user, requests[r].id)
     IN  \/ level = "none" /\ Respond(r)
         \/ level # "none" /\ Continue(r, "connect")
  /\ UNCHANGED <<storeVars, serving, now, tokens, submitted, ran, abandoned>>

CheckAccessInverted(r) ==
  /\ requests[r].op \in TargetOperations /\ requests[r].at = "start"
  /\ LET level == GetPermission(requests[r].claims.user, requests[r].id)
     IN  \/ level = "none" /\ Respond(r)
         \/ /\ level = "write" /\ IsWrite(r)
            /\ Become(r, [requests[r] EXCEPT !.at = "audit",
                                             !.outcome = "refused"])
         \/ /\ level = "read" \/ (level = "write" /\ ~IsWrite(r))
            /\ Continue(r, "connect")
  /\ UNCHANGED <<storeVars, serving, now, tokens, submitted, ran, abandoned>>

\* requireConnectionAccess, and for a write the level it needs.  Without any
\* grant the request is answered 403 and leaves no trace.
CheckAccess(r) ==
  /\ requests[r].op \in TargetOperations /\ requests[r].at = "start"
  /\ LET level == GetPermission(requests[r].claims.user, requests[r].id)
     IN  \/ level = "none" /\ Respond(r)
         \/ /\ level = "read" /\ IsWrite(r)
            /\ Become(r, [requests[r] EXCEPT !.at = "audit",
                                             !.outcome = "refused"])
         \/ /\ level = "write" \/ (level = "read" /\ ~IsWrite(r))
            /\ Continue(r, "connect")
  /\ UNCHANGED <<storeVars, serving, now, tokens, submitted, ran, abandoned>>

\* GetConnection and dbconn.Open: the row is gone (404), or its target
\* cannot be opened (502), or the statement goes on to the target.
Connect(r) ==
  /\ requests[r].op \in TargetOperations /\ requests[r].at = "connect"
  /\ LET c == requests[r].id
         openable == /\ c \in DOMAIN connections
                     /\ connections[c].target \notin Unopenable
     IN  \/ ~openable /\ Respond(r)
         \/ openable /\ Continue(r, "execute")
  /\ UNCHANGED <<storeVars, serving, now, tokens, submitted, ran, abandoned>>

\* The target runs the statement.  When it reports an error, or the link
\* breaks, a write may have taken effect all the same.
ExecuteRead(r) ==
  /\ requests[r].op \in TargetOperations /\ requests[r].at = "execute"
  /\ ~IsWrite(r)
  /\ Respond(r)
  /\ UNCHANGED <<storeVars, serving, now, tokens, submitted, ran, abandoned>>

\* Mutants: the entry says allowed before the target has answered; only a
\* write that succeeded is recorded.
ExecuteWriteOptimistic(r) ==
  /\ Serves(r, "query", "execute")
  /\ IsWrite(r)
  /\ \E effect \in BOOLEAN :
       ran' = IF effect THEN ran \cup {requests[r].statement} ELSE ran
  /\ Become(r, [requests[r] EXCEPT !.at = "audit", !.outcome = "ok"])
  /\ UNCHANGED <<storeVars, serving, now, tokens, submitted, abandoned>>

ExecuteWriteAuditSuccess(r) ==
  /\ Serves(r, "query", "execute")
  /\ IsWrite(r)
  /\ \E outcome \in {"ok", "failed"}, effect \in BOOLEAN :
       /\ outcome = "ok" => effect
       /\ ran' = IF effect THEN ran \cup {requests[r].statement} ELSE ran
       /\ IF outcome = "ok" THEN Continue(r, "audit") ELSE Respond(r)
  /\ UNCHANGED <<storeVars, serving, now, tokens, submitted, abandoned>>

ExecuteWrite(r) ==
  /\ Serves(r, "query", "execute")
  /\ IsWrite(r)
  /\ \E outcome \in {"ok", "failed"}, effect \in BOOLEAN :
       /\ outcome = "ok" => effect
       /\ ran' = IF effect THEN ran \cup {requests[r].statement} ELSE ran
       /\ Become(r, [requests[r] EXCEPT !.at = "audit", !.outcome = outcome])
  /\ UNCHANGED <<storeVars, serving, now, tokens, submitted, abandoned>>

\* recordAudit ignores the error of the INSERT: a foreign key that no longer
\* holds drops the entry.
RecordAudit(r) ==
  /\ Serves(r, "query", "audit")
  /\ LET u == requests[r].claims.user
         c == requests[r].id
     IN  \/ InsertAuditLogEntry(u, c, requests[r].statement,
                                requests[r].outcome)
         \/ /\ ~AuditRefsExist(u, c)
            /\ UNCHANGED storeVars
  /\ Respond(r)
  /\ UNCHANGED <<serving, now, tokens, submitted, ran, abandoned>>

----------------------------------------------------------------------------

\* What the goroutine of r does once it has a request.
Handle(r) ==
  \/ LoginIssue(r)
  \/ CreateUser(r) \/ ResetUserPassword(r) \/ HandleDeleteUser(r)
  \/ CreateConnection(r)
  \/ EditConnectionRead(r) \/ EditConnectionWrite(r)
  \/ HandleDeleteConnection(r)
  \/ HandleSetPermission(r)
  \/ CheckAccess(r) \/ Connect(r)
  \/ ExecuteRead(r) \/ ExecuteWrite(r) \/ RecordAudit(r)

Receive(r) == LoginLookup(r) \/ ReceiveAdmin(r) \/ ReceiveTarget(r)

Next ==
  \/ Boot
  \/ Crash
  \/ Tick
  \/ \E r \in Requests : Receive(r) \/ Handle(r)

Spec == Init /\ [][Next]_vars

----------------------------------------------------------------------------
(* Properties *)

TypeOK ==
  /\ StoreTypeOK
  /\ serving \in BOOLEAN
  /\ now \in 0..MaxTime
  /\ tokens \subseteq Token
  /\ requests \in [Requests -> Request]
  /\ submitted \in Seq([user : UserIds, connection : ConnectionIds])
  /\ Len(submitted) <= MaxStatements
  /\ ran \subseteq 1..Len(submitted)
  /\ abandoned \subseteq 1..Len(submitted)

\* A token is believed without a look at the users table, for as long as it
\* lasts.  Whatever was deleted and created since, the id in it denotes the
\* account it was issued to or no account at all: name and role are still
\* those of the row.
TokensNameTheirUser ==
  \A t \in tokens :
    t.claims.user \in DOMAIN users =>
      /\ users[t.claims.user].name = t.claims.name
      /\ users[t.claims.user].admin = t.claims.admin

\* What the audit log says happened: an entry marked allowed is of a statement
\* that took effect, one that was refused never took effect nor will, and the
\* user and connection an entry names are those of the attempt.
AuditIsTruthful ==
  /\ \A i \in DOMAIN auditLog :
       LET e == auditLog[i]
       IN  /\ e.outcome = "ok" => e.statement \in ran
           /\ e.outcome = "refused" => e.statement \notin ran
           /\ e.user \in {Null, submitted[e.statement].user}
           /\ e.connection \in {Null, submitted[e.statement].connection}

Recorded(statement) ==
  \E i \in DOMAIN auditLog : auditLog[i].statement = statement

InFlight(statement) == \E r \in Requests : requests[r].statement = statement

\* recordAudit is best effort, and this is all the effort may cost: a write
\* that took effect is recorded, or its request is still being served, or
\* died with the process, or its user or connection was deleted meanwhile.
WritesAccountedFor ==
  \A s \in ran :
    \/ Recorded(s)
    \/ InFlight(s)
    \/ s \in abandoned
    \/ ~AuditRefsExist(submitted[s].user, submitted[s].connection)

\* The audit_log table implements the audit trail, with every handler, crash
\* and deletion interleaved.
Trail ==
  INSTANCE AuditTrail WITH Users <- UserIds, Connections <- ConnectionIds,
                           log <- auditLog
TrailSpec == Trail!Spec

\* CONTEXT.md calls an Audit Log Entry the persistent record of an attempt to
\* run a Write Query, of successful runs first of all: a write that took
\* effect and has been answered is recorded, unless the process died before.
\* Deleting the user or the connection while the statement runs refutes it:
\* the foreign key refuses the entry and recordAudit ignores the error.
WritesThatRanAreRecorded ==
  \A s \in ran : Recorded(s) \/ InFlight(s) \/ s \in abandoned

\* handleDeleteUser refuses to delete the caller, since that "could leave the
\* system with no Admin left to fix it": once the first Admin exists, there
\* is one as long as the server runs.  Two Admins who delete each other
\* refute it.
AnAdminRemains == serving => \E u \in DOMAIN users : users[u].admin

\* handleUpdateConnection: "An empty Password in the request keeps the
\* existing one".  An edit that brings no password leaves that of the row as
\* it is.  A password that another request changes between the handler's read
\* and its write refutes it: the old one is written back.
EditsKeepPassword ==
  [][\A r \in Requests :
       (EditConnectionWrite(r) /\ requests[r].password = NoSecret) =>
         \A c \in DOMAIN connections :
           connections'[c].password = connections[c].password]_vars

=============================================================================
