--------------------------- MODULE HttpApi_proofs ---------------------------
(***************************************************************************)
(* What the server keeps true, for every number of goroutines, users,      *)
(* connections and statements, and however crashes and requests fall.      *)
(***************************************************************************)
EXTENDS HttpApiWindow, Store_proofs

----------------------------------------------------------------------------
(* The inductive invariant: TypeOK, and what a request being served knows. *)

\* A request carries real claims; one that names a connection, or a write
\* statement, names one there can be.
WellFormed(q) ==
  /\ q.op # "none" => q.claims \in Claims
  /\ (q.op \in TargetOperations \/ q.at = "update") => q.id \in ConnectionIds
  /\ q.statement \in 0..Len(submitted)
  /\ q.at = "audit" => q.statement # 0

RequestsWellFormed == \A r \in Requests : WellFormed(requests[r])

ServerTypeOK ==
  /\ serving \in BOOLEAN
  /\ now \in 0..MaxTime
  /\ tokens \subseteq Token
  /\ requests \in [Requests -> Request]
  /\ submitted \in Seq([user : UserIds, connection : ConnectionIds])
  /\ Len(submitted) <= MaxStatements
  /\ ran \subseteq 1..Len(submitted)
  /\ abandoned \subseteq 1..Len(submitted)

ServerInv == ServerTypeOK /\ RequestsWellFormed

LEMMA TypeOKParts == TypeOK <=> StoreTypeOK /\ ServerTypeOK
BY DEF TypeOK, ServerTypeOK

LEMMA IdleRequest == Idle \in Request
BY HttpApiAssumption DEF Idle, Request, NoClaims, Outcomes

LEMMA OneRequestChanges ==
  ASSUME ServerInv, NEW r \in Requests, NEW q, Become(r, q)
  PROVE  \A s \in Requests : requests'[s] = IF s = r THEN q ELSE requests[s]
BY DEF Become, ServerInv, ServerTypeOK

\* A goroutine that takes up a request, goes on with one or responds, and
\* changes nothing else of the server.
LEMMA BecomeKeeps ==
  ASSUME ServerInv, NEW r \in Requests, NEW q \in Request, WellFormed(q),
         Become(r, q), UNCHANGED <<serving, now, tokens, submitted, ran, abandoned>>
  PROVE  ServerInv'
<1>1. requests' = [requests EXCEPT ![r] = q]
  BY DEF Become
<1>2. requests' \in [Requests -> Request]
  BY <1>1 DEF ServerInv, ServerTypeOK
<1>3. \A s \in Requests : requests'[s] = IF s = r THEN q ELSE requests[s]
  BY <1>1 DEF ServerInv, ServerTypeOK
<1>4. RequestsWellFormed'
  BY <1>3 DEF ServerInv, RequestsWellFormed, WellFormed
<1> QED
  BY <1>2, <1>4 DEF ServerInv, ServerTypeOK

LEMMA RespondKeeps ==
  ASSUME ServerInv, NEW r \in Requests, Respond(r),
         UNCHANGED <<serving, now, tokens, submitted, ran, abandoned>>
  PROVE  ServerInv'
<1>1. Len(submitted) \in Nat
  BY LenProperties DEF ServerInv, ServerTypeOK
<1>2. WellFormed(Idle)
  BY <1>1 DEF WellFormed, Idle, TargetOperations
<1> QED
  BY <1>2, IdleRequest, BecomeKeeps DEF Respond

LEMMA ContinueKeeps ==
  ASSUME ServerInv, NEW r \in Requests, NEW at \in {"connect", "execute"},
         Continue(r, at),
         UNCHANGED <<serving, now, tokens, submitted, ran, abandoned>>
  PROVE  ServerInv'
<1> DEFINE q == [requests[r] EXCEPT !.at = at]
<1>1. requests[r] \in Request /\ WellFormed(requests[r])
  BY DEF ServerInv, ServerTypeOK, RequestsWellFormed
<1>2. q \in Request
  BY <1>1 DEF Request
<1>3. WellFormed(q)
  BY <1>1 DEF Request, WellFormed
<1> QED
  BY <1>2, <1>3, BecomeKeeps DEF Continue

----------------------------------------------------------------------------
(* Every step of the server is a statement of the store, or none. *)

LEMMA BootStatement == ASSUME Boot PROVE [StoreNext]_storeVars
BY HttpApiAssumption DEF Boot, StoreNext

LEMMA RecordAuditStatement ==
  ASSUME ServerInv, NEW r \in Requests, RecordAudit(r)
  PROVE  [StoreNext]_storeVars
<1> DEFINE q == requests[r]
<1>1. q \in Request /\ WellFormed(q)
  BY DEF ServerInv, ServerTypeOK, RequestsWellFormed
<1>2. q.claims \in Claims /\ q.id \in ConnectionIds
  BY <1>1 DEF RecordAudit, Serves, WellFormed, TargetOperations
<1>3. q.claims.user \in UserIds
  BY <1>2 DEF Claims
<1>4. q.statement \in Statements /\ q.outcome \in Outcomes
  BY <1>1 DEF RecordAudit, Serves, WellFormed, Request
<1>5. CASE InsertAuditLogEntry(q.claims.user, q.id, q.statement, q.outcome)
  BY <1>2, <1>3, <1>4, <1>5 DEF StoreNext
<1>6. CASE UNCHANGED storeVars
  BY <1>6
<1> QED
  BY <1>5, <1>6 DEF RecordAudit

LEMMA EditConnectionWriteStatement ==
  ASSUME ServerInv, NEW r \in Requests, EditConnectionWrite(r)
  PROVE  [StoreNext]_storeVars
<1>1. requests[r] \in Request /\ WellFormed(requests[r])
  BY DEF ServerInv, ServerTypeOK, RequestsWellFormed
<1>2. requests[r].id \in ConnectionIds
  BY <1>1 DEF EditConnectionWrite, Serves, WellFormed
<1>3. PasswordToWrite(r) \in Secrets
  BY <1>1 DEF PasswordToWrite, Request
<1> QED
  BY <1>2, <1>3 DEF EditConnectionWrite, StoreNext

LEMMA HandleStatement ==
  ASSUME ServerInv, NEW r \in Requests, Handle(r)
  PROVE  [StoreNext]_storeVars
<1>1. CASE CreateUser(r)
  BY <1>1 DEF CreateUser, StoreNext
<1>2. CASE ResetUserPassword(r)
  BY <1>2 DEF ResetUserPassword, StoreNext
<1>3. CASE HandleDeleteUser(r)
  BY <1>3 DEF HandleDeleteUser, StoreNext
<1>4. CASE CreateConnection(r)
  BY <1>4 DEF CreateConnection, StoreNext
<1>5. CASE EditConnectionWrite(r)
  BY <1>5, EditConnectionWriteStatement
<1>6. CASE HandleDeleteConnection(r)
  BY <1>6 DEF HandleDeleteConnection, StoreNext
<1>7. CASE HandleSetPermission(r)
  BY <1>7 DEF HandleSetPermission, StoreNext
<1>8. CASE RecordAudit(r)
  BY <1>8, RecordAuditStatement
<1>9. CASE \/ LoginIssue(r) \/ EditConnectionRead(r) \/ CheckAccess(r)
           \/ Connect(r) \/ ExecuteRead(r) \/ ExecuteWrite(r)
  BY <1>9 DEF LoginIssue, EditConnectionRead, CheckAccess, Connect,
     ExecuteRead, ExecuteWrite
<1> QED
  BY <1>1, <1>2, <1>3, <1>4, <1>5, <1>6, <1>7, <1>8, <1>9 DEF Handle

LEMMA NextStatement ==
  ASSUME ServerInv, [Next]_vars
  PROVE  [StoreNext]_storeVars
<1>1. CASE UNCHANGED vars
  BY <1>1 DEF vars
<1>2. CASE Boot
  BY <1>2, BootStatement
<1>3. CASE Crash \/ Tick
  BY <1>3 DEF Crash, Tick
<1>4. ASSUME NEW r \in Requests, Receive(r) PROVE [StoreNext]_storeVars
  BY <1>4 DEF Receive, LoginLookup, ReceiveAdmin, ReceiveTarget
<1>5. ASSUME NEW r \in Requests, Handle(r) PROVE [StoreNext]_storeVars
  BY <1>5, HandleStatement
<1> QED
  BY <1>1, <1>2, <1>3, <1>4, <1>5 DEF Next

----------------------------------------------------------------------------
(* The server's own variables keep their shape. *)

LEMMA CrashKeeps ==
  ASSUME ServerInv, Crash PROVE ServerInv'
<1>1. \A r \in Requests : requests[r].statement \in 0..Len(submitted)
  BY DEF ServerInv, RequestsWellFormed, WellFormed
<1>2. abandoned' \subseteq 1..Len(submitted)
  <2>1. Len(submitted) \in Nat
    BY LenProperties DEF ServerInv, ServerTypeOK
  <2>2. \A n \in 0..Len(submitted) : n # 0 => n \in 1..Len(submitted)
    BY <2>1
  <2>3. {requests[r].statement : r \in Requests} \ {0} \subseteq 1..Len(submitted)
    BY <1>1, <2>2
  <2> QED
    BY <2>3 DEF Crash, ServerInv, ServerTypeOK
<1>3. requests' \in [Requests -> Request]
  BY IdleRequest DEF Crash
<1>4. Len(submitted) \in Nat
  BY LenProperties DEF ServerInv, ServerTypeOK
<1>5. RequestsWellFormed'
  BY <1>4 DEF Crash, RequestsWellFormed, WellFormed, Idle, TargetOperations
<1> QED
  BY <1>2, <1>3, <1>5 DEF Crash, ServerInv, ServerTypeOK

LEMMA BootKeeps ==
  ASSUME ServerInv, Boot PROVE ServerInv'
BY DEF Boot, ServerInv, ServerTypeOK, RequestsWellFormed, WellFormed

LEMMA TickKeeps ==
  ASSUME ServerInv, Tick PROVE ServerInv'
<1>1. now' \in 0..MaxTime
  BY HttpApiAssumption DEF Tick, ServerInv, ServerTypeOK
<1> QED
  BY <1>1 DEF Tick, ServerInv, ServerTypeOK, RequestsWellFormed, WellFormed

LEMMA LoginLookupKeeps ==
  ASSUME ServerInv, StoreTypeOK, NEW r \in Requests, LoginLookup(r)
  PROVE  ServerInv'
<1>1. PICK u \in DOMAIN users :
        Become(r, [Idle EXCEPT
                       !.op = "login", !.at = "issue",
                       !.claims = [user |-> u, name |-> users[u].name,
                                   admin |-> users[u].admin]])
  BY DEF LoginLookup
<1> DEFINE claims == [user |-> u, name |-> users[u].name, admin |-> users[u].admin]
           q == [Idle EXCEPT !.op = "login", !.at = "issue", !.claims = claims]
<1>2. u \in UserIds /\ users[u] \in User
  BY StoreAssumption DEF StoreTypeOK, UserIds
<1>3. claims \in Claims
  BY <1>2 DEF Claims, User
<1>4. q \in Request /\ q.op = "login" /\ q.at = "issue" /\ q.claims = claims
      /\ q.statement = 0
  BY <1>3, IdleRequest DEF Request, Idle
<1>5. Len(submitted) \in Nat
  BY LenProperties DEF ServerInv, ServerTypeOK
<1>6. WellFormed(q)
  BY <1>3, <1>4, <1>5 DEF WellFormed, TargetOperations
<1> QED
  BY <1>1, <1>4, <1>6, BecomeKeeps DEF LoginLookup

LEMMA LoginIssueKeeps ==
  ASSUME ServerInv, NEW r \in Requests, LoginIssue(r)
  PROVE  ServerInv'
<1> DEFINE token == [claims |-> requests[r].claims, expires |-> now + Lifetime]
<1>1. requests[r].claims \in Claims
  BY DEF LoginIssue, Serves, ServerInv, RequestsWellFormed, WellFormed
<1>2. now + Lifetime \in 0..MaxTime + Lifetime
  BY HttpApiAssumption DEF ServerInv, ServerTypeOK
<1>3. token \in Token
  BY <1>1, <1>2 DEF Token
<1>4. tokens' \subseteq Token
  BY <1>3 DEF LoginIssue, ServerInv, ServerTypeOK
<1>5. Len(submitted) \in Nat
  BY LenProperties DEF ServerInv, ServerTypeOK
<1>6. requests' \in [Requests -> Request]
  BY IdleRequest DEF LoginIssue, Respond, Become, ServerInv, ServerTypeOK
<1>7. \A s \in Requests : requests'[s] = IF s = r THEN Idle ELSE requests[s]
  BY DEF LoginIssue, Respond, Become, ServerInv, ServerTypeOK
<1>8. WellFormed(Idle)
  BY <1>5 DEF WellFormed, Idle, TargetOperations
<1>9. RequestsWellFormed'
  BY <1>7, <1>8 DEF LoginIssue, ServerInv, RequestsWellFormed, WellFormed
<1> QED
  BY <1>4, <1>6, <1>9 DEF LoginIssue, ServerInv, ServerTypeOK

LEMMA ReceiveAdminKeeps ==
  ASSUME ServerInv, NEW r \in Requests, ReceiveAdmin(r)
  PROVE  ServerInv'
<1>1. PICK t \in tokens, op \in Operations \cap AdminOperations :
        Become(r, [Idle EXCEPT !.op = op, !.at = "start", !.claims = t.claims])
  BY DEF ReceiveAdmin
<1> DEFINE q == [Idle EXCEPT !.op = op, !.at = "start", !.claims = t.claims]
<1>2. t.claims \in Claims
  BY DEF ServerInv, ServerTypeOK, Token
<1>3. q \in Request /\ q.op = op /\ q.at = "start" /\ q.claims = t.claims
      /\ q.statement = 0
  BY <1>2, IdleRequest DEF Request, Idle
<1>4. Len(submitted) \in Nat
  BY LenProperties DEF ServerInv, ServerTypeOK
<1>5. WellFormed(q)
  BY <1>2, <1>3, <1>4 DEF WellFormed, TargetOperations, AdminOperations
<1> QED
  BY <1>1, <1>3, <1>5, BecomeKeeps DEF ReceiveAdmin

LEMMA ReceiveTargetKeeps ==
  ASSUME ServerInv, NEW r \in Requests, ReceiveTarget(r)
  PROVE  ServerInv'
<1> DEFINE n == Len(submitted) + 1
<1>1. PICK t \in tokens, op \in Operations \cap TargetOperations,
           c \in ConnectionIds, isWrite \in BOOLEAN :
        /\ isWrite => n <= MaxStatements
        /\ Become(r, [Idle EXCEPT !.op = op, !.at = "start",
                                  !.claims = t.claims, !.id = c,
                                  !.statement = IF isWrite THEN n ELSE 0])
        /\ submitted' = IF isWrite
                        THEN Append(submitted, [user |-> t.claims.user,
                                                connection |-> c])
                        ELSE submitted
  BY DEF ReceiveTarget
<1> DEFINE statement == IF isWrite THEN n ELSE 0
           q == [Idle EXCEPT !.op = op, !.at = "start", !.claims = t.claims,
                             !.id = c, !.statement = statement]
           sender == [user |-> t.claims.user, connection |-> c]
<1>2. t.claims \in Claims /\ sender \in [user : UserIds, connection : ConnectionIds]
  BY DEF ServerInv, ServerTypeOK, Token, Claims
<1>3. Len(submitted) \in Nat
  BY LenProperties DEF ServerInv, ServerTypeOK
<1>4. /\ submitted' \in Seq([user : UserIds, connection : ConnectionIds])
      /\ Len(submitted') = IF isWrite THEN n ELSE Len(submitted)
      /\ Len(submitted') <= MaxStatements
  <2>1. CASE isWrite
    <3>1. submitted' = Append(submitted, sender)
      BY <1>1, <2>1
    <3>2. submitted \in Seq([user : UserIds, connection : ConnectionIds])
      BY DEF ServerInv, ServerTypeOK
    <3> QED
      BY <1>1, <1>2, <2>1, <3>1, <3>2, AppendProperties
  <2>2. CASE ~isWrite
    BY <1>1, <2>2 DEF ServerInv, ServerTypeOK
  <2> QED
    BY <2>1, <2>2
<1>5. statement \in Statements \cup {0} /\ statement \in 0..Len(submitted')
  BY <1>1, <1>3, <1>4, StoreAssumption DEF Statements
<1>6. c \in Nat
  BY StoreAssumption DEF ConnectionIds
<1>7. q \in Request /\ q.op = op /\ q.at = "start" /\ q.claims = t.claims
      /\ q.id = c /\ q.statement = statement
  BY <1>2, <1>5, <1>6, IdleRequest DEF Request, Idle
<1>8. requests' \in [Requests -> Request]
  BY <1>1, <1>7 DEF Become, ServerInv, ServerTypeOK
<1>9. \A s \in Requests : requests'[s] = IF s = r THEN q ELSE requests[s]
  BY <1>1 DEF Become, ServerInv, ServerTypeOK
<1>10. RequestsWellFormed'
  <2> SUFFICES ASSUME NEW s \in Requests PROVE WellFormed(requests[s])'
    BY DEF RequestsWellFormed
  <2>1. CASE s = r
    BY <1>2, <1>5, <1>7, <1>9, <2>1 DEF WellFormed
  <2>2. CASE s # r
    <3>1. requests'[s] = requests[s] /\ WellFormed(requests[s])
      BY <1>9, <2>2 DEF ServerInv, RequestsWellFormed
    <3> QED
      BY <1>3, <1>4, <3>1 DEF WellFormed
  <2> QED
    BY <2>1, <2>2
<1>11. ran' \subseteq 1..Len(submitted') /\ abandoned' \subseteq 1..Len(submitted')
  BY <1>3, <1>4 DEF ReceiveTarget, ServerInv, ServerTypeOK
<1> QED
  BY <1>4, <1>8, <1>10, <1>11 DEF ReceiveTarget, ServerInv, ServerTypeOK

LEMMA EditConnectionReadKeeps ==
  ASSUME ServerInv, StoreTypeOK, NEW r \in Requests, EditConnectionRead(r)
  PROVE  ServerInv'
<1>1. CASE Respond(r)
  BY <1>1, RespondKeeps DEF EditConnectionRead
<1>2. CASE ~Respond(r)
  <2>1. PICK c \in DOMAIN connections, password \in Secrets :
          Become(r, [requests[r] EXCEPT
                       !.at = "update", !.id = c, !.password = password,
                       !.existing = connections[c].password])
    BY <1>2 DEF EditConnectionRead
  <2> DEFINE old == connections[c].password
             q == [requests[r] EXCEPT !.at = "update", !.id = c,
                                      !.password = password, !.existing = old]
  <2>2. c \in ConnectionIds /\ c \in Nat /\ old \in Secrets
    BY StoreAssumption DEF StoreTypeOK, ConnectionIds, Connection
  <2>3. requests[r] \in Request /\ WellFormed(requests[r])
    BY DEF ServerInv, ServerTypeOK, RequestsWellFormed
  <2>4. /\ q \in Request
        /\ q.op = requests[r].op /\ q.claims = requests[r].claims
        /\ q.statement = requests[r].statement /\ q.at = "update" /\ q.id = c
    BY <2>2, <2>3 DEF Request
  <2>5. WellFormed(q)
    BY <2>2, <2>3, <2>4 DEF WellFormed
  <2> QED
    BY <2>1, <2>4, <2>5, BecomeKeeps DEF EditConnectionRead
<1> QED
  BY <1>1, <1>2

LEMMA CheckAccessKeeps ==
  ASSUME ServerInv, NEW r \in Requests, CheckAccess(r)
  PROVE  ServerInv'
<1> DEFINE q == [requests[r] EXCEPT !.at = "audit", !.outcome = "refused"]
<1>1. CASE Respond(r)
  BY <1>1, RespondKeeps DEF CheckAccess
<1>2. CASE Continue(r, "connect")
  BY <1>2, ContinueKeeps DEF CheckAccess
<1>3. CASE IsWrite(r) /\ Become(r, q)
  <2>1. requests[r] \in Request /\ WellFormed(requests[r])
    BY DEF ServerInv, ServerTypeOK, RequestsWellFormed
  <2>2. /\ q \in Request
        /\ q.op = requests[r].op /\ q.claims = requests[r].claims
        /\ q.statement = requests[r].statement /\ q.at = "audit"
        /\ q.id = requests[r].id
    BY <2>1 DEF Request, Outcomes
  <2>3. WellFormed(q)
    BY <1>3, <2>1, <2>2 DEF WellFormed, CheckAccess, IsWrite
  <2> QED
    BY <1>3, <2>2, <2>3, BecomeKeeps DEF CheckAccess
<1> QED
  BY <1>1, <1>2, <1>3 DEF CheckAccess

LEMMA ConnectKeeps ==
  ASSUME ServerInv, NEW r \in Requests, Connect(r)
  PROVE  ServerInv'
<1>1. CASE Respond(r)
  BY <1>1, RespondKeeps DEF Connect
<1>2. CASE Continue(r, "execute")
  BY <1>2, ContinueKeeps DEF Connect
<1> QED
  BY <1>1, <1>2 DEF Connect

LEMMA ExecuteWriteKeeps ==
  ASSUME ServerInv, NEW r \in Requests, ExecuteWrite(r)
  PROVE  ServerInv'
<1>1. PICK outcome \in {"ok", "failed"}, effect \in BOOLEAN :
        /\ ran' = IF effect THEN ran \cup {requests[r].statement} ELSE ran
        /\ Become(r, [requests[r] EXCEPT !.at = "audit", !.outcome = outcome])
  BY DEF ExecuteWrite
<1> DEFINE q == [requests[r] EXCEPT !.at = "audit", !.outcome = outcome]
<1>2. requests[r] \in Request /\ WellFormed(requests[r])
  BY DEF ServerInv, ServerTypeOK, RequestsWellFormed
<1>3. /\ q \in Request
      /\ q.op = requests[r].op /\ q.claims = requests[r].claims
      /\ q.statement = requests[r].statement /\ q.at = "audit"
      /\ q.id = requests[r].id
  BY <1>2 DEF Request, Outcomes
<1>4. requests[r].statement \in 1..Len(submitted)
  <2>1. Len(submitted) \in Nat
    BY LenProperties DEF ServerInv, ServerTypeOK
  <2> QED
    BY <1>2, <2>1 DEF WellFormed, ExecuteWrite, IsWrite
<1>5. WellFormed(q)
  BY <1>2, <1>3 DEF WellFormed, ExecuteWrite, IsWrite, Serves
<1>6. ran' \subseteq 1..Len(submitted)
  BY <1>1, <1>4 DEF ServerInv, ServerTypeOK
<1>7. requests' \in [Requests -> Request]
  BY <1>1, <1>3 DEF Become, ServerInv, ServerTypeOK
<1>8. \A s \in Requests : requests'[s] = IF s = r THEN q ELSE requests[s]
  BY <1>1 DEF Become, ServerInv, ServerTypeOK
<1>9. RequestsWellFormed'
  BY <1>5, <1>8 DEF ExecuteWrite, ServerInv, RequestsWellFormed, WellFormed
<1> QED
  BY <1>6, <1>7, <1>9 DEF ExecuteWrite, ServerInv, ServerTypeOK

LEMMA HandleKeeps ==
  ASSUME ServerInv, StoreTypeOK, NEW r \in Requests, Handle(r)
  PROVE  ServerInv'
<1>1. CASE \/ CreateUser(r) \/ ResetUserPassword(r) \/ HandleDeleteUser(r)
           \/ CreateConnection(r) \/ EditConnectionWrite(r)
           \/ HandleDeleteConnection(r) \/ HandleSetPermission(r)
           \/ ExecuteRead(r) \/ RecordAudit(r)
  BY <1>1, RespondKeeps
     DEF CreateUser, ResetUserPassword, HandleDeleteUser, CreateConnection,
         EditConnectionWrite, HandleDeleteConnection, HandleSetPermission,
         ExecuteRead, RecordAudit
<1> QED
  BY <1>1, LoginIssueKeeps, EditConnectionReadKeeps, CheckAccessKeeps,
     ConnectKeeps, ExecuteWriteKeeps DEF Handle

LEMMA NextKeeps ==
  ASSUME ServerInv, StoreTypeOK, [Next]_vars
  PROVE  ServerInv'
<1>1. CASE UNCHANGED vars
  BY <1>1 DEF vars, serverVars, ServerInv, ServerTypeOK, RequestsWellFormed,
     WellFormed
<1> QED
  BY <1>1, BootKeeps, CrashKeeps, TickKeeps, LoginLookupKeeps,
     ReceiveAdminKeeps, ReceiveTargetKeeps, HandleKeeps DEF Next, Receive

----------------------------------------------------------------------------
(* Theorems *)

LEMMA InitInv == Init => StoreTypeOK /\ ServerInv /\ ReferentialIntegrity
<1> SUFFICES ASSUME Init PROVE StoreTypeOK /\ ServerInv /\ ReferentialIntegrity
  OBVIOUS
<1>1. StoreTypeOK /\ ReferentialIntegrity
  BY StoreInitTypeOK DEF Init, StoreInit, ReferentialIntegrity
<1>2. submitted = << >> /\ Len(submitted) = 0
  BY DEF Init
<1>3. submitted \in Seq([user : UserIds, connection : ConnectionIds])
  BY <1>2
<1>4. requests \in [Requests -> Request]
  BY IdleRequest DEF Init
<1>5. ServerTypeOK
  <2>1. now \in 0..MaxTime /\ Len(submitted) <= MaxStatements
    BY <1>2, HttpApiAssumption, StoreAssumption DEF Init
  <2>2. serving \in BOOLEAN /\ tokens = {} /\ ran = {} /\ abandoned = {}
    BY DEF Init
  <2> QED
    BY <1>3, <1>4, <2>1, <2>2 DEF ServerTypeOK
<1>6. RequestsWellFormed
  BY <1>2 DEF Init, RequestsWellFormed, WellFormed, Idle, TargetOperations
<1> QED
  BY <1>1, <1>5, <1>6 DEF ServerInv

LEMMA InvariantHolds == Spec => [](StoreTypeOK /\ ServerInv)
<1>1. Init => StoreTypeOK /\ ServerInv
  BY InitInv
<1>2. StoreTypeOK /\ ServerInv /\ [Next]_vars => (StoreTypeOK /\ ServerInv)'
  BY NextKeeps, NextStatement, StoreNextTypeOK
<1> QED
  BY <1>1, <1>2, PTL DEF Spec

\* Store, tokens, requests and the ghosts of writes keep their shape.
THEOREM TypeCorrect == Spec => []TypeOK
<1>1. StoreTypeOK /\ ServerInv => TypeOK
  BY TypeOKParts DEF ServerInv
<1> QED
  BY <1>1, InvariantHolds, PTL

\* The server is a client of the store: whatever it does, however it crashes
\* and restarts, the tables change only by the statements of the store
\* package, one at a time.
THEOREM ServerUsesStore == Spec => StoreSpec
<1>1. Init => StoreInit
  BY DEF Init
<1>2. ServerInv /\ [Next]_vars => [StoreNext]_storeVars
  BY NextStatement
<1> QED
  BY <1>1, <1>2, InvariantHolds, PTL DEF Spec, StoreSpec

\* No grant and no audit entry refers to a row that is gone, with the whole
\* server running on the store.
THEOREM ReferencesSound == Spec => []ReferentialIntegrity
BY ServerUsesStore, StoreReferencesSound, PTL

\* AUTOINCREMENT over the server's whole life, restarts included.
THEOREM IdsRetired == Spec => IdsStayRetired
BY ServerUsesStore, StoreIdsRetired, PTL

\* Whatever requests run at the same time, and crash, editing a connection
\* costs nobody a grant on it.
THEOREM GrantsSurvive == Spec => GrantsOutliveEdits
BY ServerUsesStore, StoreGrantsOutliveEdits, PTL

----------------------------------------------------------------------------
(* Tokens.  The claims of a token, and those a request carries, are of a   *)
(* user the counter has passed: the row they name is theirs or is gone.    *)

Genuine(claims, table, seq) ==
  /\ claims.user \in 1..seq
  /\ claims.user \in DOMAIN table =>
       /\ table[claims.user].name = claims.name
       /\ table[claims.user].admin = claims.admin

ClaimsGenuine ==
  /\ \A t \in tokens : Genuine(t.claims, users, userSeq)
  /\ \A r \in Requests :
       requests[r].op # "none" => Genuine(requests[r].claims, users, userSeq)

LEMMA GenuineKept ==
  ASSUME StoreTypeOK, [StoreNext]_storeVars,
         NEW claims, Genuine(claims, users, userSeq)
  PROVE  Genuine(claims, users', userSeq')
<1>1. userSeq \in Nat /\ userSeq' \in Nat
  BY StepIdentities, StoreAssumption DEF StoreTypeOK
<1>2. claims.user \in 1..userSeq'
  BY <1>1, StepIdentities DEF Genuine
<1>3. claims.user # userSeq + 1
  BY <1>1 DEF Genuine
<1> QED
  BY <1>2, <1>3, StepIdentities DEF Genuine

\* A step that hands out no claims: the requests it leaves carry those they
\* had, or those of a token.
LEMMA OldClaims ==
  ASSUME StoreTypeOK, ServerInv, [Next]_vars, ClaimsGenuine,
         tokens' = tokens,
         \A r \in Requests : requests'[r].op # "none" =>
           \/ /\ requests[r].op # "none"
              /\ requests'[r].claims = requests[r].claims
           \/ \E t \in tokens : requests'[r].claims = t.claims
  PROVE  ClaimsGenuine'
<1>1. [StoreNext]_storeVars
  BY NextStatement
<1>2. ASSUME NEW t \in tokens PROVE Genuine(t.claims, users', userSeq')
  BY <1>1, GenuineKept DEF ClaimsGenuine
<1>3. ASSUME NEW r \in Requests, requests'[r].op # "none"
      PROVE  Genuine(requests'[r].claims, users', userSeq')
  <2>1. Genuine(requests'[r].claims, users, userSeq)
    BY <1>3 DEF ClaimsGenuine
  <2> QED
    BY <1>1, <2>1, GenuineKept
<1> QED
  BY <1>2, <1>3 DEF ClaimsGenuine

LEMMA LoginLookupClaims ==
  ASSUME StoreTypeOK, ServerInv, ClaimsGenuine, NEW r \in Requests, LoginLookup(r)
  PROVE  ClaimsGenuine'
<1>1. PICK u \in DOMAIN users :
        Become(r, [Idle EXCEPT
                       !.op = "login", !.at = "issue",
                       !.claims = [user |-> u, name |-> users[u].name,
                                   admin |-> users[u].admin]])
  BY DEF LoginLookup
<1> DEFINE claims == [user |-> u, name |-> users[u].name, admin |-> users[u].admin]
<1>2. UNCHANGED <<users, userSeq, tokens>>
  BY DEF LoginLookup, storeVars
<1>3. Genuine(claims, users, userSeq)
  BY StoreAssumption DEF Genuine, StoreTypeOK
<1>4. \A s \in Requests : \/ s = r /\ requests'[s].claims = claims
                          \/ s # r /\ requests'[s] = requests[s]
  BY <1>1 DEF Become, Idle, ServerInv, ServerTypeOK
<1> QED
  BY <1>2, <1>3, <1>4 DEF ClaimsGenuine

LEMMA LoginIssueClaims ==
  ASSUME StoreTypeOK, ServerInv, ClaimsGenuine, NEW r \in Requests, LoginIssue(r)
  PROVE  ClaimsGenuine'
<1>1. UNCHANGED <<users, userSeq>>
  BY DEF LoginIssue, storeVars
<1>2. Genuine(requests[r].claims, users, userSeq)
  BY DEF LoginIssue, Serves, ClaimsGenuine
<1>3. \A t \in tokens' : t \in tokens \/ t.claims = requests[r].claims
  BY DEF LoginIssue
<1>4. \A s \in Requests : \/ requests'[s].op = "none"
                          \/ requests'[s] = requests[s]
  BY DEF LoginIssue, Respond, Become, Idle, ServerInv, ServerTypeOK
<1> QED
  BY <1>1, <1>2, <1>3, <1>4 DEF ClaimsGenuine

\* What a goroutine does with the request of another: nothing.
LEMMA BecomeClaims ==
  ASSUME ServerInv, NEW r \in Requests, NEW q, Become(r, q),
         q.op = "none" \/ (requests[r].op # "none" /\ q.claims = requests[r].claims)
           \/ \E t \in tokens : q.claims = t.claims
  PROVE  \A s \in Requests : requests'[s].op # "none" =>
           \/ requests[s].op # "none" /\ requests'[s].claims = requests[s].claims
           \/ \E t \in tokens : requests'[s].claims = t.claims
<1>1. \A s \in Requests : requests'[s] = IF s = r THEN q ELSE requests[s]
  BY DEF Become, ServerInv, ServerTypeOK
<1> QED
  BY <1>1

LEMMA HandleClaims ==
  ASSUME StoreTypeOK, ServerInv, [Next]_vars, ClaimsGenuine,
         NEW r \in Requests, Handle(r)
  PROVE  ClaimsGenuine'
<1> DEFINE Same(q) == q.claims = requests[r].claims
<1>1. requests[r] \in Request
  BY DEF ServerInv, ServerTypeOK
<1>2. Idle.op = "none"
  BY DEF Idle
<1>3. CASE LoginIssue(r)
  BY <1>3, LoginIssueClaims
<1>4. CASE Respond(r) /\ tokens' = tokens
  BY <1>2, <1>4, BecomeClaims, OldClaims DEF Respond
<1>5. ASSUME NEW q, Become(r, q), Same(q), requests[r].op # "none", tokens' = tokens
      PROVE  ClaimsGenuine'
  BY <1>5, BecomeClaims, OldClaims
<1>6. CASE EditConnectionRead(r)
  <2>1. ASSUME NEW c \in ConnectionIds, NEW password \in Secrets,
               Become(r, [requests[r] EXCEPT
                            !.at = "update", !.id = c, !.password = password,
                            !.existing = connections[c].password])
        PROVE  ClaimsGenuine'
    <3>1. Same([requests[r] EXCEPT
                  !.at = "update", !.id = c, !.password = password,
                  !.existing = connections[c].password])
      BY <1>1 DEF Request
    <3> QED
      BY <1>5, <1>6, <2>1, <3>1 DEF EditConnectionRead, Serves
  <2> QED
    BY <1>4, <1>6, <2>1 DEF EditConnectionRead
<1>7. CASE CheckAccess(r)
  <2>1. Same([requests[r] EXCEPT !.at = "audit", !.outcome = "refused"])
    BY <1>1 DEF Request
  <2>2. Same([requests[r] EXCEPT !.at = "connect"])
    BY <1>1 DEF Request
  <2>3. requests[r].op # "none" /\ tokens' = tokens
    BY <1>7 DEF CheckAccess, TargetOperations
  <2> QED
    BY <1>4, <1>5, <1>7, <2>1, <2>2, <2>3 DEF CheckAccess, Continue
<1>8. CASE Connect(r)
  <2>1. Same([requests[r] EXCEPT !.at = "execute"])
    BY <1>1 DEF Request
  <2>2. requests[r].op # "none" /\ tokens' = tokens
    BY <1>8 DEF Connect, TargetOperations
  <2> QED
    BY <1>4, <1>5, <1>8, <2>1, <2>2 DEF Connect, Continue
<1>9. CASE ExecuteWrite(r)
  <2>1. \A outcome \in {"ok", "failed"} :
          Same([requests[r] EXCEPT !.at = "audit", !.outcome = outcome])
    BY <1>1 DEF Request
  <2>2. requests[r].op # "none" /\ tokens' = tokens
    BY <1>9 DEF ExecuteWrite, Serves
  <2> QED
    BY <1>5, <1>9, <2>1, <2>2 DEF ExecuteWrite
<1>10. CASE \/ CreateUser(r) \/ ResetUserPassword(r) \/ HandleDeleteUser(r)
            \/ CreateConnection(r) \/ EditConnectionWrite(r)
            \/ HandleDeleteConnection(r) \/ HandleSetPermission(r)
            \/ ExecuteRead(r) \/ RecordAudit(r)
  BY <1>4, <1>10
     DEF CreateUser, ResetUserPassword, HandleDeleteUser, CreateConnection,
         EditConnectionWrite, HandleDeleteConnection, HandleSetPermission,
         ExecuteRead, RecordAudit
<1> QED
  BY <1>3, <1>6, <1>7, <1>8, <1>9, <1>10 DEF Handle

\* Nobody gets claims but by logging in or from a token.
LEMMA ClaimsKept ==
  ASSUME StoreTypeOK, ServerInv, [Next]_vars, ClaimsGenuine
  PROVE  ClaimsGenuine'
<1>1. CASE Boot \/ Tick \/ UNCHANGED vars
  <2>1. tokens' = tokens /\ requests' = requests
    BY <1>1 DEF Boot, Tick, vars, serverVars
  <2> QED
    BY <2>1, OldClaims
<1>2. CASE Crash
  <2>1. tokens' = tokens /\ \A r \in Requests : requests'[r].op = "none"
    BY <1>2 DEF Crash, Idle
  <2> QED
    BY <2>1, OldClaims
<1>3. ASSUME NEW r \in Requests, ReceiveAdmin(r) PROVE ClaimsGenuine'
  <2>1. PICK t \in tokens, op \in Operations \cap AdminOperations :
          Become(r, [Idle EXCEPT !.op = op, !.at = "start", !.claims = t.claims])
    BY <1>3 DEF ReceiveAdmin
  <2>2. [Idle EXCEPT !.op = op, !.at = "start", !.claims = t.claims].claims = t.claims
    BY DEF Idle
  <2> QED
    BY <1>3, <2>1, <2>2, BecomeClaims, OldClaims DEF ReceiveAdmin
<1>4. ASSUME NEW r \in Requests, ReceiveTarget(r) PROVE ClaimsGenuine'
  <2>1. PICK t \in tokens, op \in Operations \cap TargetOperations,
             c \in ConnectionIds, isWrite \in BOOLEAN :
          Become(r, [Idle EXCEPT !.op = op, !.at = "start",
                                 !.claims = t.claims, !.id = c,
                                 !.statement = IF isWrite THEN Len(submitted) + 1
                                                          ELSE 0])
    BY <1>4 DEF ReceiveTarget
  <2>2. [Idle EXCEPT !.op = op, !.at = "start", !.claims = t.claims, !.id = c,
                     !.statement = IF isWrite THEN Len(submitted) + 1
                                              ELSE 0].claims = t.claims
    BY DEF Idle
  <2> QED
    BY <1>4, <2>1, <2>2, BecomeClaims, OldClaims DEF ReceiveTarget
<1> QED
  BY <1>1, <1>2, <1>3, <1>4, LoginLookupClaims, HandleClaims DEF Next, Receive

LEMMA ClaimsStayGenuine == Spec => []ClaimsGenuine
<1>1. Init => ClaimsGenuine
  BY DEF Init, ClaimsGenuine, Idle
<1>2. StoreTypeOK /\ ServerInv /\ ClaimsGenuine /\ [Next]_vars => ClaimsGenuine'
  BY ClaimsKept
<1> QED
  BY <1>1, <1>2, InvariantHolds, PTL DEF Spec

\* Whatever was deleted and created since it was issued, the id in a token
\* denotes the account it was issued to or none: name and role are the row's.
THEOREM TokensSound == Spec => []TokensNameTheirUser
<1>1. ClaimsGenuine => TokensNameTheirUser
  BY DEF ClaimsGenuine, Genuine, TokensNameTheirUser
<1> QED
  BY <1>1, ClaimsStayGenuine, PTL

----------------------------------------------------------------------------
(* Permissions are checked once and used several statements later: proofs   *)
(* that what is done was granted at some instant since the request came.    *)

\* The statements a handler issues once it has looked at the Permission.
AfterCheck == {"connect", "execute", "audit"}

\* What a request that has passed the check, or was refused, leaves in held.
Covered(q, window) ==
  q.at \in AfterCheck =>
    /\ q.op \in TargetOperations
    /\ q.at = "audit" => q.statement # 0
    /\ IF q.at = "audit" /\ q.outcome = "refused" THEN "read" \in window
       ELSE IF q.statement # 0 THEN "write" \in window
       ELSE window \cap {"read", "write"} # {}

WindowInv ==
  /\ held \in [Requests -> SUBSET Levels]
  /\ \A r \in Requests : Covered(requests[r], held[r])

----------------------------------------------------------------------------
(* What a step does to the requests. *)

\* A request is left alone, or is not past the check, or goes on to the
\* target, or from there to its audit entry.
Moves(old, new) ==
  \/ new = old
  \/ new.at \notin AfterCheck
  \/ /\ new.op = old.op
     /\ new.statement = old.statement
     /\ \/ old.at = "connect" /\ new.at = "execute"
        \/ /\ old.at = "execute" /\ new.at = "audit"
           /\ new.outcome # "refused" /\ new.statement # 0

LEMMA BecomeMoves ==
  ASSUME ServerInv, NEW r \in Requests, NEW q, Become(r, q),
         Moves(requests[r], q)
  PROVE  \A s \in Requests : Moves(requests[s], requests'[s])
<1> TAKE s \in Requests
<1>1. CASE s = r
  BY <1>1, OneRequestChanges
<1>2. CASE s # r
  <2>1. requests'[s] = requests[s]
    BY <1>2, OneRequestChanges
  <2> QED
    BY <2>1 DEF Moves
<1> QED
  BY <1>1, <1>2

LEMMA RespondMoves ==
  ASSUME ServerInv, NEW r \in Requests, Respond(r)
  PROVE  \A s \in Requests : Moves(requests[s], requests'[s])
<1>1. Moves(requests[r], Idle)
  BY DEF Moves, Idle, AfterCheck
<1> QED
  BY <1>1, BecomeMoves DEF Respond

LEMMA HandleMoves ==
  ASSUME ServerInv, NEW r \in Requests, Handle(r)
  PROVE  \/ CheckAccess(r)
         \/ \A s \in Requests : Moves(requests[s], requests'[s])
<1> DEFINE q == requests[r]
<1>1. q \in Request
  BY DEF ServerInv, ServerTypeOK
<1>2. CASE Respond(r)
  BY <1>2, RespondMoves
<1>3. CASE EditConnectionRead(r)
  <2>1. ASSUME NEW c, NEW password,
               Become(r, [q EXCEPT !.at = "update", !.id = c,
                                   !.password = password,
                                   !.existing = connections[c].password])
        PROVE  \A s \in Requests : Moves(requests[s], requests'[s])
    <3>1. Moves(q, [q EXCEPT !.at = "update", !.id = c, !.password = password,
                             !.existing = connections[c].password])
      BY <1>1 DEF Moves, Request, AfterCheck
    <3> QED
      BY <2>1, <3>1, BecomeMoves
  <2> QED
    BY <1>2, <1>3, <2>1 DEF EditConnectionRead
<1>4. CASE Connect(r)
  <2>1. Continue(r, "execute") => Moves(q, [q EXCEPT !.at = "execute"])
    BY <1>1, <1>4 DEF Connect, Moves, Request
  <2> QED
    BY <1>2, <1>4, <2>1, BecomeMoves DEF Connect, Continue
<1>5. CASE ExecuteWrite(r)
  <2>1. PICK outcome \in {"ok", "failed"} :
          Become(r, [q EXCEPT !.at = "audit", !.outcome = outcome])
    BY <1>5 DEF ExecuteWrite
  <2>2. Moves(q, [q EXCEPT !.at = "audit", !.outcome = outcome])
    BY <1>1, <1>5 DEF ExecuteWrite, Serves, IsWrite, Moves, Request
  <2> QED
    BY <2>1, <2>2, BecomeMoves
<1>6. CASE \/ LoginIssue(r) \/ CreateUser(r) \/ ResetUserPassword(r)
           \/ HandleDeleteUser(r) \/ CreateConnection(r)
           \/ EditConnectionWrite(r) \/ HandleDeleteConnection(r)
           \/ HandleSetPermission(r) \/ ExecuteRead(r) \/ RecordAudit(r)
  BY <1>2, <1>6 DEF LoginIssue, CreateUser, ResetUserPassword,
     HandleDeleteUser, CreateConnection, EditConnectionWrite,
     HandleDeleteConnection, HandleSetPermission, ExecuteRead, RecordAudit
<1> QED
  BY <1>3, <1>4, <1>5, <1>6 DEF Handle

LEMMA ReceiveMoves ==
  ASSUME ServerInv, NEW r \in Requests, Receive(r)
  PROVE  \A s \in Requests : Moves(requests[s], requests'[s])
<1>1. ASSUME NEW q, Become(r, q), q.at \notin AfterCheck
      PROVE  \A s \in Requests : Moves(requests[s], requests'[s])
  <2>1. Moves(requests[r], q)
    BY <1>1 DEF Moves
  <2> QED
    BY <1>1, <2>1, BecomeMoves
<1>2. CASE LoginLookup(r)
  <2>1. PICK claims : Become(r, [Idle EXCEPT !.op = "login", !.at = "issue",
                                             !.claims = claims])
    BY <1>2 DEF LoginLookup
  <2>2. [Idle EXCEPT !.op = "login", !.at = "issue", !.claims = claims].at
          = "issue"
    BY DEF Idle
  <2> QED
    BY <1>1, <2>1, <2>2 DEF AfterCheck
<1>3. CASE ReceiveAdmin(r)
  <2>1. PICK claims, op :
          Become(r, [Idle EXCEPT !.op = op, !.at = "start", !.claims = claims])
    BY <1>3 DEF ReceiveAdmin
  <2>2. [Idle EXCEPT !.op = op, !.at = "start", !.claims = claims].at = "start"
    BY DEF Idle
  <2> QED
    BY <1>1, <2>1, <2>2 DEF AfterCheck
<1>4. CASE ReceiveTarget(r)
  <2>1. PICK claims, op, c, n :
          Become(r, [Idle EXCEPT !.op = op, !.at = "start", !.claims = claims,
                                 !.id = c, !.statement = n])
    BY <1>4 DEF ReceiveTarget
  <2>2. [Idle EXCEPT !.op = op, !.at = "start", !.claims = claims,
                     !.id = c, !.statement = n].at = "start"
    BY DEF Idle
  <2> QED
    BY <1>1, <2>1, <2>2 DEF AfterCheck
<1> QED
  BY <1>2, <1>3, <1>4 DEF Receive

LEMMA NextMoves ==
  ASSUME ServerInv, [Next]_vars
  PROVE  \/ \E r \in Requests : CheckAccess(r)
         \/ \A s \in Requests : Moves(requests[s], requests'[s])
<1>1. CASE Boot \/ Tick \/ UNCHANGED vars
  <2>1. requests' = requests
    BY <1>1 DEF Boot, Tick, vars, serverVars
  <2> QED
    BY <2>1 DEF Moves
<1>2. CASE Crash
  <2>1. \A s \in Requests : requests'[s].at = "idle"
    BY <1>2 DEF Crash, Idle
  <2> QED
    BY <2>1 DEF Moves, AfterCheck
<1> QED
  BY <1>1, <1>2, ReceiveMoves, HandleMoves DEF Next

----------------------------------------------------------------------------
(* The window. *)

\* A window gains the level of the moment, and is emptied only with its
\* request.
LEMMA WindowGrows ==
  ASSUME [Next /\ WindowNext]_windowVars, held \in [Requests -> SUBSET Levels],
         StoreTypeOK'
  PROVE  /\ held' \in [Requests -> SUBSET Levels]
         /\ \A r \in Requests :
              requests'[r].op \in TargetOperations => held[r] \subseteq held'[r]
<1>1. CASE UNCHANGED windowVars
  BY <1>1 DEF windowVars
<1>2. CASE WindowNext
  <2>1. \A r \in Requests : LevelOf(r)' \in Levels
    BY DEF LevelOf, GetPermission, Levels, StoreTypeOK
  <2> QED
    BY <1>2, <2>1 DEF WindowNext
<1> QED
  BY <1>1, <1>2

\* A request that moves on without a check was covered already.
LEMMA MovesCovered ==
  ASSUME NEW old, NEW new, NEW before, NEW after, Moves(old, new),
         Covered(old, before),
         new.op \in TargetOperations => before \subseteq after
  PROVE  Covered(new, after)
<1>1. CASE new = old
  <2>1. CASE new.op \in TargetOperations
    BY <1>1, <2>1 DEF Covered
  <2>2. CASE new.op \notin TargetOperations
    BY <1>1, <2>2 DEF Covered
  <2> QED
    BY <2>1, <2>2
<1>2. CASE new.at \notin AfterCheck
  BY <1>2 DEF Covered
<1>3. CASE /\ new.op = old.op
           /\ new.statement = old.statement
           /\ old.at = "connect" /\ new.at = "execute"
  BY <1>3 DEF Covered, AfterCheck
<1>4. CASE /\ new.op = old.op
           /\ new.statement = old.statement
           /\ old.at = "execute" /\ new.at = "audit"
           /\ new.outcome # "refused" /\ new.statement # 0
  BY <1>4 DEF Covered, AfterCheck
<1> QED
  BY <1>1, <1>2, <1>3, <1>4 DEF Moves

\* The check: the level it reads is in the window when it is passed.
LEMMA CheckCovered ==
  ASSUME ServerInv, NEW r \in Requests, CheckAccess(r), WindowNext
  PROVE  Covered(requests'[r], held'[r])
<1> DEFINE old == requests[r]
           new == requests'[r]
           level == GetPermission(old.claims.user, old.id)
<1>1. old \in Request /\ old.op \in TargetOperations
  BY DEF ServerInv, ServerTypeOK, CheckAccess
<1>2. permissions' = permissions
  BY DEF CheckAccess, storeVars
<1>3. CASE Respond(r)
  <2>1. new = Idle
    BY <1>3, OneRequestChanges DEF Respond
  <2> QED
    BY <2>1 DEF Covered, AfterCheck, Idle
<1>4. ASSUME new.op = old.op, new.claims = old.claims, new.id = old.id,
             level # "none"
      PROVE  level \in held'[r]
  <2>1. LevelOf(r)' = level
    BY <1>2, <1>4 DEF LevelOf, GetPermission
  <2> QED
    BY <1>1, <1>4, <2>1 DEF WindowNext
<1>5. CASE /\ level = "read" /\ IsWrite(r)
           /\ Become(r, [old EXCEPT !.at = "audit", !.outcome = "refused"])
  <2>1. new = [old EXCEPT !.at = "audit", !.outcome = "refused"]
    BY <1>5, OneRequestChanges
  <2>2. /\ new.op = old.op /\ new.claims = old.claims /\ new.id = old.id
        /\ new.statement = old.statement
        /\ new.at = "audit" /\ new.outcome = "refused"
    BY <1>1, <2>1 DEF Request
  <2>3. "read" \in held'[r]
    BY <1>4, <1>5, <2>2
  <2> QED
    BY <1>1, <1>5, <2>2, <2>3 DEF Covered, IsWrite
<1>6. CASE /\ level = "write" \/ (level = "read" /\ ~IsWrite(r))
           /\ Continue(r, "connect")
  <2>1. new = [old EXCEPT !.at = "connect"]
    BY <1>6, OneRequestChanges DEF Continue
  <2>2. /\ new.op = old.op /\ new.claims = old.claims /\ new.id = old.id
        /\ new.statement = old.statement /\ new.at = "connect"
    BY <1>1, <2>1 DEF Request
  <2>3. level \in held'[r]
    BY <1>4, <1>6, <2>2
  <2> QED
    BY <1>1, <1>6, <2>2, <2>3 DEF Covered, IsWrite
<1> QED
  BY <1>3, <1>5, <1>6 DEF CheckAccess

LEMMA WindowInvKept ==
  ASSUME StoreTypeOK, ServerInv, WindowInv, [Next /\ WindowNext]_windowVars
  PROVE  WindowInv'
<1>1. [Next]_vars
  BY DEF windowVars, vars
<1>2. StoreTypeOK'
  BY <1>1, NextStatement, StoreNextTypeOK
<1>3. /\ held' \in [Requests -> SUBSET Levels]
      /\ \A r \in Requests :
           requests'[r].op \in TargetOperations => held[r] \subseteq held'[r]
  BY <1>2, WindowGrows DEF WindowInv
<1>4. CASE \A s \in Requests : Moves(requests[s], requests'[s])
  BY <1>3, <1>4, MovesCovered DEF WindowInv
<1>5. ASSUME NEW r \in Requests, CheckAccess(r), WindowNext PROVE WindowInv'
  <2>1. Covered(requests'[r], held'[r])
    BY <1>5, CheckCovered
  <2>2. ASSUME NEW s \in Requests, s # r PROVE Covered(requests'[s], held'[s])
    <3>1. requests'[s] = requests[s]
      BY <1>5, <2>2, OneRequestChanges DEF CheckAccess, Respond, Continue
    <3>2. Moves(requests[s], requests'[s])
      BY <3>1 DEF Moves
    <3> QED
      BY <1>3, <3>2, MovesCovered DEF WindowInv
  <2> QED
    BY <1>3, <2>1, <2>2 DEF WindowInv
<1>6. CASE UNCHANGED windowVars
  <2>1. UNCHANGED <<requests, held>>
    BY <1>6 DEF windowVars, vars, serverVars
  <2> QED
    BY <2>1 DEF WindowInv, Covered
<1> QED
  BY <1>1, <1>4, <1>5, <1>6, NextMoves

LEMMA InitWindowInv == Init /\ WindowInit => WindowInv
BY DEF Init, WindowInit, WindowInv, Covered, AfterCheck, Idle

\* Without the history variable, a behaviour is one of the server.
LEMMA WindowIsServer == SpecW => Spec
<1>1. [Next /\ WindowNext]_windowVars => [Next]_vars
  BY DEF windowVars
<1> QED
  BY <1>1, PTL DEF SpecW, Spec

LEMMA WindowInvHolds == SpecW => []WindowInv
<1>1. StoreTypeOK /\ ServerInv /\ WindowInv /\ [Next /\ WindowNext]_windowVars
      => WindowInv'
  BY WindowInvKept
<1> QED
  BY <1>1, InitWindowInv, WindowIsServer, InvariantHolds, PTL DEF SpecW

\* A statement reaches a target, and a write its entry as run, only if the
\* sender had the Permission for it at some instant since the request came,
\* whatever was granted, revoked, deleted, created or restarted meanwhile.
THEOREM RunsGranted == SpecW => []RunsOnlyWhenGranted
<1>1. WindowInv => RunsOnlyWhenGranted
  BY DEF WindowInv, Covered, AfterCheck, RunsOnlyWhenGranted, IsWrite
<1> QED
  BY <1>1, WindowInvHolds, PTL

\* A write is refused only if there was an instant when its sender had read
\* access and no more.
THEOREM RefusesReaders == SpecW => []RefusesOnlyReaders
<1>1. WindowInv => RefusesOnlyReaders
  BY DEF WindowInv, Covered, AfterCheck, RefusesOnlyReaders
<1> QED
  BY <1>1, WindowInvHolds, PTL

=============================================================================
