-------------------------- MODULE HttpAudit_proofs --------------------------
(***************************************************************************)
(* What the audit log says, and what it leaves out, for every number of    *)
(* goroutines and writes: proofs of AuditIsTruthful, WritesAccountedFor    *)
(* and of the refinement of AuditTrail.                                    *)
(***************************************************************************)
EXTENDS HttpApi_proofs

----------------------------------------------------------------------------
(* The inductive invariant: what is known of a write while it is served,   *)
(* and afterwards.                                                         *)

\* A write being served is the attempt that was submitted under its number; it
\* has no entry yet, and it has run only if its entry is the next statement,
\* with an outcome that fits.
Tracked(q) ==
  q.statement # 0 =>
    /\ q.op = "query"
    /\ submitted[q.statement].user = q.claims.user
    /\ submitted[q.statement].connection = q.id
    /\ ~Recorded(q.statement)
    /\ q.at = "execute" => q.id \in 1..connectionSeq
    /\ q.at # "audit" => q.statement \notin ran
    /\ q.at = "audit" => /\ q.outcome = "ok" => q.statement \in ran
                         /\ q.outcome = "refused" => q.statement \notin ran

\* No two requests serve one write.
ServedOnce ==
  \A r, s \in Requests :
    (requests[r].statement = requests[s].statement
       /\ requests[r].statement # 0) => r = s

\* An entry is of a write that was submitted.
EntriesSubmitted ==
  \A i \in DOMAIN auditLog : auditLog[i].statement \in 1..Len(submitted)

\* Writes come from users, and have run on connections, that there are or were.
SendersKnown ==
  /\ \A s \in 1..Len(submitted) : submitted[s].user \in 1..userSeq
  /\ \A s \in ran : submitted[s].connection \in 1..connectionSeq

WritesTracked == \A r \in Requests : Tracked(requests[r])

AuditInv ==
  /\ WritesTracked
  /\ ServedOnce
  /\ EntriesSubmitted
  /\ SendersKnown
  /\ AuditIsTruthful

----------------------------------------------------------------------------
(* What a step does to the log and to the requests. *)

\* ON DELETE SET NULL is the only way an entry changes.
Forgets(old, new) ==
  /\ new.statement = old.statement
  /\ new.outcome = old.outcome
  /\ new.user \in {Null, old.user}
  /\ new.connection \in {Null, old.connection}

LogForgets ==
  /\ DOMAIN auditLog' = DOMAIN auditLog
  /\ \A i \in DOMAIN auditLog : Forgets(auditLog[i], auditLog'[i])

\* A request is left alone, or is of no write any more and had nothing to
\* record, or is a write on its way to the target or refused.
Proceeds(old, new) ==
  \/ new = old
  \/ new.statement = 0 /\ (old.statement # 0 => old.at # "audit")
  \/ /\ new.statement = old.statement
     /\ new.op = old.op
     /\ new.claims = old.claims
     /\ new.id = old.id
     /\ \/ old.at = "start" /\ new.at = "connect"
        \/ old.at = "start" /\ new.at = "audit" /\ new.outcome = "refused"
        \/ old.at = "connect" /\ new.at = "execute" /\ old.id \in DOMAIN connections

\* Steps that no write is submitted, run, recorded or lost by.
QuietStep ==
  /\ UNCHANGED <<submitted, ran, abandoned>>
  /\ LogForgets
  /\ \A r \in Requests : Proceeds(requests[r], requests'[r])

\* A write is submitted.
Submits(r, t, c) ==
  /\ UNCHANGED <<storeVars, ran, abandoned>>
  /\ requests[r] = Idle
  /\ Become(r, [Idle EXCEPT !.op = "query", !.at = "start",
                            !.claims = t.claims, !.id = c,
                            !.statement = Len(submitted) + 1])
  /\ submitted' = Append(submitted, [user |-> t.claims.user, connection |-> c])

\* The log changes only by recordAudit and by deletions.
LEMMA LogSteps ==
  ASSUME ServerInv, [Next]_vars
  PROVE  \/ UNCHANGED auditLog
         \/ \E u \in UserIds : DeleteUser(u)
         \/ \E c \in ConnectionIds : DeleteConnection(c)
         \/ \E r \in Requests : RecordAudit(r)
<1> DEFINE Goal == \/ UNCHANGED auditLog
                   \/ \E u \in UserIds : DeleteUser(u)
                   \/ \E c \in ConnectionIds : DeleteConnection(c)
                   \/ \E r \in Requests : RecordAudit(r)
<1>1. CASE Boot \/ Crash \/ Tick \/ UNCHANGED vars
  BY <1>1 DEF Boot, Crash, Tick, vars, storeVars, InsertUser
<1>2. ASSUME NEW r \in Requests, Receive(r) PROVE Goal
  BY <1>2 DEF Receive, LoginLookup, ReceiveAdmin, ReceiveTarget, storeVars
<1>3. ASSUME NEW r \in Requests, Handle(r) PROVE Goal
  <2>1. CASE \/ LoginIssue(r) \/ EditConnectionRead(r) \/ CheckAccess(r)
             \/ Connect(r) \/ ExecuteRead(r) \/ ExecuteWrite(r)
    BY <2>1 DEF LoginIssue, EditConnectionRead, CheckAccess, Connect,
       ExecuteRead, ExecuteWrite, storeVars
  <2>2. CASE CreateUser(r)
    BY <2>2 DEF CreateUser, InsertUser, storeVars
  <2>3. CASE ResetUserPassword(r)
    BY <2>3 DEF ResetUserPassword, UpdateUserPassword
  <2>4. CASE HandleDeleteUser(r)
    BY <2>4 DEF HandleDeleteUser, storeVars
  <2>5. CASE CreateConnection(r)
    BY <2>5 DEF CreateConnection, InsertConnection, storeVars
  <2>6. CASE EditConnectionWrite(r)
    BY <2>6 DEF EditConnectionWrite, UpdateConnection, storeVars
  <2>7. CASE HandleDeleteConnection(r)
    BY <2>7 DEF HandleDeleteConnection
  <2>8. CASE HandleSetPermission(r)
    BY <2>8 DEF HandleSetPermission, SetPermission, RemovePermission,
       UpsertPermission, storeVars
  <2>9. CASE RecordAudit(r)
    BY <2>9
  <2> QED
    BY <1>3, <2>1, <2>2, <2>3, <2>4, <2>5, <2>6, <2>7, <2>8, <2>9 DEF Handle
<1> QED
  BY <1>1, <1>2, <1>3 DEF Next

LEMMA DeletionsForget ==
  ASSUME \/ UNCHANGED auditLog
         \/ \E u \in UserIds : DeleteUser(u)
         \/ \E c \in ConnectionIds : DeleteConnection(c),
         StoreTypeOK
  PROVE  LogForgets
<1>1. \A i \in DOMAIN auditLog : auditLog[i] \in AuditEntry
  BY LogEntries
<1>2. ASSUME NEW e \in AuditEntry, NEW id
      PROVE  Forgets(e, ForgetUser(e, id)) /\ Forgets(e, ForgetConnection(e, id))
  BY DEF Forgets, ForgetUser, ForgetConnection, AuditEntry
<1>3. CASE UNCHANGED auditLog
  BY <1>3 DEF LogForgets, Forgets
<1>4. CASE \E u \in UserIds : DeleteUser(u)
  BY <1>1, <1>2, <1>4 DEF DeleteUser, LogForgets
<1>5. CASE \E c \in ConnectionIds : DeleteConnection(c)
  BY <1>1, <1>2, <1>5 DEF DeleteConnection, LogForgets
<1> QED
  BY <1>3, <1>4, <1>5

LEMMA BecomeProceeds ==
  ASSUME ServerInv, NEW r \in Requests, NEW q, Become(r, q),
         Proceeds(requests[r], q)
  PROVE  \A s \in Requests : Proceeds(requests[s], requests'[s])
<1> TAKE s \in Requests
<1>1. CASE s = r
  BY <1>1, OneRequestChanges
<1>2. CASE s # r
  <2>1. requests'[s] = requests[s]
    BY <1>2, OneRequestChanges
  <2> QED
    BY <2>1 DEF Proceeds
<1> QED
  BY <1>1, <1>2

LEMMA RespondProceeds ==
  ASSUME ServerInv, NEW r \in Requests, Respond(r),
         requests[r].statement = 0 \/ requests[r].at # "audit"
  PROVE  \A s \in Requests : Proceeds(requests[s], requests'[s])
<1>1. Proceeds(requests[r], Idle)
  BY DEF Proceeds, Idle
<1> QED
  BY <1>1, BecomeProceeds DEF Respond

\* Everything a goroutine does but to run a write or to record it.
LEMMA HandleProceeds ==
  ASSUME ServerInv, WritesTracked, NEW r \in Requests, Handle(r)
  PROVE  \/ RecordAudit(r) \/ ExecuteWrite(r)
         \/ /\ UNCHANGED <<submitted, ran, abandoned>>
            /\ \A s \in Requests : Proceeds(requests[s], requests'[s])
<1> DEFINE q == requests[r]
           Quiet == /\ UNCHANGED <<submitted, ran, abandoned>>
                    /\ \A s \in Requests : Proceeds(requests[s], requests'[s])
<1>1. q \in Request
  BY DEF ServerInv, ServerTypeOK
<1>2. q.op # "query" => q.statement = 0
  BY DEF WritesTracked, Tracked
<1>3. CASE \/ LoginIssue(r) \/ CreateUser(r) \/ ResetUserPassword(r)
           \/ HandleDeleteUser(r) \/ CreateConnection(r)
           \/ EditConnectionWrite(r) \/ HandleDeleteConnection(r)
           \/ HandleSetPermission(r)
  <2>1. q.op # "query" /\ Respond(r) /\ UNCHANGED <<submitted, ran, abandoned>>
    BY <1>3 DEF LoginIssue, CreateUser, ResetUserPassword, HandleDeleteUser,
       CreateConnection, EditConnectionWrite, HandleDeleteConnection,
       HandleSetPermission, Serves
  <2> QED
    BY <1>2, <2>1, RespondProceeds
<1>4. CASE EditConnectionRead(r)
  <2>1. q.statement = 0 /\ UNCHANGED <<submitted, ran, abandoned>>
    BY <1>2, <1>4 DEF EditConnectionRead, Serves
  <2>2. CASE Respond(r)
    BY <2>1, <2>2, RespondProceeds
  <2>3. ASSUME NEW c, NEW password,
               Become(r, [q EXCEPT !.at = "update", !.id = c,
                                   !.password = password,
                                   !.existing = connections[c].password])
        PROVE  Quiet
    <3> DEFINE new == [q EXCEPT !.at = "update", !.id = c, !.password = password,
                                !.existing = connections[c].password]
    <3>1. Proceeds(q, new)
      BY <1>1, <2>1 DEF Proceeds, Request
    <3> QED
      BY <2>1, <2>3, <3>1, BecomeProceeds
  <2> QED
    BY <1>4, <2>1, <2>2, <2>3 DEF EditConnectionRead
<1>5. CASE CheckAccess(r)
  <2>1. q.at = "start" /\ UNCHANGED <<submitted, ran, abandoned>>
    BY <1>5 DEF CheckAccess
  <2>2. CASE Respond(r)
    BY <2>1, <2>2, RespondProceeds
  <2>3. CASE Become(r, [q EXCEPT !.at = "audit", !.outcome = "refused"])
    <3>1. Proceeds(q, [q EXCEPT !.at = "audit", !.outcome = "refused"])
      BY <1>1, <2>1 DEF Proceeds, Request
    <3> QED
      BY <2>1, <2>3, <3>1, BecomeProceeds
  <2>4. CASE Continue(r, "connect")
    <3>1. Proceeds(q, [q EXCEPT !.at = "connect"])
      BY <1>1, <2>1 DEF Proceeds, Request
    <3> QED
      BY <2>1, <2>4, <3>1, BecomeProceeds DEF Continue
  <2> QED
    BY <1>5, <2>2, <2>3, <2>4 DEF CheckAccess
<1>6. CASE Connect(r)
  <2>1. q.at = "connect" /\ UNCHANGED <<submitted, ran, abandoned>>
    BY <1>6 DEF Connect
  <2>2. CASE Respond(r)
    BY <2>1, <2>2, RespondProceeds
  <2>3. CASE q.id \in DOMAIN connections /\ Continue(r, "execute")
    <3>1. Proceeds(q, [q EXCEPT !.at = "execute"])
      BY <1>1, <2>1, <2>3 DEF Proceeds, Request
    <3> QED
      BY <2>1, <2>3, <3>1, BecomeProceeds DEF Continue
  <2> QED
    BY <1>6, <2>2, <2>3 DEF Connect
<1>7. CASE ExecuteRead(r)
  <2>1. q.statement = 0 /\ Respond(r) /\ UNCHANGED <<submitted, ran, abandoned>>
    BY <1>7 DEF ExecuteRead, IsWrite
  <2> QED
    BY <2>1, RespondProceeds
<1> QED
  BY <1>3, <1>4, <1>5, <1>6, <1>7 DEF Handle

LEMMA ReceiveProceeds ==
  ASSUME ServerInv, NEW r \in Requests, Receive(r)
  PROVE  \/ \E t \in tokens, c \in ConnectionIds : Submits(r, t, c)
         \/ /\ UNCHANGED <<submitted, ran, abandoned>>
            /\ \A s \in Requests : Proceeds(requests[s], requests'[s])
<1> DEFINE Quiet == /\ UNCHANGED <<submitted, ran, abandoned>>
                    /\ \A s \in Requests : Proceeds(requests[s], requests'[s])
<1>1. requests[r] = Idle /\ Idle.statement = 0
  BY DEF Receive, LoginLookup, ReceiveAdmin, ReceiveTarget, Free, Idle
<1>2. ASSUME NEW q, Become(r, q), q.statement = 0,
             UNCHANGED <<submitted, ran, abandoned>>
      PROVE  Quiet
  <2>1. Proceeds(requests[r], q)
    BY <1>1, <1>2 DEF Proceeds
  <2> QED
    BY <1>2, <2>1, BecomeProceeds
<1>3. CASE LoginLookup(r)
  <2>1. PICK u \in DOMAIN users :
          Become(r, [Idle EXCEPT
                       !.op = "login", !.at = "issue",
                       !.claims = [user |-> u, name |-> users[u].name,
                                   admin |-> users[u].admin]])
    BY <1>3 DEF LoginLookup
  <2>2. [Idle EXCEPT !.op = "login", !.at = "issue",
                     !.claims = [user |-> u, name |-> users[u].name,
                                 admin |-> users[u].admin]].statement = 0
    BY DEF Idle
  <2> QED
    BY <1>2, <1>3, <2>1, <2>2 DEF LoginLookup
<1>4. CASE ReceiveAdmin(r)
  <2>1. PICK t \in tokens, op \in Operations \cap AdminOperations :
          Become(r, [Idle EXCEPT !.op = op, !.at = "start", !.claims = t.claims])
    BY <1>4 DEF ReceiveAdmin
  <2>2. [Idle EXCEPT !.op = op, !.at = "start", !.claims = t.claims].statement = 0
    BY DEF Idle
  <2> QED
    BY <1>2, <1>4, <2>1, <2>2 DEF ReceiveAdmin
<1>5. CASE ReceiveTarget(r)
  <2>1. PICK t \in tokens, op \in Operations \cap TargetOperations,
             c \in ConnectionIds, isWrite \in BOOLEAN :
          /\ isWrite => op = "query"
          /\ Become(r, [Idle EXCEPT !.op = op, !.at = "start",
                                    !.claims = t.claims, !.id = c,
                                    !.statement = IF isWrite THEN Len(submitted) + 1
                                                             ELSE 0])
          /\ submitted' = IF isWrite
                          THEN Append(submitted, [user |-> t.claims.user,
                                                  connection |-> c])
                          ELSE submitted
    BY <1>5 DEF ReceiveTarget
  <2>2. CASE isWrite
    <3>1. Submits(r, t, c)
      BY <1>1, <1>5, <2>1, <2>2 DEF Submits, ReceiveTarget
    <3> QED
      BY <3>1
  <2>3. CASE ~isWrite
    <3>1. Become(r, [Idle EXCEPT !.op = op, !.at = "start",
                                 !.claims = t.claims, !.id = c, !.statement = 0])
      BY <2>1, <2>3
    <3>2. [Idle EXCEPT !.op = op, !.at = "start", !.claims = t.claims, !.id = c,
                       !.statement = 0].statement = 0
      BY DEF Idle
    <3> QED
      BY <1>2, <1>5, <2>1, <2>3, <3>1, <3>2 DEF ReceiveTarget
  <2> QED
    BY <2>2, <2>3
<1> QED
  BY <1>3, <1>4, <1>5 DEF Receive

\* Every step is of one of five kinds.
LEMMA StepKinds ==
  ASSUME StoreTypeOK, ServerInv, WritesTracked, [Next]_vars
  PROVE  \/ QuietStep
         \/ Crash
         \/ \E r \in Requests, t \in tokens, c \in ConnectionIds : Submits(r, t, c)
         \/ \E r \in Requests : ExecuteWrite(r)
         \/ \E r \in Requests : RecordAudit(r)
<1>1. LogForgets \/ \E r \in Requests : RecordAudit(r)
  BY LogSteps, DeletionsForget
<1>2. CASE Boot \/ Tick \/ UNCHANGED vars
  <2>1. UNCHANGED <<requests, submitted, ran, abandoned>>
    BY <1>2 DEF Boot, Tick, vars, serverVars
  <2> QED
    BY <1>1, <2>1 DEF QuietStep, Proceeds
<1>3. CASE \E r \in Requests : Receive(r)
  BY <1>1, <1>3, ReceiveProceeds DEF QuietStep
<1>4. CASE \E r \in Requests : Handle(r)
  BY <1>1, <1>4, HandleProceeds DEF QuietStep
<1> QED
  BY <1>2, <1>3, <1>4 DEF Next

----------------------------------------------------------------------------
(* Each kind of step keeps the invariant. *)

\* The sequences of ids only grow.
LEMMA SeqsGrow ==
  ASSUME StoreTypeOK, ServerInv, [Next]_vars
  PROVE  /\ userSeq \in Nat /\ userSeq' \in Nat /\ userSeq <= userSeq'
         /\ connectionSeq \in Nat /\ connectionSeq' \in Nat
         /\ connectionSeq <= connectionSeq'
BY NextStatement, StepIdentities, StoreAssumption DEF StoreTypeOK

\* Statements are numbered from 1: ran, and every request's, are of those
\* submitted.
LEMMA StatementNumbers ==
  ASSUME ServerInv
  PROVE  /\ Len(submitted) \in Nat
         /\ ran \subseteq 1..Len(submitted)
         /\ \A r \in Requests : requests[r].statement \in 0..Len(submitted)
BY LenProperties DEF ServerInv, ServerTypeOK, RequestsWellFormed, WellFormed

\* What Tracked asks of a write depends on nothing that other steps touch.
LEMMA TrackedStays ==
  ASSUME NEW q, Tracked(q), StoreTypeOK, ServerInv, [Next]_vars,
         q.statement # 0 =>
           /\ submitted'[q.statement] = submitted[q.statement]
           /\ Recorded(q.statement)' => Recorded(q.statement)
           /\ q.statement \in ran' <=> q.statement \in ran
  PROVE  Tracked(q)'
<1>1. \A n \in 1..connectionSeq : n \in 1..connectionSeq'
  BY SeqsGrow
<1> QED
  BY <1>1 DEF Tracked

\* A log that forgets is of the same statements, as truthful as it was.
LEMMA ForgettingTruthful ==
  ASSUME LogForgets, UNCHANGED <<submitted, ran>>, EntriesSubmitted,
         AuditIsTruthful
  PROVE  /\ \A n : Recorded(n)' <=> Recorded(n)
         /\ EntriesSubmitted'
         /\ AuditIsTruthful'
<1>1. DOMAIN auditLog' = DOMAIN auditLog
  BY DEF LogForgets
<1>2. \A i \in DOMAIN auditLog : Forgets(auditLog[i], auditLog'[i])
  BY DEF LogForgets
<1>3. \A i \in DOMAIN auditLog : auditLog'[i].statement = auditLog[i].statement
  BY <1>2 DEF Forgets
<1>4. \A n : Recorded(n)' <=> Recorded(n)
  BY <1>1, <1>3 DEF Recorded
<1>5. EntriesSubmitted'
  BY <1>1, <1>3 DEF EntriesSubmitted
<1>6. AuditIsTruthful'
  <2> SUFFICES ASSUME NEW i \in DOMAIN auditLog
      PROVE  /\ auditLog'[i].outcome = "ok" => auditLog'[i].statement \in ran
             /\ auditLog'[i].outcome = "refused" => auditLog'[i].statement \notin ran
             /\ auditLog'[i].user \in {Null, submitted[auditLog'[i].statement].user}
             /\ auditLog'[i].connection
                  \in {Null, submitted[auditLog'[i].statement].connection}
    BY <1>1 DEF AuditIsTruthful
  <2>1. Forgets(auditLog[i], auditLog'[i])
    BY <1>2
  <2> QED
    BY <2>1 DEF AuditIsTruthful, Forgets
<1> QED
  BY <1>4, <1>5, <1>6

LEMMA QuietKeeps ==
  ASSUME StoreTypeOK, ServerInv, AuditInv, [Next]_vars, QuietStep
  PROVE  AuditInv'
<1>1. UNCHANGED <<submitted, ran>> /\ LogForgets
  BY DEF QuietStep
<1>2. \A n : Recorded(n)' <=> Recorded(n)
  BY <1>1, ForgettingTruthful DEF AuditInv
<1>3. EntriesSubmitted' /\ AuditIsTruthful'
  BY <1>1, ForgettingTruthful DEF AuditInv
<1>4. \A n \in DOMAIN connections : n \in 1..connectionSeq
  BY DEF StoreTypeOK
<1>5. ASSUME NEW r \in Requests PROVE Tracked(requests[r])'
  <2> DEFINE old == requests[r]
             new == requests'[r]
  <2>1. Proceeds(old, new) /\ Tracked(old)
    BY DEF QuietStep, AuditInv, WritesTracked
  <2>2. Tracked(new)
    BY <1>4, <2>1 DEF Proceeds, Tracked
  <2> QED
    BY <1>1, <1>2, <2>2, TrackedStays DEF Tracked
<1>6. ServedOnce'
  <2>1. \A r \in Requests : requests'[r].statement # 0 =>
                              requests'[r].statement = requests[r].statement
    BY DEF QuietStep, Proceeds
  <2> QED
    BY <2>1 DEF AuditInv, ServedOnce
<1>7. SendersKnown'
  BY <1>1, SeqsGrow DEF AuditInv, SendersKnown
<1> QED
  BY <1>3, <1>5, <1>6, <1>7 DEF AuditInv, WritesTracked

LEMMA CrashKeepsAudit ==
  ASSUME AuditInv, Crash
  PROVE  AuditInv'
<1>1. UNCHANGED <<userSeq, connectionSeq, auditLog, submitted, ran>>
  BY DEF Crash, storeVars
<1>2. \A r \in Requests : requests'[r].statement = 0
  BY DEF Crash, Idle
<1>3. WritesTracked' /\ ServedOnce'
  BY <1>2 DEF WritesTracked, Tracked, ServedOnce
<1> QED
  BY <1>1, <1>3 DEF AuditInv, EntriesSubmitted, SendersKnown, AuditIsTruthful

LEMMA SubmitKeeps ==
  ASSUME StoreTypeOK, ServerInv, ClaimsGenuine, AuditInv, [Next]_vars,
         NEW r \in Requests, NEW t \in tokens, NEW c \in ConnectionIds,
         Submits(r, t, c)
  PROVE  AuditInv'
<1> DEFINE n == Len(submitted) + 1
           sender == [user |-> t.claims.user, connection |-> c]
           q == [Idle EXCEPT !.op = "query", !.at = "start",
                             !.claims = t.claims, !.id = c, !.statement = n]
<1>1. UNCHANGED <<userSeq, connectionSeq, auditLog, ran>>
  BY DEF Submits, storeVars
<1>2. /\ Len(submitted) \in Nat
      /\ ran \subseteq 1..Len(submitted)
      /\ \A s \in Requests : requests[s].statement \in 0..Len(submitted)
  BY StatementNumbers
<1>3. /\ Len(submitted') = n
      /\ \A s \in 1..Len(submitted) : submitted'[s] = submitted[s]
      /\ submitted'[n] = sender
  <2>1. submitted \in Seq([user : UserIds, connection : ConnectionIds])
    BY DEF ServerInv, ServerTypeOK
  <2>2. sender \in [user : UserIds, connection : ConnectionIds]
    BY DEF ServerInv, ServerTypeOK, Token, Claims
  <2>3. submitted' = Append(submitted, sender)
    BY DEF Submits
  <2> QED
    BY <1>2, <2>1, <2>2, <2>3, AppendProperties, LenProperties
<1>4. /\ q.op = "query" /\ q.at = "start" /\ q.claims = t.claims
      /\ q.id = c /\ q.statement = n
  BY DEF Idle
<1>5. \A s \in Requests : requests'[s] = IF s = r THEN q ELSE requests[s]
  BY OneRequestChanges DEF Submits
<1>6. ~Recorded(n) /\ n \notin ran
  BY <1>2 DEF AuditInv, EntriesSubmitted, Recorded
<1>7. \A k : Recorded(k)' <=> Recorded(k)
  BY <1>1 DEF Recorded
<1>8. ASSUME NEW s \in Requests PROVE Tracked(requests[s])'
  <2>1. CASE s = r
    <3>1. requests'[s] = q
      BY <1>5, <2>1
    <3>2. (\A i \in DOMAIN auditLog' : auditLog'[i].statement # n) /\ n \notin ran'
      BY <1>1, <1>6 DEF Recorded
    <3> HIDE DEF q
    <3> QED
      BY <1>3, <1>4, <3>1, <3>2 DEF Tracked, Recorded
  <2>2. CASE s # r
    <3>1. requests'[s] = requests[s] /\ Tracked(requests[s])
      BY <1>5, <2>2 DEF AuditInv, WritesTracked
    <3>2. requests[s].statement # 0 => requests[s].statement \in 1..Len(submitted)
      BY <1>2
    <3> QED
      BY <1>1, <1>3, <1>7, <3>1, <3>2, TrackedStays DEF Tracked
  <2> QED
    BY <2>1, <2>2
<1>9. ServedOnce'
  <2>1. \A s \in Requests : requests[s].statement # n
    BY <1>2
  <2> SUFFICES ASSUME NEW s \in Requests, NEW k \in Requests,
                      requests'[s].statement = requests'[k].statement,
                      requests'[s].statement # 0
               PROVE  s = k
    BY DEF ServedOnce
  <2> HIDE DEF q, n
  <2> QED
    BY <1>4, <1>5, <2>1 DEF AuditInv, ServedOnce
<1>10. EntriesSubmitted'
  BY <1>1, <1>2, <1>3 DEF AuditInv, EntriesSubmitted
<1>11. SendersKnown'
  <2>1. t.claims.user \in 1..userSeq
    BY DEF ClaimsGenuine, Genuine
  <2>2. \A s \in 1..n : s \in 1..Len(submitted) \/ s = n
    BY <1>2
  <2>3. \A s \in 1..n : submitted'[s].user \in 1..userSeq
    BY <1>3, <2>1, <2>2 DEF AuditInv, SendersKnown
  <2>4. \A s \in ran : submitted'[s].connection \in 1..connectionSeq
    BY <1>2, <1>3 DEF AuditInv, SendersKnown
  <2> QED
    BY <1>1, <1>3, <2>3, <2>4 DEF SendersKnown
<1>12. AuditIsTruthful'
  BY <1>1, <1>3 DEF AuditInv, EntriesSubmitted, AuditIsTruthful
<1> QED
  BY <1>8, <1>9, <1>10, <1>11, <1>12 DEF AuditInv, WritesTracked

LEMMA ExecuteKeeps ==
  ASSUME StoreTypeOK, ServerInv, AuditInv, [Next]_vars,
         NEW r \in Requests, ExecuteWrite(r)
  PROVE  AuditInv'
<1> DEFINE old == requests[r]
           n == old.statement
<1>1. PICK outcome \in {"ok", "failed"}, effect \in BOOLEAN :
        /\ outcome = "ok" => effect
        /\ ran' = IF effect THEN ran \cup {n} ELSE ran
        /\ Become(r, [old EXCEPT !.at = "audit", !.outcome = outcome])
  BY DEF ExecuteWrite
<1> DEFINE q == [old EXCEPT !.at = "audit", !.outcome = outcome]
<1>2. /\ q.op = old.op /\ q.claims = old.claims /\ q.id = old.id
      /\ q.statement = n /\ q.at = "audit" /\ q.outcome = outcome
  BY DEF ServerInv, ServerTypeOK, Request
<1>3. UNCHANGED <<userSeq, connectionSeq, auditLog, submitted>>
  BY DEF ExecuteWrite, storeVars
<1>4. n # 0 /\ old.at = "execute"
  BY DEF ExecuteWrite, IsWrite, Serves
<1>5. /\ old.op = "query"
      /\ submitted[n].user = old.claims.user /\ submitted[n].connection = old.id
      /\ ~Recorded(n) /\ old.id \in 1..connectionSeq
  BY <1>4 DEF AuditInv, WritesTracked, Tracked
<1>6. \A s \in Requests : requests'[s] = IF s = r THEN q ELSE requests[s]
  BY <1>1, OneRequestChanges
<1>7. \A k : Recorded(k)' <=> Recorded(k)
  BY <1>3 DEF Recorded
<1>8. \A k : k # n => (k \in ran' <=> k \in ran)
  BY <1>1
<1>9. ASSUME NEW s \in Requests PROVE Tracked(requests[s])'
  <2>1. CASE s = r
    <3>1. requests'[s] = q
      BY <1>6, <2>1
    <3>2. \A i \in DOMAIN auditLog' : auditLog'[i].statement # n
      BY <1>3, <1>5 DEF Recorded
    <3>3. outcome \in {"ok", "failed"} /\ (outcome = "ok" => n \in ran')
      BY <1>1
    <3> HIDE DEF q, n, old
    <3> QED
      BY <1>2, <1>3, <1>5, <3>1, <3>2, <3>3 DEF Tracked, Recorded
  <2>2. CASE s # r
    <3>1. requests'[s] = requests[s] /\ Tracked(requests[s])
      BY <1>6, <2>2 DEF AuditInv, WritesTracked
    <3>2. requests[s].statement # 0 => requests[s].statement # n
      BY <2>2 DEF AuditInv, ServedOnce
    <3> QED
      BY <1>3, <1>7, <1>8, <3>1, <3>2, TrackedStays DEF Tracked
  <2> QED
    BY <2>1, <2>2
<1>10. ServedOnce'
  <2>1. \A s \in Requests : requests'[s].statement = requests[s].statement
    BY <1>2, <1>6
  <2> QED
    BY <2>1 DEF AuditInv, ServedOnce
<1>11. SendersKnown'
  BY <1>1, <1>3, <1>5 DEF AuditInv, SendersKnown
<1>12. EntriesSubmitted'
  BY <1>3 DEF AuditInv, EntriesSubmitted
<1>13. AuditIsTruthful'
  <2>1. \A i \in DOMAIN auditLog : auditLog[i].statement # n
    BY <1>5 DEF Recorded
  <2> QED
    BY <1>3, <1>8, <2>1 DEF AuditInv, AuditIsTruthful
<1> QED
  BY <1>9, <1>10, <1>11, <1>12, <1>13 DEF AuditInv, WritesTracked

\* What recordAudit knows of the write it records.
LEMMA AuditedWrite ==
  ASSUME ServerInv, WritesTracked, NEW r \in Requests, RecordAudit(r)
  PROVE  /\ requests[r].claims.user \in UserIds
         /\ requests[r].id \in ConnectionIds
         /\ requests[r].statement \in Statements
         /\ requests[r].statement \in 1..Len(submitted)
         /\ requests[r].outcome \in Outcomes
         /\ submitted[requests[r].statement].user = requests[r].claims.user
         /\ submitted[requests[r].statement].connection = requests[r].id
         /\ ~Recorded(requests[r].statement)
         /\ requests[r].outcome = "ok" => requests[r].statement \in ran
         /\ requests[r].outcome = "refused" => requests[r].statement \notin ran
<1> DEFINE q == requests[r]
<1>1. q \in Request /\ WellFormed(q)
  BY DEF ServerInv, ServerTypeOK, RequestsWellFormed
<1>2. q.op = "query" /\ q.at = "audit" /\ q.statement # 0
  BY <1>1 DEF RecordAudit, Serves, WellFormed
<1>3. q.claims \in Claims /\ q.id \in ConnectionIds
  BY <1>1, <1>2 DEF WellFormed, TargetOperations
<1>4. q.statement \in Statements /\ q.outcome \in Outcomes
  BY <1>1, <1>2 DEF Request
<1>5. q.statement \in 1..Len(submitted)
  BY <1>2, StatementNumbers
<1>6. Tracked(q)
  BY DEF WritesTracked
<1> QED
  BY <1>2, <1>3, <1>4, <1>5, <1>6 DEF Claims, Tracked

\* The entry recordAudit inserts, and where it stands.
LEMMA EntryAppended ==
  ASSUME StoreTypeOK, NEW u \in UserIds, NEW c \in ConnectionIds,
         NEW n \in Statements, NEW outcome \in Outcomes,
         InsertAuditLogEntry(u, c, n, outcome)
  PROVE  /\ DOMAIN auditLog' = DOMAIN auditLog \cup {Len(auditLog) + 1}
         /\ \A i \in DOMAIN auditLog : auditLog'[i] = auditLog[i]
         /\ auditLog'[Len(auditLog) + 1]
              = [user |-> u, connection |-> c, statement |-> n, outcome |-> outcome]
<1> DEFINE entry == [user |-> u, connection |-> c, statement |-> n,
                     outcome |-> outcome]
<1>1. entry \in AuditEntry
  BY DEF AuditEntry
<1>2. auditLog' = Append(auditLog, entry) /\ auditLog \in Seq(AuditEntry)
  BY DEF InsertAuditLogEntry, StoreTypeOK
<1> QED
  BY <1>1, <1>2, LogEntries, AppendProperties, LenProperties

LEMMA RecordKeeps ==
  ASSUME StoreTypeOK, ServerInv, AuditInv, [Next]_vars,
         NEW r \in Requests, RecordAudit(r)
  PROVE  AuditInv'
<1>1. PICK u, c, n, outcome :
        /\ u = requests[r].claims.user /\ c = requests[r].id
        /\ n = requests[r].statement /\ outcome = requests[r].outcome
  OBVIOUS
<1>2. /\ u \in UserIds /\ c \in ConnectionIds /\ n \in Statements
      /\ n \in 1..Len(submitted) /\ outcome \in Outcomes
      /\ submitted[n].user = u /\ submitted[n].connection = c
      /\ outcome = "ok" => n \in ran
      /\ outcome = "refused" => n \notin ran
  BY <1>1, AuditedWrite DEF AuditInv
<1>3. UNCHANGED <<submitted, ran>>
  BY DEF RecordAudit
<1>4. \A s \in Requests : requests'[s] = IF s = r THEN Idle ELSE requests[s]
  BY OneRequestChanges DEF RecordAudit, Respond
<1>5. UNCHANGED storeVars \/ InsertAuditLogEntry(u, c, n, outcome)
  BY <1>1 DEF RecordAudit
<1> DEFINE Inserted(last) ==
             /\ DOMAIN auditLog' = DOMAIN auditLog \cup {last}
             /\ \A i \in DOMAIN auditLog : auditLog'[i] = auditLog[i]
             /\ auditLog'[last].user = u
             /\ auditLog'[last].connection = c
             /\ auditLog'[last].statement = n
             /\ auditLog'[last].outcome = outcome
<1>6. ASSUME InsertAuditLogEntry(u, c, n, outcome)
      PROVE  \E last : Inserted(last)
  <2>1. /\ DOMAIN auditLog' = DOMAIN auditLog \cup {Len(auditLog) + 1}
        /\ \A i \in DOMAIN auditLog : auditLog'[i] = auditLog[i]
        /\ auditLog'[Len(auditLog) + 1]
             = [user |-> u, connection |-> c, statement |-> n,
                outcome |-> outcome]
    BY <1>2, <1>6, EntryAppended, Zenon
  <2>2. Inserted(Len(auditLog) + 1)
    BY <2>1
  <2> QED
    BY <2>2
<1>7. \A k : Recorded(k)' => Recorded(k) \/ k = n
  <2>1. CASE UNCHANGED storeVars
    BY <2>1 DEF storeVars, Recorded
  <2>2. CASE InsertAuditLogEntry(u, c, n, outcome)
    BY <1>6, <2>2 DEF Recorded
  <2> QED
    BY <1>5, <2>1, <2>2
<1>8. ASSUME NEW s \in Requests PROVE Tracked(requests[s])'
  <2>1. CASE s = r
    BY <1>4, <2>1 DEF Tracked, Idle
  <2>2. CASE s # r
    <3>1. requests'[s] = requests[s] /\ Tracked(requests[s])
      BY <1>4, <2>2 DEF AuditInv, WritesTracked
    <3>2. requests[s].statement # 0 => requests[s].statement # n
      BY <1>1, <2>2 DEF AuditInv, ServedOnce
    <3> QED
      BY <1>3, <1>7, <3>1, <3>2, TrackedStays DEF Tracked
  <2> QED
    BY <2>1, <2>2
<1>9. ServedOnce'
  <2>1. \A s \in Requests : requests'[s].statement # 0 =>
                              requests'[s].statement = requests[s].statement
    BY <1>4 DEF Idle
  <2> QED
    BY <2>1 DEF AuditInv, ServedOnce
<1>10. SendersKnown'
  BY <1>3, SeqsGrow DEF AuditInv, SendersKnown
<1>11. EntriesSubmitted' /\ AuditIsTruthful'
  <2>1. CASE UNCHANGED storeVars
    BY <1>3, <2>1 DEF storeVars, AuditInv, EntriesSubmitted, AuditIsTruthful
  <2>2. CASE InsertAuditLogEntry(u, c, n, outcome)
    <3>1. EntriesSubmitted'
      BY <1>2, <1>3, <1>6, <2>2 DEF AuditInv, EntriesSubmitted
    <3>2. PICK last : Inserted(last)
      BY <1>6, <2>2
    <3>3. AuditIsTruthful'
      <4> SUFFICES ASSUME NEW i \in DOMAIN auditLog'
          PROVE  LET e == auditLog'[i]
                 IN  /\ e.outcome = "ok" => e.statement \in ran
                     /\ e.outcome = "refused" => e.statement \notin ran
                     /\ e.user \in {Null, submitted[e.statement].user}
                     /\ e.connection \in {Null, submitted[e.statement].connection}
        BY <1>3 DEF AuditIsTruthful
      <4>1. CASE i = last
        BY <1>2, <3>2, <4>1
      <4>2. CASE i \in DOMAIN auditLog
        BY <3>2, <4>2 DEF AuditInv, AuditIsTruthful
      <4> QED
        BY <3>2, <4>1, <4>2
    <3> QED
      BY <3>1, <3>3
  <2> QED
    BY <1>5, <2>1, <2>2
<1> QED
  BY <1>8, <1>9, <1>10, <1>11 DEF AuditInv, WritesTracked

LEMMA AuditInvKept ==
  ASSUME StoreTypeOK, ServerInv, ClaimsGenuine, AuditInv, [Next]_vars
  PROVE  AuditInv'
<1>1. WritesTracked
  BY DEF AuditInv
<1> QED
  BY <1>1, StepKinds, QuietKeeps, CrashKeepsAudit, SubmitKeeps, ExecuteKeeps,
     RecordKeeps

LEMMA InitAuditInv == Init => AuditInv
<1> SUFFICES ASSUME Init PROVE AuditInv
  OBVIOUS
<1>1. auditLog = << >> /\ submitted = << >> /\ ran = {}
  BY DEF Init, StoreInit
<1>2. \A r \in Requests : requests[r].statement = 0
  BY DEF Init, Idle
<1> QED
  BY <1>1, <1>2 DEF AuditInv, WritesTracked, Tracked, ServedOnce,
     EntriesSubmitted, SendersKnown, AuditIsTruthful

LEMMA AuditInvHolds == Spec => []AuditInv
<1>1. StoreTypeOK /\ ServerInv /\ ClaimsGenuine /\ AuditInv /\ [Next]_vars
      => AuditInv'
  BY AuditInvKept
<1> QED
  BY <1>1, InitAuditInv, InvariantHolds, ClaimsStayGenuine, PTL DEF Spec

\* What the audit log says happened did: for every number of requests served
\* at the same time, an entry marked allowed is of a write that took effect,
\* one that was refused never took effect nor will, and an entry names the
\* user and the connection of the attempt.
THEOREM AuditTruthful == Spec => []AuditIsTruthful
<1>1. AuditInv => AuditIsTruthful
  BY DEF AuditInv
<1> QED
  BY <1>1, AuditInvHolds, PTL

----------------------------------------------------------------------------
(* Writes that took effect.  The invariant says enough of what is in       *)
(* flight: a write that has run is at its entry, and not to be answered    *)
(* before.                                                                 *)

LEMMA RecordedStays ==
  ASSUME StoreTypeOK, ServerInv, WritesTracked, [Next]_vars,
         NEW n, Recorded(n)
  PROVE  Recorded(n)'
<1>1. PICK i \in DOMAIN auditLog : auditLog[i].statement = n
  BY DEF Recorded
<1>2. CASE \E r \in Requests : RecordAudit(r)
  <2>1. PICK r \in Requests : RecordAudit(r)
    BY <1>2
  <2>2. \/ UNCHANGED storeVars
        \/ InsertAuditLogEntry(requests[r].claims.user, requests[r].id,
                               requests[r].statement, requests[r].outcome)
    BY <2>1 DEF RecordAudit
  <2>3. i \in DOMAIN auditLog' /\ auditLog'[i] = auditLog[i]
    BY <2>1, <2>2, AuditedWrite, EntryAppended DEF storeVars
  <2> QED
    BY <1>1, <2>3 DEF Recorded
<1>3. CASE LogForgets
  BY <1>1, <1>3 DEF LogForgets, Forgets, Recorded
<1> QED
  BY <1>2, <1>3, LogSteps, DeletionsForget

\* A user or connection that is gone stays gone.
LEMMA MissingStay ==
  ASSUME StoreTypeOK, ServerInv, [Next]_vars,
         NEW u \in 1..userSeq, NEW c \in 1..connectionSeq, ~AuditRefsExist(u, c)
  PROVE  ~AuditRefsExist(u, c)'
<1>1. u # userSeq + 1 /\ c # connectionSeq + 1
  BY SeqsGrow
<1> QED
  BY <1>1, NextStatement, StepIdentities DEF AuditRefsExist

\* Why a write is accounted for at the moment, and what it takes for it to
\* be so after a step.
AccountedFor(s) ==
  \/ Recorded(s)
  \/ InFlight(s)
  \/ s \in abandoned
  \/ ~AuditRefsExist(submitted[s].user, submitted[s].connection)

LEMMA AccountedForStays ==
  ASSUME StoreTypeOK, ServerInv, AuditInv, [Next]_vars, NEW s \in ran,
         AccountedFor(s), submitted'[s] = submitted[s], abandoned \subseteq abandoned',
         InFlight(s) => InFlight(s)' \/ s \in abandoned'
  PROVE  AccountedFor(s)'
<1>1. CASE Recorded(s)
  BY <1>1, RecordedStays DEF AuditInv, AccountedFor
<1>2. CASE InFlight(s) \/ s \in abandoned
  BY <1>2 DEF AccountedFor
<1>3. CASE ~AuditRefsExist(submitted[s].user, submitted[s].connection)
  <2>1. /\ submitted[s].user \in 1..userSeq
        /\ submitted[s].connection \in 1..connectionSeq
    BY StatementNumbers DEF AuditInv, SendersKnown
  <2> QED
    BY <1>3, <2>1, MissingStay DEF AccountedFor, AuditRefsExist
<1> QED
  BY <1>1, <1>2, <1>3 DEF AccountedFor

LEMMA WritesAccountedForKept ==
  ASSUME StoreTypeOK, ServerInv, AuditInv, [Next]_vars, WritesAccountedFor
  PROVE  WritesAccountedFor'
<1>1. \A s \in ran : AccountedFor(s)
  BY DEF WritesAccountedFor, AccountedFor
<1>2. \A s \in ran : s # 0 /\ s \in 1..Len(submitted)
  BY StatementNumbers
<1>3. CASE QuietStep
  <2>1. ASSUME NEW s \in ran, InFlight(s) PROVE InFlight(s)'
    <3>1. PICK r \in Requests : requests[r].statement = s
      BY <2>1 DEF InFlight
    <3>2. requests[r].at = "audit"
      BY <1>2, <3>1 DEF AuditInv, WritesTracked, Tracked
    <3>3. Proceeds(requests[r], requests'[r])
      BY <1>3 DEF QuietStep
    <3>4. requests'[r] = requests[r]
      BY <1>2, <3>1, <3>2, <3>3 DEF Proceeds
    <3> QED
      BY <3>1, <3>4 DEF InFlight
  <2>2. UNCHANGED <<submitted, ran, abandoned>>
    BY <1>3 DEF QuietStep
  <2>3. \A s \in ran : AccountedFor(s)'
    BY <1>1, <2>1, <2>2, AccountedForStays
  <2> QED
    BY <2>2, <2>3 DEF WritesAccountedFor, AccountedFor
<1>4. CASE Crash
  <2>1. UNCHANGED <<submitted, ran>> /\ abandoned \subseteq abandoned'
    BY <1>4 DEF Crash
  <2>2. \A s \in ran : InFlight(s) => s \in abandoned'
    BY <1>2, <1>4 DEF Crash, InFlight
  <2>3. \A s \in ran : AccountedFor(s)'
    BY <1>1, <2>1, <2>2, AccountedForStays
  <2> QED
    BY <2>1, <2>3 DEF WritesAccountedFor, AccountedFor
<1>5. ASSUME NEW r \in Requests, NEW t \in tokens, NEW c \in ConnectionIds,
             Submits(r, t, c)
      PROVE  WritesAccountedFor'
  <2>1. UNCHANGED <<ran, abandoned>>
    BY <1>5 DEF Submits
  <2>2. \A s \in ran : submitted'[s] = submitted[s]
    <3>1. submitted \in Seq([user : UserIds, connection : ConnectionIds])
      BY DEF ServerInv, ServerTypeOK
    <3>2. [user |-> t.claims.user, connection |-> c]
            \in [user : UserIds, connection : ConnectionIds]
      BY DEF ServerInv, ServerTypeOK, Token, Claims
    <3> QED
      BY <1>2, <1>5, <3>1, <3>2, AppendProperties DEF Submits
  <2>3. \A s \in Requests : s # r => requests'[s] = requests[s]
    BY <1>5, OneRequestChanges DEF Submits
  <2>4. requests[r].statement = 0
    BY <1>5 DEF Submits, Idle
  <2>5. \A s \in ran : InFlight(s) => InFlight(s)'
    BY <1>2, <2>3, <2>4 DEF InFlight
  <2>6. \A s \in ran : AccountedFor(s)'
    BY <1>1, <2>1, <2>2, <2>5, AccountedForStays
  <2> QED
    BY <2>1, <2>6 DEF WritesAccountedFor, AccountedFor
<1>6. ASSUME NEW r \in Requests, ExecuteWrite(r) PROVE WritesAccountedFor'
  <2>1. UNCHANGED <<submitted, abandoned>>
    BY <1>6 DEF ExecuteWrite
  <2>2. ran' \subseteq ran \cup {requests[r].statement}
    BY <1>6 DEF ExecuteWrite
  <2>3. \A s \in Requests : requests'[s].statement = requests[s].statement
    <3>1. PICK outcome \in {"ok", "failed"} :
            Become(r, [requests[r] EXCEPT !.at = "audit", !.outcome = outcome])
      BY <1>6 DEF ExecuteWrite
    <3>2. [requests[r] EXCEPT !.at = "audit", !.outcome = outcome].statement
            = requests[r].statement
      BY DEF ServerInv, ServerTypeOK, Request
    <3> QED
      BY <3>1, <3>2, OneRequestChanges
  <2>4. \A s : InFlight(s) => InFlight(s)'
    BY <2>3 DEF InFlight
  <2>5. \A s \in ran : AccountedFor(s)'
    BY <1>1, <2>1, <2>4, AccountedForStays
  <2>6. \A s : s = requests[r].statement => InFlight(s)'
    BY <2>3 DEF InFlight
  <2>7. \A s \in ran' : AccountedFor(s)'
    BY <2>2, <2>5, <2>6 DEF AccountedFor
  <2> QED
    BY <2>7 DEF WritesAccountedFor, AccountedFor
<1>7. ASSUME NEW r \in Requests, RecordAudit(r) PROVE WritesAccountedFor'
  <2>1. UNCHANGED <<submitted, ran, abandoned>>
    BY <1>7 DEF RecordAudit
  <2>2. \A s \in Requests : s # r => requests'[s] = requests[s]
    BY <1>7, OneRequestChanges DEF RecordAudit, Respond
  <2>3. ASSUME NEW s \in ran, s # requests[r].statement PROVE AccountedFor(s)'
    <3>1. InFlight(s) => InFlight(s)'
      BY <2>2, <2>3 DEF InFlight
    <3> QED
      BY <1>1, <2>1, <3>1, AccountedForStays
  <2>4. ASSUME NEW s \in ran, s = requests[r].statement PROVE AccountedFor(s)'
    <3>1. PICK u, c, outcome :
            /\ u = requests[r].claims.user /\ c = requests[r].id
            /\ outcome = requests[r].outcome
      OBVIOUS
    <3>2. /\ u \in UserIds /\ c \in ConnectionIds /\ s \in Statements
          /\ outcome \in Outcomes
          /\ submitted[s].user = u /\ submitted[s].connection = c
      BY <1>7, <2>4, <3>1, AuditedWrite DEF AuditInv
    <3>3. CASE InsertAuditLogEntry(u, c, s, outcome)
      <4>1. DOMAIN auditLog' = DOMAIN auditLog \cup {Len(auditLog) + 1}
        BY <3>2, <3>3, EntryAppended, Zenon
      <4>2. auditLog'[Len(auditLog) + 1]
              = [user |-> u, connection |-> c, statement |-> s,
                 outcome |-> outcome]
        BY <3>2, <3>3, EntryAppended, Zenon
      <4>3. Recorded(s)'
        BY <4>1, <4>2 DEF Recorded
      <4> QED
        BY <4>3 DEF AccountedFor
    <3>4. CASE ~AuditRefsExist(u, c) /\ UNCHANGED storeVars
      BY <2>1, <3>2, <3>4 DEF AccountedFor, AuditRefsExist, storeVars
    <3> QED
      BY <1>7, <2>4, <3>1, <3>3, <3>4 DEF RecordAudit
  <2> QED
    BY <2>1, <2>3, <2>4 DEF WritesAccountedFor, AccountedFor
<1>8. WritesTracked
  BY DEF AuditInv
<1> QED
  BY <1>3, <1>4, <1>5, <1>6, <1>7, <1>8, StepKinds

\* A write that took effect is recorded, or its request is still served, or
\* died with the process, or its user or connection was deleted: best effort
\* costs no more than that, whatever runs at the same time.
THEOREM WritesAccounted == Spec => []WritesAccountedFor
<1>1. Init => WritesAccountedFor
  BY DEF Init, WritesAccountedFor
<1>2. StoreTypeOK /\ ServerInv /\ AuditInv /\ WritesAccountedFor /\ [Next]_vars
      => WritesAccountedFor'
  BY WritesAccountedForKept
<1> QED
  BY <1>1, <1>2, InvariantHolds, AuditInvHolds, PTL DEF Spec

----------------------------------------------------------------------------
(* The refinement of AuditTrail: an entry once, and for good. *)

LEMMA TrailStep ==
  ASSUME StoreTypeOK, ServerInv, AuditInv, [Next]_vars
  PROVE  [Trail!Next]_auditLog
<1>1. CASE UNCHANGED auditLog
  BY <1>1
<1>2. ASSUME NEW u \in UserIds, DeleteUser(u) PROVE Trail!Next
  <2>1. Trail!ForgetUser(u)
    BY <1>2 DEF DeleteUser, ForgetUser, Trail!ForgetUser
  <2> QED
    BY <2>1 DEF Trail!Next
<1>3. ASSUME NEW c \in ConnectionIds, DeleteConnection(c) PROVE Trail!Next
  <2>1. Trail!ForgetConnection(c)
    BY <1>3 DEF DeleteConnection, ForgetConnection, Trail!ForgetConnection
  <2> QED
    BY <2>1 DEF Trail!Next
<1>4. ASSUME NEW r \in Requests, RecordAudit(r) PROVE [Trail!Next]_auditLog
  <2> DEFINE q == requests[r]
             entry == [user |-> q.claims.user, connection |-> q.id,
                       statement |-> q.statement, outcome |-> q.outcome]
  <2>1. entry \in Trail!Entry
    BY <1>4, AuditedWrite DEF AuditInv, Trail!Entry
  <2>2. ~Trail!Recorded(entry.statement)
    BY <1>4, AuditedWrite DEF AuditInv, Recorded, Trail!Recorded
  <2>3. CASE UNCHANGED storeVars
    BY <2>3 DEF storeVars
  <2>4. CASE auditLog' = Append(auditLog, entry)
    <3>1. Trail!Record(entry)
      BY <2>2, <2>4 DEF Trail!Record
    <3> QED
      BY <2>1, <3>1 DEF Trail!Next
  <2> QED
    BY <1>4, <2>3, <2>4 DEF RecordAudit, InsertAuditLogEntry
<1> QED
  BY <1>1, <1>2, <1>3, <1>4, LogSteps

\* The audit_log table implements the audit trail: an entry is added once for
\* one attempt, and stays in its place with its statement and its outcome,
\* under every interleaving of handlers, crashes and deletions.
THEOREM TrailImplemented == Spec => TrailSpec
<1>1. Init => Trail!Init
  BY DEF Init, StoreInit, Trail!Init
<1>2. StoreTypeOK /\ ServerInv /\ AuditInv /\ [Next]_vars => [Trail!Next]_auditLog
  BY TrailStep
<1> QED
  BY <1>1, <1>2, InvariantHolds, AuditInvHolds, PTL DEF Spec, TrailSpec, Trail!Spec

=============================================================================
