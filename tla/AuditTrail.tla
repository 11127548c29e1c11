----------------------------- MODULE AuditTrail -----------------------------
(***************************************************************************)
(* What the Audit Log Entry table promises: a persistent record.  An entry *)
(* is added once, for one attempt to run a Write Query, and from then on   *)
(* it stays, in its place, with its statement and its outcome.  The one    *)
(* thing that may change in it is that a deleted User or Connection is     *)
(* forgotten.  Store implements this over the audit_log table.             *)
(***************************************************************************)
EXTENDS Naturals, Sequences

CONSTANTS Users, Connections, Statements, Outcomes, Null

VARIABLE log

Entry == [user : Users, connection : Connections,
          statement : Statements, outcome : Outcomes]

Init == log = << >>

Recorded(statement) == \E i \in DOMAIN log : log[i].statement = statement

Record(entry) ==
  /\ ~Recorded(entry.statement)
  /\ log' = Append(log, entry)

ForgetUser(u) ==
  log' = [i \in DOMAIN log |->
            IF log[i].user = u THEN [log[i] EXCEPT !.user = Null] ELSE log[i]]

ForgetConnection(c) ==
  log' = [i \in DOMAIN log |->
            IF log[i].connection = c
            THEN [log[i] EXCEPT !.connection = Null] ELSE log[i]]

Next ==
  \/ \E entry \in Entry : Record(entry)
  \/ \E u \in Users : ForgetUser(u)
  \/ \E c \in Connections : ForgetConnection(c)

Spec == Init /\ [][Next]_log

=============================================================================
