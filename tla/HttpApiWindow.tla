--------------------------- MODULE HttpApiWindow ---------------------------
(***************************************************************************)
(* HttpApi with a history variable: for every request, the grants its user *)
(* has had on its connection at some instant since it arrived.  The server *)
(* checks a Permission once and acts on it several statements later, so    *)
(* what it promises is that there was such an instant.                     *)
(***************************************************************************)
EXTENDS HttpApi

VARIABLE held

LevelOf(r) == GetPermission(requests[r].claims.user, requests[r].id)

WindowInit == held = [r \in Requests |-> {}]

\* A slot that takes a request forgets the window of the one before.
WindowNext ==
  held' = [r \in Requests |->
             IF requests'[r].op \notin TargetOperations THEN {}
             ELSE held[r] \cup ({LevelOf(r)'} \ {"none"})]

windowVars == <<vars, held>>

SpecW == Init /\ WindowInit /\ [][Next /\ WindowNext]_windowVars

\* A statement reaches a target, and a write its audit entry as run, only if
\* the sender had the Permission for it at some instant between the arrival
\* of the request and now, whatever was granted, revoked, deleted, created
\* or restarted meanwhile.
RunsOnlyWhenGranted ==
  \A r \in Requests :
    (/\ requests[r].op \in TargetOperations
     /\ \/ requests[r].at \in {"connect", "execute"}
        \/ requests[r].at = "audit" /\ requests[r].outcome # "refused")
      => IF IsWrite(r) THEN "write" \in held[r]
                       ELSE held[r] \cap {"read", "write"} # {}

\* A write is refused, and recorded as refused, only if there was an instant
\* when its sender had read access and no more.
RefusesOnlyReaders ==
  \A r \in Requests :
    (requests[r].at = "audit" /\ requests[r].outcome = "refused")
      => "read" \in held[r]

=============================================================================
