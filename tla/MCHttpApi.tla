----------------------------- MODULE MCHttpApi -----------------------------
(* HttpApi served by two interchangeable goroutines. *)
EXTENDS HttpApi, TLC

CONSTANTS r1, r2

Goroutines == {r1, r2}

Symmetry == Permutations(Goroutines)

\* Accounts and statements in numbers, on the one connection there is, as long
\* as nobody edits or inspects it.
OnOneConnection ==
  /\ connectionSeq <= 1 /\ now = 0
  /\ \A c \in DOMAIN connections : connections[c].target \notin Unopenable
  /\ \A u \in DOMAIN users : users[u].admin => u = 1
  /\ \A r \in Requests :
       requests[r].op \notin {"updateConnection", "resetPassword", "inspect"}

\* One account, and one write statement.
OfOneUser == userSeq <= 1 /\ Len(submitted) <= 1

\* What run http_connections explores: everything in one of the two.
OneOfEach == OnOneConnection \/ OfOneUser

=============================================================================
