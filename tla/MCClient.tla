------------------------------ MODULE MCClient ------------------------------
(* One tab that works, or two that share a session. *)
EXTENDS Client, TLC

Two(x, y) == ("a" :> x) @@ ("b" :> y)

OneTab(page, visits) ==
  [token |-> "k1", logins |-> {}, start |-> Two(page, "closed"),
   visits |-> Two(visits, {}), kind |-> "mysql", catalogs |-> << >>,
   level |-> "read", connections |-> << >>, names |-> {},
   maxCalls |-> 2, maxReloads |-> 0, maxConnections |-> 2, maxLate |-> 0]

\* On the query page of a connection without catalogs, and of one whose first
\* catalog is the one that is reached without any.
QueryScenes ==
  {[OneTab("query", {}) EXCEPT !.kind = "oracle"],
   [OneTab("query", {}) EXCEPT !.kind = "postgres",
                               !.catalogs = <<"postgres", "c2">>]}

\* To and from the query page; no access to the connection.
VisitScenes ==
  {[OneTab("query", {"connections", "query"}) EXCEPT
      !.catalogs = <<"c1">>, !.level = l, !.maxReloads = 1] : l \in {"read", "none"}}

\* On the matrix, with a change that is made late, or to and from it.
PermissionScenes ==
  {[OneTab("permissions", {}) EXCEPT !.maxLate = 1],
   OneTab("permissions", {"permissions", "connections"})}

\* On the connections' form with two connections, one of them yet to be added,
\* with names that collide or with a change that is made late; and to and from
\* it with one.
AdminScenes ==
  LET Admin == [OneTab("connectionsAdmin", {}) EXCEPT !.connections = <<"x">>]
  IN  {[Admin EXCEPT !.names = {"x", "y"}, !.maxCalls = 1],
       [Admin EXCEPT !.names = {"y"}, !.maxCalls = 1, !.maxLate = 1],
       [Admin EXCEPT !.names = {"y"}, !.maxConnections = 1,
          !.visits["a"] = {"connectionsAdmin", "connections"}]}

\* Nobody is logged in: two tabs, and one whose user goes back to the login
\* page.
SessionScenes ==
  LET Unknown == [OneTab("login", {}) EXCEPT
                    !.token = "", !.logins = {"k1", "k2"}, !.maxReloads = 1]
  IN  {[Unknown EXCEPT !.start["b"] = "login"],
       [Unknown EXCEPT !.visits["a"] = {"login", "connections"}]}

AllScenes ==
  QueryScenes \cup VisitScenes \cup PermissionScenes \cup AdminScenes
    \cup SessionScenes

=============================================================================
