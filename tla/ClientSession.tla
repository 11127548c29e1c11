--------------------------- MODULE ClientSession ---------------------------
(***************************************************************************)
(* The web client's session: the tabs of one browser, in which one user    *)
(* works, the token they share in localStorage, what each tab believes of  *)
(* it, the page a tab shows, and the requests that are out (api/client.ts, *)
(* AuthContext, ProtectedRoute, LoginPage, ConnectionsPage).               *)
(*                                                                         *)
(* A page is mounted when it is opened and gone when it is left; answers   *)
(* to requests it has sent arrive all the same.  They change nothing that  *)
(* was the page's, but the session, the address and other requests are not *)
(* the page's.  What each page does with its answers is in its own module. *)
(***************************************************************************)
EXTENDS Naturals, FiniteSets, SequencesExt

CONSTANTS
  Tabs,    \* tabs of the browser
  Tokens,  \* tokens the server can issue
  Names,   \* names of connections
  Scenes   \* what a behaviour begins with

Pages == {"login", "connections", "query", "permissions", "connectionsAdmin"}

Kinds == {"mssql", "mysql", "postgres", "oracle"}

Levels == <<"none", "read", "write">>

\* The token that is stored as the tabs are opened, and the one the server may
\* issue; the page each tab is opened at, and those its user visits later;
\* the connection's kind and catalogs and the user's Permission for it; the
\* connections there are to edit, and the names users type; and bounds on the
\* requests that are out when a user acts, on reloads, on the connections there
\* ever are, and on the requests the server has yet to serve for nobody.
Scene == [token : Tokens \cup {""}, logins : SUBSET Tokens,
          start : [Tabs -> Pages \cup {"closed"}],
          visits : [Tabs -> SUBSET Pages],
          kind : Kinds, catalogs : Seq(STRING), level : ToSet(Levels),
          connections : Seq(Names), names : SUBSET Names,
          maxCalls : Nat, maxReloads : Nat, maxConnections : Nat,
          maxLate : Nat]

ASSUME ClientAssumption ==
  /\ "" \notin Tokens \cup Names
  /\ Scenes \subseteq Scene
  /\ \A s \in Scenes : s.token \notin s.logins /\ "" \notin ToSet(s.catalogs)

VARIABLES
  stored,    \* the token in localStorage, or NoToken
  claims,    \* the token a tab has taken its claims from, or NoToken
  view,      \* the page a tab shows, with its state
  calls,     \* the requests that are out, in the order they were sent
  reloads,   \* reloads so far
  issuable,  \* tokens the server may issue yet
  accepted,  \* tokens it accepts
  level,     \* the Permission of the user for the connection, as stored
  connections,  \* id |-> the name of that connection, or Gone, as stored
  late,      \* requests the server has yet to serve that were given up
  scene      \* what the behaviour began with

server == <<issuable, accepted, level, connections, late>>
vars == <<stored, claims, view, calls, reloads, server, scene>>

NoToken == ""
NoCatalog == ""
Gone == ""     \* a connection that was deleted
Adding == 0    \* no connection is edited

----------------------------------------------------------------------------
(* Requests *)

\* arg is what a request asks for or with, value what a list brought.  latest
\* tells that the page has sent no other of its kind since.
Call(t, what, arg, token) ==
  [tab |-> t, what |-> what, arg |-> arg, token |-> token,
   mounted |-> TRUE, latest |-> TRUE, answer |-> "none", value |-> ""]

\* What is asked for after the request c, by the page that sent it, which may
\* have been left.
CallAfter(c, what) ==
  [Call(c.tab, what, NoCatalog, stored) EXCEPT !.mounted = c.mounted,
                                               !.latest = c.mounted]

Sent(cs, call) ==
  Append([i \in DOMAIN cs |->
            IF /\ cs[i].tab = call.tab /\ cs[i].what = call.what
               /\ call.mounted
            THEN [cs[i] EXCEPT !.latest = FALSE] ELSE cs[i]],
         call)

\* Mutant: requests are answered to the page that follows.
LeftToFollow(cs, t) == cs

\* The page that sent them is left.
LeftBehind(cs, t) ==
  [i \in DOMAIN cs |->
     IF cs[i].tab = t THEN [cs[i] EXCEPT !.mounted = FALSE, !.latest = FALSE]
     ELSE cs[i]]

\* The requests of other tabs, in their order.
OfOthers(cs, t) ==
  LET kept == {i \in DOMAIN cs : cs[i].tab # t}
      nth == CHOOSE f \in [1 .. Cardinality(kept) -> kept] :
               \A m, n \in DOMAIN f : m < n => f[m] < f[n]
  IN  [n \in 1 .. Cardinality(kept) |-> cs[nth[n]]]

Out(t, whats) ==
  \E i \in DOMAIN calls :
    calls[i].tab = t /\ calls[i].mounted /\ calls[i].what \in whats

Room == Len(calls) < scene.maxCalls

Ok(i) == calls[i].answer = "ok"

\* Mutants: the token stored by now decides; the request's need not exist.
EndsSessionStored(i) == calls[i].answer = "refused" /\ stored # NoToken

EndsSessionAlways(i) == calls[i].answer = "refused"

\* A 401 to a request that carried a token is not left to the page alone.
EndsSession(i) == calls[i].answer = "refused" /\ calls[i].token # NoToken

\* A status that is no success, or a connection that breaks: before the server
\* has seen the request, with its answer on the way, or in between, and then
\* the server may go on with it later (late).
Fails(i) == ~EndsSession(i)

----------------------------------------------------------------------------
(* Pages *)

ClosedView == [page |-> "closed"]

LoginView == [page |-> "login", submitting |-> FALSE]

ConnectionsView == [page |-> "connections", list |-> "loading"]

Unanswered == [answered |-> FALSE, catalog |-> NoCatalog, latest |-> FALSE]

\* moved: the database has changed since the last run was sent.  overlapped: a
\* run was sent by key while another was out.
QueryView(catalog) ==
  [page |-> "query", catalog |-> catalog, catalogs |-> << >>,
   loaded |-> FALSE, schema |-> Unanswered, running |-> FALSE,
   result |-> Unanswered, error |-> Unanswered,
   moved |-> FALSE, overlapped |-> FALSE]

\* The matrix has one cell.  doubt: a list or a change came to nothing, or a
\* change was answered to an earlier visit, or made when it had been given up,
\* and no list was asked for since.
PermissionsView ==
  [page |-> "permissions", loaded |-> {}, level |-> "none",
   latest |-> FALSE, doubt |-> FALSE]

\* rows is the list as it came last.
ConnectionsAdminView ==
  [page |-> "connectionsAdmin", rows |-> << >>, editing |-> Adding,
   latest |-> FALSE, doubt |-> FALSE]

Opened(page, catalog) ==
  CASE page = "closed" -> ClosedView
    [] page = "login" -> LoginView
    [] page = "connections" -> ConnectionsView
    [] page = "query" -> QueryView(catalog)
    [] page = "permissions" -> PermissionsView
    [] page = "connectionsAdmin" -> ConnectionsAdminView

\* What a page asks for as it is mounted.
MountRequests(page) ==
  CASE page = "login" -> << >>
    [] page = "connections" -> <<"list">>
    [] page = "query" -> <<"kind", "catalogs">>
    [] page = "permissions" -> <<"users", "connections", "perms">>
    [] page = "connectionsAdmin" -> <<"rows">>

\* Tab t shows a page it has not shown, with the requests cs out and token
\* in localStorage.
Mount(t, page, catalog, cs, token) ==
  /\ view' = [view EXCEPT ![t] = Opened(page, catalog)]
  /\ LET whats == MountRequests(page)
     IN  calls' = LeftBehind(cs, t) \o
                    [n \in DOMAIN whats |->
                       Call(t, whats[n], catalog, token)]

\* ProtectedRoute.
PageFor(token, page) == IF token = NoToken THEN "login" ELSE page

Becomes(t, v) == view' = [view EXCEPT ![t] = v]

Answered(i) == calls' = RemoveAt(calls, i)

SessionKept == UNCHANGED <<stored, claims, reloads, server, scene>>

----------------------------------------------------------------------------
(* The session *)

\* No tab is open.
Init ==
  /\ scene \in Scenes
  /\ stored = scene.token
  /\ claims = [t \in Tabs |-> NoToken]
  /\ view = [t \in Tabs |-> ClosedView]
  /\ calls = << >>
  /\ reloads = 0
  /\ issuable = scene.logins
  /\ accepted = {stored} \ {NoToken}
  /\ level = scene.level
  /\ connections = scene.connections
  /\ late = << >>

\* The client is loaded into a tab: what it believes is read from localStorage.
Load(t, page, catalog) ==
  /\ claims' = [claims EXCEPT ![t] = stored]
  /\ Mount(t, PageFor(stored, page), catalog, OfOthers(calls, t), stored)
  /\ UNCHANGED <<stored, server, scene>>

Open(t) ==
  /\ view[t] = ClosedView /\ scene.start[t] # "closed"
  /\ Load(t, scene.start[t], NoCatalog)
  /\ UNCHANGED reloads

\* The tab's requests are dropped.  The catalog is in the address.
Reload(t) ==
  LET catalog == IF view[t].page = "query" THEN view[t].catalog
                 ELSE NoCatalog
  IN  /\ view[t] # ClosedView /\ reloads < scene.maxReloads
      /\ Load(t, view[t].page, catalog)
      /\ reloads' = reloads + 1

Submit(t) ==
  /\ Room
  /\ view[t] = LoginView
  /\ Becomes(t, [LoginView EXCEPT !.submitting = TRUE])
  /\ calls' = Sent(calls, Call(t, "login", "", stored))
  /\ SessionKept

\* The answer stores the token and leads to the list of connections, wherever
\* the tab has got to meanwhile.
LoggedIn(i) ==
  LET t == calls[i].tab
      token == calls[i].value
  IN  /\ calls[i].what = "login" /\ Ok(i)
      /\ stored' = token
      /\ claims' = [claims EXCEPT ![t] = token]
      /\ IF view[t].page = "connections"
         THEN Answered(i) /\ UNCHANGED view
         ELSE Mount(t, "connections", NoCatalog, RemoveAt(calls, i), token)
      /\ UNCHANGED <<reloads, server, scene>>

SubmitEnds(i) ==
  IF calls[i].what = "login" /\ calls[i].mounted THEN LoginView
  ELSE view[calls[i].tab]

LoginFailed(i) ==
  /\ calls[i].what = "login" /\ Fails(i)
  /\ Becomes(calls[i].tab, SubmitEnds(i))
  /\ Answered(i)
  /\ SessionKept

\* throwApiError and the handler AuthProvider registers: whatever token is
\* stored by now is cleared.
SessionEnds(i) ==
  LET t == calls[i].tab
  IN  /\ EndsSession(i)
      /\ stored' = NoToken
      /\ claims' = [claims EXCEPT ![t] = NoToken]
      /\ IF view[t].page = "login"
         THEN Becomes(t, SubmitEnds(i)) /\ Answered(i)
         ELSE Mount(t, "login", NoCatalog, RemoveAt(calls, i), NoToken)
      /\ UNCHANGED <<reloads, server, scene>>

Logout(t) ==
  /\ claims[t] # NoToken /\ view[t].page # "login"
  /\ stored' = NoToken
  /\ claims' = [claims EXCEPT ![t] = NoToken]
  /\ Mount(t, "login", NoCatalog, calls, NoToken)
  /\ UNCHANGED <<reloads, server, scene>>

\* A link, or the browser's history, which may lead to the login page too.
Goto(t, page) ==
  /\ claims[t] # NoToken
  /\ page \in scene.visits[t] \ {view[t].page}
  /\ Room
  /\ Mount(t, page, NoCatalog, calls, stored)
  /\ SessionKept

ListShown(i) ==
  LET t == calls[i].tab
  IN  /\ calls[i].what = "list" /\ calls[i].mounted
      /\ \/ Ok(i) /\ Becomes(t, [view[t] EXCEPT !.list = "shown"])
         \/ Fails(i) /\ Becomes(t, [view[t] EXCEPT !.list = "error"])
      /\ Answered(i)
      /\ SessionKept

=============================================================================
