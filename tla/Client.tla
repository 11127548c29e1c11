------------------------------- MODULE Client -------------------------------
(***************************************************************************)
(* The pages and the session together, with the server as its handlers     *)
(* answer: a request is served at one moment, and its answer arrives at    *)
(* another.                                                                *)
(***************************************************************************)
EXTENDS QueryPage, PermissionsPage, ConnectionsAdminPage

----------------------------------------------------------------------------
(* The server *)

\* requireAuth: every route but the login's.
Refused(i) ==
  /\ calls[i].what # "login"
  /\ calls[i].token \notin accepted

Answers(i, answer, value) ==
  calls' = [calls EXCEPT ![i].answer = answer, ![i].value = value]

ClientKept == UNCHANGED <<stored, claims, view, reloads, scene>>

ServeLogin(i) ==
  /\ calls[i].what = "login"
  /\ \/ /\ Answers(i, "refused", "")
        /\ UNCHANGED <<issuable, accepted>>
     \/ /\ issuable # {}
        /\ LET token == CHOOSE k \in issuable : TRUE
           IN  /\ Answers(i, "ok", token)
               /\ issuable' = issuable \ {token}
               /\ accepted' = accepted \cup {token}
  /\ UNCHANGED <<level, connections, late>>

\* handleSetPermission and handleDeleteConnection: one statement each.
SetLevel(c) ==
  /\ c.what = "set"
  /\ level' = c.arg
  /\ UNCHANGED connections

DeleteRow(c) ==
  /\ c.what = "remove"
  /\ connections' = [connections EXCEPT ![c.arg.id] = Gone]
  /\ UNCHANGED level

ServeSet(i) ==
  /\ SetLevel(calls[i]) /\ ~Refused(i)
  /\ Answers(i, "ok", "")
  /\ UNCHANGED <<issuable, accepted, late>>

ServeRemove(i) ==
  /\ DeleteRow(calls[i]) /\ ~Refused(i)
  /\ Answers(i, "ok", "")
  /\ UNCHANGED <<issuable, accepted, late>>

ServeLevels(i) ==
  /\ calls[i].what = "perms" /\ ~Refused(i)
  /\ Answers(i, "ok", level)
  /\ UNCHANGED server

\* The matrix takes no more from this list than that it is there.
ServeRows(i) ==
  /\ calls[i].what \in {"rows", "connections"} /\ ~Refused(i)
  /\ Answers(i, "ok", IF calls[i].what = "rows" THEN connections ELSE "")
  /\ UNCHANGED server

ServeUsers(i) ==
  /\ calls[i].what = "users" /\ ~Refused(i)
  /\ Answers(i, "ok", "")
  /\ UNCHANGED server

\* The connections their user has a Permission for, with their kinds.
ServeList(i) ==
  /\ calls[i].what \in {"list", "kind"} /\ ~Refused(i)
  /\ Answers(i, "ok", "")
  /\ UNCHANGED server

\* requireConnectionAccess, and a target that answers.
ServeTarget(i) ==
  /\ calls[i].what \in {"catalogs", "schema", "run", "cell"}
  /\ ~Refused(i)
  /\ Answers(i, IF level # "none" THEN "ok" ELSE "failed", "")
  /\ UNCHANGED server

Refuse(i) ==
  /\ Refused(i)
  /\ Answers(i, "refused", "")
  /\ UNCHANGED server

\* A save is served one statement at a time.
NameTaken(c, id) ==
  \E other \in DOMAIN connections \ {id} : connections[other] = c.arg.name

\* A new connection: the INSERT fails on a name that another has.
InsertRow(c, answer) ==
  LET fails == \/ NameTaken(c, Adding)
               \/ Len(connections) >= scene.maxConnections
  IN  /\ c.answer = "none" /\ c.arg.id = Adding
      /\ \/ fails /\ answer = "failed" /\ UNCHANGED connections
         \/ /\ ~fails /\ answer = "stored"
            /\ connections' = Append(connections, c.arg.name)

\* An edit reads the row first.
ReadRow(c, answer) ==
  /\ c.answer = "none" /\ c.arg.id # Adding
  /\ answer = IF connections[c.arg.id] = Gone THEN "failed" ELSE "found"
  /\ UNCHANGED connections

\* An UPDATE of a row that has gone meanwhile is no error.
UpdateRow(c, answer) ==
  LET id == c.arg.id
      gone == connections[id] = Gone
      fails == ~gone /\ NameTaken(c, id)
  IN  /\ c.answer = "found"
      /\ answer = IF fails THEN "failed" ELSE "stored"
      /\ connections' = IF fails \/ gone THEN connections
                        ELSE [connections EXCEPT ![id] = c.arg.name]

\* The row stored is read back: if it has gone, the answer is a failure.
ReadBack(c, answer) ==
  /\ c.answer = "stored"
  /\ answer = IF connections[c.value] = Gone THEN "failed" ELSE "ok"
  /\ UNCHANGED connections

\* One statement for the request c, which is then answered, found or stored.
SaveStep(c, answer) ==
  /\ c.what = "save"
  /\ \/ InsertRow(c, answer) \/ ReadRow(c, answer)
     \/ UpdateRow(c, answer) \/ ReadBack(c, answer)
  /\ UNCHANGED level

\* The id of the row that is stored.
RowOf(c) ==
  IF c.arg.id = Adding THEN Len(connections) + 1 ELSE c.arg.id

SaveAnswers == {"found", "stored", "ok", "failed"}

ServeSave(i) ==
  /\ calls[i].answer \in {"none", "found", "stored"}
  /\ calls[i].answer = "none" => ~Refused(i)
  /\ \E answer \in SaveAnswers :
       /\ SaveStep(calls[i], answer)
       /\ Answers(i, answer,
                  IF answer = "stored" THEN RowOf(calls[i]) ELSE "")
  /\ UNCHANGED <<issuable, accepted, late>>

Serve(i) ==
  /\ i \in DOMAIN calls
  /\ \/ /\ calls[i].answer = "none"
        /\ \/ ServeLogin(i) \/ ServeSet(i) \/ ServeRemove(i) \/ ServeLevels(i)
           \/ ServeRows(i) \/ ServeUsers(i) \/ ServeList(i) \/ ServeTarget(i)
           \/ Refuse(i)
     \/ ServeSave(i)
  /\ ClientKept

\* The connection of a request that asks for a change breaks before the change
\* is made, and the server does not notice: handlers ignore the context of
\* their request as they write.  (Other requests change nothing that is shown.)
Break(i) ==
  /\ i \in DOMAIN calls
  /\ calls[i].what \in {"set", "save", "remove"}
  /\ calls[i].answer \in {"none", "found"}
  /\ Len(late) < scene.maxLate
  /\ late' = Append(late, [calls[i] EXCEPT !.mounted = FALSE,
                                           !.latest = FALSE])
  /\ Answers(i, "lost", "")
  /\ UNCHANGED <<issuable, accepted, level, connections>>
  /\ ClientKept

\* A page that is shown does not come to know of a change made too late.
UnawareOf(v, c) == IF c.what = "set" THEN Doubted(v) ELSE ListDoubted(v, TRUE)

\* The server serves such a request, or the next statement of it.
ServeLate(n) ==
  LET c == late[n]
  IN  /\ n \in DOMAIN late
      /\ \/ /\ c.answer = "none" /\ c.token \notin accepted
            /\ late' = RemoveAt(late, n)
            /\ UNCHANGED <<level, connections, view>>
         \/ /\ c.answer = "none" => c.token \in accepted
            /\ \/ SetLevel(c) /\ late' = RemoveAt(late, n)
               \/ DeleteRow(c) /\ late' = RemoveAt(late, n)
               \/ \E answer \in SaveAnswers :
                    /\ SaveStep(c, answer)
                    /\ late' = IF answer = "found"
                               THEN [late EXCEPT ![n].answer = "found"]
                               ELSE RemoveAt(late, n)
            /\ view' = [view EXCEPT ![c.tab] = UnawareOf(@, c)]
      /\ UNCHANGED <<stored, claims, calls, reloads, scene, issuable, accepted>>

\* A token expires, or its key is replaced.
Expire ==
  /\ \E k \in accepted : accepted' = accepted \ {k}
  /\ UNCHANGED <<issuable, level, connections, late, calls>>
  /\ ClientKept

----------------------------------------------------------------------------
(* Answers *)

\* An answer no page waits for any more.
NobodyWaits(i) ==
  /\ ~calls[i].mounted /\ calls[i].what \notin {"login", "set", "save", "remove"}
  /\ Fails(i)
  /\ Answered(i) /\ UNCHANGED view
  /\ SessionKept

Deliver(i) ==
  /\ i \in DOMAIN calls
  /\ \/ SessionEnds(i) \/ LoggedIn(i) \/ LoginFailed(i) \/ ListShown(i)
     \/ SchemaAnswered(i) \/ CatalogsListed(i) \/ CatalogsFailed(i)
     \/ PulledBack(i) \/ RunAnswered(i) \/ KindAnswered(i) \/ CellAnswered(i)
     \/ AxisListed(i) \/ LevelsListed(i) \/ LevelSet(i) \/ LevelNotSet(i)
     \/ RowsListed(i) \/ Changed(i) \/ NotChanged(i)
     \/ NobodyWaits(i)

User(t) ==
  \/ Open(t) \/ Reload(t) \/ Submit(t) \/ Logout(t)
  \/ \E page \in Pages : Goto(t, page)
  \/ \E c \in ToSet(scene.catalogs) : Select(t, c)
  \/ Refresh(t) \/ RunByButton(t) \/ RunByKey(t) \/ Download(t)
  \/ Click(t)
  \/ \E c \in DOMAIN connections : StartEdit(t, c) \/ HandleDelete(t, c)
  \/ Cancel(t)
  \/ \E name \in scene.names : HandleSubmit(t, name)

Next ==
  \/ \E t \in Tabs : User(t)
  \/ Expire
  \/ \E i \in DOMAIN calls : Serve(i) \/ Break(i) \/ Deliver(i)
  \/ \E n \in DOMAIN late : ServeLate(n)

\* The oldest request is answered, or its connection breaks, some time, and so
\* is every other after it.  Users need do nothing, nor need tokens expire.
Fairness == WF_vars(Deliver(1))

Spec == Init /\ [][Next]_vars /\ Fairness

----------------------------------------------------------------------------
(* Properties *)

\* What a page may have out.
RequestsOf(page) ==
  CASE page = "login" -> {"login"}
    [] page = "connections" -> {"list"}
    [] page = "query" -> {"kind", "catalogs", "schema", "run", "cell"}
    [] page = "permissions" -> {"users", "connections", "perms", "set"}
    [] page = "connectionsAdmin" -> {"rows", "save", "remove"}

\* The shape of the variables; an answer a page waits for is to one of its own
\* requests.
TypeOK ==
  /\ stored \in Tokens \cup {NoToken}
  /\ claims \in [Tabs -> Tokens \cup {NoToken}]
  /\ level \in ToSet(Levels)
  /\ \A t \in Tabs : DOMAIN view[t] = DOMAIN Opened(view[t].page, NoCatalog)
  /\ \A i \in DOMAIN calls :
       calls[i].mounted =>
         calls[i].what \in RequestsOf(view[calls[i].tab].page)

\* What is shown under the editor is the outcome of the statement run last,
\* and nothing is while one is running, also after pages were left with
\* statements out; unless Mod-Enter has sent one while another was out.
ResultIsLastRuns ==
  \A t \in Tabs :
    (OnQueryPage(t) /\ ~view[t].overlapped) =>
      /\ \A outcome \in {view[t].result, view[t].error} :
           outcome.answered => outcome.latest /\ ~view[t].running
      /\ ~(view[t].result.answered /\ view[t].error.answered)

\* Once the catalogs are there, or have failed to come, the schema in the
\* sidebar is that of the selected catalog, if it is the answer to the request
\* sent last.  Before, an earlier visit's catalogs may select another.
SchemaIsOfCatalog ==
  \A t \in Tabs :
    (/\ OnQueryPage(t) /\ view[t].loaded
     /\ view[t].schema.answered /\ view[t].schema.latest) =>
       view[t].schema.catalog = view[t].catalog

\* A cell is fetched from the database its result came from, unless that has
\* changed since the run (by hand, or as the first catalog of the list was
\* selected), or runs have overlapped.
DownloadsMatchResult ==
  [][\A t \in Tabs :
       (OnQueryPage(t) /\ Download(t)) =>
         \/ Database(Last(calls').arg) = Database(view[t].result.catalog)
         \/ view[t].moved \/ view[t].overlapped]_vars

\* No other tab comes to that page.
Alone(t, page) ==
  \A u \in Tabs \ {t} : page \notin scene.visits[u] \cup {scene.start[u]}

\* With no change out, the matrix shows the level that is stored, if the list
\* that came last was asked for last, neither it nor a change has come to
\* nothing since, and no other tab changes it.
MatrixCurrent ==
  \A t \in Tabs :
    (/\ Alone(t, "permissions")
     /\ view[t].page = "permissions" /\ view[t].latest /\ ~view[t].doubt
     /\ \A i \in DOMAIN calls : calls[i].what # "set") =>
       view[t].level = level

\* With no change out, the admin's list of connections is what is stored, if
\* the list that came last was asked for last, no change was made since whose
\* answer was lost or came to an earlier visit of the page, and no other tab
\* makes any.
ConnectionsCurrent ==
  \A t \in Tabs :
    (/\ Alone(t, "connectionsAdmin")
     /\ OnConnectionsAdmin(t) /\ view[t].latest /\ ~view[t].doubt
     /\ \A i \in DOMAIN calls : calls[i].what \notin {"save", "remove"}) =>
       view[t].rows = connections

\* An edit that is begun stays in the form until the user leaves it, or the
\* answer to a save comes, be it an earlier one's, or to a deletion of what was
\* edited then.  Lists that arrive, changes that fail and deletions of other
\* connections leave it alone.
EditsStayInForm ==
  [][\A t \in Tabs :
       (/\ OnConnectionsAdmin(t) /\ view[t].editing # Adding
        /\ view'[t].page = "connectionsAdmin"
        /\ view'[t].editing # view[t].editing) =>
         \/ \E c \in DOMAIN connections : StartEdit(t, c)
         \/ Cancel(t) \/ Reload(t)
         \/ \E i \in DOMAIN calls :
              /\ calls[i].tab = t /\ Ok(i)
              /\ calls[i].what = "save" \/
                   (calls[i].what = "remove"
                      /\ calls[i].arg.id = calls[i].arg.editing)]_vars

\* The query page is opened by its user, or by the answer to the request for
\* catalogs of an earlier visit whose address named none; one that did leaves
\* the user where they have gone.
PagesOpenOnPurpose ==
  [][\A t \in Tabs :
       (~OnQueryPage(t) /\ view'[t].page = "query") =>
         \/ Open(t) \/ Goto(t, "query")
         \/ \E i \in DOMAIN calls :
              /\ calls[i].tab = t /\ calls[i].what = "catalogs"
              /\ ~calls[i].mounted /\ calls[i].arg = NoCatalog]_vars

\* A token that the server accepts is thrown away only by a logout, by a late
\* 401 to a request with another token, or by a wrong password on a login page
\* while it is stored; never by a request without a token.
LiveSessionsEndKnowingly ==
  [][(stored \in accepted /\ stored' = NoToken) =>
       \/ \E t \in Tabs : Logout(t)
       \/ \E i \in DOMAIN calls :
            /\ calls[i].answer = "refused"
            /\ calls[i].token \notin {NoToken, stored}
                 \/ (calls[i].what = "login" /\ calls[i].token = stored)]_vars

\* "As opposed to a 401 from /api/login itself (wrong credentials, no token
\* sent)": a refused login leaves the stored token alone.
LoginRefusalsEndNothing ==
  [][\A i \in DOMAIN calls :
       (calls[i].what = "login" /\ calls[i].answer = "refused" /\ Deliver(i))
         => stored' = stored]_vars

\* onUnauthorized: once a request that carried a token is refused, its tab
\* comes to show the login page, though another tab may have cleared the token
\* meanwhile, and unless it is reloaded; "instead of leaving every page to show
\* a generic error".
ExpiredSessionsEnd ==
  \A t \in Tabs :
    (/\ reloads = scene.maxReloads
     /\ \E i \in DOMAIN calls :
          /\ calls[i].tab = t /\ calls[i].token # NoToken
          /\ calls[i].answer = "refused")
      ~> (claims[t] = NoToken /\ view[t].page = "login")

\* A query page that stays open comes to ask for a schema and to be answered,
\* whether or not there are catalogs, or an answer about them.
PageLoads ==
  \A t \in Tabs :
    OnQueryPage(t) ~> (OnQueryPage(t) => view[t].schema.answered)

Running(t) == OnQueryPage(t) /\ view[t].running

\* The button is enabled again after every run, whatever came of it.
RunsEnd == \A t \in Tabs : Running(t) ~> ~Running(t)

=============================================================================
