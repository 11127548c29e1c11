----------------------------- MODULE QueryPage -----------------------------
(***************************************************************************)
(* The query page of one connection: its catalogs, the schema beside the   *)
(* editor, runs of statements and downloads of cells.  Answers arrive in   *)
(* any order, and every one is taken for what the page waits for.          *)
(***************************************************************************)
EXTENDS ClientSession

OnQueryPage(t) == view[t].page = "query"

\* dbconn.Open: the database on the server that a request for catalog reaches.
\* Oracle has one, and Postgres one that is always there.
Database(catalog) ==
  CASE scene.kind = "oracle" -> "service"
    [] scene.kind = "postgres" /\ catalog = NoCatalog -> "postgres"
    [] OTHER -> catalog

----------------------------------------------------------------------------
(* The schema *)

\* The effect's condition, and what it depends on.
SchemaWanted(v) == v.loaded /\ (v.catalogs # << >> => v.catalog # NoCatalog)

\* Mutant: the selected catalog is not among them.
EffectDependsLoaded(v) == <<v.loaded, Len(v.catalogs)>>

EffectDepends(v) == <<v.loaded, Len(v.catalogs), v.catalog>>

\* loadSchema
LoadSchema(t, v, cs) ==
  /\ Becomes(t, [v EXCEPT !.schema.latest = FALSE])
  /\ calls' = Sent(cs, Call(t, "schema", v.catalog, stored))

\* The page comes to v with the requests cs out, and its effect follows.
Settles(t, v, cs) ==
  IF SchemaWanted(v) /\ EffectDepends(v) # EffectDepends(view[t])
  THEN LoadSchema(t, v, cs)
  ELSE Becomes(t, v) /\ calls' = cs

Refresh(t) ==
  /\ OnQueryPage(t) /\ Room
  /\ LoadSchema(t, view[t], calls)
  /\ SessionKept

SchemaAnswered(i) ==
  LET t == calls[i].tab
      c == calls[i]
  IN  /\ c.what = "schema" /\ c.mounted
      /\ ~EndsSession(i)
      /\ Becomes(t, [view[t] EXCEPT !.schema =
                       [answered |-> TRUE, catalog |-> c.arg,
                        latest |-> c.latest]])
      /\ Answered(i)
      /\ SessionKept

----------------------------------------------------------------------------
(* The catalog *)

AtCatalog(v, catalog) ==
  [v EXCEPT !.catalog = catalog,
            !.moved = @ \/ Database(v.catalog) # Database(catalog)]

Select(t, catalog) ==
  /\ OnQueryPage(t) /\ Room
  /\ catalog \in ToSet(view[t].catalogs) \ {view[t].catalog}
  /\ Settles(t, AtCatalog(view[t], catalog), calls)
  /\ SessionKept

\* Mutant: whatever the address says, the first catalog is selected.
DefaultsAlways(i) == scene.catalogs # << >>

\* The address the page was mounted with names no catalog, and there are some.
Defaults(i) == scene.catalogs # << >> /\ calls[i].arg = NoCatalog

CatalogsListed(i) ==
  LET t == calls[i].tab
      v == [view[t] EXCEPT !.catalogs = scene.catalogs, !.loaded = TRUE]
  IN  /\ calls[i].what = "catalogs" /\ calls[i].mounted /\ Ok(i)
      /\ Settles(t, IF Defaults(i) THEN AtCatalog(v, scene.catalogs[1]) ELSE v,
                 RemoveAt(calls, i))
      /\ SessionKept

\* Mutant: the page keeps waiting for them.
CatalogsFailedForGood(i) ==
  /\ calls[i].what = "catalogs" /\ calls[i].mounted /\ Fails(i)
  /\ Answered(i) /\ UNCHANGED view
  /\ SessionKept

CatalogsFailed(i) ==
  LET t == calls[i].tab
  IN  /\ calls[i].what = "catalogs" /\ calls[i].mounted /\ Fails(i)
      /\ Settles(t, [view[t] EXCEPT !.catalogs = << >>, !.loaded = TRUE],
                 RemoveAt(calls, i))
      /\ SessionKept

\* The catalogs of a page that was left: selecting the first of them means to
\* go to that page's address, from wherever the tab is.
PulledBack(i) ==
  LET t == calls[i].tab
      page == PageFor(claims[t], "query")
  IN  /\ calls[i].what = "catalogs" /\ ~calls[i].mounted /\ Ok(i)
      /\ Defaults(i)
      /\ IF OnQueryPage(t)
         THEN Settles(t, AtCatalog(view[t], scene.catalogs[1]), RemoveAt(calls, i))
         ELSE Mount(t, page, scene.catalogs[1], RemoveAt(calls, i), stored)
      /\ SessionKept

----------------------------------------------------------------------------
(* Runs and downloads *)

RunIn(t, catalog, overlapped) ==
  /\ Becomes(t, [view[t] EXCEPT !.running = TRUE, !.result = Unanswered,
                                !.error = Unanswered, !.moved = FALSE,
                                !.overlapped = overlapped])
  /\ calls' = Sent(calls, Call(t, "run", catalog, stored))
  /\ SessionKept

\* Mutant: the statement goes to the catalog of the first rendering, in the
\* handler the editor was given then.
RunFirstRendered(t, overlapped) == RunIn(t, NoCatalog, overlapped)

Run(t, overlapped) == RunIn(t, view[t].catalog, overlapped)

\* Mutant: the button is never disabled.
RunByButtonAlways(t) ==
  /\ OnQueryPage(t) /\ Room
  /\ Run(t, view[t].overlapped /\ Out(t, {"run"}))

RunByButton(t) ==
  /\ OnQueryPage(t) /\ Room
  /\ ~view[t].running
  /\ Run(t, view[t].overlapped /\ Out(t, {"run"}))

\* Mod-Enter, which nothing disables.
RunByKey(t) ==
  /\ OnQueryPage(t) /\ Room
  /\ Run(t, Out(t, {"run"}))

\* Mutant: the flag is reset by results only.
RunAnsweredResultsOnly(i) ==
  LET t == calls[i].tab
      c == calls[i]
      outcome == [answered |-> TRUE, catalog |-> c.arg, latest |-> c.latest]
  IN  /\ c.what = "run" /\ c.mounted
      /\ \/ Ok(i) /\ Becomes(t, [view[t] EXCEPT !.result = outcome,
                                               !.running = FALSE])
         \/ Fails(i) /\ Becomes(t, [view[t] EXCEPT !.error = outcome])
      /\ Answered(i)
      /\ SessionKept

RunAnswered(i) ==
  LET t == calls[i].tab
      c == calls[i]
      outcome == [answered |-> TRUE, catalog |-> c.arg, latest |-> c.latest]
  IN  /\ c.what = "run" /\ c.mounted
      /\ \/ Ok(i) /\ Becomes(t, [view[t] EXCEPT !.result = outcome,
                                               !.running = FALSE])
         \/ Fails(i) /\ Becomes(t, [view[t] EXCEPT !.error = outcome,
                                                  !.running = FALSE])
      /\ Answered(i)
      /\ SessionKept

\* downloadCell: the cell is asked for in the catalog selected now.
Download(t) ==
  /\ OnQueryPage(t) /\ Room
  /\ view[t].result.answered
  /\ calls' = Sent(calls, Call(t, "cell", view[t].catalog, stored))
  /\ UNCHANGED view
  /\ SessionKept

\* Nothing is shown of it.
Unshown(i) ==
  /\ calls[i].mounted /\ ~EndsSession(i)
  /\ Answered(i) /\ UNCHANGED view
  /\ SessionKept

\* The connection's kind, for the editor's dialect.
KindAnswered(i) == calls[i].what = "kind" /\ Unshown(i)

\* A cell, to be saved as a file.
CellAnswered(i) == calls[i].what = "cell" /\ Unshown(i)

=============================================================================
