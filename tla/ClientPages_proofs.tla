------------------------- MODULE ClientPages_proofs -------------------------
(***************************************************************************)
(* The client: proofs that what its pages show is what they were asked     *)
(* for: the outcome of the last run, the schema of the selected catalog,   *)
(* cells of the result's database, and the levels and connections that     *)
(* are stored.                                                             *)
(***************************************************************************)
EXTENDS Client_proofs

----------------------------------------------------------------------------
(* What holds on the query page of tab t. *)

\* The requests of a kind that it waits for.
Waits(t, what) ==
  {k \in DOMAIN calls :
     calls[k].tab = t /\ calls[k].what = what /\ calls[k].mounted}

\* Unless runs overlap, one is waited for at most, the last one, and its
\* outcome is the only one that is shown.
RunsRight(t) ==
  (OnQueryPage(t) /\ ~view[t].overlapped) =>
    /\ \A k \in Waits(t, "run") : calls[k].latest /\ view[t].running
    /\ view[t].result.answered => view[t].result.latest /\ ~view[t].running
    /\ view[t].error.answered => view[t].error.latest /\ ~view[t].running
    /\ ~(view[t].result.answered /\ view[t].error.answered)

\* Once the page is loaded, its last request for a schema names the selected
\* catalog, whether it is out or answered.  For that, there are catalogs to
\* select only on a page that is loaded, and a page that was opened at a catalog
\* has one selected.
SchemaRight(t) ==
  OnQueryPage(t) =>
    /\ view[t].catalogs \in {<< >>, scene.catalogs}
    /\ view[t].catalogs # << >> => view[t].loaded
    /\ \A k \in Waits(t, "catalogs") :
         calls[k].arg # NoCatalog => view[t].catalog # NoCatalog
    /\ view[t].loaded =>
         \A k \in Waits(t, "schema") :
           calls[k].latest => calls[k].arg = view[t].catalog
    /\ (view[t].loaded /\ view[t].schema.answered /\ view[t].schema.latest) =>
         view[t].schema.catalog = view[t].catalog

\* Unless runs overlap or the database changes, the run that is out and the
\* result that is shown are the selected database's.
DatabaseRight(t) ==
  (OnQueryPage(t) /\ ~view[t].overlapped /\ ~view[t].moved) =>
    /\ \A k \in Waits(t, "run") :
         Database(calls[k].arg) = Database(view[t].catalog)
    /\ view[t].result.answered =>
         Database(view[t].result.catalog) = Database(view[t].catalog)

QueryRight(t) == RunsRight(t) /\ SchemaRight(t) /\ DatabaseRight(t)

----------------------------------------------------------------------------
(* Steps that leave the query page as it is, or open it. *)

\* But for their answers, the same request.
SameRequest(d, c) ==
  /\ d.tab = c.tab /\ d.what = c.what /\ d.arg = c.arg
  /\ d.mounted = c.mounted /\ d.latest = c.latest

\* Tab t waits for what it waited for on the page, or for less.
SameWaits(t, page) ==
  \A k \in DOMAIN calls' :
    (/\ calls'[k].tab = t /\ calls'[k].mounted
     /\ calls'[k].what \in RequestsOf(page)) =>
       \E j \in DOMAIN calls : SameRequest(calls'[k], calls[j])

\* The requests of the query page.
LEMMA QueryRequests ==
  /\ "run" \in RequestsOf("query") /\ "schema" \in RequestsOf("query")
  /\ "catalogs" \in RequestsOf("query") /\ "cell" \in RequestsOf("query")
BY DEF RequestsOf

\* What the page shows and waits for is the same.
LEMMA SameStaysRight ==
  ASSUME NEW t \in Tabs, QueryRight(t), scene' = scene,
         view'[t].page = "query" => view'[t] = view[t],
         view'[t].page = "query" => SameWaits(t, "query")
  PROVE  QueryRight(t)'
<1> SUFFICES ASSUME view'[t].page = "query"
             PROVE  QueryRight(t)'
  BY DEF QueryRight, RunsRight, SchemaRight, DatabaseRight, OnQueryPage
<1>1. view'[t] = view[t] /\ view[t].page = "query"
  OBVIOUS
<1>2. ASSUME NEW what \in {"run", "schema", "catalogs"},
             NEW k \in Waits(t, what)'
      PROVE  \E j \in Waits(t, what) : SameRequest(calls'[k], calls[j])
  BY <1>2, QueryRequests DEF Waits, SameWaits, SameRequest
<1>3. RunsRight(t)'
  BY <1>1, <1>2 DEF QueryRight, RunsRight, OnQueryPage, SameRequest
<1>4. SchemaRight(t)'
  BY <1>1, <1>2 DEF QueryRight, SchemaRight, OnQueryPage, SameRequest
<1>5. DatabaseRight(t)'
  BY <1>1, <1>2 DEF QueryRight, DatabaseRight, OnQueryPage, SameRequest, Database
<1> QED
  BY <1>3, <1>4, <1>5 DEF QueryRight

\* The page has just been opened.
LEMMA RemountedRight ==
  ASSUME NEW t \in Tabs, Remounts(t)
  PROVE  QueryRight(t)'
<1>1. PICK page \in Pages \cap Reachable(t) : \E catalog :
        /\ view'[t] = Opened(page, catalog)
        /\ \A k \in DOMAIN calls' :
             (calls'[k].tab = t /\ calls'[k].mounted) =>
               /\ calls'[k].answer = "none" /\ calls'[k].arg = catalog
               /\ calls'[k].what \notin Changes \cup {"schema", "run", "cell"}
  BY DEF Remounts
<1>2. PICK catalog :
        /\ view'[t] = Opened(page, catalog)
        /\ \A k \in DOMAIN calls' :
             (calls'[k].tab = t /\ calls'[k].mounted) =>
               /\ calls'[k].answer = "none" /\ calls'[k].arg = catalog
               /\ calls'[k].what \notin Changes \cup {"schema", "run", "cell"}
  BY <1>1
<1> SUFFICES ASSUME page = "query"
             PROVE  QueryRight(t)'
  BY <1>2, OpenedIsView
    DEF QueryRight, RunsRight, SchemaRight, DatabaseRight, OnQueryPage
<1>3. /\ view'[t].catalog = catalog /\ view'[t].catalogs = << >>
      /\ ~view'[t].loaded /\ view'[t].result = Unanswered
      /\ view'[t].error = Unanswered
  BY <1>2, OpenedIsView, QueryViewIsView
<1>4. Waits(t, "run")' = {} /\ Waits(t, "schema")' = {}
  BY <1>2 DEF Waits
<1>5. RunsRight(t)' /\ DatabaseRight(t)'
  BY <1>3, <1>4, NothingAnswered DEF RunsRight, DatabaseRight
<1>6. \A k \in Waits(t, "catalogs")' : calls'[k].arg = catalog
  BY <1>2 DEF Waits
<1>7. SchemaRight(t)'
  BY <1>3, <1>4, <1>6 DEF SchemaRight
<1> QED
  BY <1>5, <1>7 DEF QueryRight

----------------------------------------------------------------------------
(* Steps of the query page. *)

\* Tab t asks for what, with arg, and waits for the rest as it did.
Asks(t, what, arg) ==
  \A k \in DOMAIN calls' :
    (calls'[k].tab = t /\ calls'[k].mounted) =>
      \/ calls'[k].what = what /\ calls'[k].arg = arg /\ calls'[k].latest
      \/ \E j \in DOMAIN calls :
           /\ Weakened(calls'[k], calls[j])
           /\ calls[j].what = what => ~calls'[k].latest
           /\ calls[j].what # what => calls'[k] = calls[j]

\* A request of which there is a later one is no longer the latest.
LEMMA SentOutdates ==
  ASSUME NEW cs, GoodCalls(cs), NEW call, IsCall(call),
         call.latest = call.mounted, NEW ds, ds = Sent(cs, call)
  PROVE  \A k \in DOMAIN cs :
           (cs[k].tab = call.tab /\ cs[k].what = call.what /\ call.mounted)
             => ~ds[k].latest
BY SentProperties

\* A request that is sent is waited for as the latest of its kind.
LEMMA SentAsks ==
  ASSUME Typing, NEW t \in Tabs, NEW what \in Whats, NEW arg,
         ArgFits(what, arg),
         NEW cs, PartOf(cs, calls),
         calls' = Sent(cs, Call(t, what, arg, stored))
  PROVE  Asks(t, what, arg)
<1> DEFINE call == Call(t, what, arg, stored)
<1>1. IsCall(call) /\ call.tab = t /\ call.what = what /\ call.arg = arg
  BY NewCall DEF Typing, SessionTyped
<1>m. call.mounted /\ call.latest
  BY NewCall DEF Typing, SessionTyped
<1>2. calls' = Sent(cs, call)
  OBVIOUS
<1> HIDE DEF call
<1>3. /\ DOMAIN cs = 1 .. Len(cs) /\ Len(cs) \in Nat
      /\ DOMAIN calls' = 1 .. (Len(cs) + 1)
      /\ calls'[Len(cs) + 1] = call
      /\ \A k \in DOMAIN cs :
           /\ Weakened(calls'[k], cs[k])
           /\ (cs[k].tab = t /\ cs[k].what = what) => ~calls'[k].latest
           /\ ~(cs[k].tab = t /\ cs[k].what = what) => calls'[k] = cs[k]
  <2>1. call.latest = call.mounted
    BY <1>1, <1>m DEF IsCall
  <2>2. GoodCalls(cs)
    BY DEF PartOf
  <2>3. /\ DOMAIN cs = 1 .. Len(cs) /\ Len(cs) \in Nat
        /\ DOMAIN calls' = 1 .. (Len(cs) + 1)
        /\ calls'[Len(cs) + 1] = call
        /\ \A k \in DOMAIN cs :
             /\ Weakened(calls'[k], cs[k])
             /\ ~(cs[k].tab = call.tab /\ cs[k].what = call.what)
                  => calls'[k] = cs[k]
    BY <1>1, <1>2, <2>1, <2>2, SentProperties
  <2>4. \A k \in DOMAIN cs :
          (cs[k].tab = call.tab /\ cs[k].what = call.what /\ call.mounted)
            => ~calls'[k].latest
    BY <1>1, <1>2, <2>1, <2>2, SentOutdates
  <2> QED
    BY <1>1, <1>m, <2>3, <2>4
<1>4. \A k \in DOMAIN calls' : k = Len(cs) + 1 \/ k \in DOMAIN cs
  BY <1>3
<1>5. ASSUME NEW k \in DOMAIN cs, calls'[k].tab = t
      PROVE  \E j \in DOMAIN calls :
               /\ Weakened(calls'[k], calls[j])
               /\ calls[j].what = what => ~calls'[k].latest
               /\ calls[j].what # what => calls'[k] = calls[j]
  <2>1. PICK j \in DOMAIN calls : cs[k] = calls[j]
    BY DEF PartOf
  <2>2. Weakened(calls'[k], calls[j]) /\ calls[j].tab = t
    BY <1>3, <1>5, <2>1 DEF Weakened
  <2> QED
    BY <1>3, <2>1, <2>2
<1> QED
  BY <1>1, <1>m, <1>3, <1>4, <1>5 DEF Asks

\* What a new catalog or new catalogs leave of the page.
Follows(v, u) ==
  /\ v.running = u.running /\ v.overlapped = u.overlapped
  /\ v.result = u.result /\ v.error = u.error /\ v.schema = u.schema
  /\ ~v.moved => ~u.moved /\ Database(v.catalog) = Database(u.catalog)
  /\ v.catalogs \in {<< >>, scene.catalogs}
  /\ v.catalogs # << >> => v.loaded
  /\ v.catalog = u.catalog \/ v.catalog # NoCatalog

\* The schema is asked for.
LEMMA LoadsRight ==
  ASSUME Typing, NEW t \in Tabs, QueryRight(t), view[t].page = "query",
         scene' = scene, NEW v, IsView(v), v.page = "query",
         Follows(v, view[t]),
         NEW cs, PartOf(cs, calls), LoadSchema(t, v, cs)
  PROVE  QueryRight(t)'
<1> DEFINE w == [v EXCEPT !.schema.latest = FALSE]
<1>1. /\ IsView(w) /\ w.page = "query"
      /\ w.catalog = v.catalog /\ w.catalogs = v.catalogs
      /\ w.loaded = v.loaded /\ w.running = v.running
      /\ w.result = v.result /\ w.error = v.error
      /\ w.moved = v.moved /\ w.overlapped = v.overlapped
      /\ ~w.schema.latest
  BY LoadingView
<1>2. Becomes(t, w) /\ calls' = Sent(cs, Call(t, "schema", v.catalog, stored))
  BY DEF LoadSchema
<1> HIDE DEF w
<1>3. view'[t] = w
  BY <1>1, <1>2, OneViewChanges DEF Typing
<1>4. Asks(t, "schema", v.catalog)
  BY <1>2, SentAsks DEF Whats, ArgFits
<1>5. ASSUME NEW what \in {"run", "catalogs"}, NEW k \in Waits(t, what)'
      PROVE  \E j \in Waits(t, what) : calls'[k] = calls[j]
  BY <1>4, <1>5 DEF Asks, Waits, Weakened
<1>6. ASSUME NEW k \in Waits(t, "schema")', calls'[k].latest
      PROVE  calls'[k].arg = v.catalog
  BY <1>4, <1>6 DEF Asks, Waits, Weakened
<1>7. RunsRight(t)'
  BY <1>1, <1>3, <1>5 DEF QueryRight, RunsRight, OnQueryPage, Follows
<1>8. SchemaRight(t)'
  BY <1>1, <1>3, <1>5, <1>6 DEF QueryRight, SchemaRight, OnQueryPage, Follows
<1>9. DatabaseRight(t)'
  BY <1>1, <1>3, <1>5
    DEF QueryRight, DatabaseRight, OnQueryPage, Follows, Database
<1> QED
  BY <1>7, <1>8, <1>9 DEF QueryRight

\* The page changes, and its effect follows.
LEMMA SettlesRight ==
  ASSUME Typing, NEW t \in Tabs, QueryRight(t), view[t].page = "query",
         scene' = scene, NEW v, IsView(v), v.page = "query",
         Follows(v, view[t]), v.loaded => SchemaWanted(v),
         NEW cs, PartOf(cs, calls), Settles(t, v, cs)
  PROVE  QueryRight(t)'
<1>1. CASE LoadSchema(t, v, cs)
  BY <1>1, LoadsRight
<1>2. CASE /\ Becomes(t, v) /\ calls' = cs
           /\ v.loaded => EffectDepends(v) = EffectDepends(view[t])
  <2>1. view'[t] = v
    BY <1>2, OneViewChanges DEF Typing
  <2>2. v.loaded => v.catalog = view[t].catalog /\ v.loaded = view[t].loaded
    BY <1>2 DEF EffectDepends
  <2>3. ASSUME NEW what, NEW k \in Waits(t, what)'
        PROVE  \E j \in Waits(t, what) : calls'[k] = calls[j]
    BY <1>2, <2>3 DEF Waits, PartOf
  <2>4. RunsRight(t)'
    BY <2>1, <2>3 DEF QueryRight, RunsRight, OnQueryPage, Follows
  <2>5. SchemaRight(t)'
    BY <2>1, <2>2, <2>3 DEF QueryRight, SchemaRight, OnQueryPage, Follows
  <2>6. DatabaseRight(t)'
    BY <2>1, <2>3 DEF QueryRight, DatabaseRight, OnQueryPage, Follows, Database
  <2> QED
    BY <2>4, <2>5, <2>6 DEF QueryRight
<1> QED
  BY <1>1, <1>2 DEF Settles

\* A statement is run.
LEMMA RunRight ==
  ASSUME Typing, NEW t \in Tabs, QueryRight(t), view[t].page = "query",
         scene' = scene, NEW overlapped, overlapped \in BOOLEAN,
         ~overlapped => Waits(t, "run") = {}, Run(t, overlapped)
  PROVE  QueryRight(t)'
<1> DEFINE w == Rerun(view[t], overlapped)
<1>1. /\ IsView(w) /\ w.page = "query"
      /\ w.catalog = view[t].catalog /\ w.catalogs = view[t].catalogs
      /\ w.loaded = view[t].loaded /\ w.schema = view[t].schema
      /\ w.result = Unanswered /\ w.error = Unanswered
  BY TabViews, RunningView
<1>2. w.running /\ ~w.moved /\ w.overlapped = overlapped
  BY TabViews, RunningView
<1>3. /\ Becomes(t, w)
      /\ calls' = Sent(calls, Call(t, "run", view[t].catalog, stored))
  BY DEF Run, RunIn, Rerun
<1> HIDE DEF w
<1>4. view'[t] = w
  BY <1>1, <1>3, OneViewChanges DEF Typing
<1>5. Asks(t, "run", view[t].catalog)
  BY <1>3, SentAsks, AllPart DEF Whats, Typing, CallsTyped, ArgFits
<1>6. ASSUME NEW what \in {"schema", "catalogs"}, NEW k \in Waits(t, what)'
      PROVE  \E j \in Waits(t, what) : calls'[k] = calls[j]
  BY <1>5, <1>6 DEF Asks, Waits, Weakened
<1>7. ASSUME ~overlapped, NEW k \in Waits(t, "run")'
      PROVE  calls'[k].latest /\ calls'[k].arg = view[t].catalog
  BY <1>5, <1>7 DEF Asks, Waits, Weakened
<1>8. RunsRight(t)'
  BY <1>1, <1>2, <1>4, <1>7, NothingAnswered DEF RunsRight, OnQueryPage
<1>9. SchemaRight(t)'
  BY <1>1, <1>4, <1>6 DEF QueryRight, SchemaRight, OnQueryPage
<1>10. DatabaseRight(t)'
  BY <1>1, <1>2, <1>4, <1>7, NothingAnswered
    DEF DatabaseRight, OnQueryPage, Database
<1> QED
  BY <1>8, <1>9, <1>10 DEF QueryRight

\* Nothing of the page changes but what it is asked for.
LEMMA QueryViewFollows ==
  ASSUME NEW t \in Tabs, SchemaRight(t), view[t].page = "query"
  PROVE  Follows(view[t], view[t])
BY DEF SchemaRight, Follows, OnQueryPage

\* Every catalog has a name.
LEMMA CatalogIsNamed ==
  ASSUME Typing, NEW c \in ToSet(scene.catalogs)
  PROVE  c # NoCatalog
BY SceneFacts DEF Typing, SessionTyped

\* The catalog that is selected by default.
LEMMA FirstCatalog ==
  ASSUME Typing, scene.catalogs # << >>
  PROVE  scene.catalogs[1] \in ToSet(scene.catalogs)
<1>1. scene.catalogs \in Seq(STRING)
  BY SceneFacts DEF Typing, SessionTyped
<1> QED
  BY <1>1 DEF ToSet

\* Another catalog is selected.
LEMMA MovesRight ==
  ASSUME Typing, NEW t \in Tabs, QueryRight(t), view[t].page = "query",
         scene' = scene, NEW c \in ToSet(scene.catalogs),
         NEW cs, PartOf(cs, calls), Settles(t, AtCatalog(view[t], c), cs)
  PROVE  QueryRight(t)'
<1> DEFINE v == AtCatalog(view[t], c)
<1>1. /\ IsView(v) /\ v.page = "query"
      /\ v.catalog = c /\ v.catalogs = view[t].catalogs
      /\ v.loaded = view[t].loaded /\ v.running = view[t].running
      /\ v.schema = view[t].schema
      /\ v.result = view[t].result /\ v.error = view[t].error
      /\ v.overlapped = view[t].overlapped
      /\ ~v.moved => ~view[t].moved /\ Database(view[t].catalog) = Database(c)
  BY TabViews, MovedView
<1>2. Settles(t, v, cs)
  OBVIOUS
<1> HIDE DEF v
<1>3. v.catalog # NoCatalog
  BY <1>1, CatalogIsNamed
<1>4. Follows(v, view[t])
  BY <1>1, <1>3 DEF QueryRight, SchemaRight, OnQueryPage, Follows
<1>5. v.loaded => SchemaWanted(v)
  BY <1>3 DEF SchemaWanted
<1> QED
  BY <1>1, <1>2, <1>4, <1>5, SettlesRight

\* The actions on the page.
LEMMA QueryActionsRight ==
  ASSUME Typing, NEW t \in Tabs, QueryRight(t), scene' = scene,
         \/ \E c \in ToSet(scene.catalogs) : Select(t, c)
         \/ Refresh(t) \/ RunByButton(t) \/ RunByKey(t) \/ Download(t)
  PROVE  QueryRight(t)'
<1>0. view[t].page = "query" /\ IsView(view[t]) /\ PartOf(calls, calls)
  BY TabViews, AllPart
    DEF Select, Refresh, RunByButton, RunByKey, Download, OnQueryPage,
        Typing, CallsTyped
<1>1. ASSUME NEW c \in ToSet(scene.catalogs), Select(t, c)
      PROVE  QueryRight(t)'
  BY <1>0, <1>1, MovesRight DEF Select
<1>2. CASE Refresh(t)
  BY <1>0, <1>2, LoadsRight, QueryViewFollows DEF Refresh, QueryRight
<1>3. Out(t, {"run"}) <=> Waits(t, "run") # {}
  BY DEF Out, Waits
<1>4. CASE RunByButton(t)
  <2> DEFINE o == view[t].overlapped /\ Out(t, {"run"})
  <2>1. o \in BOOLEAN /\ Run(t, o) /\ ~view[t].running
    BY <1>4 DEF RunByButton
  <2>2. ~o => Waits(t, "run") = {}
    BY <1>0, <1>3, <2>1 DEF QueryRight, RunsRight, OnQueryPage
  <2> HIDE DEF o
  <2> QED
    BY <1>0, <2>1, <2>2, RunRight
<1>5. CASE RunByKey(t)
  <2> DEFINE o == Out(t, {"run"})
  <2>1. o \in BOOLEAN /\ Run(t, o) /\ (~o => Waits(t, "run") = {})
    BY <1>3, <1>5 DEF RunByKey, Out
  <2> HIDE DEF o
  <2> QED
    BY <1>0, <2>1, RunRight
<1>6. CASE Download(t)
  <2>1. /\ view'[t] = view[t]
        /\ calls' = Sent(calls, Call(t, "cell", view[t].catalog, stored))
    BY <1>6 DEF Download
  <2>2. Asks(t, "cell", view[t].catalog)
    BY <1>0, <2>1, SentAsks DEF Whats, ArgFits
  <2>3. ASSUME NEW what \in {"run", "schema", "catalogs"},
               NEW k \in Waits(t, what)'
        PROVE  \E j \in Waits(t, what) : calls'[k] = calls[j]
    BY <2>2, <2>3 DEF Asks, Waits, Weakened
  <2>4. RunsRight(t)'
    BY <2>1, <2>3 DEF QueryRight, RunsRight, OnQueryPage
  <2>5. SchemaRight(t)'
    BY <2>1, <2>3 DEF QueryRight, SchemaRight, OnQueryPage
  <2>6. DatabaseRight(t)'
    BY <2>1, <2>3 DEF QueryRight, DatabaseRight, OnQueryPage, Database
  <2> QED
    BY <2>4, <2>5, <2>6 DEF QueryRight
<1> QED
  BY <1>1, <1>2, <1>4, <1>5, <1>6

----------------------------------------------------------------------------
(* Answers to the query page. *)

\* The catalogs come, or fail to.
LEMMA CatalogsRight ==
  ASSUME Typing, NEW t \in Tabs, QueryRight(t), view[t].page = "query",
         scene' = scene, NEW cs, PartOf(cs, calls),
         NEW catalogs \in {<< >>, scene.catalogs},
         catalogs # << >> => view[t].catalog # NoCatalog,
         Settles(t, WithCatalogs(view[t], catalogs), cs)
  PROVE  QueryRight(t)'
<1> DEFINE v == WithCatalogs(view[t], catalogs)
<1>1. /\ IsView(v) /\ v.page = "query"
      /\ v.catalog = view[t].catalog /\ v.catalogs = catalogs
      /\ v.running = view[t].running /\ v.schema = view[t].schema
      /\ v.result = view[t].result /\ v.error = view[t].error
      /\ v.moved = view[t].moved /\ v.overlapped = view[t].overlapped
  BY TabViews, CatalogsView
<1>2. v.loaded
  BY TabViews, CatalogsView
<1>3. Settles(t, v, cs)
  OBVIOUS
<1> HIDE DEF v
<1>4. Follows(v, view[t])
  BY <1>1, <1>2 DEF Follows
<1>5. SchemaWanted(v)
  BY <1>1, <1>2 DEF SchemaWanted
<1> QED
  BY <1>1, <1>3, <1>4, <1>5, SettlesRight

\* They come, and the first of them is selected.
LEMMA DefaultRight ==
  ASSUME Typing, NEW t \in Tabs, QueryRight(t), view[t].page = "query",
         scene' = scene, NEW cs, PartOf(cs, calls),
         NEW c \in ToSet(scene.catalogs),
         Settles(t, AtCatalog(WithCatalogs(view[t], scene.catalogs), c), cs)
  PROVE  QueryRight(t)'
<1> DEFINE u == WithCatalogs(view[t], scene.catalogs)
           v == AtCatalog(u, c)
<1>1. /\ IsView(u) /\ u.page = "query"
      /\ u.catalog = view[t].catalog /\ u.catalogs = scene.catalogs
      /\ u.running = view[t].running /\ u.schema = view[t].schema
      /\ u.result = view[t].result /\ u.error = view[t].error
      /\ u.moved = view[t].moved /\ u.overlapped = view[t].overlapped
  BY TabViews, CatalogsView
<1>2. u.loaded
  BY TabViews, CatalogsView
<1>3. Settles(t, v, cs)
  OBVIOUS
<1> HIDE DEF u
<1>4. /\ IsView(v) /\ v.page = "query"
      /\ v.catalog = c /\ v.catalogs = u.catalogs
      /\ v.loaded = u.loaded /\ v.running = u.running
      /\ v.schema = u.schema /\ v.result = u.result /\ v.error = u.error
      /\ v.overlapped = u.overlapped
      /\ ~v.moved => ~u.moved /\ Database(u.catalog) = Database(c)
  BY <1>1, MovedView
<1> HIDE DEF v
<1>5. v.catalog # NoCatalog /\ v.loaded
  BY <1>2, <1>4, CatalogIsNamed
<1>6. Follows(v, view[t])
  BY <1>1, <1>4, <1>5 DEF Follows
<1>7. SchemaWanted(v)
  BY <1>5 DEF SchemaWanted
<1> QED
  BY <1>3, <1>4, <1>6, <1>7, SettlesRight

\* An answer takes its request away.
LEMMA AnsweredWaits ==
  ASSUME Typing, NEW i \in DOMAIN calls, Answered(i), NEW t,
         NEW what, NEW k \in Waits(t, what)'
  PROVE  \E j \in Waits(t, what) \ {i} : calls'[k] = calls[j]
<1>1. PICK j \in DOMAIN calls \ {i} : calls'[k] = calls[j]
  BY RemovedPart DEF Typing, CallsTyped, Answered, Waits
<1> QED
  BY <1>1 DEF Waits

\* The schema comes, or fails to.
LEMMA SchemaAnsweredRight ==
  ASSUME Typing, NEW i \in DOMAIN calls, SchemaAnswered(i), NEW t,
         t = calls[i].tab, QueryRight(t), scene' = scene
  PROVE  QueryRight(t)'
<1> DEFINE o == [answered |-> TRUE, catalog |-> calls[i].arg,
                 latest |-> calls[i].latest]
           v == [view[t] EXCEPT !.schema = o]
<1>0. t \in Tabs /\ IsView(view[t]) /\ IsCall(calls[i])
  BY CallFacts, TabViews
<1>1. Becomes(t, v) /\ Answered(i) /\ i \in Waits(t, "schema")
  BY DEF SchemaAnswered, Waits
<1>2. view[t].page = "query"
  BY <1>1, PagesAre, QueryRequests, WaitingPage DEF Waits
<1>3. IsOutcome(o) /\ o.catalog = calls[i].arg /\ o.latest = calls[i].latest
  BY <1>0, NewOutcome DEF IsCall
<1> HIDE DEF o
<1>4. /\ IsView(v) /\ v.page = "query"
      /\ v.catalog = view[t].catalog /\ v.catalogs = view[t].catalogs
      /\ v.loaded = view[t].loaded /\ v.running = view[t].running
      /\ v.result = view[t].result /\ v.error = view[t].error
      /\ v.moved = view[t].moved /\ v.overlapped = view[t].overlapped
      /\ v.schema = o
  BY <1>0, <1>2, <1>3, SchemaView
<1> HIDE DEF v
<1>5. view'[t] = v
  BY <1>0, <1>1, <1>4, OneViewChanges DEF Typing
<1>6. ASSUME NEW what, NEW k \in Waits(t, what)'
      PROVE  \E j \in Waits(t, what) : calls'[k] = calls[j]
  BY <1>1, <1>6, AnsweredWaits
<1>7. RunsRight(t)'
  BY <1>2, <1>4, <1>5, <1>6 DEF QueryRight, RunsRight, OnQueryPage
<1>8. SchemaRight(t)'
  BY <1>1, <1>2, <1>3, <1>4, <1>5, <1>6 DEF QueryRight, SchemaRight, OnQueryPage
<1>9. DatabaseRight(t)'
  BY <1>2, <1>4, <1>5, <1>6 DEF QueryRight, DatabaseRight, OnQueryPage, Database
<1> QED
  BY <1>7, <1>8, <1>9 DEF QueryRight

\* The outcome of a run comes.
LEMMA RunAnsweredRight ==
  ASSUME Typing, NEW i \in DOMAIN calls, RunAnswered(i), NEW t,
         t = calls[i].tab, QueryRight(t), scene' = scene
  PROVE  QueryRight(t)'
<1> DEFINE o == [answered |-> TRUE, catalog |-> calls[i].arg,
                 latest |-> calls[i].latest]
<1>0. t \in Tabs /\ IsView(view[t]) /\ IsCall(calls[i])
  BY CallFacts, TabViews
<1>1. Answered(i) /\ i \in Waits(t, "run")
  BY DEF RunAnswered, Waits
<1>2. view[t].page = "query"
  BY <1>1, PagesAre, QueryRequests, WaitingPage DEF Waits
<1>3. IsOutcome(o) /\ o.catalog = calls[i].arg /\ o.latest = calls[i].latest
  BY <1>0, NewOutcome DEF IsCall
<1>4. \E v \in RanWith(view[t], o) : Becomes(t, v)
  BY DEF RunAnswered, RanWith
<1> HIDE DEF o
<1>5. PICK v \in RanWith(view[t], o) : Becomes(t, v)
  BY <1>4
<1>6. /\ IsView(v) /\ v.page = "query"
      /\ v.catalog = view[t].catalog /\ v.catalogs = view[t].catalogs
      /\ v.loaded = view[t].loaded /\ v.schema = view[t].schema
      /\ v.moved = view[t].moved /\ v.overlapped = view[t].overlapped
      /\ \/ v.result = o /\ v.error = view[t].error
         \/ v.error = o /\ v.result = view[t].result
  BY <1>0, <1>2, <1>3, RanView
<1>7. ~v.running
  BY <1>0, <1>2, <1>3, RanView
<1>8. view'[t] = v
  BY <1>0, <1>5, <1>6, OneViewChanges DEF Typing
<1>9. ASSUME NEW what, NEW k \in Waits(t, what)'
      PROVE  \E j \in Waits(t, what) \ {i} : calls'[k] = calls[j]
  BY <1>1, <1>9, AnsweredWaits
<1>10. RunsRight(t)'
  <2> SUFFICES ASSUME ~view[t].overlapped
               PROVE  RunsRight(t)'
    BY <1>6, <1>8 DEF RunsRight
  <2>1. /\ \A j \in Waits(t, "run") : calls[j].latest
        /\ calls[i].latest /\ ~view[t].result.answered
        /\ ~view[t].error.answered
    BY <1>1, <1>2 DEF QueryRight, RunsRight, OnQueryPage
  <2>2. \A j \in Waits(t, "run") : j = i
    BY <1>1, <2>1 DEF Waits, Typing, CallsTyped, GoodCalls
  <2>3. Waits(t, "run")' = {}
    BY <1>9, <2>2
  <2> QED
    BY <1>3, <1>6, <1>7, <1>8, <2>1, <2>3 DEF RunsRight
<1>11. SchemaRight(t)'
  BY <1>2, <1>6, <1>8, <1>9 DEF QueryRight, SchemaRight, OnQueryPage
<1>12. DatabaseRight(t)'
  BY <1>1, <1>2, <1>3, <1>6, <1>8, <1>9
    DEF QueryRight, DatabaseRight, OnQueryPage, Database
<1> QED
  BY <1>10, <1>11, <1>12 DEF QueryRight

\* The answers that are for the page.
LEMMA QueryAnswersRight ==
  ASSUME Typing, NEW i \in DOMAIN calls, QueryAnswers(i), NEW t,
         t = calls[i].tab, QueryRight(t), scene' = scene
  PROVE  QueryRight(t)'
<1> DEFINE cs == RemoveAt(calls, i)
<1>0. t \in Tabs /\ IsView(view[t]) /\ IsCall(calls[i])
  BY CallFacts, TabViews
<1>1. PartOf(cs, calls)
  BY RemovedPart DEF Typing, CallsTyped
<1> HIDE DEF cs
<1>2. ASSUME calls[i].mounted, calls[i].what \in RequestsOf("query")
      PROVE  view[t].page = "query"
  BY <1>2, PagesAre, WaitingPage
<1>3. CASE SchemaAnswered(i)
  BY <1>3, SchemaAnsweredRight
<1>4. CASE RunAnswered(i)
  BY <1>4, RunAnsweredRight
<1>5. CASE CatalogsListed(i)
  <2>1. i \in Waits(t, "catalogs") /\ view[t].page = "query"
    BY <1>2, <1>5, QueryRequests DEF CatalogsListed, Waits
  <2>2. CASE Defaults(i)
    <3>1. scene.catalogs[1] \in ToSet(scene.catalogs)
      BY <2>2, FirstCatalog DEF Defaults
    <3>2. Settles(t, AtCatalog(WithCatalogs(view[t], scene.catalogs),
                               scene.catalogs[1]), cs)
      BY <1>5, <2>2 DEF CatalogsListed, WithCatalogs, cs
    <3> QED
      BY <1>0, <1>1, <2>1, <3>1, <3>2, DefaultRight
  <2>3. CASE ~Defaults(i)
    <3>1. scene.catalogs # << >> => view[t].catalog # NoCatalog
      BY <2>1, <2>3 DEF Defaults, QueryRight, SchemaRight, OnQueryPage
    <3>2. Settles(t, WithCatalogs(view[t], scene.catalogs), cs)
      BY <1>5, <2>3 DEF CatalogsListed, WithCatalogs, cs
    <3> QED
      BY <1>0, <1>1, <2>1, <3>1, <3>2, CatalogsRight
  <2> QED
    BY <2>2, <2>3
<1>6. CASE CatalogsFailed(i)
  <2>1. view[t].page = "query"
    BY <1>2, <1>6, QueryRequests DEF CatalogsFailed
  <2>2. Settles(t, WithCatalogs(view[t], << >>), cs)
    BY <1>6 DEF CatalogsFailed, WithCatalogs, cs
  <2> QED
    BY <1>0, <1>1, <2>1, <2>2, CatalogsRight
<1>7. CASE PulledBack(i)
  <2>1. CASE OnQueryPage(t)
    <3>1. scene.catalogs[1] \in ToSet(scene.catalogs)
      BY <1>7, FirstCatalog DEF PulledBack, Defaults
    <3>2. Settles(t, AtCatalog(view[t], scene.catalogs[1]), cs)
      BY <1>7, <2>1 DEF PulledBack, cs
    <3> QED
      BY <1>0, <1>1, <2>1, <3>1, <3>2, MovesRight DEF OnQueryPage
  <2>2. CASE ~OnQueryPage(t)
    <3>1. StayOf(t, "query") \/ Remounts(t)
      BY QueryAnswersSteps
    <3>2. CASE StayOf(t, "query")
      <4>1. view'[t].page # "query"
        BY <2>2, <3>2 DEF StayOf, OnQueryPage
      <4> QED
        BY <1>0, <4>1, SameStaysRight
    <3> QED
      BY <1>0, <3>1, <3>2, RemountedRight
  <2> QED
    BY <2>1, <2>2
<1>8. CASE KindAnswered(i) \/ CellAnswered(i)
  <2>1. UNCHANGED view /\ Answered(i)
    BY <1>8 DEF KindAnswered, CellAnswered, Unshown
  <2>2. SameWaits(t, "query")
    BY <1>1, <2>1 DEF SameWaits, SameRequest, Answered, PartOf, cs
  <2> QED
    BY <1>0, <2>1, <2>2, SameStaysRight
<1> QED
  BY <1>3, <1>4, <1>5, <1>6, <1>7, <1>8 DEF QueryAnswers

----------------------------------------------------------------------------
(* Every step, and the query page. *)

\* A step of another tab.
LEMMA UntouchedRight ==
  ASSUME NEW t \in Tabs, QueryRight(t), Untouched(t), scene' = scene
  PROVE  QueryRight(t)'
<1>1. SameWaits(t, "query") /\ view'[t] = view[t]
  BY DEF Untouched, SameWaits, SameRequest
<1> QED
  BY <1>1, SameStaysRight

\* A step of another page of this tab.
LEMMA RemainsRight ==
  ASSUME NEW t \in Tabs, QueryRight(t), Remains(t, "query"), scene' = scene
  PROVE  QueryRight(t)'
<1>1. view'[t].page = "query" => view'[t] = view[t] /\ SameWaits(t, "query")
  BY DEF Remains, SameWaits, SameRequest
<1> QED
  BY <1>1, SameStaysRight

\* A step of another page.
LEMMA OtherStepsRight ==
  ASSUME NEW t \in Tabs, QueryRight(t), NEW page \in Pages \ {"query"},
         StepOf(t, page)
  PROVE  QueryRight(t)'
<1>1. Remounts(t) \/ Remains(t, "query")
  BY PagesAre DEF StepOf
<1>2. scene' = scene
  BY DEF StepOf
<1> QED
  BY <1>1, <1>2, RemountedRight, RemainsRight

\* Every step.
LEMMA NextQueryRight ==
  ASSUME Typing, ServerTyped, [Next]_vars, NEW t \in Tabs, QueryRight(t)
  PROVE  QueryRight(t)'
<1> USE PagesAre
<1>1. ASSUME NEW u, NEW page, StepOf(u, page), u # t
      PROVE  QueryRight(t)'
  BY <1>1, UntouchedRight DEF StepOf
<1>2. ASSUME NEW u \in Tabs, User(u)
      PROVE  QueryRight(t)'
  <2>1. CASE u # t
    BY <1>1, <1>2, <2>1, UserSteps
  <2>2. CASE \/ Open(t) \/ Reload(t) \/ Submit(t) \/ Logout(t)
             \/ \E page \in Pages : Goto(t, page)
    BY <2>2, SessionActions, OtherStepsRight
  <2>3. CASE \/ \E c \in ToSet(scene.catalogs) : Select(t, c)
             \/ Refresh(t) \/ RunByButton(t) \/ RunByKey(t) \/ Download(t)
    <3>1. scene' = scene
      BY <2>3, QueryActions DEF StayOf, StepOf
    <3> QED
      BY <2>3, <3>1, QueryActionsRight
  <2>4. CASE Click(t)
    BY <2>4, MatrixActions, OtherStepsRight DEF StayOf
  <2>5. CASE \/ \E c \in DOMAIN connections : StartEdit(t, c) \/ HandleDelete(t, c)
             \/ Cancel(t)
             \/ \E name \in scene.names : HandleSubmit(t, name)
    BY <2>5, AdminActions, OtherStepsRight DEF StayOf
  <2> QED
    BY <1>2, <2>1, <2>2, <2>3, <2>4, <2>5 DEF User
<1>3. ASSUME NEW i \in DOMAIN calls, Deliver(i)
      PROVE  QueryRight(t)'
  <2>0. SessionAnswers(i) \/ QueryAnswers(i) \/ MatrixAnswers(i) \/ AdminAnswers(i)
    BY <1>3 DEF Deliver, SessionAnswers, QueryAnswers, MatrixAnswers, AdminAnswers
  <2>1. CASE calls[i].tab # t
    BY <1>1, <1>3, <2>1, DeliverSteps
  <2>2. CASE calls[i].tab = t /\ SessionAnswers(i)
    BY <2>2, SessionAnswersSteps, OtherStepsRight
  <2>3. CASE calls[i].tab = t /\ QueryAnswers(i)
    <3>1. scene' = scene
      BY <2>3, QueryAnswersSteps DEF StayOf, StepOf
    <3> QED
      BY <2>3, <3>1, QueryAnswersRight
  <2>4. CASE calls[i].tab = t /\ MatrixAnswers(i)
    BY <2>4, MatrixAnswersSteps, OtherStepsRight DEF StayOf
  <2>5. CASE calls[i].tab = t /\ AdminAnswers(i)
    BY <2>5, AdminAnswersSteps, OtherStepsRight DEF StayOf
  <2> QED
    BY <2>0, <2>1, <2>2, <2>3, <2>4, <2>5
<1>4. ASSUME NEW i \in DOMAIN calls, Serve(i)
      PROVE  QueryRight(t)'
  <2>1. UNCHANGED <<view, scene>> /\ Served(i)
    BY <1>4, ServeSteps DEF Serve, ClientKept
  <2>2. \A k \in DOMAIN calls : SameRequest(calls'[k], calls[k])
    BY <2>1 DEF Served, SameRequest
  <2>3. SameWaits(t, "query")
    BY <2>1, <2>2 DEF Served, SameWaits
  <2> QED
    BY <2>1, <2>3, SameStaysRight
<1>5. CASE Expire \/ UNCHANGED vars
  <2>1. UNCHANGED <<view, calls, scene>>
    BY <1>5 DEF Expire, ClientKept, vars
  <2>2. SameWaits(t, "query")
    BY <2>1 DEF SameWaits, SameRequest
  <2> QED
    BY <2>1, <2>2, SameStaysRight
<1>6. ASSUME NEW i \in DOMAIN calls, Break(i)
      PROVE  QueryRight(t)'
  <2>1. UNCHANGED <<view, scene>> /\ Served(i)
    BY <1>6, BreakSteps
  <2>2. \A k \in DOMAIN calls : SameRequest(calls'[k], calls[k])
    BY <2>1 DEF Served, SameRequest
  <2>3. SameWaits(t, "query")
    BY <2>1, <2>2 DEF Served, SameWaits
  <2> QED
    BY <2>1, <2>3, SameStaysRight
<1>7. ASSUME NEW n \in DOMAIN late, ServeLate(n)
      PROVE  QueryRight(t)'
  <2>1. UNCHANGED <<calls, scene>> /\ view'[t].page = view[t].page
    BY <1>7, LateSteps, LateKeepsPages
  <2>2. CASE ~OnQueryPage(t)
    BY <2>1, <2>2 DEF QueryRight, RunsRight, SchemaRight, DatabaseRight, OnQueryPage
  <2>3. CASE OnQueryPage(t)
    <3>1. view'[t] = view[t]
      BY <1>7, <2>3, LateSteps, TabViews, UnawareView DEF OnQueryPage
    <3>2. SameWaits(t, "query")
      BY <2>1 DEF SameWaits, SameRequest
    <3> QED
      BY <2>1, <3>1, <3>2, SameStaysRight
  <2> QED
    BY <2>2, <2>3
<1> QED
  BY <1>2, <1>3, <1>4, <1>5, <1>6, <1>7 DEF Next

QueryInv == \A t \in Tabs : QueryRight(t)

\* The query page is right, always.
LEMMA QueryInvHolds == Spec => []QueryInv
<1>1. Init => QueryInv
  BY DEF Init, QueryInv, QueryRight, RunsRight, SchemaRight, DatabaseRight,
         OnQueryPage, ClosedView
<1>2. Typing /\ ServerTyped /\ QueryInv /\ [Next]_vars => QueryInv'
  BY NextQueryRight DEF QueryInv
<1> QED
  BY <1>1, <1>2, TypingHolds, PTL DEF Spec

\* What is shown under the editor is the outcome of the statement that was run
\* last, unless runs have overlapped.
THEOREM OutcomeIsLastRuns == Spec => []ResultIsLastRuns
<1>1. QueryInv => ResultIsLastRuns
  BY DEF QueryInv, QueryRight, RunsRight, ResultIsLastRuns
<1> QED
  BY <1>1, QueryInvHolds, PTL

\* The schema in the sidebar is that of the selected catalog.
THEOREM SchemaFollowsCatalog == Spec => []SchemaIsOfCatalog
<1>1. QueryInv => SchemaIsOfCatalog
  BY DEF QueryInv, QueryRight, SchemaRight, SchemaIsOfCatalog
<1> QED
  BY <1>1, QueryInvHolds, PTL

\* A cell is asked for in the database that its result came from, unless the
\* page knows of a change.
THEOREM CellsOfResult == Spec => DownloadsMatchResult
<1> DEFINE Matching ==
      \A t \in Tabs :
        (OnQueryPage(t) /\ Download(t)) =>
          \/ Database(Last(calls').arg) = Database(view[t].result.catalog)
          \/ view[t].moved \/ view[t].overlapped
<1>1. ASSUME Typing, QueryInv
      PROVE  Matching
  <2> SUFFICES ASSUME NEW t \in Tabs, OnQueryPage(t), Download(t),
                      ~view[t].moved, ~view[t].overlapped
               PROVE  Database(Last(calls').arg)
                        = Database(view[t].result.catalog)
    OBVIOUS
  <2> DEFINE call == Call(t, "cell", view[t].catalog, stored)
  <2>1. IsCall(call) /\ call.arg = view[t].catalog
    BY <1>1, NewCall DEF Typing, SessionTyped, Whats, ArgFits
  <2>2. call.mounted /\ call.latest
    BY <1>1, NewCall DEF Typing, SessionTyped, Whats, ArgFits
  <2>3. calls' = Sent(calls, call) /\ view[t].result.answered
    BY DEF Download
  <2> HIDE DEF call
  <2>4. call.latest = call.mounted
    BY <2>1, <2>2 DEF IsCall
  <2>5. Last(calls') = call
    BY <1>1, <2>1, <2>3, <2>4, SentProperties DEF Typing, CallsTyped
  <2>6. Database(view[t].result.catalog) = Database(view[t].catalog)
    BY <1>1, <2>3 DEF QueryInv, QueryRight, DatabaseRight
  <2> QED
    BY <2>1, <2>5, <2>6
<1>2. Typing /\ QueryInv /\ [Next]_vars => [Matching]_vars
  BY <1>1
<1> HIDE DEF Matching
<1>3. Spec => [][Matching]_vars
  BY <1>2, TypingHolds, QueryInvHolds, PTL DEF Spec
<1> QED
  BY <1>3 DEF DownloadsMatchResult, Matching

----------------------------------------------------------------------------
(* Who comes to a page, and what the server answers. *)

ComesTo(t, page) == page \in scene.visits[t] \cup {scene.start[t]}

\* A change is asked for by a tab that comes to its page.
AsksFromThere(c) ==
  /\ c.what = "set" => ComesTo(c.tab, "permissions")
  /\ c.what \in {"save", "remove"} => ComesTo(c.tab, "connectionsAdmin")

\* Those that are at the pages for Admins, or whose changes are out, are those
\* that come there.
ReachRight ==
  /\ \A t \in Tabs :
       view[t].page \in {"permissions", "connectionsAdmin"} =>
         ComesTo(t, view[t].page)
  /\ \A k \in DOMAIN calls : AsksFromThere(calls[k])
  /\ \A n \in DOMAIN late : AsksFromThere(late[n])

\* A change comes from its page.
LEMMA ChangesFrom ==
  ASSUME NEW page \in Pages
  PROVE  /\ "set" \in RequestsOf(page) => page = "permissions"
         /\ ("save" \in RequestsOf(page) \/ "remove" \in RequestsOf(page))
              => page = "connectionsAdmin"
         /\ "set" \in RequestsOf("permissions")
         /\ "perms" \in RequestsOf("permissions")
         /\ "rows" \in RequestsOf("connectionsAdmin")
         /\ {"save", "remove"} \subseteq RequestsOf("connectionsAdmin")
BY DEF Pages, RequestsOf

\* A step of a tab goes to a page that the tab comes to.
LEMMA TabStepReach ==
  ASSUME Typing, ReachRight, NEW t \in Tabs, NEW page \in Pages, StepOf(t, page)
  PROVE  ReachRight'
<1>0. scene' = scene /\ late' = late /\ CallsTyped'
  BY DEF StepOf, server
<1>1. view'[t].page = view[t].page \/ view'[t].page \in Reachable(t)
  <2>1. CASE Remounts(t)
    BY <2>1, OpenedIsView DEF Remounts
  <2>2. CASE \A p \in Pages \ {page} : Remains(t, p)
    BY <2>2 DEF Remains, Pages
  <2> QED
    BY <2>1, <2>2 DEF StepOf
<1>2. ASSUME NEW u \in Tabs,
             view'[u].page \in {"permissions", "connectionsAdmin"}
      PROVE  ComesTo(u, view'[u].page)
  <2>1. CASE u = t
    BY <1>1, <1>2, <2>1 DEF ReachRight, Reachable, ComesTo
  <2>2. CASE u # t
    BY <1>2, <2>2 DEF StepOf, Untouched, ReachRight
  <2> QED
    BY <2>1, <2>2
<1>3. ASSUME NEW k \in DOMAIN calls'
      PROVE  AsksFromThere(calls'[k])
  <2>1. ASSUME NEW j \in DOMAIN calls, Weakened(calls'[k], calls[j])
        PROVE  AsksFromThere(calls'[k])
    BY <2>1 DEF Weakened, ReachRight, AsksFromThere
  <2>2. CASE SentNow(calls'[k]) /\ calls'[k].what \in Changes
    <3> DEFINE u == calls'[k].tab
    <3>1. u \in Tabs /\ Fits(calls'[k], view'[u]) /\ calls'[k].mounted
      BY <1>0, <2>2 DEF CallsTyped, GoodCalls, IsCall, SentNow
    <3>2. view'[u].page \in Pages /\ calls'[k].what \in RequestsOf(view'[u].page)
      BY <3>1 DEF Fits
    <3> QED
      BY <1>2, <3>1, <3>2, ChangesFrom DEF AsksFromThere
  <2>3. CASE calls'[k].what \notin Changes
    BY <2>3 DEF Changes, AsksFromThere
  <2> QED
    BY <2>1, <2>2, <2>3 DEF StepOf, OldOrSentNow
<1> QED
  BY <1>0, <1>2, <1>3 DEF ReachRight, AsksFromThere, ComesTo

\* What the server answers is not late.
LEMMA ServesInTime ==
  ASSUME NEW i \in DOMAIN calls, Serve(i)
  PROVE  late' = late
BY DEF Serve, ServeLogin, ServeSet, ServeRemove, ServeLevels, ServeRows,
       ServeUsers, ServeList, ServeTarget, Refuse, ServeSave, server

\* Every step keeps who is where.
LEMMA NextReach ==
  ASSUME Typing, ServerTyped, ReachRight, [Next]_vars
  PROVE  ReachRight'
<1>1. ASSUME NEW t \in Tabs, User(t)
      PROVE  ReachRight'
  BY <1>1, UserSteps, TabStepReach
<1>2. ASSUME NEW i \in DOMAIN calls, Deliver(i)
      PROVE  ReachRight'
  BY <1>2, CallFacts, DeliverSteps, TabStepReach
<1>3. ASSUME NEW i \in DOMAIN calls, Serve(i)
      PROVE  ReachRight'
  <2>1. UNCHANGED <<view, scene, late>> /\ Served(i)
    BY <1>3, ServeSteps, ServesInTime DEF Serve, ClientKept
  <2>2. \A k \in DOMAIN calls :
          calls'[k].what = calls[k].what /\ calls'[k].tab = calls[k].tab
    BY <2>1 DEF Served
  <2> QED
    BY <2>1, <2>2 DEF ReachRight, AsksFromThere, ComesTo, Served
<1>4. CASE Expire \/ UNCHANGED vars
  BY <1>4 DEF Expire, ClientKept, vars, server, ReachRight, AsksFromThere, ComesTo
<1>5. ASSUME NEW i \in DOMAIN calls, Break(i)
      PROVE  ReachRight'
  <2>1. /\ UNCHANGED <<view, scene>> /\ Served(i)
        /\ \A m \in DOMAIN late' :
             \/ \E n \in DOMAIN late : late'[m] = late[n]
             \/ /\ late'[m].tab = calls[i].tab
                /\ late'[m].what = calls[i].what
    BY <1>5, BreakSteps
  <2>2. \A k \in DOMAIN calls :
          calls'[k].what = calls[k].what /\ calls'[k].tab = calls[k].tab
    BY <2>1 DEF Served
  <2> QED
    BY <2>1, <2>2 DEF ReachRight, AsksFromThere, ComesTo, Served
<1>6. ASSUME NEW n \in DOMAIN late, ServeLate(n)
      PROVE  ReachRight'
  <2>1. UNCHANGED <<calls, scene>> /\ LateKept
    BY <1>6, LateSteps
  <2>2. \A t \in Tabs : view'[t].page = view[t].page
    BY <1>6, LateKeepsPages
  <2> QED
    BY <2>1, <2>2 DEF ReachRight, AsksFromThere, ComesTo, LateKept
<1> QED
  BY <1>1, <1>2, <1>3, <1>4, <1>5, <1>6 DEF Next

\* The connections that are there, of those that are stored.
Present(cs) == {id \in DOMAIN cs : cs[id] # Gone}

\* A change that is made, but whose answer is out.  What a save has stored may
\* go again before it is answered.
MadeOut(c, present) ==
  /\ c.what \in {"save", "remove"}
  /\ c.answer = "ok" \/ (c.answer = "stored" /\ c.value \in present)

\* What one statement of a save does to what is stored.
LEMMA SaveStepStores ==
  ASSUME connections \in Seq(Names \cup {Gone}), NEW c, IsCall(c),
         NEW answer, SaveStep(c, answer)
  PROVE  /\ Present(connections) \subseteq Present(connections')
         /\ connections' # connections =>
              answer = "stored" /\ RowOf(c) \in Present(connections')
         /\ (c.answer = "stored" /\ c.value \in Present(connections)) =>
              answer = "ok"
<1> DEFINE S == Names \cup {Gone}
           name == c.arg.name
<1>1. name \in S /\ name # Gone
  BY ClientAssumption DEF SaveStep, IsCall, ArgFits, Gone
<1>2. /\ connections \in [1 .. Len(connections) -> S] /\ Len(connections) \in Nat
      /\ DOMAIN connections = 1 .. Len(connections)
  OBVIOUS
<1>3. CASE InsertRow(c, answer) /\ answer # "failed"
  <2>1. /\ connections' = Append(connections, name) /\ answer = "stored"
        /\ c.arg.id = Adding /\ c.answer = "none"
    BY <1>3 DEF InsertRow
  <2>2. /\ DOMAIN connections' = 1 .. (Len(connections) + 1)
        /\ connections'[Len(connections) + 1] = name
        /\ \A id \in DOMAIN connections : connections'[id] = connections[id]
    BY <1>1, <1>2, <2>1
  <2>3. RowOf(c) = Len(connections) + 1
    BY <2>1 DEF RowOf
  <2>4. RowOf(c) \in DOMAIN connections' /\ connections'[RowOf(c)] # Gone
    BY <1>1, <1>2, <2>2, <2>3
  <2>5. Present(connections) \subseteq Present(connections')
    <3>1. DOMAIN connections \subseteq DOMAIN connections'
      BY <1>2, <2>2
    <3> QED
      BY <2>2, <3>1 DEF Present
  <2> QED
    BY <2>1, <2>4, <2>5 DEF Present
<1>4. CASE InsertRow(c, answer) /\ answer = "failed"
  BY <1>4 DEF InsertRow
<1>5. CASE ReadRow(c, answer)
  BY <1>5 DEF ReadRow
<1>6. CASE UpdateRow(c, answer)
  <2> DEFINE id == c.arg.id
  <2>1. c.answer = "found"
    BY <1>6 DEF UpdateRow
  <2>2. CASE connections' = connections
    BY <2>1, <2>2
  <2>3. CASE connections' # connections
    <3>1. /\ connections' = [connections EXCEPT ![id] = name]
          /\ answer = "stored" /\ connections[id] # Gone
      BY <1>6, <2>3 DEF UpdateRow
    <3>2. CASE id \notin DOMAIN connections
      <4>1. connections' = connections
        BY <1>2, <3>1, <3>2
      <4> QED
        BY <2>3, <4>1
    <3>3. CASE id \in DOMAIN connections
      <4>1. /\ DOMAIN connections' = DOMAIN connections
            /\ connections'[id] = name
            /\ \A k \in DOMAIN connections \ {id} :
                 connections'[k] = connections[k]
        BY <1>2, <3>1, <3>3
      <4>2. RowOf(c) = id
        BY <1>2, <3>3 DEF RowOf, Adding
      <4> QED
        BY <1>1, <2>1, <3>1, <3>3, <4>1, <4>2 DEF Present
    <3> QED
      BY <3>2, <3>3
  <2> QED
    BY <2>2, <2>3
<1>7. CASE ReadBack(c, answer)
  BY <1>7 DEF ReadBack, Present
<1> QED
  BY <1>3, <1>4, <1>5, <1>6, <1>7 DEF SaveStep

\* What is stored changes for the requests that ask for it, and what is listed is
\* what is stored.
LEMMA ServedLists ==
  ASSUME Typing, ServerTyped, NEW i \in DOMAIN calls, Serve(i)
  PROVE  /\ (calls[i].what = "perms" /\ calls'[i].answer = "ok") =>
              calls'[i].value = level
         /\ (calls[i].what = "rows" /\ calls'[i].answer = "ok") =>
              calls'[i].value = connections
         /\ level' = level \/ calls[i].what = "set"
         /\ \/ connections' = connections
            \/ MadeOut(calls'[i], Present(connections'))
         /\ \/ Present(connections) \subseteq Present(connections')
            \/ MadeOut(calls'[i], Present(connections'))
         /\ MadeOut(calls[i], Present(connections)) =>
              MadeOut(calls'[i], Present(connections'))
<1>0. /\ UNCHANGED view /\ level \in ToSet(Levels) /\ IsCall(calls[i])
      /\ connections \in Seq(Names \cup {Gone})
      /\ calls'[i].what = calls[i].what
  BY CallFacts, ServeSteps
    DEF Serve, ClientKept, Typing, SessionTyped, ServerTyped, Served
<1>1. ASSUME NEW answer, NEW value, Answers(i, answer, value),
             answer \in ServerAnswers, calls[i].what # "login",
             calls[i].what = "perms" /\ answer = "ok" => value \in ToSet(Levels)
      PROVE  calls'[i].answer = answer /\ calls'[i].value = value
  BY <1>0, <1>1, ServedTyped
<1>a. {"ok", "failed", "refused"} \subseteq ServerAnswers
  BY DEF ServerAnswers
<1>n. CASE calls[i].answer = "none" /\ ~ServeSave(i)
  <2>0. ~MadeOut(calls[i], Present(connections))
    BY <1>n DEF MadeOut
  <2>1. CASE ServeLogin(i)
    BY <2>0, <2>1 DEF ServeLogin
  <2>2. CASE ServeSet(i)
    BY <2>0, <2>2 DEF ServeSet, SetLevel
  <2>3. CASE ServeLevels(i)
    BY <1>0, <1>1, <1>a, <2>0, <2>3 DEF ServeLevels, server
  <2>4. CASE ServeRows(i)
    <3>1. /\ UNCHANGED server /\ calls[i].what \in {"rows", "connections"}
          /\ Answers(i, "ok", IF calls[i].what = "rows" THEN connections ELSE "")
      BY <2>4 DEF ServeRows
    <3>2. calls'[i].value = IF calls[i].what = "rows" THEN connections ELSE ""
      BY <1>1, <1>a, <3>1
    <3> QED
      BY <2>0, <3>1, <3>2 DEF server
  <2>5. CASE ServeRemove(i)
    <3>1. /\ calls[i].what = "remove" /\ level' = level /\ Answers(i, "ok", "")
      BY <2>5 DEF ServeRemove, DeleteRow
    <3>2. calls'[i].answer = "ok"
      BY <1>1, <1>a, <3>1
    <3> QED
      BY <1>0, <3>1, <3>2 DEF MadeOut
  <2>6. CASE ServeUsers(i) \/ ServeList(i) \/ ServeTarget(i)
    BY <2>0, <2>6 DEF ServeUsers, ServeList, ServeTarget, server
  <2>7. CASE Refuse(i)
    <3>1. PICK answer : answer = "refused" /\ Answers(i, answer, "")
      BY <2>7 DEF Refuse
    <3>2. calls'[i].answer = "refused"
      BY <1>1, <1>a, <2>7, <3>1 DEF Refuse, Refused
    <3> QED
      BY <2>0, <2>7, <3>2 DEF Refuse, server
  <2> QED
    BY <1>n, <2>1, <2>2, <2>3, <2>4, <2>5, <2>6, <2>7 DEF Serve
<1>s. CASE ServeSave(i)
  <2>1. PICK answer \in SaveAnswers :
          /\ SaveStep(calls[i], answer)
          /\ Answers(i, answer,
                     IF answer = "stored" THEN RowOf(calls[i]) ELSE "")
    BY <1>s DEF ServeSave
  <2>2. calls[i].what = "save" /\ level' = level /\ answer \in ServerAnswers
    BY <2>1 DEF SaveStep, SaveAnswers, ServerAnswers
  <2>3. /\ calls'[i].answer = answer
        /\ answer = "stored" => calls'[i].value = RowOf(calls[i])
    BY <1>1, <2>1, <2>2
  <2>4. /\ Present(connections) \subseteq Present(connections')
        /\ connections' # connections =>
             answer = "stored" /\ RowOf(calls[i]) \in Present(connections')
        /\ (calls[i].answer = "stored" /\ calls[i].value \in Present(connections))
             => answer = "ok"
    BY <1>0, <2>1, SaveStepStores
  <2>5. calls[i].answer # "ok"
    BY <1>s DEF ServeSave
  <2> QED
    BY <1>0, <2>2, <2>3, <2>4, <2>5 DEF MadeOut
<1> QED
  BY <1>n, <1>s DEF Serve

\* Nothing happens to tab t's page, nor to what it waits for or changes.
Keeps(t, page) ==
  view'[t].page = page =>
    /\ view'[t] = view[t]
    /\ \A k \in DOMAIN calls' :
         (calls'[k].tab = t /\ calls'[k].what \in RequestsOf(page)) =>
           \E j \in DOMAIN calls : calls'[k] = calls[j]
    /\ \A j \in DOMAIN calls :
         (calls[j].tab = t /\ calls[j].what \in RequestsOf(page) \cap Changes) =>
           \E k \in DOMAIN calls' : calls'[k] = calls[j]

\* A step of another page keeps this one as it is, or opens it.
LEMMA OtherStepsKeep ==
  ASSUME NEW t \in Tabs, NEW page \in Pages, NEW u, NEW from, StepOf(u, from),
         u # t \/ from # page
  PROVE  Keeps(t, page) \/ Remounts(t)
<1>1. Untouched(t) => Keeps(t, page)
  BY DEF Untouched, Keeps
<1>2. Remains(t, page) => Keeps(t, page)
  BY DEF Remains, Keeps
<1> QED
  BY <1>1, <1>2 DEF StepOf

----------------------------------------------------------------------------
(* The matrix. *)

\* With no change out or in doubt, the list that was asked for last is right as
\* it is answered, and remains right.
MatrixRight(t) ==
  (/\ Alone(t, "permissions") /\ view[t].page = "permissions"
   /\ ~view[t].doubt /\ \A k \in DOMAIN calls : calls[k].what # "set") =>
     /\ view[t].latest => view[t].level = level
     /\ \A k \in Waits(t, "perms") :
          (calls[k].latest /\ calls[k].answer = "ok") => calls[k].value = level

\* The changes that are out are this tab's.
LEMMA SetsAreOwn ==
  ASSUME Typing, ReachRight, NEW t \in Tabs, Alone(t, "permissions"),
         NEW j \in DOMAIN calls, calls[j].what = "set"
  PROVE  calls[j].tab = t
BY CallFacts DEF ReachRight, AsksFromThere, Alone, ComesTo

\* Nothing happens to the matrix.
LEMMA MatrixKept ==
  ASSUME Typing, ReachRight, NEW t \in Tabs, MatrixRight(t),
         Keeps(t, "permissions"), UNCHANGED <<level, scene>>
  PROVE  MatrixRight(t)'
<1> SUFFICES ASSUME Alone(t, "permissions"), view'[t].page = "permissions",
                    ~view'[t].doubt,
                    \A k \in DOMAIN calls' : calls'[k].what # "set"
             PROVE  MatrixRight(t)'
  BY DEF MatrixRight, Alone
<1>1. view'[t] = view[t]
  BY DEF Keeps
<1>2. ASSUME NEW j \in DOMAIN calls, calls[j].what = "set"
      PROVE  FALSE
  <2>1. calls[j].tab = t /\ calls[j].what \in RequestsOf("permissions") \cap Changes
    BY <1>2, SetsAreOwn, ChangesFrom, PagesAre DEF Changes
  <2> QED
    BY <1>2, <2>1 DEF Keeps
<1>3. ASSUME NEW k \in Waits(t, "perms")'
      PROVE  \E j \in Waits(t, "perms") : calls'[k] = calls[j]
  BY <1>3, ChangesFrom, PagesAre DEF Waits, Keeps
<1> QED
  BY <1>1, <1>2, <1>3 DEF MatrixRight

\* The matrix is opened, and has asked for the levels.
LEMMA MatrixRemounted ==
  ASSUME NEW t \in Tabs, Remounts(t)
  PROVE  MatrixRight(t)'
<1>1. view'[t].page = "permissions" => ~view'[t].latest
  BY OpenedIsView DEF Remounts
<1>2. \A k \in Waits(t, "perms")' : calls'[k].answer = "none"
  BY DEF Remounts, Waits
<1> QED
  BY <1>1, <1>2 DEF MatrixRight

\* A change is out.
LEMMA ClickRight ==
  ASSUME Typing, NEW t \in Tabs, Click(t)
  PROVE  MatrixRight(t)'
<1> DEFINE call == Call(t, "set", NextLevel(view[t].level), stored)
<1>1. view[t].page = "permissions" /\ IsView(view[t])
  BY TabViews DEF Click
<1>2. NextLevel(view[t].level) \in ToSet(Levels)
  BY <1>1, NextLevelIsLevel DEF IsView
<1>3. IsCall(call) /\ call.what = "set"
  BY <1>2, NewCall DEF Typing, SessionTyped, Whats, ArgFits
<1>4. call.mounted /\ call.latest
  BY <1>2, NewCall DEF Typing, SessionTyped, Whats, ArgFits
<1>5. calls' = Sent(calls, call)
  BY DEF Click
<1> HIDE DEF call
<1>6. call.latest = call.mounted
  BY <1>3, <1>4 DEF IsCall
<1>7. /\ Len(calls) \in Nat /\ DOMAIN calls' = 1 .. (Len(calls) + 1)
      /\ calls'[Len(calls) + 1] = call
  BY <1>3, <1>5, <1>6, SentProperties DEF Typing, CallsTyped
<1>8. \E k \in DOMAIN calls' : calls'[k].what = "set"
  BY <1>3, <1>7
<1> QED
  BY <1>8 DEF MatrixRight

\* The answer takes its request away, and no other.
LEMMA AnsweredKeeps ==
  ASSUME Typing, NEW i \in DOMAIN calls, Answered(i),
         NEW j \in DOMAIN calls, j # i
  PROVE  \E k \in DOMAIN calls' : calls'[k] = calls[j]
BY RemovedPart DEF Typing, CallsTyped, Answered

\* The levels come, or a list that the matrix shows them by.
LEMMA ListsRight ==
  ASSUME Typing, ReachRight, NEW i \in DOMAIN calls, NEW t, t = calls[i].tab,
         MatrixRight(t), UNCHANGED <<level, scene>>, AxisListed(i) \/ LevelsListed(i)
  PROVE  MatrixRight(t)'
<1>0. t \in Tabs /\ IsView(view[t]) /\ IsCall(calls[i])
  BY CallFacts, TabViews
<1> SUFFICES ASSUME Alone(t, "permissions"), ~view'[t].doubt,
                    \A k \in DOMAIN calls' : calls'[k].what # "set"
             PROVE  MatrixRight(t)'
  BY DEF MatrixRight, Alone
<1>1. Answered(i) /\ calls[i].mounted /\ calls[i].what # "set"
      /\ calls[i].what \in RequestsOf("permissions")
  BY DEF AxisListed, LevelsListed, RequestsOf
<1>2. view[t].page = "permissions"
  BY <1>1, PagesAre, WaitingPage
<1>3. \A j \in DOMAIN calls : calls[j].what # "set"
  BY <1>1, AnsweredKeeps
<1>4. ASSUME NEW k \in Waits(t, "perms")'
      PROVE  \E j \in Waits(t, "perms") : calls'[k] = calls[j]
  BY <1>1, <1>4, AnsweredWaits
<1>5. ASSUME NEW v, IsView(v), Becomes(t, v)
      PROVE  view'[t] = v
  BY <1>0, <1>5, OneViewChanges DEF Typing
<1>6. CASE UNCHANGED view
  BY <1>2, <1>3, <1>4, <1>6 DEF MatrixRight
<1>7. CASE AxisListed(i) /\ ~UNCHANGED view
  <2> DEFINE what == calls[i].what
             v == [view[t] EXCEPT !.loaded = @ \cup {what}]
  <2>1. what \in {"users", "connections"} /\ Becomes(t, v)
    BY <1>7 DEF AxisListed
  <2> HIDE DEF what
  <2>2. /\ IsView(v) /\ v.page = "permissions"
        /\ v.level = view[t].level /\ v.latest = view[t].latest
        /\ v.doubt = view[t].doubt
    BY <1>0, <1>2, <2>1, AxisView
  <2> HIDE DEF v
  <2>3. view'[t] = v
    BY <1>5, <2>1, <2>2
  <2> QED
    BY <1>2, <1>3, <1>4, <2>2, <2>3 DEF MatrixRight
<1>8. CASE LevelsListed(i) /\ Ok(i)
             /\ Becomes(t, WithLevel(view[t], calls[i]))
  <2> DEFINE v == WithLevel(view[t], calls[i])
  <2>1. calls[i].value \in ToSet(Levels) /\ calls[i].latest \in BOOLEAN
    BY <1>0, <1>8 DEF IsCall, Ok, LevelsListed
  <2>2. /\ IsView(v) /\ v.level = calls[i].value /\ v.latest = calls[i].latest
        /\ v.doubt = view[t].doubt
    BY <1>0, <1>2, <2>1, LevelsView
  <2>3. Becomes(t, v)
    BY <1>8
  <2> HIDE DEF v
  <2>4. view'[t] = v
    BY <1>5, <2>2, <2>3
  <2>5. i \in Waits(t, "perms") /\ calls[i].answer = "ok"
    BY <1>8 DEF LevelsListed, Ok, Waits
  <2> QED
    BY <1>2, <1>3, <1>4, <2>2, <2>4, <2>5 DEF MatrixRight
<1>9. CASE LevelsListed(i)
             /\ Becomes(t, [view[t] EXCEPT !.doubt = TRUE])
  <2> DEFINE v == Doubted(view[t])
  <2>1. Becomes(t, v) /\ IsView(v) /\ v.doubt
    BY <1>0, <1>2, <1>9, DoubtedView
  <2> HIDE DEF v
  <2>2. view'[t].doubt
    BY <1>5, <2>1
  <2> QED
    BY <2>2
<1> QED
  BY <1>6, <1>7, <1>8, <1>9 DEF AxisListed, LevelsListed, WithLevel


\* After a change, the list is asked for again, and none that was asked for
\* before is waited for as the latest.
LEMMA Relists ==
  ASSUME Typing, NEW i \in DOMAIN calls, NEW t, t = calls[i].tab,
         NEW what \in Whats \ {"set", "save"},
         calls' = Sent(RemoveAt(calls, i), CallAfter(calls[i], what))
  PROVE  calls[i].mounted =>
           \A k \in Waits(t, what)' :
             calls'[k].latest => calls'[k].answer = "none"
<1> DEFINE cs == RemoveAt(calls, i)
           call == CallAfter(calls[i], what)
<1>1. /\ IsCall(call) /\ call.tab = t /\ call.what = what
      /\ call.mounted = calls[i].mounted /\ call.latest = calls[i].mounted
      /\ call.answer = "none"
  BY CallFacts, NewCallAfter DEF Typing, SessionTyped
<1>2. calls' = Sent(cs, call)
  OBVIOUS
<1>3. GoodCalls(cs)
  BY RemovedPart DEF Typing, CallsTyped, PartOf
<1> HIDE DEF cs, call
<1>4. call.latest = call.mounted
  BY <1>1
<1>5. /\ DOMAIN cs = 1 .. Len(cs) /\ Len(cs) \in Nat
      /\ DOMAIN calls' = 1 .. (Len(cs) + 1)
      /\ calls'[Len(cs) + 1] = call
      /\ \A k \in DOMAIN cs : Weakened(calls'[k], cs[k])
  BY <1>1, <1>2, <1>3, <1>4, SentProperties
<1>6. \A k \in DOMAIN cs :
        (cs[k].tab = call.tab /\ cs[k].what = call.what /\ call.mounted)
          => ~calls'[k].latest
  BY <1>1, <1>2, <1>3, <1>4, SentOutdates
<1>7. \A k \in DOMAIN calls' : k = Len(cs) + 1 \/ k \in DOMAIN cs
  BY <1>5
<1> QED
  BY <1>1, <1>5, <1>6, <1>7 DEF Waits, Weakened

\* The answer to a change comes, and the levels are asked for again.
LEMMA LevelSetRight ==
  ASSUME Typing, NEW i \in DOMAIN calls, NEW t, t = calls[i].tab,
         LevelSet(i) \/ LevelNotSet(i)
  PROVE  MatrixRight(t)'
<1>0. t \in Tabs /\ IsView(view[t])
  BY CallFacts, TabViews
<1>1. ASSUME NEW v, IsView(v), Becomes(t, v)
      PROVE  view'[t] = v
  BY <1>0, <1>1, OneViewChanges DEF Typing
<1>2. CASE Becomes(t, Doubted(view[t]))
  <2> DEFINE v == Doubted(view[t])
  <2>1. Becomes(t, v) /\ IsView(v) /\ (v.page = "permissions" => v.doubt)
    BY <1>0, <1>2, DoubtedView
  <2> HIDE DEF v
  <2>2. view'[t].page = "permissions" => view'[t].doubt
    BY <1>1, <2>1
  <2> QED
    BY <2>2 DEF MatrixRight
<1>3. CASE LevelSet(i) /\ calls[i].mounted
  <2> DEFINE v == SetAnswered(view[t])
  <2>1. view[t].page = "permissions"
    BY <1>3, PagesAre, ChangesFrom, WaitingPage DEF LevelSet
  <2>2. Becomes(t, v)
    BY <1>3 DEF LevelSet, SetAnswered
  <2>3. IsView(v) /\ ~v.latest
    BY <1>0, <2>1, SetView
  <2> HIDE DEF v
  <2>4. ~view'[t].latest
    BY <1>1, <2>2, <2>3
  <2>5. \A k \in Waits(t, "perms")' :
          calls'[k].latest => calls'[k].answer = "none"
    BY <1>3, Relists DEF LevelSet, Whats
  <2> QED
    BY <2>4, <2>5 DEF MatrixRight
<1> QED
  BY <1>2, <1>3 DEF LevelSet, LevelNotSet

\* The server lists the levels, or sets one.
LEMMA ServeMatrix ==
  ASSUME Typing, ServerTyped, NEW t \in Tabs, MatrixRight(t),
         NEW i \in DOMAIN calls, Serve(i)
  PROVE  MatrixRight(t)'
<1>1. UNCHANGED <<view, scene>> /\ Served(i)
  BY ServeSteps DEF Serve, ClientKept
<1> SUFFICES ASSUME Alone(t, "permissions"), view[t].page = "permissions",
                    ~view[t].doubt,
                    \A k \in DOMAIN calls' : calls'[k].what # "set"
             PROVE  MatrixRight(t)'
  BY <1>1 DEF MatrixRight, Alone
<1>2. \A j \in DOMAIN calls : calls[j].what # "set"
  BY <1>1 DEF Served
<1>3. level' = level
  BY <1>2, ServedLists
<1>4. ASSUME NEW k \in Waits(t, "perms")', calls'[k].latest,
             calls'[k].answer = "ok"
      PROVE  calls'[k].value = level
  <2>1. k \in Waits(t, "perms") /\ calls[k].latest
    BY <1>1, <1>4 DEF Served, Waits
  <2>2. CASE k = i
    BY <1>4, <2>1, <2>2, ServedLists DEF Waits
  <2>3. CASE k # i
    BY <1>1, <1>2, <1>4, <2>1, <2>3 DEF MatrixRight, Served, Waits
  <2> QED
    BY <2>2, <2>3
<1> QED
  BY <1>1, <1>2, <1>3, <1>4 DEF MatrixRight

\* A connection breaks: a change that was out stays out.
LEMMA BreakMatrix ==
  ASSUME Typing, ServerTyped, NEW t \in Tabs, MatrixRight(t),
         NEW i \in DOMAIN calls, Break(i)
  PROVE  MatrixRight(t)'
<1>1. /\ UNCHANGED <<view, scene, level>> /\ Served(i)
      /\ calls'[i].answer = "lost"
  BY BreakSteps
<1>2. /\ DOMAIN calls' = DOMAIN calls
      /\ \A k \in DOMAIN calls : calls'[k].what = calls[k].what
      /\ \A k \in DOMAIN calls \ {i} : calls'[k] = calls[k]
  BY <1>1 DEF Served
<1>3. ASSUME NEW k \in Waits(t, "perms")', calls'[k].answer = "ok"
      PROVE  k \in Waits(t, "perms") /\ calls'[k] = calls[k]
  BY <1>1, <1>2, <1>3 DEF Waits
<1> QED
  BY <1>1, <1>2, <1>3 DEF MatrixRight, Alone

\* A change that was given up is made, and the matrix is in doubt.
LEMMA LateMatrix ==
  ASSUME Typing, ServerTyped, ReachRight, NEW t \in Tabs, MatrixRight(t),
         NEW n \in DOMAIN late, ServeLate(n)
  PROVE  MatrixRight(t)'
<1> DEFINE c == late[n]
<1>1. /\ UNCHANGED <<calls, scene>> /\ IsCall(c) /\ c.what \in Changes
      /\ \A u \in Tabs \ {c.tab} : view'[u] = view[u]
      /\ \/ UNCHANGED <<view, level, connections>>
         \/ /\ view'[c.tab] = UnawareOf(view[c.tab], c)
            /\ c.what # "set" => level' = level
  BY LateSteps
<1>2. AsksFromThere(c)
  BY DEF ReachRight
<1> HIDE DEF c
<1>3. CASE view'[t] = view[t] /\ level' = level
  BY <1>1, <1>3 DEF MatrixRight, Alone, Waits
<1> SUFFICES ASSUME Alone(t, "permissions"), view'[t].page = "permissions",
                    ~view'[t].doubt
             PROVE  view'[t] = view[t] /\ level' = level
  BY <1>1, <1>3 DEF MatrixRight, Alone
<1>4. CASE c.what = "set"
  <2>1. c.tab = t
    BY <1>1, <1>2, <1>4 DEF AsksFromThere, Alone, ComesTo, IsCall
  <2>2. view'[t] # UnawareOf(view[t], c)
    BY <1>1, <1>4, TabViews, UnawareView
  <2> QED
    BY <1>1, <2>1, <2>2
<1>5. CASE c.what # "set"
  <2>1. view'[t] = UnawareOf(view[t], c) => view'[t] = view[t]
    BY <1>1, <1>5, TabViews, UnawareView
  <2> QED
    BY <1>1, <1>5, <2>1
<1> QED
  BY <1>4, <1>5

\* Every step keeps the matrix right.
LEMMA NextMatrix ==
  ASSUME Typing, ServerTyped, ReachRight, [Next]_vars, NEW t \in Tabs,
         MatrixRight(t)
  PROVE  MatrixRight(t)'
<1> USE PagesAre
<1>1. ASSUME NEW u, NEW page, StepOf(u, page), u # t \/ page # "permissions"
      PROVE  MatrixRight(t)'
  <2>1. Keeps(t, "permissions") \/ Remounts(t)
    BY <1>1, OtherStepsKeep
  <2>2. UNCHANGED <<level, scene>>
    BY <1>1 DEF StepOf, server
  <2> QED
    BY <2>1, <2>2, MatrixKept, MatrixRemounted
<1>2. ASSUME NEW u \in Tabs, User(u)
      PROVE  MatrixRight(t)'
  <2>1. CASE u # t
    BY <1>1, <1>2, <2>1, UserSteps
  <2>2. CASE \/ Open(t) \/ Reload(t) \/ Submit(t) \/ Logout(t)
             \/ \E page \in Pages : Goto(t, page)
    BY <1>1, <2>2, SessionActions
  <2>3. CASE \/ \E c \in ToSet(scene.catalogs) : Select(t, c)
             \/ Refresh(t) \/ RunByButton(t) \/ RunByKey(t) \/ Download(t)
    BY <1>1, <2>3, QueryActions DEF StayOf
  <2>4. CASE Click(t)
    BY <2>4, ClickRight
  <2>5. CASE \/ \E c \in DOMAIN connections : StartEdit(t, c) \/ HandleDelete(t, c)
             \/ Cancel(t)
             \/ \E name \in scene.names : HandleSubmit(t, name)
    BY <1>1, <2>5, AdminActions DEF StayOf
  <2> QED
    BY <1>2, <2>1, <2>2, <2>3, <2>4, <2>5 DEF User
<1>3. ASSUME NEW i \in DOMAIN calls, Deliver(i)
      PROVE  MatrixRight(t)'
  <2>0. SessionAnswers(i) \/ QueryAnswers(i) \/ MatrixAnswers(i) \/ AdminAnswers(i)
    BY <1>3 DEF Deliver, SessionAnswers, QueryAnswers, MatrixAnswers, AdminAnswers
  <2>1. CASE calls[i].tab # t
    BY <1>1, <1>3, <2>1, DeliverSteps
  <2>2. CASE calls[i].tab = t /\ SessionAnswers(i)
    BY <1>1, <2>2, SessionAnswersSteps
  <2>3. CASE calls[i].tab = t /\ QueryAnswers(i)
    BY <1>1, <2>3, QueryAnswersSteps DEF StayOf
  <2>4. CASE calls[i].tab = t /\ MatrixAnswers(i)
    <3>1. UNCHANGED <<level, scene>>
      BY <2>4, MatrixAnswersSteps DEF StayOf, StepOf, server
    <3> QED
      BY <2>4, <3>1, ListsRight, LevelSetRight DEF MatrixAnswers
  <2>5. CASE calls[i].tab = t /\ AdminAnswers(i)
    BY <1>1, <2>5, AdminAnswersSteps DEF StayOf
  <2> QED
    BY <2>0, <2>1, <2>2, <2>3, <2>4, <2>5
<1>4. ASSUME NEW i \in DOMAIN calls, Serve(i)
      PROVE  MatrixRight(t)'
  BY <1>4, ServeMatrix
<1>5. CASE Expire \/ UNCHANGED vars
  <2>1. UNCHANGED <<view, calls, level, scene>>
    BY <1>5 DEF Expire, ClientKept, vars, server
  <2> QED
    BY <2>1 DEF MatrixRight, Alone, Waits
<1>6. ASSUME NEW i \in DOMAIN calls, Break(i)
      PROVE  MatrixRight(t)'
  BY <1>6, BreakMatrix
<1>7. ASSUME NEW n \in DOMAIN late, ServeLate(n)
      PROVE  MatrixRight(t)'
  BY <1>7, LateMatrix
<1> QED
  BY <1>2, <1>3, <1>4, <1>5, <1>6, <1>7 DEF Next


----------------------------------------------------------------------------
(* The list of connections. *)

\* With no such change out or in doubt, the list that was asked for last is right
\* as it is answered, and remains right.
ListRight(t) ==
  (/\ Alone(t, "connectionsAdmin") /\ OnConnectionsAdmin(t)
   /\ ~view[t].doubt
   /\ \A k \in DOMAIN calls : ~MadeOut(calls[k], Present(connections))) =>
     /\ view[t].latest => view[t].rows = connections
     /\ \A k \in Waits(t, "rows") :
          (calls[k].latest /\ calls[k].answer = "ok")
            => calls[k].value = connections

\* The changes that are out are this tab's.
LEMMA ChangesAreOwn ==
  ASSUME Typing, ReachRight, NEW t \in Tabs, Alone(t, "connectionsAdmin"),
         NEW j \in DOMAIN calls, calls[j].what \in {"save", "remove"}
  PROVE  calls[j].tab = t
BY CallFacts DEF ReachRight, AsksFromThere, Alone, ComesTo

\* Nothing happens to the list.
LEMMA ListKept ==
  ASSUME Typing, ReachRight, NEW t \in Tabs, ListRight(t),
         Keeps(t, "connectionsAdmin"), UNCHANGED <<connections, scene>>
  PROVE  ListRight(t)'
<1> SUFFICES ASSUME Alone(t, "connectionsAdmin"),
                    view'[t].page = "connectionsAdmin", ~view'[t].doubt,
                    \A k \in DOMAIN calls' :
                      ~MadeOut(calls'[k], Present(connections'))
             PROVE  ListRight(t)'
  BY DEF ListRight, Alone, OnConnectionsAdmin, MadeOut
<1>1. view'[t] = view[t]
  BY DEF Keeps
<1>2. ASSUME NEW j \in DOMAIN calls, MadeOut(calls[j], Present(connections))
      PROVE  FALSE
  <2>1. /\ calls[j].tab = t
        /\ calls[j].what \in RequestsOf("connectionsAdmin") \cap Changes
    BY <1>2, ChangesAreOwn, ChangesFrom, PagesAre DEF Changes, MadeOut
  <2> QED
    BY <1>2, <2>1 DEF Keeps
<1>3. ASSUME NEW k \in Waits(t, "rows")'
      PROVE  \E j \in Waits(t, "rows") : calls'[k] = calls[j]
  BY <1>3, ChangesFrom, PagesAre DEF Waits, Keeps
<1> QED
  BY <1>1, <1>2, <1>3 DEF ListRight, OnConnectionsAdmin

\* The list is opened, and has been asked for.
LEMMA ListRemounted ==
  ASSUME NEW t \in Tabs, Remounts(t)
  PROVE  ListRight(t)'
<1>1. view'[t].page = "connectionsAdmin" => ~view'[t].latest
  BY OpenedIsView DEF Remounts
<1>2. \A k \in Waits(t, "rows")' : calls'[k].answer = "none"
  BY DEF Remounts, Waits
<1> QED
  BY <1>1, <1>2 DEF ListRight, OnConnectionsAdmin

\* A change of this page is sent.
LEMMA ChangeSentRight ==
  ASSUME Typing, NEW t \in Tabs, ListRight(t), UNCHANGED <<view, connections, scene>>,
         NEW what \in {"save", "remove"}, NEW arg, ArgFits(what, arg),
         calls' = Sent(calls, Call(t, what, arg, stored))
  PROVE  ListRight(t)'
<1> DEFINE call == Call(t, what, arg, stored)
<1>0. what \in Whats
  BY DEF Whats
<1>1. IsCall(call)
  BY <1>0, NewCall DEF Typing, SessionTyped
<1>2. call.mounted /\ call.latest
  BY <1>0, NewCall DEF Typing, SessionTyped
<1>3. calls' = Sent(calls, call)
  OBVIOUS
<1>4. Asks(t, what, arg)
  BY <1>0, SentAsks, AllPart DEF Typing, CallsTyped
<1> HIDE DEF call
<1>5. call.latest = call.mounted
  BY <1>1, <1>2 DEF IsCall
<1>6. /\ DOMAIN calls = 1 .. Len(calls) /\ Len(calls) \in Nat
      /\ DOMAIN calls' = 1 .. (Len(calls) + 1)
      /\ \A k \in DOMAIN calls : Weakened(calls'[k], calls[k])
  BY <1>1, <1>3, <1>5, SentProperties DEF Typing, CallsTyped
<1>7. ASSUME NEW j \in DOMAIN calls, MadeOut(calls[j], Present(connections))
      PROVE  \E k \in DOMAIN calls' : MadeOut(calls'[k], Present(connections'))
  BY <1>6, <1>7 DEF MadeOut, Weakened
<1>8. ASSUME NEW k \in Waits(t, "rows")'
      PROVE  \E j \in Waits(t, "rows") : calls'[k] = calls[j]
  BY <1>4, <1>8 DEF Asks, Waits, Weakened
<1> QED
  BY <1>7, <1>8 DEF ListRight, OnConnectionsAdmin, Alone

\* The form says nothing about the list.
LEMMA EditRight ==
  ASSUME Typing, NEW t \in Tabs, ListRight(t), UNCHANGED <<calls, connections, scene>>,
         view[t].page = "connectionsAdmin", NEW editing,
         Becomes(t, [view[t] EXCEPT !.editing = editing])
  PROVE  ListRight(t)'
<1> DEFINE v == [view[t] EXCEPT !.editing = editing]
<1>1. /\ IsView(v) /\ v.page = "connectionsAdmin" /\ v.rows = view[t].rows
      /\ v.latest = view[t].latest /\ v.doubt = view[t].doubt
  BY TabViews, EditingView
<1>2. Becomes(t, v)
  OBVIOUS
<1> HIDE DEF v
<1>3. view'[t] = v
  BY <1>1, <1>2, OneViewChanges DEF Typing
<1> QED
  BY <1>1, <1>3 DEF ListRight, OnConnectionsAdmin, Alone, Waits

\* The actions on the list.
LEMMA AdminActionsRight ==
  ASSUME Typing, NEW t \in Tabs, ListRight(t), UNCHANGED <<connections, scene>>,
         \/ \E c \in DOMAIN connections : StartEdit(t, c) \/ HandleDelete(t, c)
         \/ Cancel(t)
         \/ \E name \in scene.names : HandleSubmit(t, name)
  PROVE  ListRight(t)'
<1>1. ASSUME NEW c, StartEdit(t, c) \/ Cancel(t)
      PROVE  ListRight(t)'
  <2>1. /\ view[t].page = "connectionsAdmin" /\ UNCHANGED calls
        /\ \E editing : Becomes(t, [view[t] EXCEPT !.editing = editing])
    BY <1>1 DEF StartEdit, Cancel, OnConnectionsAdmin
  <2> QED
    BY <2>1, EditRight
<1>2. ASSUME NEW c, HandleDelete(t, c)
      PROVE  ListRight(t)'
  BY <1>2, ChangeSentRight, ArgsFit DEF HandleDelete
<1>3. ASSUME NEW name \in scene.names, HandleSubmit(t, name)
      PROVE  ListRight(t)'
  BY <1>3, ChangeSentRight, ArgsFit DEF HandleSubmit
<1> QED
  BY <1>1, <1>2, <1>3


\* The list comes, or fails to.
LEMMA RowsRight ==
  ASSUME Typing, ReachRight, NEW i \in DOMAIN calls, NEW t, t = calls[i].tab,
         ListRight(t), UNCHANGED <<connections, scene>>, RowsListed(i)
  PROVE  ListRight(t)'
<1>0. t \in Tabs /\ IsView(view[t]) /\ IsCall(calls[i])
  BY CallFacts, TabViews
<1> SUFFICES ASSUME Alone(t, "connectionsAdmin"), ~view'[t].doubt,
                    \A k \in DOMAIN calls' :
                      ~MadeOut(calls'[k], Present(connections'))
             PROVE  ListRight(t)'
  BY DEF ListRight, Alone, MadeOut
<1>1. Answered(i) /\ ~MadeOut(calls[i], Present(connections)) /\ calls[i].what = "rows"
  BY DEF RowsListed, MadeOut
<1>m. calls[i].mounted
  BY DEF RowsListed
<1>2. view[t].page = "connectionsAdmin"
  BY <1>1, <1>m, PagesAre, ChangesFrom, WaitingPage
<1>3. \A j \in DOMAIN calls : ~MadeOut(calls[j], Present(connections))
  <2> SUFFICES ASSUME NEW j \in DOMAIN calls, MadeOut(calls[j], Present(connections))
               PROVE  FALSE
    OBVIOUS
  <2>1. j # i
    BY <1>1
  <2>2. \E k \in DOMAIN calls' : calls'[k] = calls[j]
    BY <1>1, <2>1, AnsweredKeeps
  <2> QED
    BY <2>2
<1>4. ASSUME NEW k \in Waits(t, "rows")'
      PROVE  \E j \in Waits(t, "rows") : calls'[k] = calls[j]
  BY <1>1, <1>4, AnsweredWaits
<1>6. CASE UNCHANGED view
  BY <1>2, <1>3, <1>4, <1>6 DEF ListRight, OnConnectionsAdmin
<1>7. CASE Ok(i) /\ Becomes(t, WithRows(view[t], calls[i]))
  <2> DEFINE v == WithRows(view[t], calls[i])
  <2>1. /\ IsView(v) /\ v.rows = calls[i].value /\ v.latest = calls[i].latest
        /\ v.doubt = view[t].doubt
    BY <1>0, <1>2, RowsView
  <2>2. Becomes(t, v)
    BY <1>7
  <2> HIDE DEF v
  <2>3. view'[t] = v
    BY <1>0, <2>1, <2>2, OneViewChanges DEF Typing
  <2>4. calls[i].answer = "ok" /\ (calls[i].mounted => i \in Waits(t, "rows"))
    BY <1>1, <1>7 DEF Ok, Waits
  <2>5. i \in Waits(t, "rows")
    BY <1>m, <2>4
  <2> QED
    BY <1>2, <1>3, <1>4, <2>1, <2>3, <2>4, <2>5 DEF ListRight, OnConnectionsAdmin
<1> QED
  BY <1>6, <1>7 DEF RowsListed, WithRows

\* A change is made, and the list is asked for again, if it is still open.
LEMMA ChangedRight ==
  ASSUME Typing, NEW i \in DOMAIN calls, NEW t, t = calls[i].tab, Changed(i)
  PROVE  ListRight(t)'
<1>0. t \in Tabs /\ IsView(view[t])
  BY CallFacts, TabViews
<1>1. ASSUME NEW v, IsView(v), Becomes(t, v)
      PROVE  view'[t] = v
  BY <1>0, <1>1, OneViewChanges DEF Typing
<1>2. CASE ~calls[i].mounted
  <2> DEFINE v == Unknowing(view[t])
  <2>1. IsView(v) /\ (v.page = "connectionsAdmin" => v.doubt)
    BY <1>0, UnknowingView
  <2>2. Becomes(t, v)
    BY <1>2 DEF Changed, Unknowing
  <2> HIDE DEF v
  <2>3. view'[t].page = "connectionsAdmin" => view'[t].doubt
    BY <1>1, <2>1, <2>2
  <2> QED
    BY <2>3 DEF ListRight, OnConnectionsAdmin
<1>3. CASE calls[i].mounted
  <2> DEFINE empties == EmptiesForm(i)
             v == ChangeAnswered(view[t], empties)
  <2>1. view[t].page = "connectionsAdmin"
    BY <1>3, PagesAre, ChangesFrom, WaitingPage DEF Changed
  <2>2. empties \in BOOLEAN
    BY DEF EmptiesForm
  <2>3. Becomes(t, v)
    BY <1>3 DEF Changed, ChangeAnswered
  <2>5. calls' = Sent(RemoveAt(calls, i), CallAfter(calls[i], "rows"))
    BY DEF Changed
  <2> HIDE DEF empties
  <2>4. IsView(v) /\ ~v.latest
    BY <1>0, <2>1, <2>2, ChangedView
  <2> HIDE DEF v
  <2>6. ~view'[t].latest
    BY <1>1, <2>3, <2>4
  <2>7. "rows" \in Whats \ {"set", "save"}
    BY DEF Whats
  <2>8. \A k \in Waits(t, "rows")' :
          calls'[k].latest => calls'[k].answer = "none"
    BY <1>3, <2>5, <2>7, Relists
  <2> QED
    BY <2>6, <2>8 DEF ListRight
<1> QED
  BY <1>2, <1>3

\* A change comes to nothing, or its answer is lost.
LEMMA NotChangedRight ==
  ASSUME Typing, NEW i \in DOMAIN calls, NEW t, t = calls[i].tab,
         ListRight(t), UNCHANGED <<connections, scene>>, NotChanged(i)
  PROVE  ListRight(t)'
<1>0. t \in Tabs /\ IsView(view[t])
  BY CallFacts, TabViews
<1> DEFINE made == Made(i)
           v == ListDoubted(view[t], made)
<1>1. made \in BOOLEAN /\ (made <=> calls[i].answer \in {"ok", "stored"})
  BY DEF Made
<1>2. Becomes(t, v) /\ Answered(i)
  BY DEF NotChanged
<1> HIDE DEF made
<1>3. /\ IsView(v) /\ v.page = view[t].page
      /\ v.page = "connectionsAdmin" =>
           /\ v.doubt = (view[t].doubt \/ made)
           /\ v.rows = view[t].rows /\ v.latest = view[t].latest
  BY <1>0, <1>1, ListDoubtedView
<1> HIDE DEF v
<1>4. view'[t] = v
  BY <1>0, <1>2, <1>3, OneViewChanges DEF Typing
<1> SUFFICES ASSUME Alone(t, "connectionsAdmin"), v.page = "connectionsAdmin",
                    ~v.doubt,
                    \A k \in DOMAIN calls' :
                      ~MadeOut(calls'[k], Present(connections'))
             PROVE  ListRight(t)'
  BY <1>4 DEF ListRight, Alone, OnConnectionsAdmin, MadeOut
<1>5. ~made /\ ~view[t].doubt
  BY <1>3
<1>6. ASSUME NEW j \in DOMAIN calls, MadeOut(calls[j], Present(connections))
      PROVE  FALSE
  <2>1. j # i
    BY <1>1, <1>5, <1>6 DEF MadeOut
  <2>2. \E k \in DOMAIN calls' : calls'[k] = calls[j]
    BY <1>2, <2>1, AnsweredKeeps
  <2> QED
    BY <1>6, <2>2
<1>7. ASSUME NEW k \in Waits(t, "rows")'
      PROVE  \E j \in Waits(t, "rows") : calls'[k] = calls[j]
  BY <1>2, <1>7, AnsweredWaits
<1> QED
  BY <1>3, <1>4, <1>5, <1>6, <1>7 DEF ListRight, OnConnectionsAdmin

\* The server lists the connections, or changes one.
LEMMA ServedListRight ==
  ASSUME Typing, ServerTyped, NEW t \in Tabs, ListRight(t),
         NEW i \in DOMAIN calls, Serve(i)
  PROVE  ListRight(t)'
<1>1. UNCHANGED <<view, scene>> /\ Served(i)
  BY ServeSteps DEF Serve, ClientKept
<1>s. /\ \/ connections' = connections
         \/ MadeOut(calls'[i], Present(connections'))
      /\ \/ Present(connections) \subseteq Present(connections')
         \/ MadeOut(calls'[i], Present(connections'))
      /\ MadeOut(calls[i], Present(connections)) =>
           MadeOut(calls'[i], Present(connections'))
  BY ServedLists
<1> SUFFICES ASSUME Alone(t, "connectionsAdmin"),
                    view[t].page = "connectionsAdmin", ~view[t].doubt,
                    \A k \in DOMAIN calls' :
                      ~MadeOut(calls'[k], Present(connections'))
             PROVE  ListRight(t)'
  BY <1>1 DEF ListRight, Alone, OnConnectionsAdmin, MadeOut
<1>2. \A j \in DOMAIN calls : ~MadeOut(calls[j], Present(connections))
  <2> SUFFICES ASSUME NEW j \in DOMAIN calls, MadeOut(calls[j], Present(connections))
               PROVE  FALSE
    OBVIOUS
  <2>1. j # i
    BY <1>1, <1>s DEF Served
  <2>2. j \in DOMAIN calls' /\ calls'[j] = calls[j]
    BY <1>1, <2>1 DEF Served
  <2> QED
    BY <1>1, <1>s, <2>2 DEF MadeOut, Served
<1>3. connections' = connections
  BY <1>1, <1>s DEF Served
<1>4. ASSUME NEW k \in Waits(t, "rows")', calls'[k].latest,
             calls'[k].answer = "ok"
      PROVE  calls'[k].value = connections
  <2>1. k \in Waits(t, "rows") /\ calls[k].latest
    BY <1>1, <1>4 DEF Served, Waits
  <2>2. CASE k = i
    BY <1>4, <2>1, <2>2, ServedLists DEF Waits
  <2>3. CASE k # i
    BY <1>1, <1>2, <1>4, <2>1, <2>3 DEF ListRight, OnConnectionsAdmin, Served, Waits
  <2> QED
    BY <2>2, <2>3
<1> QED
  BY <1>1, <1>2, <1>3, <1>4 DEF ListRight, OnConnectionsAdmin

\* A connection breaks: its change is not made yet.
LEMMA BreakList ==
  ASSUME Typing, ServerTyped, NEW t \in Tabs, ListRight(t),
         NEW i \in DOMAIN calls, Break(i)
  PROVE  ListRight(t)'
<1>1. /\ UNCHANGED <<view, scene, connections>> /\ Served(i)
      /\ calls[i].answer \in {"none", "found"} /\ calls'[i].answer = "lost"
  BY BreakSteps
<1>2. /\ DOMAIN calls' = DOMAIN calls
      /\ \A k \in DOMAIN calls \ {i} : calls'[k] = calls[k]
  BY <1>1 DEF Served
<1>3. ASSUME NEW k \in Waits(t, "rows")', calls'[k].answer = "ok"
      PROVE  k \in Waits(t, "rows") /\ calls'[k] = calls[k]
  BY <1>1, <1>2, <1>3 DEF Waits
<1>4. ASSUME NEW k \in DOMAIN calls, MadeOut(calls[k], Present(connections))
      PROVE  MadeOut(calls'[k], Present(connections'))
  BY <1>1, <1>2, <1>4 DEF MadeOut
<1> QED
  BY <1>1, <1>2, <1>3, <1>4 DEF ListRight, Alone, OnConnectionsAdmin

\* A change that was given up is made, and the list is in doubt.
LEMMA LateList ==
  ASSUME Typing, ServerTyped, ReachRight, NEW t \in Tabs, ListRight(t),
         NEW n \in DOMAIN late, ServeLate(n)
  PROVE  ListRight(t)'
<1> DEFINE c == late[n]
<1>1. /\ UNCHANGED <<calls, scene>> /\ IsCall(c) /\ c.what \in Changes
      /\ \A u \in Tabs \ {c.tab} : view'[u] = view[u]
      /\ \/ UNCHANGED <<view, level, connections>>
         \/ /\ view'[c.tab] = UnawareOf(view[c.tab], c)
            /\ c.what = "set" => connections' = connections
  BY LateSteps
<1>2. AsksFromThere(c)
  BY DEF ReachRight
<1> HIDE DEF c
<1>3. CASE view'[t] = view[t] /\ connections' = connections
  BY <1>1, <1>3 DEF ListRight, Alone, Waits, OnConnectionsAdmin
<1> SUFFICES ASSUME Alone(t, "connectionsAdmin"),
                    view'[t].page = "connectionsAdmin", ~view'[t].doubt
             PROVE  view'[t] = view[t] /\ connections' = connections
  BY <1>1, <1>3 DEF ListRight, Alone, OnConnectionsAdmin
<1>4. CASE c.what # "set"
  <2>1. c.tab = t
    BY <1>1, <1>2, <1>4 DEF AsksFromThere, Alone, ComesTo, IsCall, Changes
  <2>2. view'[t] # UnawareOf(view[t], c)
    BY <1>1, <1>4, TabViews, UnawareView
  <2> QED
    BY <1>1, <2>1, <2>2
<1>5. CASE c.what = "set"
  <2>1. view'[t] = UnawareOf(view[t], c) => view'[t] = view[t]
    BY <1>1, <1>5, TabViews, UnawareView
  <2> QED
    BY <1>1, <1>5, <2>1
<1> QED
  BY <1>4, <1>5

\* Every step keeps the list right.
LEMMA NextList ==
  ASSUME Typing, ServerTyped, ReachRight, [Next]_vars, NEW t \in Tabs,
         ListRight(t)
  PROVE  ListRight(t)'
<1> USE PagesAre
<1>1. ASSUME NEW u, NEW page, StepOf(u, page), u # t \/ page # "connectionsAdmin"
      PROVE  ListRight(t)'
  <2>1. Keeps(t, "connectionsAdmin") \/ Remounts(t)
    BY <1>1, OtherStepsKeep
  <2>2. UNCHANGED <<connections, scene>>
    BY <1>1 DEF StepOf, server
  <2> QED
    BY <2>1, <2>2, ListKept, ListRemounted
<1>2. ASSUME NEW u \in Tabs, User(u)
      PROVE  ListRight(t)'
  <2>1. CASE u # t
    BY <1>1, <1>2, <2>1, UserSteps
  <2>2. CASE \/ Open(t) \/ Reload(t) \/ Submit(t) \/ Logout(t)
             \/ \E page \in Pages : Goto(t, page)
    BY <1>1, <2>2, SessionActions
  <2>3. CASE \/ \E c \in ToSet(scene.catalogs) : Select(t, c)
             \/ Refresh(t) \/ RunByButton(t) \/ RunByKey(t) \/ Download(t)
    BY <1>1, <2>3, QueryActions DEF StayOf
  <2>4. CASE Click(t)
    BY <1>1, <2>4, MatrixActions DEF StayOf
  <2>5. CASE \/ \E c \in DOMAIN connections : StartEdit(t, c) \/ HandleDelete(t, c)
             \/ Cancel(t)
             \/ \E name \in scene.names : HandleSubmit(t, name)
    <3>1. UNCHANGED <<connections, scene>>
      BY <2>5, AdminActions DEF StayOf, StepOf, server
    <3> QED
      BY <2>5, <3>1, AdminActionsRight
  <2> QED
    BY <1>2, <2>1, <2>2, <2>3, <2>4, <2>5 DEF User
<1>3. ASSUME NEW i \in DOMAIN calls, Deliver(i)
      PROVE  ListRight(t)'
  <2>0. SessionAnswers(i) \/ QueryAnswers(i) \/ MatrixAnswers(i) \/ AdminAnswers(i)
    BY <1>3 DEF Deliver, SessionAnswers, QueryAnswers, MatrixAnswers, AdminAnswers
  <2>1. CASE calls[i].tab # t
    BY <1>1, <1>3, <2>1, DeliverSteps
  <2>2. CASE calls[i].tab = t /\ SessionAnswers(i)
    BY <1>1, <2>2, SessionAnswersSteps
  <2>3. CASE calls[i].tab = t /\ QueryAnswers(i)
    BY <1>1, <2>3, QueryAnswersSteps DEF StayOf
  <2>4. CASE calls[i].tab = t /\ MatrixAnswers(i)
    BY <1>1, <2>4, MatrixAnswersSteps DEF StayOf
  <2>5. CASE calls[i].tab = t /\ AdminAnswers(i)
    <3>1. UNCHANGED <<connections, scene>>
      BY <2>5, AdminAnswersSteps DEF StayOf, StepOf, server
    <3> QED
      BY <2>5, <3>1, RowsRight, ChangedRight, NotChangedRight DEF AdminAnswers
  <2> QED
    BY <2>0, <2>1, <2>2, <2>3, <2>4, <2>5
<1>4. ASSUME NEW i \in DOMAIN calls, Serve(i)
      PROVE  ListRight(t)'
  BY <1>4, ServedListRight
<1>5. CASE Expire \/ UNCHANGED vars
  <2>1. UNCHANGED <<view, calls, connections, scene>>
    BY <1>5 DEF Expire, ClientKept, vars, server
  <2> QED
    BY <2>1 DEF ListRight, Alone, Waits, OnConnectionsAdmin
<1>6. ASSUME NEW i \in DOMAIN calls, Break(i)
      PROVE  ListRight(t)'
  BY <1>6, BreakList
<1>7. ASSUME NEW n \in DOMAIN late, ServeLate(n)
      PROVE  ListRight(t)'
  BY <1>7, LateList
<1> QED
  BY <1>2, <1>3, <1>4, <1>5, <1>6, <1>7 DEF Next

PagesInv == ReachRight /\ \A t \in Tabs : MatrixRight(t) /\ ListRight(t)

\* The pages for Admins are right, always.
LEMMA PagesInvHolds == Spec => []PagesInv
<1>1. Init => PagesInv
  BY DEF Init, PagesInv, ReachRight, MatrixRight, ListRight, OnConnectionsAdmin,
         ClosedView
<1>2. Typing /\ ServerTyped /\ PagesInv /\ [Next]_vars => PagesInv'
  BY NextReach, NextMatrix, NextList DEF PagesInv
<1> QED
  BY <1>1, <1>2, TypingHolds, PTL DEF Spec

\* With no change out, the matrix shows the level that is stored.
THEOREM MatrixShowsStored == Spec => []MatrixCurrent
<1>1. PagesInv => MatrixCurrent
  BY DEF PagesInv, MatrixRight, MatrixCurrent
<1> QED
  BY <1>1, PagesInvHolds, PTL

\* With no change out, the list of connections is what is stored.
THEOREM ListShowsStored == Spec => []ConnectionsCurrent
<1>1. PagesInv => ConnectionsCurrent
  BY DEF PagesInv, ListRight, ConnectionsCurrent, MadeOut
<1> QED
  BY <1>1, PagesInvHolds, PTL


====
