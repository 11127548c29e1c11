# Verification of db-lite

db-lite lets the users of a closed network run SQL on MSSQL, MySQL, PostgreSQL
and Oracle databases from a browser. One Go process serves the web client and an
HTTP API, keeps its users, connections, permissions and audit log in a SQLite
file, and runs the users' statements on the target databases with the shared
account of a connection.

This directory holds TLA+ models of that program, the TLC runs that check them on
small instances, and proofs, checked by TLAPS, of what holds for every instance.
All paths below are relative to `src/`.

## 1. The system

### Components

| component | source | state | operations |
|---|---|---|---|
| Metadata store | `server/internal/store` | tables `users`, `connections`, `permissions`, `audit_log`; the `AUTOINCREMENT` counters | one SQL statement each: insert, update, delete rows; set or remove a permission; append an audit entry. `Open`: create and upgrade the tables |
| HTTP server | `server/internal/httpapi` | none of its own; a goroutine for each request | log in; create, reset, delete users; create, edit, delete connections; set permissions; run a statement; list catalogs, describe a schema, fetch a cell; list rows |
| Tokens, passwords | `server/internal/auth` | none; tokens live with the clients | issue and verify a signed token (12 hours), hash and compare a password |
| Process start | `server/cmd/server` | none | load the configuration, open the store, bootstrap the first Admin, listen |
| Query execution | `server/internal/query`: `classify.go`, `executor.go` | none | sort a statement into read or write; run it; cut long cells; attach origins |
| `SELECT *` rewriting | `rewrite.go`, `wildcard.go`, `cellfile.go` | none | recognise `SELECT * FROM t`, replace the star by columns of which the unbounded ones are cut; expand wildcards |
| JOIN origins | `joinorigin*.go` | none | find for each result column its table and primary key, and inject hidden key columns; once for each of four parsers |
| Target databases | `server/internal/dbconn` | outside | open a target, ask for its catalogs, schemas, keys and unbounded columns, fetch one value by key |
| Configuration | `server/internal/config` | constants | read the environment and `.env` |
| Static files | `httpapi/static.go` | none | serve the built client |
| Client session | `client/src/api`, `client/src/auth` | the token in `localStorage`; the claims in each tab | attach the token; on 401 clear it and the claims; log in, log out |
| Query page | `client/src/pages/QueryPage.tsx` | catalog, schema, statement, result, error, running | load catalogs and schema, run, download a cell |
| Administration pages | `client/src/pages/admin` | rows as last loaded; what a form is editing | lists and forms over the HTTP API: permissions, connections, users, audit log |
| Desktop shell | `electron` | a stored server address | open a window on it |

### How they interact

Handlers call the store one SQL statement at a time. The store's one pooled
connection (`store.go:33`) serialises the statements, and nothing wider: no
handler opens a transaction, so between two statements of one request those of
other requests run, and the process may die there. A handler that runs a
statement reads the permission, then the connection's row, opens the target, runs
the statement and, for a write, appends an audit entry: four places where the
rows it decided by can change. Tokens carry their claims, and the server never
looks at the user's row again.

Reading takes another path through the code: the executor asks the target for
keys and columns, rewrites the user's text, runs it, cuts off what it had added
and answers each column with an *origin*: a table, its key columns, and the
positions of their values in the row. The client sends an origin back to
download a cell, and the server fetches the value again and compares it with
what the user saw before serving it.

### What is hard to test here

- **Requests overlap.** Checks act on rows read several statements ago
  (`query_handlers.go:60`, `connection_handlers.go:64`, `auth_handlers.go:124`).
- **Tokens outlive accounts.** Whatever is deleted and created within 12 hours, an
  id in a token must never come to denote somebody else.
- **Cascades.** Deletions reach permissions and audit entries through foreign keys
  that only hold where a pragma is on, while entries are being appended.
- **Partial failure.** A write can take effect on the target and then fail to be
  recorded: by a crash, by a foreign key that no longer holds, or by an error
  reported for something that took effect.
- **Upgrades.** `Open` rebuilds a table of the file in several statements, each of
  which the process may not survive.
- **Counting columns.** Origins are positions counted by hand over wildcards,
  joins, derived tables and keys of several columns, four times over; one too
  many or too few, and the user sees a hidden column or downloads a stranger's.
  The tables counted may be altered before the statement runs.
- **Splicing text.** For Oracle the hidden columns go into the user's text at
  places counted before any of them is in it, in the order a map happens to have.
- **Rewriting what the user wrote.** Added columns may change which rows there are
  (`DISTINCT`, `UNION`), or break a statement that ran.
- **The client.** Answers arrive out of order, late, to a page that was left, or not
  at all; tabs share one token, and every tab holds claims of its own.

The list with lines is under `hazards` in `PROJECT.json`, each entry with the
properties that watch it, or a note where none does yet.

### What makes each component correct

- *Store*: no row refers to one that is gone; ids are never reused; a grant goes
  only by a revocation or with its user or connection; entries keep their place,
  statement and outcome.
- *Open*: entries survive every upgrade and every crash; what is opened is a
  current store; every file opens in the end.
- *Server*: a token names its owner or nobody; a statement runs only if its sender
  had the permission while the request was there; the audit log says the truth;
  every write that took effect is recorded or there is a known reason.
- *Reading*: the user sees what he asked for; an origin leads to the row its cell
  comes from; a statement that ran still runs; downloads on offer succeed.
- *Client*: an expired session ends at the login page, a live one only by a logout or
  one of two known accidents; a page that waits for an answer stops waiting; result,
  schema, matrix and list are those asked for last; a download is from the result's
  database; an edit stays in its form; nobody is taken to a page he has not asked for,
  but in one known case.

## 2. The modules

```
Store ──────► HttpApi ──────► HttpApiWindow        Upgrade
                 │ (TrailSpec)                        ▲
                 └► AuditTrail                  Upgrade_proofs
MCHttpApi, MCHttpApiWindow: instances

Store_proofs ► HttpApi_proofs (HttpApi, HttpApiWindow) ► HttpAudit_proofs

SqlSelect ──► JoinOrigins ──► OracleSplice ──► ReadQuery ──► MCReadQuery
                                   ▲               ▲
                         JoinOrigins_proofs ► ReadQuery_proofs

                ┌► QueryPage ────────────┐
ClientSession ──┼► PermissionsPage ──────┼──► Client ──► MCClient
                └► ConnectionsAdminPage ─┘

Client ► Client_proofs ► ClientPages_proofs
```

**`Store`**: the metadata store, one action for each SQL statement that changes a
table. A table is a function from its primary key to the rest of the row;
`userSeq` and `connectionSeq` are the rows of `sqlite_sequence`. The foreign
keys' `ON DELETE CASCADE` and `SET NULL` are parts of the two deletions. An
`UPDATE` or `DELETE` whose row does not exist succeeds and changes nothing, as in
SQL; a statement that violates a constraint changes nothing and its condition
(`UsernameTaken`, `NameTakenByAnother`, `GrantRefsExist`, `AuditRefsExist`) is
what the handlers branch on. `kind`, `host`, `port`, `username` and service name
of a connection are one value, its target.

**`AuditTrail`**: what the audit log promises, with no server in sight: entries
are appended once per attempt and stay; users and connections in them may be
forgotten. `HttpApi`'s `TrailSpec` states that `audit_log` implements it.

**`HttpApi`**: the server. `requests[r]` is what goroutine `r` is serving and
which statement its handler issues next (`at`). A handler of one statement is two
actions: the request is received, when middleware decides, and handled. The
others:

| handler | actions |
|---|---|
| `handleLogin` | `LoginLookup` (row read, password compared), `LoginIssue` |
| `handleUpdateConnection` | `ReceiveAdmin`, `EditConnectionRead`, `EditConnectionWrite` |
| `handleExecuteQuery` | `ReceiveTarget`, `CheckAccess`, `Connect`, `ExecuteRead` or `ExecuteWrite`, `RecordAudit` |
| `handleListCatalogs`, `handleDescribeSchema`, `handleFetchCell` | the same without a write and an entry (`inspect`) |
| all other handlers that change state | `ReceiveAdmin` and one action of the handler's name |

`Boot` is `bootstrapAdmin` and `ListenAndServe`; `Crash` may come between any two
actions; `Tick` moves the clock that tokens expire by. `submitted`, `ran` and
`abandoned` are ghosts that the properties speak about: the writes received, those
that took effect on a target, and those whose request died with the process.
`ExecuteWrite` may report an error for a statement that took effect.

**`HttpApiWindow`** adds one history variable: for each request, the levels its
sender has had on its connection since it arrived.

**`Upgrade`**: `store.Open` and `migrate` over a new file or one of an older
version, statement by statement. `disk` is what a restart would find, `db` what
the connection sees; they differ inside the transaction of
`relaxAuditLogForeignKeysIfNeeded`. Old files may lack the column, may have references
with `NO ACTION`, and may hold entries whose user or connection is gone
(older versions did not turn foreign keys on for every pooled connection), whatever
their clause. `Open` looks only at the references of those that it rebuilds; what
dangles in a file whose references were `SET NULL` already is in `lost`, and stays.
After `Open` the store is used, by the statements that touch what `Upgrade` is about,
until the process dies. Under `NO ACTION` a row that an entry names cannot be deleted.
An id that no row and no entry has stands for one never assigned before; so few ids
serve for many.

**`SqlSelect`**: the reference semantics, which models no code of the repository
but what a target does with a `SELECT`: a result column is a name and a
provenance, the table, column and place in `FROM` its values come from. `Output` is
what a statement returns, `Runs` whether it is accepted, `FoldedQuery` how Oracle
reads names. A name is the sequence of the words that underscores join in it; tables
are known by schema and name, and those that a `WITH` defines form a schema of their
own, `"with"`. A statement has two levels: derived tables in `FROM`, and tables in
those. A derived table in a derived table is left out: no pass looks into one
(`resolveDerivedColumn...` give its columns no origin). So nothing is recursive, and
everything here can be proved about. `UsersNames` are the names that do not begin with
`__pk_`: the code takes for granted that these are nobody's but its own.

**`JoinOrigins`**: `wildcard.go` and the four `joinorigin` passes, as one algorithm
with the differences between them as operators of their own
(`ResolveDerivedColumnMySQL` ... `Oracle`, `PrepareMySQL` ... `PrepareOracle`).
Positions count from 1 here and from 0 in the code. Columns and keys are asked for by
a table's bare name, in the home schema, as in the code; `HiddenName` joins the words of
a path and a column as the code joins strings, so that two of them can be the same.

**`OracleSplice`**: the Oracle pass has no printer for its syntax tree and splices the
hidden columns into the text. `Spliced` is that text, a sequence of tokens: each piece
(`Chunks`, a set as the code's map is unordered) at its place in the text as it came, in
one pass from left to right. `InOrder` is the enumeration of the pieces in which the
places ascend. `OracleReads` is how Oracle then reads it, names folded but where
quoted.

**`ReadQuery`**: one read from its plan over its result to the download of a cell.
Of a value's text only this is kept: which row and column it is of, and whether it
is shown whole, with the truncation marker, cut without one, or spelled in a way of
its own. Between the plan and the execution tables may be altered, as one step and with
their keys kept: the target then runs the statement over another catalog (`Target`), and
a download asks that one for the column. An outer join may find no row (`missing`),
whose cells are NULL.

**`ClientSession`**: the tabs of one browser, the token they share, the claims each
has taken from it, the page each shows, and `calls`, the requests that are out, in the
order they were sent. A page is a record that is made when it is mounted and replaced
when it is left (React unmounts it); its requests stay out, and their answers change
nothing of a page any more (`mounted`), but do change what is not the page's: the
session (`SessionEnds`, `LoggedIn`), the address (`PulledBack`), other requests
(`LevelSet`). `throwApiError` is `SessionEnds`: it looks at the token the request
carried and clears the one stored now. `MountRequests` are the effects with empty
dependencies.

**`QueryPage`**: the effect that asks for a schema is part of every step that changes
what it depends on (`Settles`); the default catalog goes by the address of the first
rendering, whose closure the answer runs in (`Defaults`); runs by button and by
Mod-Enter differ in the button's `disabled`. The two ghosts `moved` and `overlapped`
say when the catalog has changed since a run and when runs have overlapped. `Database`
is the part of `dbconn.Open` that decides which database a catalog stands for: none does
on Oracle, and without one Postgres has its own.

**`PermissionsPage`**: the matrix, with one cell. A click sets the level after the one
shown and asks for the list again once that is answered.

**`ConnectionsAdminPage`**: the list of connections and the one form, which adds a
connection or edits the one `editing` names. Every change that succeeds is followed by
the list; which answers also empty the form is `EmptiesForm`.

**`Client`**: the pages, the session, and the server as its handlers answer:
`requireAuth`, `requireConnectionAccess`, logins, levels set and listed, connections
added (under a name nobody has), edited, deleted and listed. A save is served
statement by statement (`InsertRow`; or `ReadRow` and `UpdateRow`; then `ReadBack`), so that
other requests come between an edit's read and its write, and between the write and the row
that is answered. A request is served at one moment and its answer arrives at another. Its
connection may break before it is served, or between: the page gets an error (`Fails`). Of
a request for a change the server may not notice that, and go on with it later (`Break`,
`ServeLate`, the requests in `late`): the handlers ignore the context of their request as they
write. A page that is shown does not come to know of such a change (`UnawareOf`), and its
ghost `doubt` says so, as it does of changes whose answer came to an earlier visit. (That `setSearchParams` of a page that was left navigates to that
page's address is how React Router resolves a search string: against the path of the
rendering the function was made in.)

**`MCHttpApi`, `MCHttpApiWindow`, `MCReadQuery`, `MCClient`** are the instances.

`MCClient` has eleven scenes: the query page of an Oracle connection, which has no
catalogs, and of a Postgres one with two, one of which is its own database; to and from
the query page, with a reload, with access to the connection and without; the
permission matrix, with a change that is made late or to and from it; the connections' form
with two connections, one of them yet to be added, with names that collide or with a change
that is made late, and to and from it with one; two tabs at the login page; one whose user goes back
to the login page.

`MCHttpApi` bounds `http_connections` by `OneOfEach`: behaviours in which there are two
accounts and two write statements, on one connection that nobody edits or inspects, or two
connections and all operations, by one account with one write. In the first kind a connection
and either user of two entries may be deleted, and the order of the entries matters.

`MCReadQuery` generates its statements and keeps those that a target accepts: three
tables (a key of one column, a key of two that is not at the beginning, none), one or
two of them or a derived one in `FROM`, up to two items out of eleven, with `DISTINCT`,
`GROUP BY`, `UNION`, `WHERE` and natural joins. Further families each add what that
leaves out: `Foreign` (tables of another schema or of a `WITH`, with a namesake in the
home schema and without), `Twins` (two derived tables whose keys are needed in the order
of `FROM` or against it), `Worded` (aliases and columns of several words, whose hidden
names collide or not), `Triples` (three items, carriers in two lists), `OuterJoins`.
Altered, one table gains a column in front of the others and loses one, and another loses
its first.

### What is abstracted

- *Responses*, and with them requests refused before they reach the store, the
  handlers that only list rows, and the row that a handler reads back after its
  write. They change no state; what a client is told is not checked.
- *Errors of SQLite itself* (a full disk, say) other than violated constraints. They
  would leave a write unrecorded too; `recordAudit` ignores every error.
- *Signatures and bcrypt* are taken as what they promise: a token that is accepted
  was issued; a password matches the one it was hashed from.
- *The bootstrap account* is always configured. Without it `bootstrapAdmin` does
  nothing.
- *Clients* are what tokens they use: a request takes any token ever issued, which
  covers several admins, and several clients or requests with one token.
- *SQL text.* A statement is its structure; how the four parsers come by it is left
  out. What a parser does not understand runs as it is and has no origins. Statements
  that begin with `WITH` count as writes (`classify.go`) and never reach the rewriting,
  so that a `WITH` occurs in derived tables only, and there for what its names do to
  lookups: the tables they give to queries are tables of a schema of their own.
- *Unions* are their first branch and the number of columns of the others.
- *Files of older versions* are complete: `permissions` and the tables' other columns
  have not changed since.

## 3. The runs

Those that pass (distinct states; less than three minutes each):

| run | module, cfg | instance | what it shows |
|---|---|---|---|
| `http_accounts` | `MCHttpApiWindow`, `MCHttpAccounts.cfg` | 2 goroutines, 3 users ever, 2 names, 1 connection, 1 write; 1,818,005 states | deleted accounts stay dead for every token and request; the audit log tells the truth, in order; what runs, and what is refused, was granted or was only readable at an instant of the request |
| `http_connections` | `MCHttpApi`, `MCHttpConnections.cfg` | 2 goroutines, 2 targets (one cannot be opened), 1 secret, 1 password, a clock, and either 2 connections ever or 2 users ever with 2 writes (`OneOfEach`); 1,222,660 states | edits cost no grant; deletions leave no reference; the audit log is complete but for what the code cannot record, and, with two entries whose users and connection may be deleted, implements the append-only trail |
| `upgrade` | `Upgrade`, `MCUpgrade.cfg` | files of both clauses with up to 2 entries over 2 ids, dangling or not, 2 crashes; 87,381 states | no crash in any statement of an upgrade loses or changes an entry; references are lost only with their row; what is opened is current; every file opens |
| `read_query` | `MCReadQuery`, `MCReadQuery.cfg` | every statement of the instance in four dialects, tables altered or not before it runs; 117,967 states | results are what was asked for, statements that ran still run, origins lead to their rows, downloads on offer succeed, the text sent to Oracle says what it should |
| `client` | `MCClient`, `MCClient.cfg` | eleven scenes, 2 tabs, 2 tokens, 2 catalogs, 2 connections, 2 requests out when a user acts (1 on the connections' form with two; a page mounts with up to 3), 1 reload, 1 change made late; 249,217 states | what is shown belongs to what was asked last; expired sessions end; pages stop waiting |

Those that TLC refutes, each a disagreement between the code and what a comment or
a decision record says of it (`findings` in `PROJECT.json` quotes the line):

| run | property | what happens |
|---|---|---|
| `admin_lockout` | `AnAdminRemains` | two Admins delete each other; each handler refuses only its own caller's account |
| `lost_password` | `EditsKeepPassword` | an edit without a password writes back the one it read, over one stored meanwhile |
| `unrecorded_write` | `WritesThatRanAreRecorded` | the connection is deleted while a write runs on it; the foreign key refuses the entry and the error is ignored |
| `wildcard_offset` | `WildcardOriginsFindTheirRow` | in `SELECT 1 AS id, u.* FROM users u` the key positions of `u.*` count from the block's beginning, and the row's from its own |
| `truncated_cells` | `TruncatedCellsServed` | a long value of an unbounded column is cut by the target, without the marker the comparison expects: its download fails |
| `oracle_case` | `StillRuns` | `SELECT ID FROM USERS u` gets a column `"u"."ID"`, which Oracle does not know |
| `login_refusal` | `LoginRefusalsEndNothing` | a wrong password on the login page of a browser that has a live session: the login carries the stored token, and its 401 clears it |

### The properties

- `TokensNameTheirUser`: the id in a token denotes the account it was issued to, with
  its name and role, or none. It takes a deletion, a creation and an old token to
  break, which is what ids without `AUTOINCREMENT` would do.
- `ReferentialIntegrity`, `IdsStayRetired`, `GrantsOutliveEdits`: of the tables.
- `AuditIsTruthful`: an entry marked allowed is of a statement that took effect, a
  refused one never did nor will, and the names in it are those of the attempt.
- `WritesAccountedFor`: the most that can be said of completeness. A write that took
  effect is recorded, or still being served, or its process died, or its user or
  connection was deleted meanwhile. `WritesThatRanAreRecorded` leaves the last case
  out, and is false.
- `TrailSpec`: the refinement of `AuditTrail`.
- `RunsOnlyWhenGranted`, `RefusesOnlyReaders`: the permission is checked once, so the
  promise is about an instant between the arrival and the execution. That the
  permission holds at the execution itself is not promised, and not true.
- `HistoryKept`, `OpenIsCurrent`, `ForgetsOnlyTheGone`, `EventuallyOpen`: of opening.
- `OriginsFindTheirRow`, `ShownAsAsked`, `StillRuns`, `RowsKept`, `DownloadsServed`: of
  reading. What each excepts is a named operator, so that nothing is excepted in
  silence:
  - `WildcardLeads`: a wildcard behind another item, see `wildcard_offset`;
  - `WildcardMerges`: a wildcard over a natural join beside other items, whose merged
    columns are counted once per table;
  - `UnionMissed`: a `UNION` behind the `WHERE` of a plain `SELECT *` (`rewrite.go` takes
    everything from there on as it is), and on MSSQL any at the top (`joinorigin_mssql.go:36` looks
    for unions in derived tables only): the first branch alone is rewritten, and the origins
    of its cells are taken for those of all rows;
  - `HasNamesake`: a table, in `FROM` or in a derived table of it, that is of another
    schema, given by a `WITH`, or read by Oracle in upper case, while its bare name as
    written is that of a table of the home schema, whose columns and key it gets
    (`IsNamesake`);
  - `CarriersCollide`: two hidden columns of one derived table with one name;
  - `WildcardShifted`: a wildcard whose columns were counted from the catalog (the path
    of `JOIN`s), over tables altered since. Over altered tables a statement without one keeps its origins,
    and so does a plain `SELECT *`, whose key is looked for in the result;
  - `ListOutdated`: the list that replaces a star to cut unbounded columns, when the
    table was altered since: a new column is not shown, a dropped one breaks it.

  For downloads there are also renamed columns (the client asks for a column by its name
  in the result), cut values (see `truncated_cells`), values the client spells in another
  way than `cellText` (times, integers beyond 2^53, bytes that are not UTF-8) and the
  NULLs of a row that an outer join did not find (`IsMissing`): such a cell has an origin
  and a button, and a key of NULLs. `StillRuns` is checked on names in upper case in
  `read_query`; `oracle_case` has the others. `RowsKept` says that nothing is added to a
  list that decides which rows there are: of `DISTINCT` and `UNION` the statement itself
  is sent, of `GROUP BY` one that returns the same, and a derived table of such a shape
  stays as it is, unless two entries of `FROM` share its alias, which no target accepts.
- `SpliceReadsAsInjected`: the spliced text says what `Inject` says in the other dialects,
  for every order in which keys are needed. It takes two derived tables, the second of
  which is needed first, to break a splice in the wrong order.
- `ResultIsLastRuns`, `SchemaIsOfCatalog`, `MatrixCurrent`, `ConnectionsCurrent`: what is
  shown is of the last request, with the pages' real exceptions spelled out: runs that
  Mod-Enter makes overlap, answers that overtake each other, a list or a change that
  fails or whose answer is lost, a change answered to a page that was left or made after
  its connection broke, changes made in another tab (`Alone`). The schema is the selected catalog's once the catalogs are
  there or have failed to come (`loaded`): before, the answer to an earlier visit may
  select another, and the effect that asks for its schema waits for them.
- `DownloadsMatchResult`: a download is of the database its result came from, unless the
  selection has moved to another one since or runs have overlapped. Two selections may
  stand for one database.
- `EditsStayInForm`: an edit leaves the form by its user's doing, by the answer to a save
  or to a deletion of what was edited when it was sent. That an *earlier* save's answer
  empties the form over an edit begun since is real, and listed: what is typed on is then
  submitted as a new connection.
- `PagesOpenOnPurpose`: of the catalogs' answer that comes after its page was left, only
  one to a visit without a catalog in its address pulls the user back.
- `LiveSessionsEndKnowingly`, `ExpiredSessionsEnd`: a token that the server accepts is
  thrown away by a logout, a late 401 to a request with another token, or a wrong
  password on a login page while it is stored. The last contradicts `client.ts:35-38`, which
  takes a login to carry no token: `LoginRefusalsEndNothing` says what that comment says, and
  `login_refusal` refutes it. And a tab whose request was refused ends at the login page even if another
  tab has cleared the token before. A tab whose *next* request finds no token does not:
  it stays on its page with a generic error until it is reloaded.
- `PageLoads`, `RunsEnd`: a query page comes to have a schema, and a run ends.

Every property of a passing run has a mutant in `PROJECT.json`: a definition of the
model changed as a plausible bug would change the code, under which TLC finds the
property violated.

### Bounds, and why they are enough

Two goroutines: the hazards of the server are of one request overtaken by another
(read, then written; checked, then used), and while one is held up the other may
serve any number of requests, one after the other. What takes three requests that
are all under way at once is beyond the runs; the proofs have no such bound. Three
users ever suffice to delete an account and create one of the same name while the
Admin remains; two connections, to do so with a connection. Two writes put two
entries in the log, of two accounts, either of which may be deleted between, before or
behind them; `http_accounts` has one write, since what it says of entries it says of each
alone. `IdsStayRetired` is of interest there for accounts: with one connection ever, its
other half is idle (the theorem `IdsRetired` is for any number). Connections are edited in `http_connections`
only.
`Lifetime` and `MaxTime` only matter where the clock is on (`http_connections`);
elsewhere tokens do not expire, which is the harder case. Crashes are not bounded
in the server: `Boot` and `Crash` may alternate forever. In `Upgrade` two crashes
suffice to die in the upgrade and in the one after it; with two entries over two
ids an entry that dangles stands beside one that does not. In the client two requests
of one kind out at once suffice for one to overtake the other; two tabs, for one to
clear the token under the other; two tokens, for a 401 to be of the older one. The
scenes are separate since pages of one tab do not meet but over the session. Statements
of three items over two entries of `FROM` put a wildcard before, between and behind
others. All
bounds are constants (`MaxUsers`, `MaxConnections`, `MaxStatements`, `MaxTime`,
`MaxEntries`, `MaxCrashes`; `maxCalls`, `maxReloads`, `maxConnections` and `maxLate` of a scene;
`OneOfEach` of `http_connections`) that appear in guards or in the type invariant; the proofs hold for
every value of them.

Goroutines are interchangeable, and TLC is told so by symmetry sets; this is sound
as those runs check safety only.

### Fairness and deadlock

`HttpApi` and `ReadQuery` have no fairness: only safety is checked, and clients may
stop sending, so their runs turn the deadlock check off. `Upgrade`'s `FairSpec` has
`WF_vars(OpenStore)`: `Open` is sequential code that waits for nobody, so it goes on
unless the process dies, and a dead server is started again. Crashes are bounded by
`MaxCrashes`; a server that dies forever never opens. Its deadlock check is off too: an open
store whose entries and crashes have reached their bounds may have nothing left to do.
`Client` has `WF_vars(Deliver(1))`: the oldest request that is out is answered some
time, or its connection breaks, and then the next is the oldest; neither the browser
nor the server keeps a request forever, but for a statement that runs forever on its
target, which nothing limits. Nothing is assumed of users, nor that tokens expire.
Users may do nothing more, so its deadlock check is off.

## 4. The proofs

| theorem | statement |
|---|---|
| `StoreTypeCorrect` | `StoreSpec => []StoreTypeOK` |
| `StoreReferencesSound` | `StoreSpec => []ReferentialIntegrity` |
| `StoreIdsRetired` | `StoreSpec => IdsStayRetired` |
| `StoreGrantsOutliveEdits` | `StoreSpec => GrantsOutliveEdits` |
| `TypeCorrect` | `Spec => []TypeOK` (of `HttpApi`) |
| `ServerUsesStore` | `Spec => StoreSpec`: the concurrent server implements the sequential store |
| `ReferencesSound`, `IdsRetired`, `GrantsSurvive` | the store's theorems, for the whole server |
| `TokensSound` | `Spec => []TokensNameTheirUser` |
| `UpgradeTypeCorrect`, `UpgradeKeepsHistory`, `OpenStoreIsCurrent` | `Spec => []TypeOK`, `[]HistoryKept`, `[]OpenIsCurrent` (of `Upgrade`) |
| `UpgradeForgetsOnlyTheGone` | `Spec => ForgetsOnlyTheGone` |
| `AuditTruthful`, `WritesAccounted` | `Spec => []AuditIsTruthful`, `[]WritesAccountedFor` (of `HttpApi`) |
| `TrailImplemented` | `Spec => TrailSpec`: the audit log implements `AuditTrail` |
| `RunsGranted`, `RefusesReaders` | `SpecW => []RunsOnlyWhenGranted`, `[]RefusesOnlyReaders` (of `HttpApiWindow`) |
| `ClientTypeOK`, `SessionsEndKnowingly`, `QueryPageOpensOnPurpose`, `EditsStay` | `Spec => []TypeOK`, `LiveSessionsEndKnowingly`, `PagesOpenOnPurpose`, `EditsStayInForm` (of `Client`) |
| `OutcomeIsLastRuns`, `SchemaFollowsCatalog`, `CellsOfResult` | `Spec => []ResultIsLastRuns`, `[]SchemaIsOfCatalog`, `DownloadsMatchResult` |
| `MatrixShowsStored`, `ListShowsStored` | `Spec => []MatrixCurrent`, `[]ConnectionsCurrent` |
| `TypeCorrect` | `Spec => []TypeOK` (of `ReadQuery`) |
| `OriginsFound`, `AsAsked`, `RowsAreKept`, `DownloadsAreServed` | `Spec => []OriginsFindTheirRow`, `[]ShownAsAsked`, `[]RowsKept`, `[]DownloadsServed` |
| `StatementsStillRun` | `Spec => [](SpelledAsRead => StillRuns)` |
| `SplicesReadRight` | `Spec => []SpliceReadsAsInjected` |

They rest on `StoreAssumption`, `HttpApiAssumption`, `UpgradeAssumption` and
`ClientAssumption`: bounds are natural numbers, the named constants lie in their sets, 0
is no id, the empty string is no token, name or catalog, and the token in storage is not
one that the server is yet to issue. The sets of goroutines, names, targets, tabs and
scenes may be infinite. Those about reading rest on

- `UpperAssumption`: words are strings, upper case of upper case is the same, and is never
  the `pk` of hidden names, which are in lower case (`joinorigin_oracle.go:322`);
- `CatalogAssumption`: no table has two columns of one name, a key is of the table's
  columns, and no column or table is called `__pk_...`;
- `AlteredAssumption`: altering tables leaves the tables and their keys;
- `ReadsAssumption`: statements are of the two levels of `SqlSelect` and use no name
  `__pk_...`; a star has no alias, a natural join has something to join, and only
  PostgreSQL has statements with an empty select list (`HasLists`).

Catalogs and sets of statements may be infinite, statements and names of any length.

**Store.** `StoreTypeOK` is inductive: one lemma for each statement. It says more
than types: ids in a table are within what its counter has passed, which makes
`StoreIdsRetired` a consequence (`StepIdentities`: one statement adds at most the
counter's next id). `ReferentialIntegrity` is inductive beside it: statements that
only add rows keep it for free (`GrowingKeepsReferences`), and a deletion keeps it
since it takes the grants along and rewrites every entry.

**Server.** `TypeOK` is not inductive: a request may hold a connection id that no
connection can have, or a write without a number. `ServerInv` adds
`RequestsWellFormed`, what a handler knows of its request at each of its statements.
With it, every step of the server is shown to be one statement of the store or none
(`NextStatement`), which is `ServerUsesStore`, and every theorem about `StoreSpec` is
one about the server. `TokensNameTheirUser` needs more: between `LoginLookup` and
`LoginIssue` the claims exist in a request only, and the row may be gone by the time
the token is issued. `ClaimsGenuine` says of all claims, in tokens and in requests,
that the counter has passed their id and that the row, if it is there, is theirs; a
statement keeps this since a new row's id is one the counter has not passed.

**The audit log.** `AuditInv` follows every write. While it is served (`Tracked`), its
request is of the attempt that was submitted under its number, has no entry yet, and has
run only if its entry is the next statement, with an outcome that fits; no two requests
serve one write (`ServedOnce`), which holds since a number is given out once
(`Submits`). From this an entry is true when it is appended, and stays so: entries change
only by `ON DELETE SET NULL` (`LogForgets`), and what has run does not unrun. The same
facts give `WritesAccountedFor`: a write leaves `InFlight` by its entry, by the foreign
key that refuses it, whose row is then gone for good (ids are not reused), or by a
crash. `TrailImplemented` maps each of the three ways the log can change (`LogSteps`) to
a step of `AuditTrail`; that an attempt is not appended twice is `Tracked` again.

**The window.** `WindowInv` relates what a request has passed to `held`: past the check,
`held` contains the level that let it through, or, for a refused write, `"read"`. `held`
only grows while a request is served, so nothing that is granted or revoked later
matters.

**Client.** `TypeOK` needs `Typing`: the fields of every view and request, and of the
requests of one kind that a page has out, at most one is its `latest`; and `ServerTyped`, the
same of the server's variables and of the requests in `late`. Steps are not
looked at one by one for every property. Each is first shown to be a step of one tab
(`StepOf`), which leaves the other tabs alone (`Untouched`), and of one page, which leaves
the others as they are (`Remains`) or opens one (`Remounts`); what a page sends is new
(`SentNow`), and all other requests were there before, perhaps to a page that is gone by
now (`Weakened`). An invariant about one page is then kept by everything that is not that
page's (`OtherStepsKeep`), and only its own actions and answers remain.

- `TokensInv`, for `SessionsEndKnowingly`: a token that the server is yet to issue is
  nowhere, so a refused one stays refused.
- `QueryInv`: of the query page, what its requests that are out are for (`RunsRight`,
  `SchemaRight`, `DatabaseRight`). A run that is out is the last one; the schema last
  asked for, out or answered, is the selected catalog's; the run that is out and the
  result are of one database.
- `MatrixRight` and `ListRight`: with no change out or in doubt, the list that was asked
  for last is right from the moment it is answered, and remains so. For the list of
  connections a save counts as out (`MadeOut`) only once its row is stored and as long as that
  row is there (`Present`): before that it has changed nothing, and when the row has gone before
  it is read back the save fails and leaves no doubt. They need
  `ReachRight`: a change that is out, or that is made late, is of a tab that comes to its page,
  so that with no other such tab it is this one's. A change that is answered makes the page ask again
  (`Relists`), and no list that was asked for before is `latest` after that.

The invariants `AuditInv`, `WindowInv`, `QueryInv`, `MatrixRight` and `ListRight` were
checked by TLC on the instances before they were proved.

**Reading.** `Inv` is short: the plan is `PrepareRead` of the statement, the result is
that of running that plan over one of the two catalogs, the answer that of asking for one
of its cells. All the rest is about operators, for every catalog and statement. It is in
two modules: `JoinOrigins_proofs` has what concerns statements and texts,
`ReadQuery_proofs` the plan and what comes of it.

- *Sequences.* Nearly everything in these modules is a concatenation of pieces, one for
  each item, entry or key. `FlattenAppend`, `FlattenElements` and their like say where
  an element of the whole is in its piece, and the other way round. They are proved by
  `NumbersInduction` and `SequencesInduction`, which speak of the *set* of numbers or
  sequences that a fact holds for, and so need no parameter.
- *A statement grows.* The four dialects' statements are the user's with hidden items
  behind the lists (`GrownQuery`); `AsRead` and the statement differ by spelling only
  (`Spells`). In a grown scope every entry exposes what it did, and then hidden columns
  (`Grown`). Hidden names begin with `__pk_` and users' do not, so an item of the user's
  denotes the column it did, and what a star names is excluded by what each pass refuses.
  Hence the columns asked for come back in their places (`OutputGrown`), which is
  `AsAsked`, and no pass grows a list that decides about rows, which is `RowsAreKept`.
- *Origins.* `Traces` follows an item to the table its column is of, in `FROM` or through
  the list of a derived table; the four resolutions of derived columns give the column
  that the target returns, or none. A needed key has, for each of its columns, an item in
  the derived table's list and one in the outer list, at a place counted from the pieces
  before it; `Ran` gathers what is known when the grown statement has run. The hidden cell
  at that place is then of the same entry, and so the same row, as the cell whose origin
  points there: `OriginsFound`. Origins of a star count over the catalog, and over the
  columns of the scope they are in step with the result if the star leads and the tables
  were not altered in between; those exceptions are the ones the property makes. From the
  same facts, the value fetched is the cell's: `DownloadsAreServed`.
- *Still running.* Each hidden item denotes one column: an inner one, because its table's
  alias is its own and a key is of the table's columns; an outer one, because the names in
  a derived table stay different (`StillOwnNames`) unless two carriers get one name. Then
  what ran still runs (`SentRuns`). `SpelledAsRead` is needed, and not only for the
  proof: hidden items name aliases and columns as the user wrote them, in quotes, and
  where Oracle reads something else it does not find them. The run `oracle_case` shows it.
- *The spliced text.* The text of a statement is cut, at each entry of `FROM` that is
  to grow, into what stands before the end of its list, and what stands behind. Places
  ascend with the entries, so there is one enumeration of the pieces in which they ascend
  (`InOrder` is a `CHOOSE`, and this is what makes it a definite value), and by induction
  over the entries `Splice` puts each piece in its cut. A list with items behind it reads
  as the longer list, with the user's items in upper case and the quoted ones as they are
  (`GrownListReads`), so that the text reads as `Inject`'s statement. A list must not be
  empty for that, or the first comma would be one too many: hence `HasLists`.

**Upgrade.** The inductive invariant `IInv` is `TypeOK`, `HistoryKept` and `Progress`,
which says for each statement of `Open` what is already true of the file and, inside
the transaction, that what the connection sees is the first, second, third or fourth
change applied to what is on disk, and of a file with `SET NULL` that what dangles in it is
in `lost`. `RebuiltSound` computes the whole
transaction: the same file with `ResolvedLog` in place of the log, in which nothing dangles;
`ForgettingLogSound` does the same for a deletion, which leaves nothing new that dangles. The action property
follows from the three ways a step can change the entries on disk (`LogSteps`).

### Only model-checked

`EventuallyOpen`, `ExpiredSessionsEnd`, `PageLoads` and `RunsEnd` are liveness under
fairness, which the installed provers do not reach. Every invariant and every action
property of a passing run is a theorem; of these, only `StillRuns` has a condition that
the property does not have (`SpelledAsRead`), which the instance of `read_query`
satisfies.

## 5. What is not modelled

- *The users' page and the audit log's*, with their requests: a form that is emptied when it is answered and
  a list that is loaded again, as on the connections' page without its edits, and a
  filter over lists loaded once. *The editor* of the query page: completion, formatting, the
  statement at the cursor. Going from one connection's query page to another's by the
  browser's history, which does not remount the page.
- *Configuration, static files, desktop shell*: sequential I/O with no state that
  anything else depends on.
- *Catalog queries* of four vendors, quoting, DSNs: text for systems outside the
  repository. That a key changes while a statement runs, or rows between the result and
  a download: the comparison at the download is there for that, and refuses.
- *The limit of 1000 rows, formatting, file types of downloads.*
- *That the store's single connection is not waited for by its own holder*: read in
  the code, where every function drains or closes its rows before the next statement.

- *Wildcards qualified by a schema*: PostgreSQL's pass takes `schema.table.*`, of three
  fields, for a bare `*` (`joinorigin_postgres.go:81-99`), expands it over all of `FROM` and counts
  every position behind it too far. In the model wildcards are qualified by aliases.

Two things seen in the code and stated by no run. A `UNION` "fails to parse", says
`rewrite.go:20-24` of the statements that `SELECT *` rewriting takes; one behind a `WHERE` does
not, and its first branch alone is rewritten, as on MSSQL any union's is at the top of a
statement. `UnionMissed` is that case, which the properties of reading except. And a table with an unbounded column but no
primary key loses the cut at the target (ADR 0008), since `prepareRead` drops what
`prepareSelectStar` has rewritten if no table with a key comes with it
(`executor.go:169-172`). `ReadQuery` does the same; the values come whole, and
`TruncateCell` cuts them.

## 6. The plan

Done, in this order: `Store`, `HttpApi` (with `AuditTrail` and `HttpApiWindow`), their
proofs; `SqlSelect`, `JoinOrigins`, `ReadQuery`; `Upgrade` and its proofs; the client
(`ClientSession`, `QueryPage`, `PermissionsPage`, `ConnectionsAdminPage`, `Client`); the
rest of reading (schemas, `WITH`, names of several words, outer joins, `OracleSplice`,
altered tables).

Then the proofs about the audit log, the window in which a permission was held, and the
client's session and pages.

Then those about reading (`JoinOrigins_proofs`, `ReadQuery_proofs`), for which derived
tables came to be two levels of statements in place of a recursive definition.

What is left to prove is liveness, with other provers than these.

To model, if there is more to say about them: the users' page, and the handlers that only
list rows.
