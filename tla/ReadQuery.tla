----------------------------- MODULE ReadQuery -----------------------------
(***************************************************************************)
(* The life of one read: the server prepares the statement, the target     *)
(* runs what came of it, the user sees the result and downloads a cell of  *)
(* it, for which the server fetches the value once more (query/executor.go,*)
(* rewrite.go, httpapi's handleFetchCell, QueryPage's downloadCell).       *)
(*                                                                         *)
(* The text of a cell is the row and column it comes from and how much of  *)
(* the value it shows: all of it, a part with the marker of TruncateCell,  *)
(* a part with nothing to tell that it is one, or all of it spelled as     *)
(* cellText does not.  Texts of different cells may happen to be equal.    *)
(***************************************************************************)
EXTENDS OracleSplice

CONSTANTS
  Kinds,       \* the kinds of target, a subset of Dialects
  Reads(_),    \* the statements users send to a target of a kind
  LobColumns,  \* columns of an unbounded type
  BigColumns,  \* columns whose values are over the truncation limit
  SpelledApart,\* columns whose values the client spells in another way than
               \* cellText: times, integers over 2^53, bytes that are no UTF-8
  Altered      \* what the catalog becomes if tables are altered, keys kept

ASSUME AlteredAssumption ==
  /\ IsCatalog(Altered) /\ DOMAIN Altered = DOMAIN Catalog
  /\ \A t \in DOMAIN Catalog : Altered[t].key = Catalog[t].key

\* Only PostgreSQL has statements without a select list.
ASSUME ReadsAssumption ==
  /\ Kinds \subseteq Dialects
  /\ \A k \in Kinds : \A s \in Reads(k) :
       /\ s \in StatementsOver(UsersNames \cap Seq(Words)) /\ WellFormed(s)
       /\ k # "postgres" => HasLists(s)

VARIABLES
  kind,     \* the kind of the target
  stmt,     \* the user's statement
  plan,     \* readPlan
  result,   \* what the client got
  answer    \* what came of the download of a cell

vars == <<kind, stmt, plan, result, answer>>

\* The target's tables when the statement runs.
Target(altered) == IF altered THEN Altered ELSE Catalog

----------------------------------------------------------------------------
(* The statement as the target reads it when nothing rewrites it. *)

AsRead(k, s) == IF k = "oracle" THEN FoldedQuery(s) ELSE s

----------------------------------------------------------------------------
(* prepareRead *)

\* parseSelectStarSingleTable and bareTableName.  What follows WHERE or ORDER BY
\* is not looked at, be it a GROUP BY or a UNION.
IsSelectStar(s) ==
  /\ s.shape = "plain" \/ (s.where /\ s.shape \in {"grouped", "union"})
  /\ Len(s.from) = 1 /\ ~IsDerived(s.from[1])
  /\ s.items = <<Star(Nameless)>>

HasLob(table) == \E c \in ToSet(ColumnsOf(table)) : c \in LobColumns

\* Every column by its name; unbounded ones are cut by the target.
RewrittenSelect(k, s, table) ==
  [AsRead(k, s) EXCEPT !.items =
     [i \in DOMAIN ColumnsOf(table) |->
        Column(Nameless, ColumnsOf(table)[i], Nameless)]]

NoPlan == [path |-> "none", rewritten |-> << >>, table |-> Nameless,
           key |-> << >>, origins |-> << >>, cuts |-> FALSE]

\* The single-table path, for a table with a key; without one the rewritten
\* statement is dropped as well.
PrepareSelectStar(k, s) ==
  LET table == s.from[1].name
      key == PrimaryKeyColumns(table)
  IN  IF ~IsSelectStar(s) \/ key = << >> THEN NoPlan
      ELSE [path |-> "single", table |-> table, key |-> key,
            rewritten |-> IF HasLob(table) THEN RewrittenSelect(k, s, table)
                          ELSE AsRead(k, s),
            origins |-> << >>, cuts |-> HasLob(table)]

PrepareRead(k, s) ==
  LET single == PrepareSelectStar(k, s)
      join == PrepareJoinOrigins(k, s)
  IN  IF single # NoPlan THEN single
      ELSE IF join.ok
      THEN [NoPlan EXCEPT !.path = "join", !.rewritten = join.rewritten,
                          !.origins = join.origins]
      ELSE [NoPlan EXCEPT !.path = "plain", !.rewritten = AsRead(k, s)]

----------------------------------------------------------------------------
(* executeRead *)

\* Every column has the table's key, found by name among the result's.
UniformOrigins(columns, table, key) ==
  LET names == [i \in DOMAIN columns |-> columns[i].name]
  IN  [i \in DOMAIN columns |->
         Origin(table, key, [j \in DOMAIN key |-> Position(names, key[j])], << >>)]

TruncateCell(size) == IF size = "big" THEN "marked" ELSE "whole"

SizeOf(from) == IF from.column \in BigColumns THEN "big" ELSE "small"

\* What the user sees of a value, cut by the target or not, and then truncated:
\* what was cut is within the limit and gets no marker, or one with the size of
\* the part if it is of wide characters; never the text of the whole value.
Shown(p, from) ==
  CASE /\ p.cuts /\ from.column \in LobColumns
       /\ SizeOf(from) = "big" -> "cut"
    [] from.column \in SpelledApart -> "spelled"
    [] OTHER -> TruncateCell(SizeOf(from))

NoResult == [done |-> FALSE, failed |-> FALSE, visible |-> 0, cells |-> << >>,
             origins |-> << >>, missing |-> {}, altered |-> FALSE]

\* Mutants: the hidden columns are shown; no fallback when columns are missing.
ReadResultUncut(p, missing, altered) ==
  LET columns == Output(Target(altered), p.rewritten)
      origins == IF p.path = "single"
                 THEN UniformOrigins(columns, p.table, p.key) ELSE p.origins
  IN  [done |-> TRUE, failed |-> FALSE, visible |-> Len(columns),
       cells |-> columns, missing |-> missing, altered |-> altered,
       origins |-> [i \in DOMAIN columns |->
                      IF i \in DOMAIN origins THEN origins[i] ELSE NoOrigin]]

ReadResultUnguarded(p, missing, altered) ==
  LET columns == Output(Target(altered), p.rewritten)
      origins == IF p.path = "single"
                 THEN UniformOrigins(columns, p.table, p.key) ELSE p.origins
  IN  [done |-> TRUE, failed |-> FALSE, cells |-> columns, origins |-> origins,
       missing |-> missing, altered |-> altered,
       visible |-> IF p.path = "join" THEN Len(p.origins) ELSE Len(columns)]

\* cells are the columns of a row, visible of them shown.  missing are the
\* aliases in FROM that an outer join found no row for: NULL in their cells.
\* altered says whether tables were, since the statement was prepared.
ReadResult(p, missing, altered) ==
  LET columns == Output(Target(altered), p.rewritten)
      overcounts == p.path = "join" /\ Len(p.origins) > Len(columns)
      origins == CASE p.path = "single" ->
                        UniformOrigins(columns, p.table, p.key)
                   [] p.path = "join" /\ ~overcounts -> p.origins
                   [] OTHER -> [i \in DOMAIN columns |-> NoOrigin]
      visible == IF p.path = "join" /\ ~overcounts THEN Len(p.origins)
                 ELSE Len(columns)
  IN  [done |-> TRUE, failed |-> FALSE, visible |-> visible,
       cells |-> columns, origins |-> origins, missing |-> missing,
       altered |-> altered]

----------------------------------------------------------------------------
(* The download of a cell *)

NoAnswer == [done |-> FALSE, cell |-> 0, of |-> Computed, served |-> FALSE]

\* The row a fetch by key comes upon: the place in the statement whose key
\* the cells at these positions are, if they are one row's key.
FetchesRowOf(origin, cells, place) ==
  \A j \in DOMAIN origin.key :
    /\ origin.at[j] \in DOMAIN cells
    /\ cells[origin.at[j]].from = [path |-> place,
                                   table |-> <<Home, origin.table>>,
                                   column |-> origin.key[j]]

\* The cell that a request for column c by origin fetches; Computed when it
\* is one the model does not know, a row some other value happens to name.
FetchedCell(origin, cells, c) ==
  LET places == {p \in {cells[i].from.path : i \in DOMAIN cells} :
                   FetchesRowOf(origin, cells, p)}
  IN  IF places = {} THEN Computed
      ELSE [path |-> CHOOSE p \in places : TRUE,
            table |-> <<Home, origin.table>>, column |-> c]

\* The cell is NULL, and its row does not exist.
IsMissing(cell, missing) ==
  cell.from.path # << >> /\ cell.from.path[1] \in missing

\* Nothing is equal to a NULL in the key.
FetchesNothing(origin) ==
  \E i \in ToSet(origin.at) \cap DOMAIN result.cells :
    IsMissing(result.cells[i], result.missing)

\* The catalog is asked again.
HasColumn(table, c) ==
  c \in ToSet(Target(result.altered)[<<Home, table>>].columns)

----------------------------------------------------------------------------
(* Steps *)

\* The rows a LEFT JOIN may do without.
MissingRows(query) ==
  IF query.outer THEN {{}, {query.from[Len(query.from)].alias}} ELSE {{}}

Init ==
  /\ kind \in Kinds
  /\ stmt \in Reads(kind)
  /\ plan = NoPlan
  /\ result = NoResult
  /\ answer = NoAnswer

Plan ==
  /\ plan = NoPlan
  /\ plan' = PrepareRead(kind, stmt)
  /\ UNCHANGED <<kind, stmt, result, answer>>

Execute ==
  /\ plan # NoPlan /\ ~result.done
  /\ \E altered \in BOOLEAN :
       IF Runs(Target(altered), plan.rewritten)
       THEN \E missing \in MissingRows(plan.rewritten) :
              result' = ReadResult(plan, missing, altered)
       ELSE result' = [NoResult EXCEPT !.done = TRUE, !.failed = TRUE,
                                       !.altered = altered]
  /\ UNCHANGED <<kind, stmt, plan, answer>>

\* The button of a cell with an origin.  The client names the column as the
\* result does; the server fetches it by the key, and serves it if it looks
\* like what the user saw: always when it is the same cell in the same form,
\* by accident when it is another.
Download(i) ==
  /\ result.done /\ ~answer.done
  /\ i \in 1..result.visible
  /\ result.origins[i] # NoOrigin
  /\ LET origin == result.origins[i]
         column == result.cells[i].name
         fetched == FetchedCell(origin, result.cells, column)
         same == fetched = result.cells[i].from
         served == IF ~HasColumn(origin.table, column) \/ FetchesNothing(origin)
                   THEN {FALSE}
                   ELSE IF same
                   THEN {TruncateCell(SizeOf(fetched))
                           = Shown(plan, result.cells[i].from)}
                   ELSE BOOLEAN
     IN  \E s \in served :
           answer' = [done |-> TRUE, cell |-> i, of |-> fetched, served |-> s]
  /\ UNCHANGED <<kind, stmt, plan, result>>

Next ==
  \/ Plan
  \/ Execute
  \/ \E i \in 1..Len(result.cells) : Download(i)

Spec == Init /\ [][Next]_vars

----------------------------------------------------------------------------
(* What the properties except *)

\* At most the first item is a wildcard.
WildcardLeads(query) ==
  \A i \in DOMAIN query.items : query.items[i].kind = "star" => i = 1

\* A natural join's columns counted before those of other items.
WildcardMerges(query) ==
  /\ query.natural /\ Len(query.items) > 1
  /\ Star(Nameless) \in ToSet(query.items)

\* A union that is taken for its first branch.
UnionMissed(k, query) ==
  query.shape = "union" /\ (k = "mssql" \/ IsSelectStar(query))

\* A table that is looked up under the name of another one: it is of another
\* schema, given by WITH, or one whose name Oracle reads in upper case, and its
\* namesake is in the home schema.
IsNamesake(ref, read) ==
  /\ <<Home, ref.name>> \in DOMAIN Catalog
  /\ <<read.schema, read.name>> # <<Home, ref.name>>

HasNamesake(k, query) ==
  LET read == AsRead(k, query)
  IN  \E i \in DOMAIN query.from :
        IF IsDerived(query.from[i])
        THEN \E j \in DOMAIN query.from[i].query.from :
               IsNamesake(query.from[i].query.from[j], read.from[i].query.from[j])
        ELSE IsNamesake(query.from[i], read.from[i])

\* Two keys of one derived table whose carriers get one name, because an alias
\* or a column contains "_".
CarriersCollide(k, query) ==
  \E n, m \in ToSet(Needed(VisibleOrigins(k, query))) :
    /\ Len(n.via) = 2 /\ Len(m.via) = 2
    /\ n.via[1] = m.via[1] /\ n.via # m.via
    /\ \E c \in ToSet(n.key), d \in ToSet(m.key) :
         HiddenName(n.via, c) = HiddenName(m.via, d)

\* A wildcard counted before its table was altered: what is behind it is shifted,
\* a position or the end of what is shown.
WildcardShifted ==
  /\ result.altered /\ plan.path = "join"
  /\ \E item \in ToSet(stmt.items) : item.kind = "star"

\* A list written out of the columns a table had.
ListOutdated == result.altered /\ plan.cuts

Answered == result.done /\ ~result.failed

----------------------------------------------------------------------------
(* Properties *)

\* The shape of the variables.
TypeOK ==
  /\ kind \in Kinds
  /\ plan.path \in {"none", "single", "join", "plain"}
  /\ result.visible \in 0..Len(result.cells)
  /\ result.done => Len(result.origins) \in {0, result.visible}
  /\ result.missing \subseteq Aliases(AsRead(kind, stmt).from)
  /\ answer.done => answer.cell \in 1..result.visible

\* ColumnOrigin: the table and the key of a shown cell's origin are those of
\* the very row the cell comes from, be it a column of a wildcard, a joined
\* or a derived table, one of two places of one table, or one with a key of
\* several columns.  Two kinds of wildcard are excepted: one that does not come
\* first, and one over merged columns with items behind it; and so are unions
\* that are taken for their first branch, tables for their namesakes, and
\* wildcards over a table that was altered since they were counted.
OriginsFindTheirRow ==
  (/\ Answered
   /\ ~WildcardMerges(stmt) /\ WildcardLeads(stmt) /\ ~UnionMissed(kind, stmt)
   /\ ~HasNamesake(kind, stmt) /\ ~WildcardShifted) =>
    \A i \in 1..result.visible :
      result.origins[i] # NoOrigin =>
        /\ result.cells[i].from.table = <<Home, result.origins[i].table>>
        /\ FetchesRowOf(result.origins[i], result.cells,
                        result.cells[i].from.path)

\* The user sees the columns asked for, all of them, first, in their order and
\* under their names, and nothing else, no hidden column, whatever was rewritten.
\* Wildcards over merged columns with other items beside them are excepted from
\* the latter, and tables that are counted or listed with the columns of their
\* namesakes, or with those they had before they were altered, from both.
ShownAsAsked ==
  (Answered /\ ~HasNamesake(kind, stmt) /\ ~WildcardShifted /\ ~ListOutdated) =>
    LET asked == Output(Target(result.altered), AsRead(kind, stmt))
    IN  /\ Len(asked) <= result.visible
        /\ SubSeq(result.cells, 1, Len(asked)) = asked
        /\ ~WildcardMerges(stmt) => Len(asked) = result.visible

\* A statement that runs as the user wrote it is not broken by what is done
\* for downloads: no name is duplicated, ambiguous or unknown in it.  Again
\* without the unions that are missed, the names that are mistaken for one
\* another, and the lists that are outdated.
StillRuns ==
  (/\ result.done
   /\ Runs(Target(result.altered), AsRead(kind, stmt)) /\ ~ListOutdated
   /\ ~UnionMissed(kind, stmt) /\ ~HasNamesake(kind, stmt)
   /\ ~(plan.path = "join" /\ CarriersCollide(kind, stmt))) => ~result.failed

\* Where DISTINCT, GROUP BY or UNION decide which rows there are, at the top
\* or in a derived table, no column is added to the list.  Tables that get the
\* columns of their namesakes are excepted, and entries of FROM that share an
\* alias, which no target accepts.
RowsKept ==
  (plan # NoPlan /\ ~UnionMissed(kind, stmt)) =>
    LET asked == AsRead(kind, stmt)
    IN  /\ stmt.shape \in {"distinct", "union"} => plan.rewritten = asked
        /\ (stmt.shape = "grouped" /\ ~HasNamesake(kind, stmt)) =>
             Output(Catalog, plan.rewritten) = Output(Catalog, asked)
        /\ OwnAliases(asked.from) =>
             \A i \in DOMAIN asked.from :
               (IsDerived(asked.from[i]) /\ asked.from[i].query.shape # "plain")
                 => plan.rewritten.from[i] = asked.from[i]

\* A download that is offered succeeds as long as the data stay as they are,
\* for every column but renamed ones (the client asks for a column by the name
\* it has in the result), values the target itself cut short or that are spelled
\* in two ways, the NULLs an outer join shows for a row that does not exist, and
\* what OriginsFindTheirRow excepts.
DownloadsServed ==
  (/\ answer.done
   /\ ~WildcardMerges(stmt) /\ WildcardLeads(stmt) /\ ~UnionMissed(kind, stmt)
   /\ ~HasNamesake(kind, stmt) /\ ~WildcardShifted
   /\ ~IsMissing(result.cells[answer.cell], result.missing)
   /\ result.cells[answer.cell].name = result.cells[answer.cell].from.column
   /\ Shown(plan, result.cells[answer.cell].from) \notin {"cut", "spelled"})
    => answer.served

\* On Oracle the text that is sent, spliced together, reads as the statement with
\* the hidden columns in their lists: the outer list and those of one or several
\* derived tables, in whatever order their keys are needed.
SpliceReadsAsInjected ==
  (kind = "oracle" /\ plan.path = "join") =>
    OracleReads(Spliced(stmt)) = Text(plan.rewritten)

\* The wildcard blocks' "PrimaryKeyRowIndexes was already filled in correctly
\* by expandWildcardOrigins, pointing at the PK's own position inside that
\* same block": they find the row wherever the block is.  A wildcard behind
\* another item refutes it: its positions count from the block's beginning,
\* and the row's from its own.
WildcardOriginsFindTheirRow ==
  (Answered /\ ~stmt.natural /\ ~HasNamesake(kind, stmt)) =>
    \A i \in 1..result.visible :
      result.origins[i] # NoOrigin =>
        FetchesRowOf(result.origins[i], result.cells,
                     result.cells[i].from.path)

\* ADR 0009 offers the download of the original value "for all cells alike,
\* truncated or not" of a SELECT * on a table with a key.  A value that the
\* target cut refutes it: it is shown without the marker that the value
\* fetched for comparison gets.
TruncatedCellsServed ==
  (/\ answer.done /\ plan.path = "single"
   /\ stmt.shape = "plain" /\ ~HasNamesake(kind, stmt)
   /\ SizeOf(result.cells[answer.cell].from) = "big") => answer.served

=============================================================================
