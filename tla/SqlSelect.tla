----------------------------- MODULE SqlSelect -----------------------------
(***************************************************************************)
(* The SELECT statements users run, and what a target database answers: a  *)
(* reference semantics for the rewriting of statements in JoinOrigins.  A  *)
(* result column is its name and its provenance, the table, the column and *)
(* the place in FROM of the row that every value in it comes from; values  *)
(* do not matter.                                                          *)
(*                                                                         *)
(* An identifier is the sequence of the words that "_" joins in it.        *)
(***************************************************************************)
EXTENDS Naturals, Sequences, SequencesExt, FiniteSets

CONSTANTS
  Catalog,  \* <<schema, table>> |-> [columns, key]: names in schema order,
            \* and the columns of its primary key, none if it has no key; a
            \* name that WITH gives to a query is a table of schema "with"
  Home,     \* the schema a connection opens on
  Upper     \* word |-> its spelling in upper case

Nameless == << >>    \* no alias, no qualifier

\* Select items.
Star(of) == [kind |-> "star", of |-> of, name |-> Nameless, as |-> Nameless]
Column(of, name, as) == [kind |-> "column", of |-> of, name |-> name, as |-> as]
Expression(as) ==
  [kind |-> "expression", of |-> Nameless, name |-> Nameless, as |-> as]

\* Entries of FROM.
Table(alias, schema, name) == [alias |-> alias, schema |-> schema, name |-> name]
Derived(alias, query) == [alias |-> alias, query |-> query]

IsDerived(ref) == "query" \in DOMAIN ref

\* shape is "plain", "distinct", "grouped" (GROUP BY, HAVING) or "union"; width
\* counts the columns of a union's other branches, which are not looked into.
\* Natural joins merge the columns of one name (NATURAL, USING); an outer one
\* (LEFT JOIN) may find no row in the last entry of FROM.  where says that WHERE
\* or ORDER BY follows FROM.
Select(from, items) ==
  [shape |-> "plain", width |-> 0, natural |-> FALSE, outer |-> FALSE,
   where |-> FALSE, from |-> from, items |-> items]

\* Two words are named, those of hidden names, to spare the proofs the fact that
\* they are strings as well.
Names == Seq(STRING \cup {"", "pk"})

Words == DOMAIN Upper

\* Names that begin with "__pk_" are those of hidden columns, and nobody else's.
IsHidden(name) == Len(name) > 2 /\ SubSeq(name, 1, 3) = <<"", "", "pk">>

UsersNames == {name \in Names : ~IsHidden(name)}

Shapes == {"plain", "distinct", "grouped", "union"}

\* Statements with names of this set.
ItemsOver(names) ==
  [kind : {"star", "column", "expression"}, of : names, name : names, as : names]

TablesOver(names) ==
  [alias : names \ {Nameless}, schema : STRING, name : names]

QueriesOver(refs, names) ==
  [shape : Shapes, width : Nat, natural : BOOLEAN, outer : BOOLEAN,
   where : BOOLEAN, from : Seq(refs), items : Seq(ItemsOver(names))]

DerivedOver(names) ==
  [alias : names \ {Nameless}, query : QueriesOver(TablesOver(names), names)]

StatementsOver(names) ==
  QueriesOver(TablesOver(names) \cup DerivedOver(names), names)

\* A star has no name, and a join joins.
WellFormed(query) ==
  /\ \A i \in DOMAIN query.items :
       query.items[i].kind = "star" => query.items[i] = Star(query.items[i].of)
  /\ query.natural => Len(query.from) > 1
  /\ query.outer => query.from # << >>

\* No select list is empty, the statement's or a derived table's.
HasLists(query) ==
  /\ query.items # << >>
  /\ \A i \in DOMAIN query.from :
       IsDerived(query.from[i]) => query.from[i].query.items # << >>

\* No table has two columns of one name, nor a key that is not of its columns.
IsCatalog(catalog) ==
  /\ DOMAIN catalog \subseteq STRING \X UsersNames
  /\ \A t \in DOMAIN catalog :
       /\ catalog[t] \in [columns : Seq(UsersNames), key : Seq(UsersNames)]
       /\ IsInjective(catalog[t].columns) /\ IsInjective(catalog[t].key)
       /\ ToSet(catalog[t].key) \subseteq ToSet(catalog[t].columns)

ASSUME UpperAssumption ==
  /\ Words \subseteq STRING
  /\ Upper \in [Words -> Words \ {"pk"}]
  /\ \A w \in Words : Upper[Upper[w]] = Upper[w]

ASSUME CatalogAssumption == IsCatalog(Catalog) /\ Home \in STRING

Indices(seq, Test(_)) == {i \in DOMAIN seq : Test(seq[i])}

First(indices) == CHOOSE i \in indices : \A j \in indices : i <= j

----------------------------------------------------------------------------
(* What a target returns whose tables are those of catalog: Catalog, or another. *)

Computed == [path |-> << >>, table |-> << >>, column |-> Nameless]

StoredColumns(catalog, ref) ==
  LET columns == catalog[<<ref.schema, ref.name>>].columns
  IN  [i \in DOMAIN columns |->
         [name |-> columns[i],
          from |-> [path |-> <<ref.alias>>, table |-> <<ref.schema, ref.name>>,
                    column |-> columns[i]]]]

Within(alias, column) ==
  IF column.from = Computed THEN column
  ELSE [column EXCEPT !.from.path = <<alias>> \o @]

AllColumns(scope) == FlattenSeq([i \in DOMAIN scope |-> scope[i].columns])

\* The columns an item names, as places in the FROM list's columns.
Named(scope, item) ==
  UNION {{<<i, j>> : j \in Indices(scope[i].columns,
                                  LAMBDA column : column.name = item.name)} :
           i \in Indices(scope, LAMBDA entry :
                                item.of \in {Nameless, entry.alias})}

\* The names a natural join merges.
Merged(natural, scope) ==
  IF ~natural THEN {}
  ELSE {c.name : c \in {d \in ToSet(AllColumns(scope)) :
          \A i \in DOMAIN scope : \E j \in DOMAIN scope[i].columns :
             scope[i].columns[j].name = d.name}}

\* The columns whose names are among these.
NamedIn(columns, names) ==
  FlattenSeq([i \in DOMAIN columns |->
    IF columns[i].name \in names THEN <<columns[i]>> ELSE << >>])

\* A bare star: merged columns once and first, then the rest in order.
StarColumns(natural, scope) ==
  LET merged == Merged(natural, scope)
      all == AllColumns(scope)
  IN  NamedIn(scope[1].columns, merged)
        \o NamedIn(all, {c.name : c \in ToSet(all)} \ merged)

\* The columns of the entries of one alias.
EntryColumns(scope, alias) ==
  FlattenSeq([i \in DOMAIN scope |->
    IF scope[i].alias = alias THEN scope[i].columns ELSE << >>])

ItemColumns(natural, scope, item) ==
  CASE item.kind = "expression" -> <<[name |-> item.as, from |-> Computed]>>
    [] item.kind = "star" /\ item.of = Nameless -> StarColumns(natural, scope)
    [] item.kind = "star" /\ item.of # Nameless ->
         EntryColumns(scope, item.of)
    [] item.kind = "column" ->
         LET place == CHOOSE p \in Named(scope, item) :
                        \A q \in Named(scope, item) : p[1] <= q[1]
             column == scope[place[1]].columns[place[2]]
         IN  <<[column EXCEPT !.name = IF item.as = Nameless THEN @
                                       ELSE item.as]>>

\* What a statement returns whose FROM exposes scope.  A row of a union may be
\* any branch's, under the names of the first.
Returned(scope, query) ==
  LET columns == FlattenSeq([i \in DOMAIN query.items |->
                   ItemColumns(query.natural, scope, query.items[i])])
  IN  IF query.shape = "union"
      THEN [i \in DOMAIN columns |-> [columns[i] EXCEPT !.from = Computed]]
      ELSE columns

\* FROM in a derived table, where there are only tables.
InnerScope(catalog, query) ==
  [i \in DOMAIN query.from |->
     [alias |-> query.from[i].alias,
      columns |-> StoredColumns(catalog, query.from[i])]]

\* The columns each entry of FROM exposes.
Exposes(catalog, ref) ==
  IF IsDerived(ref)
  THEN LET inner == Returned(InnerScope(catalog, ref.query), ref.query)
       IN  [i \in DOMAIN inner |-> Within(ref.alias, inner[i])]
  ELSE StoredColumns(catalog, ref)

Scope(catalog, query) ==
  [i \in DOMAIN query.from |->
     [alias |-> query.from[i].alias,
      columns |-> Exposes(catalog, query.from[i])]]

Output(catalog, query) == Returned(Scope(catalog, query), query)

----------------------------------------------------------------------------
(* The target accepts the statement: names are found and unambiguous, a     *)
(* derived table does not expose a name twice, and a union's branches are   *)
(* of one width.                                                            *)

ItemRuns(natural, scope, item) ==
  CASE item.kind = "expression" -> TRUE
    [] item.kind = "star" ->
         \E i \in DOMAIN scope : item.of \in {Nameless, scope[i].alias}
    [] item.kind = "column" ->
         \/ Cardinality(Named(scope, item)) = 1
         \/ item.of = Nameless /\ item.name \in Merged(natural, scope)

OwnAliases(from) == IsInjective([i \in DOMAIN from |-> from[i].alias])

OwnNames(columns) == IsInjective([i \in DOMAIN columns |-> columns[i].name])

ListRuns(scope, query) ==
  /\ OwnAliases(query.from)
  /\ \A i \in DOMAIN query.items :
       ItemRuns(query.natural, scope, query.items[i])
  /\ query.shape = "union" => Len(Returned(scope, query)) = query.width

Exists(catalog, ref) == <<ref.schema, ref.name>> \in DOMAIN catalog

InnerRuns(catalog, query) ==
  /\ \A i \in DOMAIN query.from : Exists(catalog, query.from[i])
  /\ ListRuns(InnerScope(catalog, query), query)

Runs(catalog, query) ==
  /\ \A i \in DOMAIN query.from :
       LET ref == query.from[i]
       IN  IF IsDerived(ref)
           THEN InnerRuns(catalog, ref.query) /\ OwnNames(Exposes(catalog, ref))
           ELSE Exists(catalog, ref)
  /\ ListRuns(Scope(catalog, query), query)

----------------------------------------------------------------------------
(* Oracle reads an identifier that is not quoted in upper case. *)

Folded(name) == [i \in DOMAIN name |-> Upper[name[i]]]

FoldedTable(ref) == Table(Folded(ref.alias), ref.schema, Folded(ref.name))

FoldedItems(items) ==
  [i \in DOMAIN items |->
     [items[i] EXCEPT !.of = Folded(@), !.name = Folded(@), !.as = Folded(@)]]

FoldedInner(query) ==
  [query EXCEPT !.from = [i \in DOMAIN @ |-> FoldedTable(@[i])],
                !.items = FoldedItems(@)]

FoldedRef(ref) ==
  IF IsDerived(ref) THEN Derived(Folded(ref.alias), FoldedInner(ref.query))
  ELSE FoldedTable(ref)

FoldedQuery(query) ==
  [query EXCEPT !.from = [i \in DOMAIN @ |-> FoldedRef(@[i])],
                !.items = FoldedItems(@)]

=============================================================================
