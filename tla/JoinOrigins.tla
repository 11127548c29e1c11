---------------------------- MODULE JoinOrigins ----------------------------
(***************************************************************************)
(* Where the columns of a result come from (server/internal/query:         *)
(* joinorigin*.go, wildcard.go): one algorithm, written four times over    *)
(* the syntax trees of four parsers.  From the statement and the target's  *)
(* catalog alone it decides, for each column the user will see, the table  *)
(* it belongs to and the positions in the result row of that row's primary *)
(* key, and appends hidden columns to the statement that carry the keys    *)
(* which are not selected anyway.                                          *)
(*                                                                         *)
(* Positions count from 1 here and from 0 in the code.  A statement a      *)
(* parser does not understand is out of the model: it runs as it is.       *)
(***************************************************************************)
EXTENDS SqlSelect

\* PrimaryKeyRowIndexes is at; via is the hiddenKeys entry, the path of
\* aliases to the table, Nameless for a column of a wildcard's block.
NoOrigin == [table |-> Nameless, key |-> << >>, at |-> << >>, via |-> << >>]

Origin(table, key, at, via) ==
  [table |-> table, key |-> key, at |-> at, via |-> via]

----------------------------------------------------------------------------
(* The target's catalog, looked up by bare name in the home schema, be the  *)
(* name qualified with another schema or given by WITH.  Absent tables have *)
(* no columns and no key.                                                   *)

ColumnsOf(table) ==
  IF <<Home, table>> \in DOMAIN Catalog THEN Catalog[<<Home, table>>].columns
                                        ELSE << >>

PrimaryKeyColumns(table) ==
  IF <<Home, table>> \in DOMAIN Catalog THEN Catalog[<<Home, table>>].key
                                        ELSE << >>

----------------------------------------------------------------------------
(* FROM *)

\* A UNION in a derived table is not understood.
CollectsTables(from) ==
  /\ from # << >>
  /\ \A i \in DOMAIN from : IsDerived(from[i]) => from[i].query.shape # "union"

Aliases(from) == {from[i].alias : i \in DOMAIN from}

RefOf(from, alias) ==
  from[SelectLastInSeq(from, LAMBDA ref : ref.alias = alias)]

----------------------------------------------------------------------------
(* Wildcards *)

Position(columns, c) == SelectInSeq(columns, LAMBDA d : d = c)

\* One origin for each column of a table, base columns behind the beginning.
TableBlock(table, base) ==
  LET columns == ColumnsOf(table)
      key == PrimaryKeyColumns(table)
      origin == IF key = << >> \/ ~(ToSet(key) \subseteq ToSet(columns))
                THEN NoOrigin
                ELSE Origin(table, key,
                       [j \in DOMAIN key |-> base + Position(columns, key[j])],
                       << >>)
  IN  [i \in DOMAIN columns |-> origin]

\* Mutant: positions of a table's key are not moved by the tables before it.
ExpandWildcardUnmoved(tables) ==
  FlattenSeq([k \in DOMAIN tables |-> TableBlock(tables[k], 0)])

\* The columns of the tables one after the other.  The positions of the keys
\* count from the beginning of this block.
ExpandWildcardOrigins(tables) ==
  LET base(k) == Len(FlattenSeq([l \in 1..k - 1 |-> ColumnsOf(tables[l])]))
  IN  FlattenSeq([k \in DOMAIN tables |-> TableBlock(tables[k], base(k))])

\* The entries of FROM a wildcard stands for.
WildcardRefs(from, item) ==
  IF item.of # Nameless THEN <<RefOf(from, item.of)>>
  ELSE [i \in DOMAIN from |-> RefOf(from, from[i].alias)]

ExpandsWildcard(from, item) ==
  /\ item.of \in Aliases(from) \cup {Nameless}
  /\ \A ref \in ToSet(WildcardRefs(from, item)) :
       ~IsDerived(ref) /\ ColumnsOf(ref.name) # << >>

WildcardBlock(from, item) ==
  LET refs == WildcardRefs(from, item)
  IN  ExpandWildcardOrigins([i \in DOMAIN refs |-> refs[i].name])

----------------------------------------------------------------------------
(* Columns *)

\* The name an item of a derived table has outside it.
ExposedName(item) == IF item.as # Nameless THEN item.as ELSE item.name

\* What name, exposed by the items of a derived table that considered picks,
\* refers to: an alias of a real table inside, or Nameless.
ResolveDerived(derived, name, considered) ==
  LET found == {i \in considered : ExposedName(derived.items[i]) = name}
      item == derived.items[First(found)]
      aliases == Aliases(derived.from)
      alias == IF item.of # Nameless THEN item.of
               ELSE IF Cardinality(aliases) = 1 THEN CHOOSE a \in aliases : TRUE
               ELSE Nameless
  IN  IF /\ derived.shape = "plain"
         /\ CollectsTables(derived.from)
         /\ found # {}
         /\ item.kind = "column"
         /\ alias \in aliases
         /\ ~IsDerived(RefOf(derived.from, alias))
      THEN alias ELSE Nameless

\* A computed item that has the name ends the search.
ResolveDerivedColumnMySQL(derived, name) ==
  ResolveDerived(derived, name,
                 Indices(derived.items, LAMBDA item : item.kind # "star"))

\* Here computed items are passed over.
ResolveDerivedColumnPostgres(derived, name) ==
  ResolveDerived(derived, name,
                 Indices(derived.items, LAMBDA item : item.kind = "column"))

ResolveDerivedColumnMSSQL(derived, name) ==
  IF derived.from = << >> THEN Nameless
  ELSE ResolveDerivedColumnMySQL(derived, name)

ResolveDerivedColumnOracle(derived, name) ==
  IF derived.items = <<Star(Nameless)>> THEN Nameless
  ELSE ResolveDerivedColumnMySQL(derived, name)

ResolveDerivedColumn(dialect, derived, name) ==
  CASE dialect = "mysql" -> ResolveDerivedColumnMySQL(derived, name)
    [] dialect = "postgres" -> ResolveDerivedColumnPostgres(derived, name)
    [] dialect = "mssql" -> ResolveDerivedColumnMSSQL(derived, name)
    [] dialect = "oracle" -> ResolveDerivedColumnOracle(derived, name)

\* The origin of an item that is not a wildcard; where its key will be is
\* filled in once all the hidden columns are known.
ItemOrigin(dialect, from, item) ==
  LET outer == IF item.of # Nameless THEN item.of
               ELSE IF Len(from) = 1 THEN from[1].alias ELSE Nameless
      ref == RefOf(from, outer)
      inner == ResolveDerivedColumn(dialect, ref.query, item.name)
      Traced(table, via) ==
        IF PrimaryKeyColumns(table) = << >> THEN NoOrigin
        ELSE Origin(table, PrimaryKeyColumns(table), << >>, via)
  IN  IF item.kind # "column" \/ outer \notin Aliases(from) THEN NoOrigin
      ELSE IF ~IsDerived(ref) THEN Traced(ref.name, <<outer>>)
      ELSE IF inner = Nameless THEN NoOrigin
      ELSE Traced(RefOf(ref.query.from, inner).name, <<outer, inner>>)

ItemOrigins(dialect, from, item) ==
  IF item.kind = "star" THEN WildcardBlock(from, item)
  ELSE <<ItemOrigin(dialect, from, item)>>

\* Phases 1 and 2: one origin for each column of each item.
VisibleOrigins(dialect, stmt) ==
  FlattenSeq([i \in DOMAIN stmt.items |->
                ItemOrigins(dialect, stmt.from, stmt.items[i])])

----------------------------------------------------------------------------
(* Hidden columns *)

HiddenName(via, column) == <<"", "", "pk">> \o FlattenSeq(via) \o column

\* Mutant: two columns that share a path each get carriers of their own, and
\* the positions are those of the last.
NeededTwice(origins) ==
  SelectSeq(origins, LAMBDA origin : origin.via # << >>)

\* The paths whose keys are needed, once each, in the order of the items.
Needed(origins) ==
  FlattenSeq([i \in DOMAIN origins |->
    IF \/ origins[i].via = << >>
       \/ \E j \in 1..i - 1 : origins[j].via = origins[i].via
    THEN << >> ELSE <<origins[i]>>])

\* The carriers in the outer list: an own key column of a table, the carrier
\* a derived table exposes.
OuterCarriers(need) ==
  [j \in DOMAIN need.key |->
     LET hidden == HiddenName(need.via, need.key[j])
     IN  Column(need.via[1], IF Len(need.via) = 1 THEN need.key[j] ELSE hidden,
                hidden)]

InnerCarriers(need) ==
  [j \in DOMAIN need.key |->
     Column(need.via[2], need.key[j], HiddenName(need.via, need.key[j]))]

Carriers(needs) == FlattenSeq([k \in DOMAIN needs |-> OuterCarriers(needs[k])])

\* Those in the derived table alias.
CarriersWithin(alias, needs) ==
  FlattenSeq([k \in DOMAIN needs |->
    IF Len(needs[k].via) = 2 /\ needs[k].via[1] = alias
    THEN InnerCarriers(needs[k]) ELSE << >>])

\* alias is how the statement spells the name of ref.
InjectInner(ref, alias, needs) ==
  IF IsDerived(ref)
  THEN [ref EXCEPT !.query.items = @ \o CarriersWithin(alias, needs)]
  ELSE ref

\* read is stmt as the target reads it.
Inject(stmt, read, needs) ==
  [read EXCEPT
     !.items = @ \o Carriers(needs),
     !.from = [i \in DOMAIN @ |->
                 InjectInner(@[i], stmt.from[i].alias, needs)]]

\* Mutant: each path counted as one column.
HiddenIndexesNarrow(visibleCount, needs, via) ==
  LET n == SelectInSeq(needs, LAMBDA need : need.via = via)
  IN  [j \in DOMAIN needs[n].key |-> visibleCount + n - 1 + j]

\* Where the carriers of a path are in the result row.
HiddenIndexes(visibleCount, needs, via) ==
  LET n == SelectInSeq(needs, LAMBDA need : need.via = via)
      before == FlattenSeq([m \in 1..n - 1 |-> needs[m].key])
  IN  [j \in DOMAIN needs[n].key |-> visibleCount + Len(before) + j]

FillIndexes(origins, needs) ==
  [i \in DOMAIN origins |->
     IF origins[i].via = << >> THEN origins[i]
     ELSE [origins[i] EXCEPT !.at = HiddenIndexes(Len(origins), needs,
                                                  origins[i].via)]]

----------------------------------------------------------------------------
(* The four passes.  ok says that the statement was understood, rewritten   *)
(* is what the target reads in the statement that is sent to it.            *)

NotUnderstood(stmt) ==
  [ok |-> FALSE, rewritten |-> stmt, origins |-> << >>]

\* Mutant: hidden columns in a DISTINCT statement.
UnderstandsDistinct(stmt, shapes) ==
  /\ stmt.shape \in shapes \cup {"distinct"}
  /\ CollectsTables(stmt.from)
  /\ \A i \in DOMAIN stmt.items :
       stmt.items[i].kind = "star" => ExpandsWildcard(stmt.from, stmt.items[i])

Understands(stmt, shapes) ==
  /\ stmt.shape \in shapes
  /\ CollectsTables(stmt.from)
  /\ \A i \in DOMAIN stmt.items :
       stmt.items[i].kind = "star" => ExpandsWildcard(stmt.from, stmt.items[i])

Prepare(dialect, stmt, read, shapes) ==
  LET origins == VisibleOrigins(dialect, stmt)
      needs == Needed(origins)
  IN  IF ~Understands(stmt, shapes) THEN NotUnderstood(read)
      ELSE [ok |-> TRUE,
            rewritten |-> Inject(stmt, read, needs),
            origins |-> FillIndexes(origins, needs)]

PrepareMySQL(stmt) == Prepare("mysql", stmt, stmt, {"plain"})

PreparePostgres(stmt) == Prepare("postgres", stmt, stmt, {"plain"})

\* Here a union is its first branch, with the others hanging from it, and the
\* first branch is what is looked at.
PrepareMSSQL(stmt) == Prepare("mssql", stmt, stmt, {"plain", "union"})

\* The carriers are spliced into the text in double quotes, and so they are
\* read as they are spelled, unlike the names around them.
PrepareOracle(stmt) ==
  Prepare("oracle", stmt, FoldedQuery(stmt), {"plain"})

Dialects == {"mysql", "postgres", "mssql", "oracle"}

PrepareJoinOrigins(dialect, stmt) ==
  CASE dialect = "mysql" -> PrepareMySQL(stmt)
    [] dialect = "postgres" -> PreparePostgres(stmt)
    [] dialect = "mssql" -> PrepareMSSQL(stmt)
    [] dialect = "oracle" -> PrepareOracle(stmt)

=============================================================================
