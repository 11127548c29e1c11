--------------------------- MODULE ReadQuery_proofs ---------------------------
(***************************************************************************)
(* Proofs about ReadQuery, for every catalog, every query and every limit. *)
(***************************************************************************)
EXTENDS ReadQuery, JoinOrigins_proofs

LEMMA AsReadIs ==
  ASSUME NEW k, NEW s \in StatementsOver(Written)
  PROVE  AsRead(k, s) \in StatementsOver(Written) /\ Spells(k, s, AsRead(k, s))
<1>1. CASE k = "oracle"
  BY <1>1, FoldedQueryIs DEF AsRead
<1>2. CASE k # "oracle"
  <2>1. /\ s.from \in Seq(Refs(Written)) /\ s.items \in Seq(ItemsOver(Written))
        /\ \A i \in DOMAIN s.from : s.from[i] \in Refs(Written)
    BY QueryFields, StatementQueries
  <2>2. \A name : As(k, name) = name
    BY <1>2 DEF As
  <2>3. \A item : SpellsItem(k, item, item)
    BY <2>2 DEF SpellsItem
  <2>4. \A query : SpellsList(k, query, query)
    BY <2>3 DEF SpellsList
  <2>5. \A ref \in TablesOver(Written) : SpellsTable(k, ref, ref)
    <3>1. \A ref \in TablesOver(Written) :
            ref = Table(ref.alias, ref.schema, ref.name) /\ ~IsDerived(ref)
      BY TableFields
    <3> QED
      BY <2>2, <3>1 DEF SpellsTable
  <2>6. \A query \in InnerQueries(Written) : SpellsInner(k, query, query)
    <3>1. \A query \in InnerQueries(Written) : \A i \in DOMAIN query.from :
            query.from[i] \in TablesOver(Written)
      BY QueryFields DEF InnerQueries
    <3> QED
      BY <2>4, <2>5, <3>1 DEF SpellsInner
  <2>7. \A ref \in Refs(Written) : SpellsRef(k, ref, ref)
    BY <2>2, <2>5, <2>6, RefCases, DerivedFields DEF SpellsRef
  <2>8. Spells(k, s, s)
    BY <2>1, <2>4, <2>7 DEF Spells
  <2> QED
    BY <1>2, <2>8 DEF AsRead
<1> QED
  BY <1>1, <1>2

----------------------------------------------------------------------------
(* What is prepared *)

LEMMA ItemsWiden ==
  ASSUME NEW names, NEW others, names \subseteq others
  PROVE  ItemsOver(names) \subseteq ItemsOver(others)
BY DEF ItemsOver

LEMMA QueriesWiden ==
  ASSUME NEW refs, NEW more, refs \subseteq more,
         NEW names, NEW others, names \subseteq others
  PROVE  QueriesOver(refs, names) \subseteq QueriesOver(more, others)
<1> SUFFICES ASSUME NEW query \in QueriesOver(refs, names)
             PROVE  query \in QueriesOver(more, others)
  OBVIOUS
<1>1. query.from \in Seq(more)
  <2>1. query.from \in Seq(refs)
    BY QueryFields
  <2> QED
    BY <2>1, SequencesWiden
<1>2. query.items \in Seq(ItemsOver(others))
  <2>1. query.items \in Seq(ItemsOver(names)) /\ ItemsOver(names) \subseteq ItemsOver(others)
    BY QueryFields, ItemsWiden
  <2> QED
    BY <2>1, SequencesWiden
<1> QED
  BY <1>1, <1>2 DEF QueriesOver

LEMMA StatementsWiden ==
  ASSUME NEW names, NEW others, names \subseteq others
  PROVE  StatementsOver(names) \subseteq StatementsOver(others)
<1>1. TablesOver(names) \subseteq TablesOver(others)
  BY DEF TablesOver
<1>2. QueriesOver(TablesOver(names), names) \subseteq QueriesOver(TablesOver(others), others)
  BY <1>1, QueriesWiden
<1>3. DerivedOver(names) \subseteq DerivedOver(others)
  BY <1>2 DEF DerivedOver
<1>4. TablesOver(names) \cup DerivedOver(names) \subseteq TablesOver(others) \cup DerivedOver(others)
  BY <1>1, <1>3
<1> QED
  BY <1>4, QueriesWiden DEF StatementsOver

LEMMA SpelledStatements ==
  ASSUME NEW s \in StatementsOver(Written)
  PROVE  s \in StatementsOver(UsersNames) /\ s \in StatementsOver(Names)
<1>1. Written \subseteq UsersNames /\ UsersNames \subseteq Names /\ Written \subseteq Names
  BY DEF Written, UsersNames
<1> QED
  BY <1>1, StatementsWiden

LEMMA ReadsAre ==
  ASSUME NEW k \in Kinds, NEW s \in Reads(k)
  PROVE  k \in Dialects /\ s \in StatementsOver(Written) /\ WellFormed(s)
BY ReadsAssumption DEF Written

JoinShapes(k) == IF k = "mssql" THEN {"plain", "union"} ELSE {"plain"}

PlanSingle(k, s, p) ==
  /\ IsSelectStar(s) /\ p.path = "single"
  /\ p.table = s.from[1].name /\ p.key = PrimaryKeyColumns(p.table) /\ p.key # << >>
  /\ p.cuts = HasLob(p.table)
  /\ p.rewritten = IF p.cuts THEN RewrittenSelect(k, s, p.table) ELSE AsRead(k, s)

PlanJoin(k, s, p) ==
  /\ Understands(s, JoinShapes(k)) /\ p.path = "join" /\ p.cuts = FALSE
  /\ p.rewritten = Inject(s, AsRead(k, s), Needed(VisibleOrigins(k, s)))
  /\ p.origins = FillIndexes(VisibleOrigins(k, s), Needed(VisibleOrigins(k, s)))

PlanPlain(k, s, p) ==
  /\ p.path = "plain" /\ p.rewritten = AsRead(k, s) /\ p.cuts = FALSE

LEMMA PrepareIs ==
  ASSUME NEW k \in Dialects, NEW s
  PROVE  PrepareJoinOrigins(k, s) = Prepare(k, s, AsRead(k, s), JoinShapes(k))
BY DEF PrepareJoinOrigins, PrepareMySQL, PreparePostgres, PrepareMSSQL, PrepareOracle,
       Dialects, AsRead, JoinShapes

LEMMA PlanIs ==
  ASSUME NEW k \in Dialects, NEW s
  PROVE  \/ PlanSingle(k, s, PrepareRead(k, s))
         \/ PlanJoin(k, s, PrepareRead(k, s))
         \/ PlanPlain(k, s, PrepareRead(k, s))
<1> DEFINE table == s.from[1].name
           single == [path |-> "single", table |-> table,
                      key |-> PrimaryKeyColumns(table),
                      rewritten |-> IF HasLob(table) THEN RewrittenSelect(k, s, table)
                                    ELSE AsRead(k, s),
                      origins |-> << >>, cuts |-> HasLob(table)]
           join == Prepare(k, s, AsRead(k, s), JoinShapes(k))
           origins == VisibleOrigins(k, s)
<1>1. CASE IsSelectStar(s) /\ PrimaryKeyColumns(table) # << >>
  <2>1. PrepareSelectStar(k, s) = single
    BY <1>1 DEF PrepareSelectStar
  <2>2. single # NoPlan
    BY DEF NoPlan
  <2>3. PrepareRead(k, s) = single
    BY <2>1, <2>2 DEF PrepareRead
  <2>4. PlanSingle(k, s, single)
    BY <1>1 DEF PlanSingle
  <2> QED
    BY <2>3, <2>4
<1>2. CASE ~(IsSelectStar(s) /\ PrimaryKeyColumns(table) # << >>)
  <2>1. PrepareSelectStar(k, s) = NoPlan
    BY <1>2 DEF PrepareSelectStar
  <2>2. CASE Understands(s, JoinShapes(k))
    <3>1. join = [ok |-> TRUE, rewritten |-> Inject(s, AsRead(k, s), Needed(origins)),
                  origins |-> FillIndexes(origins, Needed(origins))]
      BY <2>2 DEF Prepare
    <3>2. PrepareRead(k, s) = [NoPlan EXCEPT !.path = "join",
                                 !.rewritten = Inject(s, AsRead(k, s), Needed(origins)),
                                 !.origins = FillIndexes(origins, Needed(origins))]
      <4>1. /\ join.ok /\ join.rewritten = Inject(s, AsRead(k, s), Needed(origins))
            /\ join.origins = FillIndexes(origins, Needed(origins))
        BY <3>1
      <4>2. PrepareRead(k, s) = IF join.ok
                                THEN [NoPlan EXCEPT !.path = "join",
                                        !.rewritten = join.rewritten, !.origins = join.origins]
                                ELSE [NoPlan EXCEPT !.path = "plain",
                                                    !.rewritten = AsRead(k, s)]
        <5> HIDE DEF join
        <5>1. PrepareJoinOrigins(k, s) = join
          BY PrepareIs DEF join
        <5> QED
          BY <2>1, <5>1 DEF PrepareRead
      <4> HIDE DEF join
      <4> QED
        BY <4>1, <4>2
    <3> QED
      BY <2>2, <3>2 DEF PlanJoin, NoPlan
  <2>3. CASE ~Understands(s, JoinShapes(k))
    <3>1. join.ok = FALSE
      BY <2>3 DEF Prepare, NotUnderstood
    <3>2. PrepareRead(k, s) = [NoPlan EXCEPT !.path = "plain", !.rewritten = AsRead(k, s)]
      BY <2>1, <3>1, PrepareIs DEF PrepareRead
    <3> QED
      BY <3>2 DEF PlanPlain, NoPlan
  <2> QED
    BY <2>2, <2>3
<1> QED
  BY <1>1, <1>2

LEMMA NeedsAre ==
  ASSUME NEW origins \in Seq(Origins)
  PROVE  Needed(origins) \in Seq(Needs)
<1>1. PICK needs \in Seq(Origins) : needs = Needed(origins)
  BY NeedPiecesType
<1>2. \A n \in DOMAIN needs : needs[n].via # << >>
  BY <1>1, NeededIs
<1>3. DOMAIN needs = 1..Len(needs) /\ Len(needs) \in Nat
      /\ \A n \in DOMAIN needs : needs[n] \in Origins
  BY LenProperties, ElementOfSeq
<1>4. \A n \in 1..Len(needs) : needs[n] \in Needs
  BY <1>2, <1>3 DEF Needs
<1>5. needs = [n \in 1..Len(needs) |-> needs[n]]
  BY <1>3
<1>6. [n \in 1..Len(needs) |-> needs[n]] \in Seq(Needs)
  BY <1>3, <1>4
<1> QED
  BY <1>1, <1>5, <1>6

InnerOf(s, needs) == [i \in DOMAIN s.from |-> CarriersWithin(s.from[i].alias, needs)]

LEMMA InjectIs ==
  ASSUME NEW k, NEW s \in StatementsOver(Written), NEW needs \in Seq(Needs),
         NEW read, read = AsRead(k, s)
  PROVE  /\ Inject(s, read, needs) = GrownQuery(read, InnerOf(s, needs), Carriers(needs))
         /\ Inserts(read, InnerOf(s, needs))
         /\ Carriers(needs) \in Seq(ItemsOver(Names)) /\ HiddenItems(Carriers(needs))
<1>1. /\ read \in StatementsOver(Written) /\ Spells(k, s, read)
      /\ \A i \in DOMAIN read.from : read.from[i] \in Refs(Written)
  BY AsReadIs, StatementQueries, QueryFields
<1>2. DOMAIN read.from = DOMAIN s.from
  BY <1>1 DEF Spells, SpellsList
<1>3. Inserts(read, InnerOf(s, needs))
  BY <1>2, CarriersWithinAre DEF Inserts, InnerOf
<1>4. ASSUME NEW i \in DOMAIN read.from
      PROVE  InjectInner(read.from[i], s.from[i].alias, needs)
               = GrownRef(read.from[i], InnerOf(s, needs)[i])
  <2>1. PICK ref \in Refs(Written) : ref = read.from[i]
    BY <1>1
  <2>2. PICK more : more = CarriersWithin(s.from[i].alias, needs)
    OBVIOUS
  <2>3. InnerOf(s, needs)[i] = more
    BY <1>2, <2>2 DEF InnerOf
  <2>4. CASE ~IsDerived(ref)
    BY <2>1, <2>3, <2>4 DEF InjectInner, GrownRef
  <2>5. CASE IsDerived(ref)
    <3>1. ref \in DerivedOver(Written)
      BY <2>5, RefCases
    <3>2. [ref EXCEPT !.query.items = @ \o more]
            = Derived(ref.alias, [ref.query EXCEPT !.items = @ \o more])
      BY <3>1 DEF DerivedOver, Derived
    <3> QED
      BY <2>1, <2>2, <2>3, <2>5, <3>2 DEF InjectInner, GrownRef, Adding
  <2> QED
    BY <2>4, <2>5
<1>5. [i \in DOMAIN read.from |-> InjectInner(read.from[i], s.from[i].alias, needs)]
        = [i \in DOMAIN read.from |-> GrownRef(read.from[i], InnerOf(s, needs)[i])]
  BY <1>4
<1>6. Inject(s, read, needs) = GrownQuery(read, InnerOf(s, needs), Carriers(needs))
  BY <1>1, <1>5 DEF Inject, GrownQuery, StatementsOver, QueriesOver
<1> QED
  BY <1>3, <1>6, CarriersAre

LEMMA JoinPlanIs ==
  ASSUME NEW k \in Dialects, NEW s \in StatementsOver(Written), NEW p, PlanJoin(k, s, p)
  PROVE  \E origins \in Seq(Origins) : \E needs \in Seq(Needs) :
           /\ origins = VisibleOrigins(k, s) /\ needs = Needed(origins)
           /\ p.rewritten = GrownQuery(AsRead(k, s), InnerOf(s, needs), Carriers(needs))
           /\ p.origins = FillIndexes(origins, needs)
           /\ Len(p.origins) = Len(origins) /\ Len(origins) \in Nat
           /\ DOMAIN p.origins = 1..Len(origins)
<1>1. PICK origins \in Seq(Origins) : origins = VisibleOrigins(k, s)
  BY OriginPiecesType, SpelledStatements DEF PlanJoin
<1>2. PICK needs \in Seq(Needs) : needs = Needed(origins)
  BY NeedsAre
<1>3. p.rewritten = GrownQuery(AsRead(k, s), InnerOf(s, needs), Carriers(needs))
  BY <1>1, <1>2, InjectIs DEF PlanJoin
<1>4. p.origins = FillIndexes(origins, needs)
  BY <1>1, <1>2 DEF PlanJoin
<1>5. DOMAIN origins = 1..Len(origins) /\ Len(origins) \in Nat
  BY LenProperties
<1>6. /\ Len(FillIndexes(origins, needs)) = Len(origins)
      /\ DOMAIN FillIndexes(origins, needs) = 1..Len(origins)
  BY <1>5 DEF FillIndexes
<1> QED
  BY <1>1, <1>2, <1>3, <1>4, <1>5, <1>6

\* The list written out is a list of columns.
ListOf(table) ==
  [i \in DOMAIN ColumnsOf(table) |-> Column(Nameless, ColumnsOf(table)[i], Nameless)]

LEMMA ListOfType ==
  ASSUME NEW table
  PROVE  /\ ListOf(table) \in Seq(ItemsOver(UsersNames))
         /\ DOMAIN ListOf(table) = DOMAIN ColumnsOf(table)
         /\ Len(ListOf(table)) = Len(ColumnsOf(table))
         /\ \A i \in DOMAIN ColumnsOf(table) :
              /\ ListOf(table)[i].kind = "column" /\ ListOf(table)[i].of = Nameless
              /\ ListOf(table)[i].name = ColumnsOf(table)[i]
              /\ ListOf(table)[i].as = Nameless
<1>1. PICK columns \in Seq(UsersNames) : columns = ColumnsOf(table)
  BY TableColumns
<1>2. DOMAIN columns = 1..Len(columns) /\ Len(columns) \in Nat
      /\ \A i \in DOMAIN columns : columns[i] \in UsersNames
  BY LenProperties, ElementOfSeq
<1>3. \A i \in DOMAIN columns :
        /\ Column(Nameless, columns[i], Nameless) \in ItemsOver(UsersNames)
        /\ Column(Nameless, columns[i], Nameless).kind = "column"
        /\ Column(Nameless, columns[i], Nameless).of = Nameless
        /\ Column(Nameless, columns[i], Nameless).name = columns[i]
        /\ Column(Nameless, columns[i], Nameless).as = Nameless
  BY <1>2, NamelessIsUsers DEF Column, ItemsOver
<1>4. ListOf(table) = [i \in 1..Len(columns) |-> Column(Nameless, columns[i], Nameless)]
  BY <1>1, <1>2 DEF ListOf
<1> QED
  BY <1>1, <1>2, <1>3, <1>4

LEMMA RewrittenSelectIs ==
  ASSUME NEW k, NEW s \in StatementsOver(Written), NEW table,
         NEW read, read = AsRead(k, s), NEW other, other = RewrittenSelect(k, s, table)
  PROVE  /\ other \in StatementsOver(UsersNames)
         /\ other.from = read.from /\ other.items = ListOf(table)
         /\ other.shape = read.shape /\ other.width = read.width
         /\ other.natural = read.natural /\ other.outer = read.outer
<1>1. read \in StatementsOver(UsersNames)
  BY AsReadIs, SpelledStatements
<1>2. other = [read EXCEPT !.items = ListOf(table)]
  BY DEF RewrittenSelect, ListOf
<1>3. PICK items \in Seq(ItemsOver(UsersNames)) : items = ListOf(table)
  BY ListOfType
<1>4. read \in QueriesOver(Refs(UsersNames), UsersNames) /\ other = [read EXCEPT !.items = items]
  BY <1>1, <1>2, <1>3, StatementQueries
<1>5. other \in QueriesOver(Refs(UsersNames), UsersNames)
  BY <1>4 DEF QueriesOver
<1>6. /\ other.from = read.from /\ other.items = items
      /\ other.shape = read.shape /\ other.width = read.width
      /\ other.natural = read.natural /\ other.outer = read.outer
  BY <1>4 DEF QueriesOver
<1> QED
  BY <1>3, <1>5, <1>6, StatementQueries

SameAliases(from, others) ==
  /\ DOMAIN others = DOMAIN from /\ Len(others) = Len(from)
  /\ \A i \in DOMAIN from : others[i].alias = from[i].alias

\* Whatever is sent, it is a statement of the same shape over the same FROM.
LEMMA RewrittenIs ==
  ASSUME NEW k \in Dialects, NEW s \in StatementsOver(Written), NEW p,
         p = PrepareRead(k, s)
  PROVE  /\ p.rewritten \in StatementsOver(Names)
         /\ p.rewritten.shape = s.shape /\ p.rewritten.outer = s.outer
         /\ SameAliases(AsRead(k, s).from, p.rewritten.from)
         /\ p.path \in {"single", "join", "plain"}
<1>1. PICK read \in StatementsOver(Written) : read = AsRead(k, s) /\ Spells(k, s, read)
  BY AsReadIs
<1>2. read.shape = s.shape /\ read.outer = s.outer
  BY <1>1 DEF Spells, SpellsList
<1>3. read \in StatementsOver(Names) /\ SameAliases(read.from, read.from)
  BY SpelledStatements DEF SameAliases
<1>4. CASE PlanPlain(k, s, p)
  BY <1>1, <1>2, <1>3, <1>4 DEF PlanPlain
<1>5. CASE PlanSingle(k, s, p)
  <2>1. CASE p.cuts
    <3>1. p.rewritten = RewrittenSelect(k, s, p.table)
      BY <1>5, <2>1 DEF PlanSingle
    <3>2. /\ p.rewritten \in StatementsOver(UsersNames) /\ p.rewritten.from = read.from
          /\ p.rewritten.shape = read.shape /\ p.rewritten.outer = read.outer
      BY <1>1, <3>1, RewrittenSelectIs
    <3>3. p.rewritten \in StatementsOver(Names)
      BY <3>2, StatementsWiden DEF UsersNames
    <3> QED
      BY <1>1, <1>2, <1>3, <1>5, <3>2, <3>3 DEF PlanSingle
  <2>2. CASE ~p.cuts
    BY <1>1, <1>2, <1>3, <1>5, <2>2 DEF PlanSingle
  <2> QED
    BY <2>1, <2>2
<1>6. CASE PlanJoin(k, s, p)
  <2>1. PICK needs \in Seq(Needs) :
          p.rewritten = GrownQuery(read, InnerOf(s, needs), Carriers(needs))
    BY <1>1, <1>6, JoinPlanIs
  <2>2. /\ Inserts(read, InnerOf(s, needs)) /\ Carriers(needs) \in Seq(ItemsOver(Names))
    BY <1>1, InjectIs
  <2>3. read \in StatementsOver(UsersNames)
    BY SpelledStatements
  <2>4. /\ p.rewritten \in StatementsOver(Names) /\ p.rewritten.shape = read.shape
        /\ p.rewritten.outer = read.outer
        /\ DOMAIN p.rewritten.from = DOMAIN read.from
        /\ Len(p.rewritten.from) = Len(read.from)
        /\ \A i \in DOMAIN read.from :
             p.rewritten.from[i] = GrownRef(read.from[i], InnerOf(s, needs)[i])
    BY <2>1, <2>2, <2>3, GrownQueryIs
  <2>5. \A i \in DOMAIN read.from :
          GrownRef(read.from[i], InnerOf(s, needs)[i]).alias = read.from[i].alias
    BY DEF GrownRef, Derived
  <2> QED
    BY <1>1, <1>2, <1>6, <2>4, <2>5 DEF PlanJoin, SameAliases
<1> QED
  BY <1>4, <1>5, <1>6, PlanIs

----------------------------------------------------------------------------
(* The states *)

\* What came of the execution.
Executed ==
  \E altered \in BOOLEAN :
    \/ /\ Runs(Target(altered), plan.rewritten)
       /\ \E missing \in MissingRows(plan.rewritten) :
            result = ReadResult(plan, missing, altered)
    \/ /\ ~Runs(Target(altered), plan.rewritten)
       /\ result = [NoResult EXCEPT !.done = TRUE, !.failed = TRUE, !.altered = altered]

\* What may come of the download of cell i.
ServedAt(i) ==
  LET origin == result.origins[i]
      column == result.cells[i].name
      fetched == FetchedCell(origin, result.cells, column)
  IN  IF ~HasColumn(origin.table, column) \/ FetchesNothing(origin) THEN {FALSE}
      ELSE IF fetched = result.cells[i].from
      THEN {TruncateCell(SizeOf(fetched)) = Shown(plan, result.cells[i].from)}
      ELSE BOOLEAN

Downloaded ==
  /\ result.done /\ answer.done
  /\ answer.cell \in 1..result.visible
  /\ result.origins[answer.cell] # NoOrigin
  /\ answer.served \in ServedAt(answer.cell)

\* The plan is that of the statement, the result one the plan can have, and the
\* answer one to a request for a cell of it.
Inv ==
  /\ kind \in Kinds /\ stmt \in Reads(kind)
  /\ plan = NoPlan \/ plan = PrepareRead(kind, stmt)
  /\ result = NoResult \/ (plan # NoPlan /\ Executed)
  /\ answer = NoAnswer \/ Downloaded

LEMMA TargetIs ==
  ASSUME NEW altered \in BOOLEAN
  PROVE  /\ IsCatalog(Target(altered)) /\ DOMAIN Target(altered) = DOMAIN Catalog
         /\ \A t \in DOMAIN Catalog : Target(altered)[t].key = Catalog[t].key
BY CatalogAssumption, AlteredAssumption DEF Target

\* A result that is there is that of a statement that ran, and typed.
LEMMA ResultIs ==
  ASSUME Inv, Answered
  PROVE  /\ plan = PrepareRead(kind, stmt) /\ result.altered \in BOOLEAN
         /\ kind \in Dialects /\ stmt \in StatementsOver(Written) /\ WellFormed(stmt)
         /\ Runs(Target(result.altered), plan.rewritten)
         /\ result.missing \in MissingRows(plan.rewritten)
         /\ result = ReadResult(plan, result.missing, result.altered)
         /\ result.cells = Output(Target(result.altered), plan.rewritten)
         /\ result.cells \in Seq(Cells)
<1>1. result # NoResult
  BY DEF Answered, NoResult
<1>2. plan = PrepareRead(kind, stmt) /\ Executed
  BY <1>1 DEF Inv
<1>3. PICK altered \in BOOLEAN :
        /\ Runs(Target(altered), plan.rewritten)
        /\ \E missing \in MissingRows(plan.rewritten) :
             result = ReadResult(plan, missing, altered)
  BY <1>2 DEF Executed, Answered, NoResult
<1>4. PICK missing \in MissingRows(plan.rewritten) : result = ReadResult(plan, missing, altered)
  BY <1>3
<1>5. /\ result.altered = altered /\ result.missing = missing
      /\ result.cells = Output(Target(altered), plan.rewritten)
  BY <1>4 DEF ReadResult
<1>6. kind \in Dialects /\ stmt \in StatementsOver(Written) /\ WellFormed(stmt)
  BY ReadsAre DEF Inv
<1>7. plan.rewritten \in StatementsOver(Names)
  BY <1>2, <1>6, RewrittenIs
<1>8. result.cells \in Seq(Cells)
  BY <1>3, <1>5, <1>7, TargetIs, RunsParts
<1> QED
  BY <1>2, <1>3, <1>4, <1>5, <1>6, <1>8

LEMMA InvInit == Init => Inv
BY DEF Init, Inv

LEMMA ExecutedDone ==
  ASSUME Executed
  PROVE  result.done
<1>1. \A missing, altered : ReadResult(plan, missing, altered).done
  BY DEF ReadResult
<1>2. \A altered : [NoResult EXCEPT !.done = TRUE, !.failed = TRUE, !.altered = altered].done
  BY DEF NoResult
<1> QED
  BY <1>1, <1>2 DEF Executed

LEMMA NotDone == ~NoResult.done /\ ~NoAnswer.done
BY DEF NoResult, NoAnswer

LEMMA InvStep == Inv /\ [Next]_vars => Inv'
<1> SUFFICES ASSUME Inv, [Next]_vars
             PROVE  Inv'
  OBVIOUS
<1>1. CASE Plan
  <2>1. result = NoResult
    BY <1>1 DEF Inv, Plan
  <2>2. answer = NoAnswer
    BY <2>1, NotDone DEF Inv, Downloaded
  <2> QED
    BY <1>1, <2>1, <2>2 DEF Inv, Plan
<1>2. CASE Execute
  <2>1. answer = NoAnswer /\ answer' = answer
    BY <1>2 DEF Inv, Downloaded, Execute
  <2>2. plan # NoPlan /\ plan' = plan /\ kind' = kind /\ stmt' = stmt
    BY <1>2 DEF Execute
  <2>3. PICK altered \in BOOLEAN :
          IF Runs(Target(altered), plan.rewritten)
          THEN \E missing \in MissingRows(plan.rewritten) :
                 result' = ReadResult(plan, missing, altered)
          ELSE result' = [NoResult EXCEPT !.done = TRUE, !.failed = TRUE,
                                          !.altered = altered]
    BY <1>2 DEF Execute
  <2>4. Executed'
    <3>1. \/ /\ Runs(Target(altered), plan.rewritten)
             /\ \E missing \in MissingRows(plan.rewritten) :
                  result' = ReadResult(plan, missing, altered)
          \/ /\ ~Runs(Target(altered), plan.rewritten)
             /\ result' = [NoResult EXCEPT !.done = TRUE, !.failed = TRUE,
                                          !.altered = altered]
      BY <2>3
    <3> QED
      BY <2>2, <2>3, <3>1 DEF Executed
  <2> QED
    BY <2>1, <2>2, <2>4 DEF Inv
<1>3. CASE \E i \in 1..Len(result.cells) : Download(i)
  <2>1. PICK i \in 1..Len(result.cells) : Download(i)
    BY <1>3
  <2>2. /\ kind' = kind /\ stmt' = stmt /\ plan' = plan /\ result' = result
        /\ result.done /\ i \in 1..result.visible /\ result.origins[i] # NoOrigin
    BY <2>1 DEF Download
  <2>3. \E s \in ServedAt(i) : \E of : answer' = [done |-> TRUE, cell |-> i, of |-> of, served |-> s]
    BY <2>1 DEF Download, ServedAt
  <2>4. answer'.done /\ answer'.cell = i /\ answer'.served \in ServedAt(i)
    BY <2>3
  <2>5. ServedAt(i)' = ServedAt(i)
    BY <2>2 DEF ServedAt, HasColumn, FetchesNothing
  <2>6. Downloaded'
    BY <2>2, <2>4, <2>5 DEF Downloaded, ServedAt, HasColumn, FetchesNothing
  <2>7. Executed' = Executed
    BY <2>2 DEF Executed
  <2> QED
    BY <2>2, <2>6, <2>7 DEF Inv
<1>4. CASE UNCHANGED vars
  BY <1>4 DEF Inv, vars, Executed, Downloaded, ServedAt, HasColumn, FetchesNothing
<1> QED
  BY <1>1, <1>2, <1>3, <1>4 DEF Next

\* The plan is always the one made for the statement (prepareRead), the result
\* one that running the plan gives (readQuery), and an answer one that the cell's
\* request can get (handleFetchCell), whatever was altered meanwhile.
LEMMA Invariance == Spec => []Inv
<1> QED
  BY InvInit, InvStep, PTL DEF Spec

----------------------------------------------------------------------------
(* Types *)

LEMMA Visible ==
  ASSUME Inv, Answered
  PROVE  /\ result.visible \in 0..Len(result.cells)
         /\ Len(result.origins) = result.visible
<1>1. /\ result = ReadResult(plan, result.missing, result.altered)
      /\ result.cells = Output(Target(result.altered), plan.rewritten)
      /\ plan = PrepareRead(kind, stmt)
  BY ResultIs
<1>2. PICK cells \in Seq(Cells) : cells = result.cells
  BY ResultIs
<1>3. DOMAIN cells = 1..Len(cells) /\ Len(cells) \in Nat
  BY LenProperties
<1> DEFINE overcounts == plan.path = "join" /\ Len(plan.origins) > Len(cells)
<1>4. /\ result.visible = IF plan.path = "join" /\ ~overcounts THEN Len(plan.origins)
                          ELSE Len(cells)
      /\ result.origins = CASE plan.path = "single" ->
                                 UniformOrigins(cells, plan.table, plan.key)
                            [] plan.path = "join" /\ ~overcounts -> plan.origins
                            [] OTHER -> [i \in DOMAIN cells |-> NoOrigin]
  BY <1>1, <1>2 DEF ReadResult
<1>5. CASE plan.path = "join" /\ ~overcounts
  <2>1. PlanJoin(kind, stmt, plan)
    BY <1>1, <1>5, ResultIs, PlanIs DEF PlanSingle, PlanPlain
  <2>2. Len(plan.origins) \in Nat
    BY <2>1, JoinPlanIs, ResultIs
  <2> QED
    BY <1>2, <1>3, <1>4, <1>5, <2>2
<1>6. CASE ~(plan.path = "join" /\ ~overcounts)
  <2>1. /\ Len(UniformOrigins(cells, plan.table, plan.key)) = Len(cells)
        /\ Len([i \in DOMAIN cells |-> NoOrigin]) = Len(cells)
    BY <1>3 DEF UniformOrigins
  <2>2. /\ result.visible = Len(cells)
        /\ result.origins \in {UniformOrigins(cells, plan.table, plan.key),
                              [i \in DOMAIN cells |-> NoOrigin]}
    BY <1>4, <1>6
  <2> QED
    BY <1>2, <1>3, <2>1, <2>2
<1> QED
  BY <1>5, <1>6

LEMMA FailedIs ==
  ASSUME Inv, ~Answered
  PROVE  /\ result.visible = 0 /\ Len(result.cells) = 0 /\ Len(result.origins) = 0
         /\ result.missing = {}
<1>1. \A altered :
        LET failed == [NoResult EXCEPT !.done = TRUE, !.failed = TRUE, !.altered = altered]
        IN  /\ failed.visible = 0 /\ failed.cells = << >> /\ failed.origins = << >>
            /\ failed.missing = {}
  BY DEF NoResult
<1>2. /\ NoResult.visible = 0 /\ NoResult.cells = << >> /\ NoResult.origins = << >>
      /\ NoResult.missing = {}
  BY DEF NoResult
<1>3. Len(<< >>) = 0
  OBVIOUS
<1>4. \A missing, altered : /\ ReadResult(plan, missing, altered).done
                            /\ ~ReadResult(plan, missing, altered).failed
  BY DEF ReadResult
<1>5. \/ result = NoResult
      \/ \E altered : result = [NoResult EXCEPT !.done = TRUE, !.failed = TRUE,
                                               !.altered = altered]
  <2>1. ASSUME NEW missing, NEW altered, result = ReadResult(plan, missing, altered)
        PROVE  FALSE
    BY <1>4, <2>1 DEF Answered
  <2>2. CASE Executed
    BY <2>1, <2>2 DEF Executed
  <2> QED
    BY <2>2 DEF Inv
<1> QED
  BY <1>1, <1>2, <1>3, <1>5

LEMMA Typed == Inv => TypeOK
<1> SUFFICES ASSUME Inv
             PROVE  TypeOK
  OBVIOUS
<1>1. kind \in Kinds /\ kind \in Dialects /\ stmt \in StatementsOver(Written) /\ WellFormed(stmt)
  BY ReadsAre DEF Inv
<1>2. plan.path \in {"none", "single", "join", "plain"}
  BY <1>1, RewrittenIs DEF Inv, NoPlan
<1>3. result.visible \in 0..Len(result.cells) /\ Len(result.origins) \in {0, result.visible}
  BY Visible, FailedIs
<1>4. result.missing \subseteq Aliases(AsRead(kind, stmt).from)
  <2>1. CASE ~Answered
    BY <2>1, FailedIs
  <2>2. CASE Answered
    <3>1. /\ plan = PrepareRead(kind, stmt) /\ result.missing \in MissingRows(plan.rewritten)
      BY <2>2, ResultIs
    <3>2. PICK read \in StatementsOver(Written) :
            read = AsRead(kind, stmt) /\ Spells(kind, stmt, read)
      BY <1>1, AsReadIs
    <3>3. /\ plan.rewritten.outer = stmt.outer
          /\ SameAliases(read.from, plan.rewritten.from)
      BY <1>1, <3>1, <3>2, RewrittenIs
    <3>4. DOMAIN read.from = 1..Len(read.from) /\ Len(read.from) \in Nat
      BY QueryFields, StatementQueries
    <3>5. ASSUME stmt.outer
          PROVE  Len(read.from) \in DOMAIN read.from
      <4>1. stmt.from # << >> /\ Len(read.from) = Len(stmt.from)
        BY <1>1, <3>2, <3>5 DEF WellFormed, Spells, SpellsList
      <4>2. PICK from \in Seq(Refs(Written)) : from = stmt.from
        BY <1>1, QueryFields, StatementQueries
      <4>3. Len(from) # 0
        BY <4>1, <4>2, EmptySeq
      <4> QED
        BY <3>4, <4>1, <4>2, <4>3
    <3>6. CASE stmt.outer
      <4>1. /\ Len(read.from) \in DOMAIN read.from
            /\ plan.rewritten.from[Len(plan.rewritten.from)].alias
                 = read.from[Len(read.from)].alias
        BY <3>3, <3>5, <3>6 DEF SameAliases
      <4>2. result.missing \subseteq {read.from[Len(read.from)].alias}
        BY <3>1, <3>3, <4>1 DEF MissingRows
      <4> QED
        BY <3>2, <4>1, <4>2 DEF Aliases
    <3>7. CASE ~stmt.outer
      BY <3>1, <3>3, <3>7 DEF MissingRows
    <3> QED
      BY <3>6, <3>7
  <2> QED
    BY <2>1, <2>2
<1>5. answer.done => answer.cell \in 1..result.visible
  BY NotDone DEF Inv, Downloaded
<1> QED
  BY <1>1, <1>2, <1>3, <1>4, <1>5 DEF TypeOK

\* The variables keep their shapes: as many cells are shown as the row has or
\* fewer, every shown column has an origin or none has (QueryResult.PkOrigins),
\* and a download is of a cell that is shown.
THEOREM TypeCorrect == Spec => []TypeOK
BY Invariance, Typed, PTL

----------------------------------------------------------------------------
(* The single-table path *)

\* A statement over one table that asks for all its columns.
StarOf(query, ref) ==
  /\ DOMAIN query.from = {1} /\ query.from[1] = ref /\ query.natural = FALSE
  /\ DOMAIN query.items = {1} /\ query.items[1].kind = "star"
  /\ query.items[1].of = Nameless

LEMMA SinglePlanIs ==
  ASSUME NEW k \in Dialects, NEW s \in StatementsOver(Written), WellFormed(s),
         NEW p, PlanSingle(k, s, p)
  PROVE  /\ <<Home, p.table>> \in DOMAIN Catalog
         /\ ColumnsOf(p.table) = Catalog[<<Home, p.table>>].columns
         /\ p.key = Catalog[<<Home, p.table>>].key /\ p.key # << >>
         /\ s.shape \in {"plain", "grouped", "union"}
         /\ (s.shape = "union" => IsSelectStar(s))
         /\ \E ref \in TablesOver(Written) :
              /\ StarOf(AsRead(k, s), ref) /\ SpellsTable(k, s.from[1], ref)
              /\ DOMAIN s.from = {1} /\ DOMAIN s.items = {1} /\ s.from[1] \in TablesOver(Written)
              /\ s.from[1].name = p.table /\ s.items[1].kind = "star"
<1>1. /\ s.from \in Seq(Refs(Written)) /\ s.items \in Seq(ItemsOver(Written))
      /\ DOMAIN s.from = 1..Len(s.from) /\ DOMAIN s.items = 1..Len(s.items)
      /\ \A i \in DOMAIN s.from : s.from[i] \in Refs(Written)
  BY QueryFields, StatementQueries
<1>2. /\ s.shape \in {"plain", "grouped", "union"} /\ IsSelectStar(s)
      /\ Len(s.from) = 1 /\ ~IsDerived(s.from[1]) /\ s.items = <<Star(Nameless)>>
  BY DEF PlanSingle, IsSelectStar
<1>3. DOMAIN s.from = {1} /\ s.from[1] \in TablesOver(Written)
  BY <1>1, <1>2, RefCases
<1>4. DOMAIN s.items = {1} /\ s.items[1].kind = "star" /\ s.items[1].of = Nameless
  BY <1>2 DEF Star
<1>5. s.natural = FALSE
  <2>1. s.natural \in BOOLEAN
    BY DEF StatementsOver, QueriesOver
  <2> QED
    BY <1>2, <2>1 DEF WellFormed
<1>6. PICK read \in StatementsOver(Written) : read = AsRead(k, s) /\ Spells(k, s, read)
  BY AsReadIs
<1>7. /\ DOMAIN read.from = {1} /\ DOMAIN read.items = {1} /\ read.natural = FALSE
      /\ SpellsTable(k, s.from[1], read.from[1]) /\ SpellsItem(k, s.items[1], read.items[1])
  BY <1>2, <1>3, <1>4, <1>5, <1>6 DEF Spells, SpellsList, SpellsRef
<1>8. read.from[1] \in TablesOver(Written)
  <2>1. read.from[1] \in Refs(Written)
    BY <1>7, QueryFields, StatementQueries
  <2> QED
    BY <1>7, <2>1, RefCases DEF SpellsTable
<1>9. read.items[1].kind = "star" /\ read.items[1].of = Nameless
  <2>1. Nameless \in Written
    BY <1>4, ItemFields, QueryFields, StatementQueries
  <2> QED
    BY <1>4, <1>7, <2>1, AsIs DEF SpellsItem
<1>10. StarOf(read, read.from[1])
  BY <1>7, <1>9 DEF StarOf
<1>11. /\ <<Home, p.table>> \in DOMAIN Catalog
       /\ ColumnsOf(p.table) = Catalog[<<Home, p.table>>].columns
       /\ p.key = Catalog[<<Home, p.table>>].key /\ p.key # << >> /\ s.from[1].name = p.table
  BY TableColumns DEF PlanSingle
<1> QED
  BY <1>2, <1>3, <1>4, <1>6, <1>7, <1>8, <1>10, <1>11

OneEntry(scope, ref, columns) ==
  DOMAIN scope = {1} /\ scope[1] = Entry(ref.alias, columns)

\* FROM is this table.
FromOne(query, ref) == DOMAIN query.from = {1} /\ query.from[1] = ref

LEMMA ScopeOfOne ==
  ASSUME NEW catalog, IsCatalog(catalog), NEW query, NEW ref \in TablesOver(Names),
         FromOne(query, ref), Exists(catalog, ref)
  PROVE  /\ Scope(catalog, query) \in Seq(Entries) /\ Scope(catalog, query) # << >>
         /\ OneEntry(Scope(catalog, query), ref, StoredColumns(catalog, ref))
         /\ StoredColumns(catalog, ref) \in Seq(Cells)
<1>1. StoredColumns(catalog, ref) \in Seq(Cells) /\ ref.alias \in Names /\ ~IsDerived(ref)
  BY StoredColumnsAre, TableFields
<1>2. PICK entry \in Entries : entry = Entry(ref.alias, StoredColumns(catalog, ref))
  BY <1>1 DEF Entry, Entries
<1>3. Exposes(catalog, ref) = StoredColumns(catalog, ref)
  BY <1>1 DEF Exposes
<1>4. Scope(catalog, query) = [i \in {1} |-> entry]
  BY <1>2, <1>3, ScopeEntries DEF Scope, Entry, FromOne
<1>5. [i \in {1} |-> entry] = <<entry>> /\ <<entry>> \in Seq(Entries)
  OBVIOUS
<1>6. <<entry>> # << >>
  OBVIOUS
<1> QED
  BY <1>1, <1>2, <1>4, <1>5, <1>6 DEF OneEntry

LEMMA AllOfOne ==
  ASSUME NEW scope \in Seq(Entries), NEW ref, NEW columns \in Seq(Cells),
         OneEntry(scope, ref, columns)
  PROVE  AllColumns(scope) = columns
<1>1. PICK pieces \in Seq(Seq(Cells)) : pieces = ColumnPieces(scope)
  BY AllColumnsHave
<1>2. DOMAIN pieces = {1} /\ pieces[1] = columns
  BY <1>1 DEF ColumnPieces, OneEntry, Entry
<1>3. OnlyAt(pieces, 1)
  BY <1>2 DEF OnlyAt
<1> QED
  BY <1>1, <1>2, <1>3, AllColumnsHave, FlattenOne

\* A bare star over one table returns its columns.
LEMMA StarReturns ==
  ASSUME NEW catalog, IsCatalog(catalog), NEW query \in StatementsOver(Names),
         NEW ref \in TablesOver(Names), StarOf(query, ref), Exists(catalog, ref)
  PROVE  /\ AllRun(query.natural, Scope(catalog, query), query.items)
         /\ Columns(query.natural, Scope(catalog, query), query.items)
              = StoredColumns(catalog, ref)
         /\ Output(catalog, query) = Listed(query.shape, StoredColumns(catalog, ref))
<1>1. PICK scope \in Seq(Entries) :
        /\ scope = Scope(catalog, query) /\ scope # << >>
        /\ OneEntry(scope, ref, StoredColumns(catalog, ref))
        /\ StoredColumns(catalog, ref) \in Seq(Cells)
  <2>1. FromOne(query, ref)
    BY DEF StarOf, FromOne
  <2> QED
    BY <2>1, ScopeOfOne
<1>2. Merged(FALSE, scope) = {}
  BY DEF Merged
<1>3. StarColumns(FALSE, scope) = StoredColumns(catalog, ref)
  BY <1>1, <1>2, StarUnmerged, AllOfOne
<1>4. AllRun(query.natural, scope, query.items)
  BY <1>1 DEF AllRun, ItemRuns, StarOf, OneEntry
<1>5. query.items \in Seq(ItemsOver(Names))
  BY StatementQueries, QueryFields
<1>6. PICK pieces \in Seq(Seq(Cells)) :
        /\ pieces = ItemPieces(query.natural, scope, query.items) /\ DOMAIN pieces = {1}
  <2>1. DOMAIN query.items = {1}
    BY DEF StarOf
  <2>2. /\ ItemPieces(query.natural, scope, query.items) \in Seq(Seq(Cells))
        /\ DOMAIN ItemPieces(query.natural, scope, query.items) = DOMAIN query.items
    BY <1>4, <1>5, ItemPiecesType
  <2> QED
    BY <2>1, <2>2
<1>7. pieces[1] = StoredColumns(catalog, ref)
  BY <1>3, <1>6, StarColumnsOf DEF ItemPieces, StarOf
<1>8. OnlyAt(pieces, 1)
  BY <1>6 DEF OnlyAt
<1>9. Columns(query.natural, scope, query.items) = StoredColumns(catalog, ref)
  BY <1>6, <1>7, <1>8, FlattenOne DEF Columns
<1>10. Output(catalog, query) = Listed(query.shape, StoredColumns(catalog, ref))
  BY <1>1, <1>4, <1>5, <1>9, ReturnedListed DEF Output, ItemsRun, AllRun
<1> QED
  BY <1>1, <1>4, <1>9, <1>10

\* The names of a list are among those of the table.
Lists(columns, names) == \A i \in DOMAIN names : names[i] \in ToSet(columns)

AsksList(query, table) == query.items = ListOf(table)

\* Such a list returns the columns it names.
LEMMA ListReturns ==
  ASSUME NEW catalog, IsCatalog(catalog), NEW query \in StatementsOver(Names),
         NEW ref \in TablesOver(Names), NEW table,
         FromOne(query, ref), Exists(catalog, ref), AsksList(query, table),
         Lists(catalog[<<ref.schema, ref.name>>].columns, ColumnsOf(table))
  PROVE  /\ AllRun(query.natural, Scope(catalog, query), query.items)
         /\ Columns(query.natural, Scope(catalog, query), query.items)
              = [i \in DOMAIN ColumnsOf(table) |-> Stored(ref, ColumnsOf(table)[i])]
         /\ Output(catalog, query)
              = Listed(query.shape,
                       [i \in DOMAIN ColumnsOf(table) |-> Stored(ref, ColumnsOf(table)[i])])
<1>1. PICK scope \in Seq(Entries) :
        /\ scope = Scope(catalog, query) /\ scope # << >>
        /\ OneEntry(scope, ref, StoredColumns(catalog, ref))
        /\ StoredColumns(catalog, ref) \in Seq(Cells)
  BY ScopeOfOne
<1>2. PICK columns \in Seq(Names) : /\ columns = catalog[<<ref.schema, ref.name>>].columns
                                    /\ IsInjective(columns)
  BY CatalogColumns DEF Exists
<1>3. /\ DOMAIN scope[1].columns = DOMAIN columns
      /\ \A i \in DOMAIN columns : scope[1].columns[i] = Stored(ref, columns[i])
  <2>1. scope[1].columns = StoredColumns(catalog, ref)
    BY <1>1 DEF OneEntry, Entry
  <2>2. /\ DOMAIN StoredColumns(catalog, ref) = DOMAIN columns
        /\ \A i \in DOMAIN columns : StoredColumns(catalog, ref)[i] = Stored(ref, columns[i])
    <3>1. /\ DOMAIN StoredColumns(catalog, ref)
               = DOMAIN catalog[<<ref.schema, ref.name>>].columns
          /\ \A i \in DOMAIN catalog[<<ref.schema, ref.name>>].columns :
               StoredColumns(catalog, ref)[i]
                 = Stored(ref, catalog[<<ref.schema, ref.name>>].columns[i])
      BY StoredColumnsAre
    <3> QED
      BY <1>2, <3>1
  <2> QED
    BY <2>1, <2>2
<1>13. \A c : Stored(ref, c).name = c
  BY DEF Stored
<1>4. /\ DOMAIN ListOf(table) = DOMAIN ColumnsOf(table)
      /\ ListOf(table) \in Seq(ItemsOver(Names))
      /\ \A i \in DOMAIN ColumnsOf(table) :
           /\ ListOf(table)[i].kind = "column" /\ ListOf(table)[i].of = Nameless
           /\ ListOf(table)[i].name = ColumnsOf(table)[i] /\ ListOf(table)[i].as = Nameless
  BY ListOfType, SequencesWiden, UsersItems
<1>5. ASSUME NEW i \in DOMAIN ColumnsOf(table)
      PROVE  /\ ItemRuns(query.natural, scope, ListOf(table)[i])
             /\ ItemColumns(query.natural, scope, ListOf(table)[i])
                  = <<Stored(ref, ColumnsOf(table)[i])>>
  <2>1. PICK item : /\ item = ListOf(table)[i] /\ item.kind = "column" /\ item.of = Nameless
                    /\ item.name = ColumnsOf(table)[i] /\ item.as = Nameless
    BY <1>4
  <2>2. PICK j \in DOMAIN columns : columns[j] = item.name
    BY <1>2, <2>1 DEF Lists, ToSet
  <2>3. \A p : p \in Named(scope, item) => p = <<1, j>>
    <3>1. TAKE p
    <3>2. HAVE p \in Named(scope, item)
    <3>3. PICK l \in DOMAIN columns : p = <<1, l>> /\ scope[1].columns[l].name = item.name
      BY <1>1, <1>3, <3>2, NamedIs DEF OneEntry
    <3>4. columns[l] = item.name
      BY <1>3, <1>13, <3>3
    <3> QED
      BY <1>2, <2>2, <3>3, <3>4 DEF IsInjective
  <2>4. <<1, j>> \in Named(scope, item)
    <3>1. 1 \in DOMAIN scope /\ j \in DOMAIN scope[1].columns
          /\ scope[1].columns[j].name = item.name
      BY <1>1, <1>3, <1>13, <2>2 DEF OneEntry
    <3> QED
      BY <2>1, <3>1, NamedIs
  <2>5. Named(scope, item) = {<<1, j>>}
    BY <2>3, <2>4
  <2>6. ItemRuns(query.natural, scope, item)
    <3>1. Cardinality(Named(scope, item)) = 1
      BY <2>5, NamedOnce
    <3> QED
      BY <2>1, <3>1 DEF ItemRuns
  <2>7. PICK a \in DOMAIN scope : \E b \in DOMAIN scope[a].columns :
          /\ <<a, b>> \in Named(scope, item)
          /\ ItemColumns(query.natural, scope, item) = <<Renamed(scope[a].columns[b], item.as)>>
    <3>1. Named(scope, item) # {}
      BY <2>4
    <3>2. item.kind = "column"
      BY <2>1
    <3>3. scope \in Seq(Entries)
      BY <1>1
    <3> QED
      BY <3>1, <3>2, <3>3, ColumnTaken
  <2>8. ItemColumns(query.natural, scope, item) = <<Renamed(scope[1].columns[j], item.as)>>
    BY <2>3, <2>7
  <2>9. Renamed(scope[1].columns[j], item.as) = Stored(ref, ColumnsOf(table)[i])
    BY <1>3, <2>1, <2>2 DEF Renamed, Stored
  <2> QED
    BY <2>1, <2>6, <2>8, <2>9
<1>6. AllRun(query.natural, scope, query.items)
  BY <1>4, <1>5 DEF AllRun, AsksList
<1>7. PICK pieces \in Seq(Seq(Cells)) :
        /\ pieces = ItemPieces(query.natural, scope, query.items)
        /\ DOMAIN pieces = DOMAIN ColumnsOf(table)
  <2>1. query.items \in Seq(ItemsOver(Names)) /\ DOMAIN query.items = DOMAIN ColumnsOf(table)
    BY <1>4 DEF AsksList
  <2>2. /\ ItemPieces(query.natural, scope, query.items) \in Seq(Seq(Cells))
        /\ DOMAIN ItemPieces(query.natural, scope, query.items) = DOMAIN query.items
    <3>1. scope \in Seq(Entries) /\ scope # << >>
      BY <1>1
    <3> QED
      BY <1>6, <2>1, <3>1, ItemPiecesType
  <2> QED
    BY <2>1, <2>2
<1>8. PICK listed \in Seq(Cells) :
        listed = [i \in DOMAIN ColumnsOf(table) |-> Stored(ref, ColumnsOf(table)[i])]
  <2>1. PICK n \in Nat : DOMAIN ColumnsOf(table) = 1..n
    BY TableColumns, LenProperties
  <2>2. \A i \in 1..n : ColumnsOf(table)[i] \in Names
    BY <2>1, TableColumns, ElementOfSeq, LenProperties
  <2>3. \A i \in 1..n : Stored(ref, ColumnsOf(table)[i]) \in Cells
    BY <2>2, StoredType
  <2>4. [i \in 1..n |-> Stored(ref, ColumnsOf(table)[i])] \in Seq(Cells)
    BY <2>3
  <2> QED
    BY <2>1, <2>4
<1>9. Singles(pieces, listed)
  <2>1. Len(pieces) = Len(listed)
    <3>1. PICK n \in Nat : n = Len(pieces) /\ DOMAIN pieces = 1..n
      BY LenProperties
    <3>2. PICK m \in Nat : m = Len(listed) /\ DOMAIN listed = 1..m
      BY LenProperties
    <3>3. 1..n = 1..m
      BY <1>7, <1>8, <3>1, <3>2
    <3> QED
      BY <3>1, <3>2, <3>3
  <2>2. \A i \in DOMAIN listed : pieces[i] = <<listed[i]>>
    BY <1>4, <1>5, <1>7, <1>8 DEF ItemPieces, AsksList
  <2> QED
    BY <2>1, <2>2 DEF Singles
<1>10. Columns(query.natural, scope, query.items) = listed
  BY <1>7, <1>9, FlattenSingles DEF Columns
<1>11. query.items \in Seq(ItemsOver(Names))
  BY <1>4 DEF AsksList
<1>12. Output(catalog, query) = Listed(query.shape, listed)
  BY <1>1, <1>6, <1>10, <1>11, ReturnedListed DEF Output, ItemsRun, AllRun
<1> QED
  BY <1>1, <1>6, <1>8, <1>10, <1>12

----------------------------------------------------------------------------
(* Which rows there are *)

\* A list written out instead of a star returns what the star does, and runs.
LEMMA ListSame ==
  ASSUME NEW k \in Dialects, NEW s \in StatementsOver(Written), WellFormed(s),
         NEW p, PlanSingle(k, s, p), ~HasNamesake(k, s)
  PROVE  /\ Output(Catalog, p.rewritten) = Output(Catalog, AsRead(k, s))
         /\ Runs(Catalog, AsRead(k, s)) => Runs(Catalog, p.rewritten)
<1>1. CASE ~p.cuts
  <2>1. p.rewritten = AsRead(k, s)
    BY <1>1 DEF PlanSingle
  <2> QED
    BY <2>1
<1>2. CASE p.cuts
  <2>1. PICK read \in StatementsOver(Names) : read = AsRead(k, s)
    <3>1. AsRead(k, s) \in StatementsOver(Written)
      BY AsReadIs
    <3>2. AsRead(k, s) \in StatementsOver(Names)
      BY <3>1, SpelledStatements
    <3> QED
      BY <3>2
  <2>2. PICK other \in StatementsOver(Names) :
          /\ other = RewrittenSelect(k, s, p.table)
          /\ other.from = read.from /\ other.items = ListOf(p.table)
          /\ other.shape = read.shape /\ other.width = read.width
          /\ other.natural = read.natural /\ other.outer = read.outer
    <3>1. /\ RewrittenSelect(k, s, p.table) \in StatementsOver(UsersNames)
          /\ RewrittenSelect(k, s, p.table).from = read.from
          /\ RewrittenSelect(k, s, p.table).items = ListOf(p.table)
          /\ RewrittenSelect(k, s, p.table).shape = read.shape
          /\ RewrittenSelect(k, s, p.table).width = read.width
          /\ RewrittenSelect(k, s, p.table).natural = read.natural
          /\ RewrittenSelect(k, s, p.table).outer = read.outer
      BY <2>1, RewrittenSelectIs
    <3>2. UsersNames \subseteq Names
      BY DEF UsersNames
    <3>3. RewrittenSelect(k, s, p.table) \in StatementsOver(Names)
      BY <3>1, <3>2, StatementsWiden
    <3> QED
      BY <3>1, <3>3
  <2>3. p.rewritten = other
    BY <1>2, <2>2 DEF PlanSingle
  <2>4. PICK ref \in TablesOver(Names) :
          /\ StarOf(read, ref) /\ SpellsTable(k, s.from[1], ref)
          /\ 1 \in DOMAIN s.from /\ ~IsDerived(s.from[1]) /\ s.from[1].name = p.table
          /\ <<Home, p.table>> \in DOMAIN Catalog
          /\ ColumnsOf(p.table) = Catalog[<<Home, p.table>>].columns
    <3>1. /\ <<Home, p.table>> \in DOMAIN Catalog
          /\ ColumnsOf(p.table) = Catalog[<<Home, p.table>>].columns
          /\ \E ref \in TablesOver(Written) :
               /\ StarOf(AsRead(k, s), ref) /\ SpellsTable(k, s.from[1], ref)
               /\ DOMAIN s.from = {1} /\ s.from[1] \in TablesOver(Written)
               /\ s.from[1].name = p.table
      BY SinglePlanIs
    <3>2. PICK ref \in TablesOver(Written) :
               /\ StarOf(AsRead(k, s), ref) /\ SpellsTable(k, s.from[1], ref)
               /\ DOMAIN s.from = {1} /\ s.from[1] \in TablesOver(Written)
               /\ s.from[1].name = p.table
      BY <3>1
    <3>3. ref \in TablesOver(Names)
      <4>1. Written \subseteq Names
        BY DEF Written, UsersNames
      <4> QED
        BY <4>1 DEF TablesOver
    <3>4. ~IsDerived(s.from[1])
      BY <3>2, TableFields
    <3> QED
      BY <2>1, <3>1, <3>2, <3>3, <3>4
  <2>5. <<ref.schema, ref.name>> = <<Home, p.table>>
    <3>1. ~IsNamesake(s.from[1], read.from[1])
      BY <2>1, <2>4 DEF HasNamesake
    <3>2. read.from[1] = ref
      BY <2>4 DEF StarOf
    <3> QED
      BY <2>4, <3>1, <3>2 DEF IsNamesake
  <2>6. IsCatalog(Catalog)
    BY CatalogAssumption
  <2>7. Exists(Catalog, ref)
    BY <2>4, <2>5 DEF Exists
  <2>8. /\ AllRun(read.natural, Scope(Catalog, read), read.items)
        /\ Output(Catalog, read) = Listed(read.shape, StoredColumns(Catalog, ref))
    <3>1. StarOf(read, ref)
      BY <2>4
    <3> QED
      BY <2>6, <2>7, <3>1, StarReturns
  <2>9. /\ AllRun(other.natural, Scope(Catalog, other), other.items)
        /\ Output(Catalog, other)
             = Listed(other.shape, [i \in DOMAIN ColumnsOf(p.table) |->
                                      Stored(ref, ColumnsOf(p.table)[i])])
    <3>1. FromOne(other, ref)
      BY <2>2, <2>4 DEF StarOf, FromOne
    <3>2. AsksList(other, p.table)
      BY <2>2 DEF AsksList
    <3>3. Lists(Catalog[<<ref.schema, ref.name>>].columns, ColumnsOf(p.table))
      BY <2>4, <2>5 DEF Lists, ToSet
    <3> QED
      BY <2>6, <2>7, <3>1, <3>2, <3>3, ListReturns
  <2>10. StoredColumns(Catalog, ref)
           = [i \in DOMAIN ColumnsOf(p.table) |-> Stored(ref, ColumnsOf(p.table)[i])]
    BY <2>4, <2>5 DEF StoredColumns, Stored
  <2>11. Output(Catalog, other) = Output(Catalog, read)
    BY <2>2, <2>8, <2>9, <2>10
  <2>12. Runs(Catalog, read) => Runs(Catalog, other)
    BY <2>2, <2>9, <2>11 DEF Runs, ListRuns, AllRun, Output
  <2> QED
    BY <2>1, <2>3, <2>11, <2>12
<1> QED
  BY <1>1, <1>2

\* An origin with a path is a traced column's.
LEMMA PathIsTraced ==
  ASSUME NEW k \in Dialects, NEW s \in StatementsOver(Names), NEW shapes,
         Understands(s, shapes),
         NEW i \in DOMAIN VisibleOrigins(k, s), VisibleOrigins(k, s)[i].via # << >>
  PROVE  \E m \in DOMAIN s.items :
           /\ s.items[m].kind = "column"
           /\ Traces(s.from, s.items[m], VisibleOrigins(k, s)[i])
<1>1. PICK pieces \in Seq(Seq(Origins)) :
        /\ pieces = OriginPieces(k, s) /\ DOMAIN pieces = DOMAIN s.items
        /\ VisibleOrigins(k, s) = FlattenSeq(pieces)
  BY OriginPiecesType
<1>2. PICK m \in DOMAIN pieces : \E j \in DOMAIN pieces[m] :
        VisibleOrigins(k, s)[i] = pieces[m][j]
  BY <1>1, FlattenElements
<1>3. PICK j \in DOMAIN pieces[m] : VisibleOrigins(k, s)[i] = pieces[m][j]
  BY <1>2
<1>4. /\ s.from \in Seq(Refs(Names)) /\ s.items[m] \in ItemsOver(Names)
      /\ m \in DOMAIN s.items
  BY <1>1, <1>2, StatementQueries, QueryFields
<1>5. s.items[m].kind = "star" => ExpandsWildcard(s.from, s.items[m])
  BY <1>4 DEF Understands
<1>6. pieces[m] = ItemOrigins(k, s.from, s.items[m])
  BY <1>1, <1>4 DEF OriginPieces
<1>7. CASE s.items[m].kind = "star"
  <2>1. PICK tables \in Seq(Names) : tables = WildcardNames(s.from, s.items[m])
    BY <1>4, <1>5, <1>7, WildcardTables
  <2>2. pieces[m] = ExpandWildcardOrigins(tables)
    BY <1>4, <1>5, <1>6, <1>7, <2>1, ItemOriginsType
  <2>3. \E l \in DOMAIN tables :
          BlockOrigin(pieces[m][j], tables[l], Before(ColumnLists(tables), l))
    BY <1>3, <2>2, ExpandsTo
  <2>4. pieces[m][j].via = << >>
    BY <2>3 DEF BlockOrigin, NoOrigin, Origin
  <2> QED
    BY <1>3, <2>4
<1>8. CASE s.items[m].kind # "star"
  <2>1. pieces[m] = <<ItemOrigin(k, s.from, s.items[m])>>
    BY <1>4, <1>5, <1>6, <1>8, ItemOriginsType
  <2>2. pieces[m][j] = ItemOrigin(k, s.from, s.items[m])
    BY <1>3, <2>1
  <2>3. ItemOrigin(k, s.from, s.items[m]) # NoOrigin
    BY <1>3, <2>2 DEF NoOrigin
  <2> QED
    BY <1>3, <1>4, <2>2, <2>3, ItemOriginIs
<1> QED
  BY <1>7, <1>8

\* The aliases of the statement and of what the target reads go together.
LEMMA AliasesSpelled ==
  ASSUME NEW k, NEW s \in StatementsOver(Written), OwnAliases(AsRead(k, s).from),
         NEW i \in DOMAIN s.from, NEW j \in DOMAIN s.from,
         As(k, s.from[i].alias) = As(k, s.from[j].alias)
  PROVE  i = j
<1>1. PICK read : read = AsRead(k, s) /\ Spells(k, s, read)
  BY AsReadIs
<1>2. /\ DOMAIN read.from = DOMAIN s.from
      /\ \A l \in DOMAIN s.from : read.from[l].alias = As(k, s.from[l].alias)
  BY <1>1 DEF Spells, SpellsList, SpellsRef
<1>3. read.from[i].alias = read.from[j].alias
  BY <1>2
<1> QED
  BY <1>1, <1>2, <1>3 DEF OwnAliases, IsInjective

\* No carrier is put into a derived table that decides which rows there are.
LEMMA NothingWithin ==
  ASSUME NEW k \in Dialects, NEW s \in StatementsOver(Written), NEW p, PlanJoin(k, s, p),
         OwnAliases(AsRead(k, s).from), NEW i \in DOMAIN s.from,
         IsDerived(s.from[i]) /\ s.from[i].query.shape # "plain"
  PROVE  p.rewritten.from[i] = AsRead(k, s).from[i]
<1>1. PICK origins \in Seq(Origins) : \E needs \in Seq(Needs) :
        /\ origins = VisibleOrigins(k, s) /\ needs = Needed(origins)
        /\ p.rewritten = GrownQuery(AsRead(k, s), InnerOf(s, needs), Carriers(needs))
  BY JoinPlanIs
<1>2. PICK needs \in Seq(Needs) :
        /\ origins = VisibleOrigins(k, s) /\ needs = Needed(origins)
        /\ p.rewritten = GrownQuery(AsRead(k, s), InnerOf(s, needs), Carriers(needs))
  BY <1>1
<1>3. s \in StatementsOver(Names) /\ Understands(s, JoinShapes(k))
  BY SpelledStatements DEF PlanJoin
<1>4. ASSUME NEW n \in DOMAIN needs, Len(needs[n].via) = 2,
             needs[n].via[1] = s.from[i].alias
      PROVE  FALSE
  <2>1. PICK l \in DOMAIN origins : needs[n] = origins[l] /\ needs[n].via # << >>
    BY <1>2, NeededIs
  <2>2. PICK m \in DOMAIN s.items : Traces(s.from, s.items[m], needs[n])
    BY <1>2, <1>3, <2>1, PathIsTraced
  <2>3. PICK a \in DOMAIN s.from : TracesAt(s.from, s.items[m], needs[n], a)
    BY <2>2 DEF Traces
  <2>4. IsDerived(s.from[a])
    <3>1. ~IsDerived(s.from[a]) => needs[n].via = <<s.from[a].alias>>
      BY <2>3 DEF TracesAt, TracedTo, Origin
    <3>2. Len(<<s.from[a].alias>>) = 1
      OBVIOUS
    <3>3. needs[n].via = <<s.from[a].alias>> => Len(needs[n].via) = 1
      BY <3>2
    <3>4. Len(needs[n].via) # 1
      BY <1>4
    <3> QED
      BY <3>1, <3>3, <3>4
  <2>5. PICK j \in DOMAIN s.from[a].query.from :
          /\ ResolvesAt(s.from[a].query, s.items[m].name, j)
          /\ needs[n].via = <<s.from[a].alias, s.from[a].query.from[j].alias>>
    BY <2>3, <2>4 DEF TracesAt, TracedTo, Origin
  <2>6. s.from[a].alias = s.from[i].alias
    BY <1>4, <2>5
  <2>7. a = i
    BY <2>6, AliasesSpelled
  <2> QED
    BY <2>5, <2>7 DEF ResolvesAt
<1>5. CarriersWithin(s.from[i].alias, needs) = << >>
  BY <1>4, CarriersWithinAre
<1>6. PICK read \in StatementsOver(UsersNames) : /\ read = AsRead(k, s) /\ Spells(k, s, read)
  <2>1. AsRead(k, s) \in StatementsOver(UsersNames)
    BY AsReadIs, SpelledStatements
  <2> QED
    BY <2>1, AsReadIs
<1>7. PICK inner : inner = InnerOf(s, needs)
  OBVIOUS
<1>8. PICK more \in Seq(ItemsOver(Names)) : more = Carriers(needs)
  BY InjectIs
<1>9. Inserts(read, inner)
  BY <1>6, <1>7, InjectIs
<1>10. i \in DOMAIN read.from
  BY <1>6 DEF Spells, SpellsList
<1>11. p.rewritten.from[i] = GrownRef(read.from[i], inner[i])
  BY <1>2, <1>6, <1>7, <1>8, <1>9, <1>10, GrownQueryIs
<1>12. inner[i] = << >>
  BY <1>5, <1>7 DEF InnerOf
<1>13. read.from[i] \in Refs(UsersNames)
  BY <1>10, StatementQueries, QueryFields
<1>14. GrownRef(read.from[i], << >>) = read.from[i]
  <2>1. CASE ~IsDerived(read.from[i])
    BY <2>1 DEF GrownRef
  <2>2. CASE IsDerived(read.from[i])
    <3>1. read.from[i] \in DerivedOver(UsersNames)
      BY <1>13, <2>2, RefCases
    <3>2. PICK query \in InnerQueries(UsersNames) :
            query = read.from[i].query /\ read.from[i] = Derived(read.from[i].alias, query)
      BY <3>1, DerivedFields
    <3>3. query.items \in Seq(ItemsOver(UsersNames))
      BY QueryFields DEF InnerQueries
    <3>4. query.items \o << >> = query.items
      BY <3>3, ConcatEmptySeq
    <3>5. Adding(query, << >>) = query
      BY <3>4 DEF Adding, InnerQueries, QueriesOver
    <3> QED
      BY <2>2, <3>2, <3>5 DEF GrownRef
  <2> QED
    BY <2>1, <2>2
<1> QED
  BY <1>6, <1>11, <1>12, <1>14

\* RowsKept, in a state of the invariant.
LEMMA Kept == Inv => RowsKept
<1> SUFFICES ASSUME Inv, plan # NoPlan, ~UnionMissed(kind, stmt)
             PROVE  LET asked == AsRead(kind, stmt)
                    IN  /\ stmt.shape \in {"distinct", "union"} => plan.rewritten = asked
                        /\ (stmt.shape = "grouped" /\ ~HasNamesake(kind, stmt)) =>
                             Output(Catalog, plan.rewritten) = Output(Catalog, asked)
                        /\ OwnAliases(asked.from) =>
                             \A i \in DOMAIN asked.from :
                               (IsDerived(asked.from[i]) /\ asked.from[i].query.shape # "plain")
                                 => plan.rewritten.from[i] = asked.from[i]
  BY DEF RowsKept
<1>1. /\ kind \in Dialects /\ stmt \in StatementsOver(Written) /\ WellFormed(stmt)
      /\ plan = PrepareRead(kind, stmt)
  BY ReadsAre DEF Inv
<1>2. \/ PlanSingle(kind, stmt, plan) \/ PlanJoin(kind, stmt, plan)
      \/ PlanPlain(kind, stmt, plan)
  BY <1>1, PlanIs
<1>3. PICK asked : asked = AsRead(kind, stmt) /\ Spells(kind, stmt, asked)
  BY <1>1, AsReadIs
<1>4. stmt.shape \in {"distinct", "union"} => plan.rewritten = asked
  <2>1. stmt.shape \in {"distinct", "union"} => ~PlanSingle(kind, stmt, plan)
    BY DEF PlanSingle, IsSelectStar, UnionMissed
  <2>2. stmt.shape \in {"distinct", "union"} => ~PlanJoin(kind, stmt, plan)
    BY DEF PlanJoin, Understands, JoinShapes, UnionMissed
  <2> QED
    BY <1>2, <1>3, <2>1, <2>2 DEF PlanPlain
<1>5. (stmt.shape = "grouped" /\ ~HasNamesake(kind, stmt)) =>
        Output(Catalog, plan.rewritten) = Output(Catalog, asked)
  <2>1. stmt.shape = "grouped" => ~PlanJoin(kind, stmt, plan)
    BY DEF PlanJoin, Understands, JoinShapes
  <2>2. CASE PlanSingle(kind, stmt, plan)
    BY <1>1, <1>3, <2>2, ListSame
  <2>3. CASE PlanPlain(kind, stmt, plan)
    BY <1>3, <2>3 DEF PlanPlain
  <2> QED
    BY <1>2, <2>1, <2>2, <2>3
<1>6. ASSUME OwnAliases(asked.from), NEW i \in DOMAIN asked.from,
             IsDerived(asked.from[i]) /\ asked.from[i].query.shape # "plain"
      PROVE  plan.rewritten.from[i] = asked.from[i]
  <2>1. CASE PlanSingle(kind, stmt, plan)
    <3>1. RewrittenSelect(kind, stmt, plan.table).from = asked.from
      BY <1>1, <1>3, RewrittenSelectIs
    <3>2. plan.rewritten \in {asked, RewrittenSelect(kind, stmt, plan.table)}
      BY <1>3, <2>1 DEF PlanSingle
    <3> QED
      BY <3>1, <3>2
  <2>2. CASE PlanJoin(kind, stmt, plan)
    <3>1. i \in DOMAIN stmt.from /\ IsDerived(stmt.from[i])
          /\ stmt.from[i].query.shape # "plain"
      BY <1>3, <1>6 DEF Spells, SpellsList, SpellsRef, SpellsInner
    <3>2. OwnAliases(AsRead(kind, stmt).from)
      BY <1>3, <1>6
    <3>3. plan.rewritten.from[i] = AsRead(kind, stmt).from[i]
      BY <1>1, <2>2, <3>1, <3>2, NothingWithin
    <3> QED
      BY <1>3, <3>3
  <2>3. CASE PlanPlain(kind, stmt, plan)
    BY <1>3, <2>3 DEF PlanPlain
  <2> QED
    BY <1>2, <2>1, <2>2, <2>3
<1> QED
  BY <1>3, <1>4, <1>5, <1>6

\* Where DISTINCT, GROUP BY or UNION decide which rows there are, the rewriting
\* (RewriteSelectStar, InjectHiddenPKs) adds no column to the list: the statement
\* that is sent is the user's, or returns what it returns.  Of any catalog and
\* any statement but for unions that are missed and namesakes.
THEOREM RowsAreKept == Spec => []RowsKept
<1> QED
  BY Invariance, Kept, PTL

----------------------------------------------------------------------------
(* The join path: what the rewritten statement returns *)

\* Which entries of FROM a wildcard stands for, when aliases are not shared.
LEMMA WildcardOver ==
  ASSUME NEW k, NEW s \in StatementsOver(Written), OwnAliases(AsRead(k, s).from),
         NEW item, ExpandsWildcard(s.from, item)
  PROVE  /\ WildcardNames(s.from, item) \in Seq(Names)
         /\ \A j \in DOMAIN WildcardNames(s.from, item) :
              ColumnsOf(WildcardNames(s.from, item)[j]) # << >>
         /\ item.of = Nameless =>
              /\ DOMAIN WildcardNames(s.from, item) = DOMAIN s.from
              /\ \A j \in DOMAIN s.from :
                   /\ ~IsDerived(s.from[j])
                   /\ WildcardNames(s.from, item)[j] = s.from[j].name
         /\ item.of # Nameless =>
              /\ DOMAIN WildcardNames(s.from, item) = {1}
              /\ \E i \in DOMAIN s.from :
                   /\ ~IsDerived(s.from[i]) /\ s.from[i].alias = item.of
                   /\ WildcardNames(s.from, item)[1] = s.from[i].name
<1>1. s.from \in Seq(Refs(Names)) /\ s.from \in Seq(Refs(Written))
  BY SpelledStatements, StatementQueries, QueryFields
<1>2. PICK names \in Seq(Names) :
        /\ names = WildcardNames(s.from, item)
        /\ item.of # Nameless => Len(names) = 1
        /\ item.of = Nameless => Len(names) = Len(s.from)
        /\ \A j \in DOMAIN names : /\ ColumnsOf(names[j]) # << >>
                                   /\ \E i \in DOMAIN s.from : StandsFor(s.from, item, j, i)
  BY <1>1, WildcardTables
<1>3. CASE item.of = Nameless
  <2>1. DOMAIN names = DOMAIN s.from
    BY <1>1, <1>2, <1>3, LenProperties
  <2>2. ASSUME NEW j \in DOMAIN s.from
        PROVE  ~IsDerived(s.from[j]) /\ names[j] = s.from[j].name
    <3>1. PICK i \in DOMAIN s.from : StandsFor(s.from, item, j, i)
      BY <1>2, <2>1
    <3>2. s.from[i].alias = s.from[j].alias
      BY <1>3, <3>1 DEF StandsFor
    <3>3. i = j
      BY <3>2, AliasesSpelled
    <3> QED
      BY <1>2, <3>1, <3>3 DEF StandsFor
  <2> QED
    BY <1>2, <1>3, <2>1, <2>2
<1>4. CASE item.of # Nameless
  <2>1. DOMAIN names = {1}
    <3>1. Len(names) = 1 /\ DOMAIN names = 1..Len(names)
      BY <1>2, <1>4, LenProperties
    <3> QED
      BY <3>1
  <2>2. PICK i \in DOMAIN s.from : StandsFor(s.from, item, 1, i)
    BY <1>2, <2>1
  <2> QED
    BY <1>2, <1>4, <2>1, <2>2 DEF StandsFor
<1> QED
  BY <1>3, <1>4

\* What the query rests on runs.
Reading(catalog, query) ==
  /\ FromRuns(catalog, query) /\ OwnAliases(query.from)
  /\ Scope(catalog, query) \in Seq(Entries) /\ Scope(catalog, query) # << >>
  /\ AllRun(query.natural, Scope(catalog, query), query.items)
  /\ Output(catalog, query)
       = Listed(query.shape, Columns(query.natural, Scope(catalog, query), query.items))

\* A wildcard that is counted is over tables.
LEMMA StarsCounted ==
  ASSUME NEW k \in Dialects, NEW s \in StatementsOver(Written),
         Understands(s, JoinShapes(k)), NEW read, read = AsRead(k, s),
         OwnAliases(read.from)
  PROVE  StarsOverTables(read)
<1>1. /\ Spells(k, s, read) /\ OwnAliases(AsRead(k, s).from)
  BY AsReadIs
<1>2. ASSUME NEW i \in DOMAIN read.items, read.items[i].kind = "star"
      PROVE  IF read.items[i].of = Nameless
             THEN \A j \in DOMAIN read.from : ~IsDerived(read.from[j])
             ELSE \E j \in DOMAIN read.from : /\ ~IsDerived(read.from[j])
                                              /\ read.from[j].alias = read.items[i].of
  <2>1. /\ i \in DOMAIN s.items /\ s.items[i].kind = "star"
        /\ read.items[i].of = As(k, s.items[i].of)
    BY <1>1, <1>2 DEF Spells, SpellsList, SpellsItem
  <2>2. s.items[i].of \in Written
    BY <2>1, StatementQueries, QueryFields, ItemFields
  <2>3. ExpandsWildcard(s.from, s.items[i])
    BY <2>1 DEF Understands
  <2>4. /\ s.items[i].of = Nameless => \A j \in DOMAIN s.from : ~IsDerived(s.from[j])
        /\ s.items[i].of # Nameless =>
             \E j \in DOMAIN s.from : ~IsDerived(s.from[j]) /\ s.from[j].alias = s.items[i].of
    BY <1>1, <2>3, WildcardOver
  <2>5. /\ DOMAIN read.from = DOMAIN s.from
        /\ \A j \in DOMAIN s.from : /\ read.from[j].alias = As(k, s.from[j].alias)
                                    /\ IsDerived(read.from[j]) <=> IsDerived(s.from[j])
    BY <1>1 DEF Spells, SpellsList, SpellsRef
  <2>6. read.items[i].of = Nameless <=> s.items[i].of = Nameless
    BY <2>1, <2>2, AsIs
  <2>7. CASE read.items[i].of = Nameless
    <3>1. \A j \in DOMAIN read.from : ~IsDerived(read.from[j])
      BY <2>4, <2>5, <2>6, <2>7, Zenon
    <3> QED
      BY <2>7, <3>1
  <2>8. CASE read.items[i].of # Nameless
    <3>1. PICK j \in DOMAIN s.from : ~IsDerived(s.from[j]) /\ s.from[j].alias = s.items[i].of
      BY <2>4, <2>6, <2>8
    <3>2. /\ j \in DOMAIN read.from /\ ~IsDerived(read.from[j])
          /\ read.from[j].alias = read.items[i].of
      BY <2>1, <2>5, <3>1, Zenon
    <3> QED
      BY <2>8, <3>2
  <2> QED
    BY <2>7, <2>8
<1> QED
  BY <1>2 DEF StarsOverTables

LEMMA NoUnionRead ==
  ASSUME NEW k \in Dialects, NEW s \in StatementsOver(Written),
         Understands(s, JoinShapes(k)), NEW read, read = AsRead(k, s)
  PROVE  NoUnionInside(read) /\ read.from # << >>
<1>1. Spells(k, s, read)
  BY AsReadIs
<1>2. /\ DOMAIN read.from = DOMAIN s.from
      /\ \A j \in DOMAIN s.from :
           /\ IsDerived(read.from[j]) <=> IsDerived(s.from[j])
           /\ IsDerived(s.from[j]) => read.from[j].query.shape = s.from[j].query.shape
  BY <1>1 DEF Spells, SpellsList, SpellsRef, SpellsInner
<1>3. NoUnionInside(read)
  BY <1>2 DEF NoUnionInside, Understands, CollectsTables
<1>4. PICK from \in Seq(Refs(Written)) : from = s.from /\ from # << >>
  BY StatementQueries, QueryFields DEF Understands, CollectsTables
<1>5. 1 \in DOMAIN from
  BY <1>4, EmptySeq, LenProperties
<1>6. DOMAIN read.from # {}
  BY <1>2, <1>4, <1>5
<1>7. read.from # << >>
  BY <1>6
<1> QED
  BY <1>3, <1>7

\* The statement the target reads returns what it would, and the carriers behind.
LEMMA JoinReturns ==
  ASSUME NEW k \in Dialects, NEW s \in StatementsOver(Written), NEW p, PlanJoin(k, s, p),
         NEW catalog, IsCatalog(catalog), Runs(catalog, p.rewritten),
         NEW read, read = AsRead(k, s),
         NEW needs \in Seq(Needs), needs = Needed(VisibleOrigins(k, s))
  PROVE  /\ Reading(catalog, read)
         /\ AllRun(read.natural, Scope(catalog, p.rewritten), Carriers(needs))
         /\ Consists(Output(catalog, p.rewritten), Output(catalog, read),
                     Listed(read.shape, Columns(read.natural, Scope(catalog, p.rewritten),
                                                Carriers(needs))))
         /\ Output(catalog, read) \in Seq(Cells)
<1>1. PICK query \in StatementsOver(UsersNames) : query = read
  BY AsReadIs, SpelledStatements
<1>2. PICK inner : inner = InnerOf(s, needs)
  OBVIOUS
<1>3. PICK more \in Seq(ItemsOver(Names)) : more = Carriers(needs)
  BY InjectIs
<1>4. Inserts(query, inner)
  BY <1>1, <1>2, InjectIs
<1>5. PICK other : other = p.rewritten /\ other = GrownQuery(query, inner, more)
  <2>1. p.rewritten = Inject(s, AsRead(k, s), needs)
    BY DEF PlanJoin
  <2> QED
    BY <1>1, <1>2, <1>3, <2>1, InjectIs
<1>6. Runs(catalog, other)
  BY <1>5
<1>7. NoUnionInside(query) /\ query.from # << >>
  BY <1>1, NoUnionRead DEF PlanJoin
<1>8. /\ FromRuns(catalog, query) /\ OwnAliases(query.from)
      /\ Scope(catalog, query) \in Seq(Entries)
  BY <1>4, <1>5, <1>6, <1>7, QueryGrown
<1>9. StarsOverTables(query)
  BY <1>1, <1>8, StarsCounted DEF PlanJoin
<1>10. /\ AllRun(query.natural, Scope(catalog, query), query.items)
       /\ AllRun(query.natural, Scope(catalog, other), more)
       /\ Output(catalog, query)
            = Listed(query.shape, Columns(query.natural, Scope(catalog, query), query.items))
       /\ Consists(Output(catalog, other), Output(catalog, query),
                   Listed(query.shape, Columns(query.natural, Scope(catalog, other), more)))
  BY <1>4, <1>5, <1>6, <1>7, <1>9, OutputGrown
<1>11. Scope(catalog, query) # << >>
  <2>1. PICK from \in Seq(Refs(UsersNames)) : from = query.from /\ from # << >>
    BY <1>7, StatementQueries, QueryFields
  <2>2. 1 \in DOMAIN from
    BY <2>1, EmptySeq, LenProperties
  <2>3. DOMAIN Scope(catalog, query) # {}
    BY <2>1, <2>2, ScopeEntries
  <2> QED
    BY <2>3
<1>12. Output(catalog, query) \in Seq(Cells)
  <2>1. query.items \in Seq(ItemsOver(Names))
    <3>1. query.items \in Seq(ItemsOver(UsersNames))
      BY StatementQueries, QueryFields
    <3> QED
      BY <3>1, UsersItems, SequencesWiden
  <2>2. Columns(query.natural, Scope(catalog, query), query.items) \in Seq(Cells)
    BY <1>8, <1>10, <2>1, ColumnsType
  <2> QED
    BY <1>10, <2>2, ListedIs
<1> QED
  BY <1>1, <1>3, <1>5, <1>8, <1>10, <1>11, <1>12 DEF Reading

----------------------------------------------------------------------------
(* What is behind a wildcard, and how much of it is counted *)

LEMMA SameInterval ==
  ASSUME NEW n \in Nat, NEW m \in Nat, n \in 1..m \/ n = 0, m \in 1..n \/ m = 0
  PROVE  n = m
OBVIOUS

LEMMA SameDomain ==
  ASSUME NEW S, NEW T, NEW s \in Seq(S), NEW t \in Seq(T), DOMAIN s = DOMAIN t
  PROVE  Len(s) = Len(t)
<1>1. PICK n \in Nat : n = Len(s) /\ DOMAIN s = 1..n
  BY LenProperties
<1>2. PICK m \in Nat : m = Len(t) /\ DOMAIN t = 1..m
  BY LenProperties
<1>3. \A i : i \in 1..n <=> i \in 1..m
  BY <1>1, <1>2
<1>4. n \in 1..m \/ n = 0
  <2>1. n \in 1..n \/ n = 0
    OBVIOUS
  <2> QED
    BY <1>3, <2>1
<1>5. m \in 1..n \/ m = 0
  <2>1. m \in 1..m \/ m = 0
    OBVIOUS
  <2> QED
    BY <1>3, <2>1
<1>6. n = m
  BY <1>4, <1>5, SameInterval
<1> QED
  BY <1>1, <1>2, <1>6

\* The columns of a table of the home schema, under this alias.
StoredCell(table, alias, c) ==
  [name |-> c, from |-> [path |-> <<alias>>, table |-> <<Home, table>>, column |-> c]]

StoredFrom(columns, table, alias) ==
  columns = [j \in DOMAIN ColumnsOf(table) |-> StoredCell(table, alias, ColumnsOf(table)[j])]

\* A table that is no namesake is the one that is looked up.
LEMMA TableStored ==
  ASSUME NEW k \in Dialects, NEW s \in StatementsOver(Written),
         NEW read, read = AsRead(k, s), Reading(Catalog, read), ~HasNamesake(k, s),
         NEW i \in DOMAIN s.from, ~IsDerived(s.from[i]), ColumnsOf(s.from[i].name) # << >>
  PROVE  /\ StoredFrom(Exposes(Catalog, read.from[i]), s.from[i].name, read.from[i].alias)
         /\ Exposes(Catalog, read.from[i]) \in Seq(Cells)
         /\ Len(Exposes(Catalog, read.from[i])) = Len(ColumnsOf(s.from[i].name))
<1>1. Spells(k, s, read)
  BY AsReadIs
<1>2. i \in DOMAIN read.from /\ SpellsTable(k, s.from[i], read.from[i])
  BY <1>1 DEF Spells, SpellsList, SpellsRef
<1>3. <<Home, s.from[i].name>> \in DOMAIN Catalog
      /\ ColumnsOf(s.from[i].name) = Catalog[<<Home, s.from[i].name>>].columns
  BY TableColumns
<1>4. PICK ref : /\ ref = read.from[i] /\ ~IsDerived(ref)
                 /\ <<ref.schema, ref.name>> = <<Home, s.from[i].name>>
  <2>1. ~IsNamesake(s.from[i], read.from[i])
    BY DEF HasNamesake
  <2> QED
    BY <1>2, <1>3, <2>1 DEF IsNamesake, SpellsTable
<1>5. Exposes(Catalog, ref) = StoredColumns(Catalog, ref)
  BY <1>4 DEF Exposes
<1>6. StoredColumns(Catalog, ref)
        = [j \in DOMAIN ColumnsOf(s.from[i].name) |->
             StoredCell(s.from[i].name, ref.alias, ColumnsOf(s.from[i].name)[j])]
  BY <1>3, <1>4 DEF StoredColumns, StoredCell
<1>7. PICK columns \in Seq(Cells) : columns = Exposes(Catalog, ref)
  <2>1. read.from[i] \in Refs(Names)
    <3>1. read \in StatementsOver(Names)
      BY AsReadIs, SpelledStatements
    <3> QED
      BY <1>2, <3>1, StatementQueries, QueryFields
  <2>2. Exists(Catalog, ref)
    BY <1>3, <1>4 DEF Exists
  <2>3. IsCatalog(Catalog)
    BY CatalogAssumption
  <2> QED
    BY <1>4, <2>1, <2>2, <2>3, ExposesType
<1>8. Len(columns) = Len(ColumnsOf(s.from[i].name))
  <2>1. PICK listed \in Seq(Names) : listed = ColumnsOf(s.from[i].name)
    BY TableColumns
  <2>2. DOMAIN columns = DOMAIN listed
    BY <1>5, <1>6, <1>7, <2>1
  <2>3. PICK n \in Nat : n = Len(columns) /\ DOMAIN columns = 1..n
    BY LenProperties
  <2>4. PICK l \in Nat : l = Len(listed) /\ DOMAIN listed = 1..l
    BY LenProperties
  <2>5. n = l
    <3>1. 1..n = 1..l
      BY <2>2, <2>3, <2>4
    <3> QED
      BY <2>3, <2>4, <3>1
  <2> QED
    BY <2>1, <2>3, <2>4, <2>5
<1> QED
  BY <1>4, <1>5, <1>6, <1>7, <1>8 DEF StoredFrom

BlockColumns(scope, item) ==
  IF item.of = Nameless THEN ColumnPieces(scope) ELSE <<EntryColumns(scope, item.of)>>

\* The blocks of a wildcard's origins are those of its columns.
BlocksStored(blocks, tables) ==
  /\ blocks \in Seq(Seq(Cells)) /\ tables \in Seq(Names)
  /\ DOMAIN blocks = DOMAIN tables /\ SameLengths(blocks, ColumnLists(tables))
  /\ \A l \in DOMAIN tables : \E alias : StoredFrom(blocks[l], tables[l], alias)

LEMMA BlocksStoredBy ==
  ASSUME NEW blocks \in Seq(Seq(Cells)), NEW tables \in Seq(Names),
         DOMAIN blocks = DOMAIN tables,
         \A l \in DOMAIN tables : /\ Len(blocks[l]) = Len(ColumnsOf(tables[l]))
                                  /\ \E alias : StoredFrom(blocks[l], tables[l], alias)
  PROVE  BlocksStored(blocks, tables)
<1>4. Len(blocks) = Len(ColumnLists(tables))
  <2>1. Len(blocks) = Len(tables)
    BY SameDomain
  <2> QED
    BY <2>1, BlocksAre
<1>5. \A i \in DOMAIN blocks : Len(blocks[i]) = Len(ColumnLists(tables)[i])
  BY DEF ColumnLists
<1> QED
  BY <1>4, <1>5 DEF BlocksStored, SameLengths

LEMMA StarBlocks ==
  ASSUME NEW k \in Dialects, NEW s \in StatementsOver(Written),
         NEW read, read = AsRead(k, s), Reading(Catalog, read), ~HasNamesake(k, s),
         NEW m \in DOMAIN s.items, s.items[m].kind = "star",
         ExpandsWildcard(s.from, s.items[m])
  PROVE  /\ BlocksStored(BlockColumns(Scope(Catalog, read), read.items[m]),
                         WildcardNames(s.from, s.items[m]))
         /\ ItemColumns(read.natural, Scope(Catalog, read), read.items[m])
              = IF read.items[m].of = Nameless
                THEN StarColumns(read.natural, Scope(Catalog, read))
                ELSE FlattenSeq(BlockColumns(Scope(Catalog, read), read.items[m]))
<1>1. /\ Spells(k, s, read) /\ read \in StatementsOver(Written)
      /\ OwnAliases(AsRead(k, s).from) /\ OwnAliases(read.from)
  BY AsReadIs DEF Reading
<1>2. PICK scope \in Seq(Entries) : scope = Scope(Catalog, read)
  BY DEF Reading
<1>3. /\ DOMAIN scope = DOMAIN s.from /\ DOMAIN read.from = DOMAIN s.from
      /\ \A i \in DOMAIN s.from :
           /\ scope[i].alias = read.from[i].alias
           /\ scope[i].columns = Exposes(Catalog, read.from[i])
           /\ read.from[i].alias = As(k, s.from[i].alias)
  BY <1>1, <1>2, ScopeEntries DEF Spells, SpellsList, SpellsRef
<1>4. /\ read.items[m].kind = "star" /\ read.items[m].of = As(k, s.items[m].of)
      /\ s.items[m].of \in Written
  <2>1. s.items[m] \in ItemsOver(Written)
    BY StatementQueries, QueryFields
  <2> QED
    BY <1>1, <2>1, ItemFields DEF Spells, SpellsList, SpellsItem
<1>5. read.items[m].of = Nameless <=> s.items[m].of = Nameless
  BY <1>4, AsIs
<1>6. PICK tables \in Seq(Names) :
        /\ tables = WildcardNames(s.from, s.items[m])
        /\ \A j \in DOMAIN tables : ColumnsOf(tables[j]) # << >>
        /\ s.items[m].of = Nameless =>
             /\ DOMAIN tables = DOMAIN s.from
             /\ \A j \in DOMAIN s.from : ~IsDerived(s.from[j]) /\ tables[j] = s.from[j].name
        /\ s.items[m].of # Nameless =>
             /\ DOMAIN tables = {1}
             /\ \E i \in DOMAIN s.from :
                  /\ ~IsDerived(s.from[i]) /\ s.from[i].alias = s.items[m].of
                  /\ tables[1] = s.from[i].name
  BY <1>1, WildcardOver
<1>7. CASE s.items[m].of = Nameless
  <2>1. PICK blocks \in Seq(Seq(Cells)) :
          /\ blocks = ColumnPieces(scope) /\ DOMAIN blocks = DOMAIN s.from
          /\ \A i \in DOMAIN s.from : blocks[i] = Exposes(Catalog, read.from[i])
    BY <1>3, AllColumnsHave DEF ColumnPieces
  <2>2. ASSUME NEW l \in DOMAIN tables
        PROVE  /\ Len(blocks[l]) = Len(ColumnsOf(tables[l]))
               /\ \E alias : StoredFrom(blocks[l], tables[l], alias)
    <3>1. /\ l \in DOMAIN s.from /\ ~IsDerived(s.from[l]) /\ tables[l] = s.from[l].name
          /\ ColumnsOf(s.from[l].name) # << >>
      BY <1>6, <1>7
    <3>2. /\ StoredFrom(Exposes(Catalog, read.from[l]), s.from[l].name, read.from[l].alias)
          /\ Len(Exposes(Catalog, read.from[l])) = Len(ColumnsOf(s.from[l].name))
      BY <3>1, TableStored
    <3> QED
      BY <2>1, <3>1, <3>2
  <2>3. BlocksStored(blocks, tables)
    BY <1>6, <1>7, <2>1, <2>2, BlocksStoredBy
  <2>4. blocks = BlockColumns(scope, read.items[m])
    BY <1>5, <1>7, <2>1 DEF BlockColumns
  <2>5. ItemColumns(read.natural, scope, read.items[m]) = StarColumns(read.natural, scope)
    BY <1>4, <1>5, <1>7, StarColumnsOf
  <2> QED
    BY <1>2, <1>5, <1>6, <1>7, <2>3, <2>4, <2>5
<1>8. CASE s.items[m].of # Nameless
  <2>1. PICK i \in DOMAIN s.from :
          /\ ~IsDerived(s.from[i]) /\ s.from[i].alias = s.items[m].of
          /\ tables[1] = s.from[i].name
    BY <1>6, <1>8
  <2>2. 1 \in DOMAIN tables /\ ColumnsOf(s.from[i].name) # << >>
    BY <1>6, <1>8, <2>1
  <2>3. /\ StoredFrom(Exposes(Catalog, read.from[i]), s.from[i].name, read.from[i].alias)
        /\ Exposes(Catalog, read.from[i]) \in Seq(Cells)
        /\ Len(Exposes(Catalog, read.from[i])) = Len(ColumnsOf(s.from[i].name))
    BY <2>1, <2>2, TableStored
  <2>4. EntryColumns(scope, read.items[m].of) = Exposes(Catalog, read.from[i])
    <3>1. read.items[m].of = read.from[i].alias
      BY <1>3, <1>4, <2>1
    <3>2. EntryColumns(scope, read.from[i].alias) = scope[i].columns
      BY <1>1, <1>3, EntryColumnsAt
    <3> QED
      BY <1>3, <3>1, <3>2
  <2>5. PICK columns \in Seq(Cells) : columns = Exposes(Catalog, read.from[i])
    BY <2>3
  <2>6. PICK blocks \in Seq(Seq(Cells)) : blocks = <<columns>>
    <3>1. <<columns>> \in Seq(Seq(Cells))
      BY <2>5
    <3> QED
      BY <3>1
  <2>7. DOMAIN blocks = {1} /\ blocks[1] = columns
    BY <2>6
  <2>8. BlocksStored(blocks, tables)
    <3>1. \A l \in DOMAIN tables : /\ Len(blocks[l]) = Len(ColumnsOf(tables[l]))
                                   /\ \E alias : StoredFrom(blocks[l], tables[l], alias)
      BY <1>6, <1>8, <2>1, <2>3, <2>5, <2>7
    <3>2. DOMAIN blocks = DOMAIN tables
      BY <1>6, <1>8, <2>7
    <3> QED
      BY <3>1, <3>2, BlocksStoredBy
  <2>9. blocks = BlockColumns(scope, read.items[m])
    BY <1>5, <1>8, <2>4, <2>5, <2>6 DEF BlockColumns
  <2>10. FlattenSeq(blocks) = columns
    BY <2>6, FlattenFirst
  <2>11. ItemColumns(read.natural, scope, read.items[m]) = EntryColumns(scope, read.items[m].of)
    BY <1>4, <1>5, <1>8, StarColumnsOf
  <2> QED
    BY <1>2, <1>5, <1>6, <1>8, <2>4, <2>5, <2>8, <2>9, <2>10, <2>11
<1> QED
  BY <1>7, <1>8

AtMost(s, t) == Len(s) = Len(t) /\ \A i \in DOMAIN s : Len(s[i]) <= Len(t[i])

LEMMA FlattenNoLonger ==
  ASSUME NEW S, NEW T, NEW s \in Seq(Seq(S)), NEW t \in Seq(Seq(T)), AtMost(s, t)
  PROVE  Len(FlattenSeq(s)) <= Len(FlattenSeq(t))
<1> DEFINE P == {r \in Seq(Seq(S)) : \A u \in Seq(Seq(T)) :
                   AtMost(r, u) => Len(FlattenSeq(r)) <= Len(FlattenSeq(u))}
<1>1. << >> \in P
  <2>1. \A u \in Seq(Seq(T)) : Len(u) = 0 => u = << >>
    BY EmptySeq
  <2>2. FlattenSeq(<< >>) = << >> /\ Len(<< >>) = 0
    BY FlattenEmpty
  <2> QED
    BY <2>1, <2>2, EmptySeq DEF AtMost
<1>2. ASSUME NEW r \in Seq(Seq(S)), NEW x \in Seq(S), r \in P
      PROVE  Append(r, x) \in P
  <2>1. PICK n \in Nat : n = Len(r)
    OBVIOUS
  <2>2. PICK q \in Seq(Seq(S)) : q = Append(r, x)
    BY AppendProperties
  <2>3. /\ Len(q) = n + 1 /\ q[n + 1] = x /\ \A i \in 1..n : q[i] = r[i]
        /\ DOMAIN q = 1..n + 1 /\ DOMAIN r = 1..n
    BY <2>1, <2>2, Appended
  <2>4. ASSUME NEW u \in Seq(Seq(T)), AtMost(q, u)
        PROVE  Len(FlattenSeq(q)) <= Len(FlattenSeq(u))
    <3>1. Len(u) = n + 1 /\ \A i \in 1..n + 1 : Len(q[i]) <= Len(u[i])
      BY <2>3, <2>4 DEF AtMost
    <3> DEFINE v == SubSeq(u, 1, n)
    <3> HIDE DEF v
    <3>2. /\ v \in Seq(Seq(T)) /\ Len(v) = n /\ u[n + 1] \in Seq(T)
          /\ u = Append(v, u[n + 1])
      BY <3>1, LastApart DEF v
    <3>3. AtMost(r, v)
      <4>1. \A i \in 1..n : u[i] = v[i]
        <5>1. PICK w \in Seq(T) : u = Append(v, w)
          BY <3>2
        <5> QED
          BY <3>2, <5>1, Appended
      <4>2. \A i \in 1..n : Len(r[i]) <= Len(v[i])
        BY <2>3, <3>1, <4>1
      <4> QED
        BY <2>1, <2>3, <3>2, <4>2 DEF AtMost
    <3>4. Len(FlattenSeq(r)) <= Len(FlattenSeq(v))
      BY <1>2, <3>2, <3>3
    <3>5. Len(x) <= Len(u[n + 1])
      BY <2>3, <3>1
    <3>6. FlattenSeq(r) \in Seq(S) /\ FlattenSeq(v) \in Seq(T)
      BY <3>2, FlattenType
    <3>7. /\ Len(FlattenSeq(q)) = Len(FlattenSeq(r)) + Len(x)
          /\ Len(FlattenSeq(u)) = Len(FlattenSeq(v)) + Len(u[n + 1])
      <4>1. /\ FlattenSeq(q) = FlattenSeq(r) \o x
            /\ FlattenSeq(u) = FlattenSeq(v) \o u[n + 1]
        BY <2>2, <3>2, FlattenAppend
      <4> QED
        BY <3>2, <3>6, <4>1, Joined, LenProperties
    <3>8. /\ Len(FlattenSeq(r)) \in Nat /\ Len(FlattenSeq(v)) \in Nat
          /\ Len(x) \in Nat /\ Len(u[n + 1]) \in Nat
      BY <3>2, <3>6, LenProperties
    <3> QED
      BY <3>4, <3>5, <3>7, <3>8
  <2> QED
    BY <2>2, <2>4
<1>3. Seq(Seq(S)) \subseteq P
  <2> HIDE DEF P
  <2> QED
    BY <1>1, <1>2, SequencesInduction
<1> QED
  BY <1>3

\* One item gets as many origins as columns, and only a bare star over merged
\* columns gets more.
LEMMA ItemCounted ==
  ASSUME NEW k \in Dialects, NEW s \in StatementsOver(Written), WellFormed(s),
         Understands(s, JoinShapes(k)), ~HasNamesake(k, s),
         NEW catalog, NEW read, read = AsRead(k, s), Reading(catalog, read),
         NEW m \in DOMAIN s.items, s.items[m].kind = "star" => catalog = Catalog
  PROVE  /\ Len(ItemColumns(read.natural, Scope(catalog, read), read.items[m]))
              <= Len(ItemOrigins(k, s.from, s.items[m]))
         /\ ~(s.natural /\ s.items[m].kind = "star" /\ s.items[m].of = Nameless) =>
              Len(ItemColumns(read.natural, Scope(catalog, read), read.items[m]))
                = Len(ItemOrigins(k, s.from, s.items[m]))
<1>1. /\ s.from \in Seq(Refs(Names)) /\ s.items[m] \in ItemsOver(Names)
      /\ s.items[m] \in ItemsOver(Written) /\ s.from \in Seq(Refs(Written))
  <2>1. s \in StatementsOver(Names)
    BY SpelledStatements
  <2>2. s.from \in Seq(Refs(Names)) /\ s.items[m] \in ItemsOver(Names)
    BY <2>1, StatementQueries, QueryFields
  <2> QED
    BY <2>2, StatementQueries, QueryFields
<1>2. Spells(k, s, read) /\ read.items[m].kind = s.items[m].kind
      /\ m \in DOMAIN read.items
  BY AsReadIs DEF Spells, SpellsList, SpellsItem
<1>3. s.items[m].kind = "star" => ExpandsWildcard(s.from, s.items[m])
  BY DEF Understands
<1>4. CASE s.items[m].kind # "star"
  <2>1. PICK origin : ItemOrigins(k, s.from, s.items[m]) = <<origin>>
    BY <1>1, <1>3, <1>4, ItemOriginsType
  <2>2. read.items[m].kind \in {"column", "expression"}
    BY <1>1, <1>2, <1>4, ItemFields
  <2>3. PICK cell : ItemColumns(read.natural, Scope(catalog, read), read.items[m]) = <<cell>>
    <3>1. CASE read.items[m].kind = "column"
      BY <3>1, ColumnAt
    <3>2. CASE read.items[m].kind = "expression"
      BY <3>2 DEF ItemColumns
    <3> QED
      BY <2>2, <3>1, <3>2
  <2>4. Len(<<origin>>) = 1 /\ Len(<<cell>>) = 1
    OBVIOUS
  <2> QED
    BY <2>1, <2>3, <2>4
<1>5. CASE s.items[m].kind = "star"
  <2>1. ExpandsWildcard(s.from, s.items[m])
    BY <1>3, <1>5
  <2>2. catalog = Catalog /\ Reading(Catalog, read)
    BY <1>5
  <2>3. PICK scope \in Seq(Entries) : scope = Scope(Catalog, read) /\ scope # << >>
    BY <2>2 DEF Reading
  <2>4. PICK blocks : blocks = BlockColumns(scope, read.items[m])
    OBVIOUS
  <2>5. PICK tables : tables = WildcardNames(s.from, s.items[m])
    OBVIOUS
  <2>6. /\ BlocksStored(blocks, tables)
        /\ ItemColumns(read.natural, scope, read.items[m])
             = IF read.items[m].of = Nameless THEN StarColumns(read.natural, scope)
               ELSE FlattenSeq(blocks)
    BY <1>5, <2>1, <2>2, <2>3, <2>4, <2>5, StarBlocks
  <2>7. /\ blocks \in Seq(Seq(Cells)) /\ tables \in Seq(Names)
        /\ SameLengths(blocks, ColumnLists(tables))
    BY <2>6 DEF BlocksStored
  <2>8. Len(ItemOrigins(k, s.from, s.items[m])) = Len(FlattenSeq(blocks))
    <3>1. ItemOrigins(k, s.from, s.items[m]) = ExpandWildcardOrigins(tables)
      BY <1>1, <1>5, <2>1, <2>5, ItemOriginsType
    <3>2. Len(ExpandWildcardOrigins(tables)) = Len(FlattenSeq(ColumnLists(tables)))
      BY <2>7, ExpandsTo
    <3>3. ColumnLists(tables) \in Seq(Seq(UsersNames))
      BY <2>7, BlocksAre
    <3>4. Len(FlattenSeq(blocks)) = Len(FlattenSeq(ColumnLists(tables)))
      BY <2>7, <3>3, FlattenLengths
    <3> QED
      BY <3>1, <3>2, <3>4
  <2>9. Len(FlattenSeq(blocks)) \in Nat
    BY <2>7, FlattenType, LenProperties
  <2>10. read.items[m].of = Nameless <=> s.items[m].of = Nameless
    <3>1. s.items[m].of \in Written
      BY <1>1, ItemFields
    <3> QED
      BY <1>2, <3>1, AsIs DEF Spells, SpellsList, SpellsItem
  <2>11. CASE read.items[m].of # Nameless
    BY <2>2, <2>3, <2>6, <2>8, <2>9, <2>11
  <2>12. CASE read.items[m].of = Nameless
    <3>1. FlattenSeq(blocks) = AllColumns(scope)
      BY <2>4, <2>12, AllColumnsHave DEF BlockColumns
    <3>2. read.natural = s.natural /\ s.natural \in BOOLEAN
      BY <1>2, StatementQueries DEF Spells, SpellsList, QueriesOver
    <3>3. s.natural => Len(scope) > 1
      <4>1. s.natural => Len(s.from) > 1
        BY DEF WellFormed
      <4>2. DOMAIN scope = DOMAIN s.from
        BY <1>2, <2>3, ScopeEntries DEF Spells, SpellsList
      <4>3. Len(scope) = Len(s.from)
        BY <1>1, <4>2, SameDomain
      <4> QED
        BY <4>1, <4>3
    <3>4. PICK natural : natural = read.natural /\ (natural => Len(scope) > 1)
      BY <3>2, <3>3
    <3>5. /\ Len(StarColumns(natural, scope)) <= Len(AllColumns(scope))
          /\ ~natural => StarColumns(natural, scope) = AllColumns(scope)
      BY <2>3, <3>4, StarLength
    <3>6. ItemColumns(read.natural, Scope(catalog, read), read.items[m])
            = StarColumns(natural, scope)
      BY <2>2, <2>3, <2>6, <2>12, <3>4
    <3>7. ~s.natural => ~natural
      BY <3>2, <3>4
    <3> QED
      BY <1>5, <2>8, <2>10, <2>12, <3>1, <3>5, <3>6, <3>7
  <2> QED
    BY <2>11, <2>12
<1> QED
  BY <1>4, <1>5

\* Every column has an origin, and there may be origins too many where the
\* columns are merged.
LEMMA OutputCounted ==
  ASSUME NEW k \in Dialects, NEW s \in StatementsOver(Written), WellFormed(s),
         Understands(s, JoinShapes(k)), ~HasNamesake(k, s),
         NEW catalog, NEW read, read = AsRead(k, s), Reading(catalog, read),
         \A m \in DOMAIN s.items : s.items[m].kind = "star" => catalog = Catalog
  PROVE  /\ Len(Output(catalog, read)) <= Len(VisibleOrigins(k, s))
         /\ (\A m \in DOMAIN s.items :
               ~(s.natural /\ s.items[m].kind = "star" /\ s.items[m].of = Nameless)) =>
              /\ SameLengths(ItemPieces(read.natural, Scope(catalog, read), read.items),
                             OriginPieces(k, s))
              /\ Len(Output(catalog, read)) = Len(VisibleOrigins(k, s))
<1>1. PICK origins \in Seq(Seq(Origins)) :
        /\ origins = OriginPieces(k, s) /\ VisibleOrigins(k, s) = FlattenSeq(origins)
        /\ DOMAIN origins = DOMAIN s.items
  <2>1. s \in StatementsOver(Names)
    BY SpelledStatements
  <2> QED
    BY <2>1, OriginPiecesType
<1>2. PICK items \in Seq(ItemsOver(Names)) : items = read.items /\ DOMAIN items = DOMAIN s.items
  <2>1. read \in StatementsOver(Names) /\ Spells(k, s, read)
    BY AsReadIs, SpelledStatements
  <2>2. read.items \in Seq(ItemsOver(Names)) /\ DOMAIN read.items = DOMAIN s.items
    BY <2>1, StatementQueries, QueryFields DEF Spells, SpellsList
  <2> QED
    BY <2>2
<1>3. PICK scope \in Seq(Entries) :
        scope = Scope(catalog, read) /\ AllRun(read.natural, scope, items)
  BY <1>2 DEF Reading
<1>4. PICK pieces \in Seq(Seq(Cells)) :
        /\ pieces = ItemPieces(read.natural, scope, items) /\ DOMAIN pieces = DOMAIN s.items
  <2>1. scope \in Seq(Entries) /\ AllRun(read.natural, scope, items)
    BY <1>3
  <2>2. items \in Seq(ItemsOver(Names))
    BY <1>2
  <2>3. /\ ItemPieces(read.natural, scope, items) \in Seq(Seq(Cells))
        /\ DOMAIN ItemPieces(read.natural, scope, items) = DOMAIN items
    BY <2>1, <2>2, ItemPiecesType
  <2> QED
    BY <1>2, <2>3
<1>5. /\ Len(Output(catalog, read)) = Len(FlattenSeq(pieces))
  <2>1. Output(catalog, read) = Listed(read.shape, FlattenSeq(pieces))
    BY <1>2, <1>3, <1>4 DEF Reading, Columns
  <2>2. FlattenSeq(pieces) \in Seq(Cells)
    BY <1>4, FlattenType
  <2> QED
    BY <2>1, <2>2, ListedIs
<1>6. Len(pieces) = Len(origins)
  BY <1>1, <1>4, SameDomain
<1>7. ASSUME NEW m \in DOMAIN s.items
      PROVE  /\ Len(pieces[m]) <= Len(origins[m])
             /\ ~(s.natural /\ s.items[m].kind = "star" /\ s.items[m].of = Nameless) =>
                  Len(pieces[m]) = Len(origins[m])
  <2>1. /\ origins[m] = ItemOrigins(k, s.from, s.items[m])
        /\ pieces[m] = ItemColumns(read.natural, Scope(catalog, read), read.items[m])
    BY <1>1, <1>2, <1>3, <1>4 DEF OriginPieces, ItemPieces
  <2> QED
    BY <2>1, ItemCounted
<1>8. AtMost(pieces, origins)
  BY <1>4, <1>6, <1>7 DEF AtMost
<1>9. Len(FlattenSeq(pieces)) <= Len(FlattenSeq(origins))
  BY <1>1, <1>4, <1>8, FlattenNoLonger
<1>10. ASSUME \A m \in DOMAIN s.items :
               ~(s.natural /\ s.items[m].kind = "star" /\ s.items[m].of = Nameless)
       PROVE  /\ SameLengths(pieces, origins)
              /\ Len(FlattenSeq(pieces)) = Len(FlattenSeq(origins))
  <2>1. SameLengths(pieces, origins)
    BY <1>4, <1>6, <1>7, <1>10 DEF SameLengths
  <2> QED
    BY <1>1, <1>4, <2>1, FlattenLengths
<1> QED
  BY <1>1, <1>2, <1>3, <1>4, <1>5, <1>9, <1>10

\* A star alone in the list has no carriers behind it.
LEMMA SoleStar ==
  ASSUME NEW k \in Dialects, NEW s \in StatementsOver(Written), WellFormed(s),
         Understands(s, JoinShapes(k)), ~WildcardMerges(s), s.natural,
         NEW m \in DOMAIN s.items, s.items[m].kind = "star", s.items[m].of = Nameless
  PROVE  DOMAIN s.items = {1} /\ m = 1 /\ Needed(VisibleOrigins(k, s)) = << >>
<1>1. PICK items \in Seq(ItemsOver(Names)) : items = s.items
  <2>1. s \in StatementsOver(Names)
    BY SpelledStatements
  <2> QED
    BY <2>1, StatementQueries, QueryFields
<1>2. Star(Nameless) \in ToSet(s.items)
  BY DEF WellFormed, ToSet
<1>3. DOMAIN s.items = {1} /\ m = 1
  <2>1. ~(Len(items) > 1)
    BY <1>1, <1>2 DEF WildcardMerges
  <2>2. m \in 1..Len(items) /\ Len(items) \in Nat /\ DOMAIN items = 1..Len(items)
    BY <1>1, LenProperties
  <2>3. Len(items) = 1 /\ m = 1
    BY <2>1, <2>2
  <2> QED
    BY <1>1, <2>2, <2>3
<1>4. PICK origins \in Seq(Origins) : origins = VisibleOrigins(k, s)
  BY SpelledStatements, OriginPiecesType
<1>5. \A i \in DOMAIN origins : origins[i].via = << >>
  <2>1. SUFFICES ASSUME NEW i \in DOMAIN VisibleOrigins(k, s),
                        VisibleOrigins(k, s)[i].via # << >>
                 PROVE  FALSE
    BY <1>4
  <2>2. PICK l \in DOMAIN s.items : s.items[l].kind = "column"
    BY <2>1, SpelledStatements, PathIsTraced
  <2> QED
    BY <1>3, <2>2
<1>6. PICK needs \in Seq(Origins) : needs = Needed(origins)
  BY NeedPiecesType
<1>7. DOMAIN needs = {}
  <2>1. SUFFICES ASSUME NEW n \in DOMAIN Needed(origins)
                 PROVE  FALSE
    BY <1>6
  <2>2. origins \in Seq(Origins)
    BY <1>4
  <2>3. PICK i \in DOMAIN origins : Needed(origins)[n] = origins[i]
    BY <2>2, NeededIs
  <2>4. Needed(origins)[n].via # << >>
    BY <2>2, NeededIs
  <2> QED
    BY <1>5, <2>3, <2>4
<1>8. needs = << >>
  BY <1>6, <1>7, EmptySeq, LenProperties
<1> QED
  BY <1>3, <1>4, <1>6, <1>8

----------------------------------------------------------------------------
(* What the user sees *)

LEMMA ConsistsBegins ==
  ASSUME NEW S, NEW s \in Seq(S), NEW t \in Seq(S), NEW u, Consists(u, s, t)
  PROVE  /\ u \in Seq(S) /\ Len(u) = Len(s) + Len(t) /\ Len(s) \in Nat /\ Len(t) \in Nat
         /\ Len(s) <= Len(u) /\ SubSeq(u, 1, Len(s)) = s
         /\ \A i \in DOMAIN s : i \in DOMAIN u /\ u[i] = s[i]
         /\ \A i \in DOMAIN t : Len(s) + i \in DOMAIN u /\ u[Len(s) + i] = t[i]
<1>1. PICK l \in Nat : l = Len(s) /\ DOMAIN s = 1..l
  BY LenProperties
<1>2. PICK m \in Nat : m = Len(t) /\ DOMAIN t = 1..m
  BY LenProperties
<1>3. PICK v \in Seq(S) : /\ v = u /\ Len(v) = l + m /\ DOMAIN v = 1..(l + m)
                          /\ \A i \in 1..l : v[i] = s[i]
                          /\ \A i \in 1..m : v[l + i] = t[i]
  <2>1. /\ s \o t \in Seq(S) /\ Len(s \o t) = l + m /\ DOMAIN (s \o t) = 1..(l + m)
        /\ \A i \in 1..l : (s \o t)[i] = s[i]
        /\ \A i \in 1..m : (s \o t)[l + i] = t[i]
    BY <1>1, <1>2, Joined
  <2> QED
    BY <2>1 DEF Consists
<1>4. l \in 0..Len(v)
  BY <1>1, <1>2, <1>3
<1>5. PICK w \in Seq(S) : /\ w = SubSeq(v, 1, l) /\ Len(w) = l /\ DOMAIN w = 1..l
                          /\ \A i \in 1..l : w[i] = v[i]
  <2>1. /\ SubSeq(v, 1, l) \in Seq(S) /\ Len(SubSeq(v, 1, l)) = l
        /\ DOMAIN SubSeq(v, 1, l) = 1..l
        /\ \A i \in 1..l : SubSeq(v, 1, l)[i] = v[i]
    <3>1. v \in Seq(S)
      BY <1>3
    <3> QED
      BY <1>4, <3>1, Beginning
  <2> QED
    BY <2>1
<1>6. w = s
  <2>1. \A i \in 1..l : w[i] = s[i]
    BY <1>3, <1>5
  <2>2. Len(w) = Len(s) /\ \A i \in 1..Len(w) : w[i] = s[i]
    BY <1>1, <1>5, <2>1
  <2> QED
    BY <2>2, SeqEqual
<1>7. \A i \in 1..l : i \in 1..(l + m)
  BY <1>1, <1>2
<1>8. \A i \in 1..m : l + i \in 1..(l + m)
  BY <1>1, <1>2
<1>9. /\ \A i \in DOMAIN s : i \in DOMAIN u /\ u[i] = s[i]
      /\ \A i \in DOMAIN t : Len(s) + i \in DOMAIN u /\ u[Len(s) + i] = t[i]
  BY <1>1, <1>2, <1>3, <1>7, <1>8
<1>10. u \in Seq(S) /\ Len(u) = Len(s) + Len(t) /\ Len(s) \in Nat /\ Len(t) \in Nat
  BY <1>1, <1>2, <1>3
<1>11. SubSeq(u, 1, Len(s)) = s
  BY <1>1, <1>3, <1>5, <1>6
<1> QED
  BY <1>9, <1>10, <1>11

LEMMA SameBegins ==
  ASSUME NEW S, NEW s \in Seq(S)
  PROVE  Len(s) \in Nat /\ SubSeq(s, 1, Len(s)) = s
<1>1. PICK l \in Nat : l = Len(s) /\ DOMAIN s = 1..l
  BY LenProperties
<1>2. PICK w \in Seq(S) : /\ w = SubSeq(s, 1, l) /\ Len(w) = l
                          /\ \A i \in 1..l : w[i] = s[i]
  <2>1. l \in 0..Len(s)
    BY <1>1
  <2> QED
    BY <2>1, Beginning
<1>3. Len(w) = Len(s) /\ \A i \in 1..Len(w) : w[i] = s[i]
  BY <1>1, <1>2
<1> QED
  BY <1>1, <1>2, <1>3, SeqEqual

\* The fields of a result.
LEMMA ResultFields ==
  ASSUME Inv, Answered
  PROVE  /\ plan.path = "join" =>
              /\ PlanJoin(kind, stmt, plan)
              /\ Len(plan.origins) \in Nat
              /\ Len(plan.origins) > Len(result.cells) =>
                   /\ result.visible = Len(result.cells)
                   /\ result.origins = [i \in DOMAIN result.cells |-> NoOrigin]
              /\ ~(Len(plan.origins) > Len(result.cells)) =>
                   result.visible = Len(plan.origins) /\ result.origins = plan.origins
         /\ plan.path = "single" =>
              /\ PlanSingle(kind, stmt, plan)
              /\ result.visible = Len(result.cells)
              /\ result.origins = UniformOrigins(result.cells, plan.table, plan.key)
         /\ plan.path = "plain" =>
              /\ PlanPlain(kind, stmt, plan)
              /\ result.visible = Len(result.cells)
              /\ result.origins = [i \in DOMAIN result.cells |-> NoOrigin]
         /\ plan.path \in {"join", "single", "plain"}
<1>1. /\ result = ReadResult(plan, result.missing, result.altered)
      /\ result.cells = Output(Target(result.altered), plan.rewritten)
      /\ plan = PrepareRead(kind, stmt) /\ kind \in Dialects
      /\ stmt \in StatementsOver(Written)
  BY ResultIs
<1>2. PICK cells \in Seq(Cells) : cells = result.cells
  BY ResultIs
<1> DEFINE overcounts == plan.path = "join" /\ Len(plan.origins) > Len(cells)
<1>3. /\ result.visible = IF plan.path = "join" /\ ~overcounts THEN Len(plan.origins)
                          ELSE Len(cells)
      /\ result.origins = CASE plan.path = "single" ->
                                 UniformOrigins(cells, plan.table, plan.key)
                            [] plan.path = "join" /\ ~overcounts -> plan.origins
                            [] OTHER -> [i \in DOMAIN cells |-> NoOrigin]
  BY <1>1, <1>2 DEF ReadResult
<1>4. \/ PlanSingle(kind, stmt, plan) \/ PlanJoin(kind, stmt, plan)
      \/ PlanPlain(kind, stmt, plan)
  BY <1>1, PlanIs
<1>5. CASE PlanSingle(kind, stmt, plan)
  <2>1. plan.path = "single"
    BY <1>5 DEF PlanSingle
  <2> QED
    BY <1>2, <1>3, <1>5, <2>1
<1>6. CASE PlanJoin(kind, stmt, plan)
  <2>1. plan.path = "join"
    BY <1>6 DEF PlanJoin
  <2>2. Len(plan.origins) \in Nat
    BY <1>1, <1>6, JoinPlanIs
  <2> QED
    BY <1>2, <1>3, <1>6, <2>1, <2>2
<1>7. CASE PlanPlain(kind, stmt, plan)
  <2>1. plan.path = "plain"
    BY <1>7 DEF PlanPlain
  <2> QED
    BY <1>2, <1>3, <1>7, <2>1
<1> QED
  BY <1>4, <1>5, <1>6, <1>7

\* A cell list that begins with what was asked for, and what of it is shown.
ShowsFirst(cells, asked, visible, exactly) ==
  /\ Len(asked) <= visible /\ SubSeq(cells, 1, Len(asked)) = asked
  /\ exactly => Len(asked) = visible

LEMMA JoinShows ==
  ASSUME Inv, Answered, plan.path = "join", ~HasNamesake(kind, stmt), ~WildcardShifted
  PROVE  ShowsFirst(result.cells, Output(Target(result.altered), AsRead(kind, stmt)),
                    result.visible, ~WildcardMerges(stmt))
<1>1. PICK k \in Dialects, s \in StatementsOver(Written) :
        k = kind /\ s = stmt /\ WellFormed(s)
  BY ResultIs
<1>2. PICK p : p = plan /\ PlanJoin(k, s, p)
  BY <1>1, ResultFields
<1>3. PICK catalog : /\ catalog = Target(result.altered) /\ IsCatalog(catalog)
                     /\ Runs(catalog, p.rewritten) /\ result.cells = Output(catalog, p.rewritten)
  BY <1>2, ResultIs, TargetIs
<1>4. PICK read : read = AsRead(k, s)
  OBVIOUS
<1>5. PICK origins \in Seq(Origins), needs \in Seq(Needs) :
        /\ origins = VisibleOrigins(k, s) /\ needs = Needed(origins)
        /\ Len(p.origins) = Len(origins)
  BY <1>2, JoinPlanIs
<1>6. /\ Reading(catalog, read)
      /\ AllRun(read.natural, Scope(catalog, p.rewritten), Carriers(needs))
      /\ Consists(Output(catalog, p.rewritten), Output(catalog, read),
                  Listed(read.shape, Columns(read.natural, Scope(catalog, p.rewritten),
                                             Carriers(needs))))
      /\ Output(catalog, read) \in Seq(Cells)
  BY <1>2, <1>3, <1>4, <1>5, JoinReturns
<1>7. PICK asked \in Seq(Cells) : asked = Output(catalog, read)
  BY <1>6
<1>8. PICK extra \in Seq(Cells) :
        /\ Consists(result.cells, asked, extra)
        /\ needs = << >> => extra = << >>
  <2>1. PICK scope \in Seq(Entries) : scope = Scope(catalog, p.rewritten)
    <3>1. s \in StatementsOver(Written) /\ p = PrepareRead(k, s)
      BY <1>1, <1>2, ResultIs
    <3>2. p.rewritten \in StatementsOver(Names)
      BY <3>1, RewrittenIs
    <3> QED
      BY <1>3, <3>2, RunsParts
  <2>2. PICK more \in Seq(ItemsOver(Names)) : more = Carriers(needs) /\ HiddenItems(more)
    BY <1>5, CarriersAre
  <2>3. AllRun(read.natural, scope, more)
    BY <1>6, <2>1, <2>2
  <2>4. PICK columns \in Seq(Cells) :
          columns = Columns(read.natural, scope, more) /\ Len(columns) = Len(more)
    <3>1. scope \in Seq(Entries)
      BY <2>1
    <3>2. more \in Seq(ItemsOver(Names)) /\ HiddenItems(more)
      BY <2>2
    <3>3. /\ Columns(read.natural, scope, more) \in Seq(Cells)
          /\ Len(Columns(read.natural, scope, more)) = Len(more)
      BY <2>3, <3>1, <3>2, HiddenColumns
    <3> QED
      BY <3>3
  <2>5. PICK extra \in Seq(Cells) : extra = Listed(read.shape, columns)
                                    /\ Len(extra) = Len(columns)
    BY <2>4, ListedIs
  <2>6. Consists(result.cells, asked, extra)
    BY <1>3, <1>6, <1>7, <2>1, <2>2, <2>4, <2>5
  <2>7. ASSUME needs = << >> PROVE extra = << >>
    <3>1. OuterPieces(needs) = << >>
      BY <2>7 DEF OuterPieces
    <3>2. more = << >>
      BY <1>5, <2>2, <3>1, CarriersAre, FlattenEmpty
    <3>3. Len(extra) = 0
      BY <2>2, <2>4, <2>5, <3>2, EmptySeq
    <3> QED
      BY <2>5, <3>3, EmptySeq
  <2> QED
    BY <2>6, <2>7
<1>9. /\ result.cells \in Seq(Cells) /\ Len(asked) \in Nat /\ Len(extra) \in Nat
      /\ Len(result.cells) = Len(asked) + Len(extra)
      /\ SubSeq(result.cells, 1, Len(asked)) = asked
  <2>1. asked \in Seq(Cells)
    BY <1>7
  <2>2. extra \in Seq(Cells) /\ Consists(result.cells, asked, extra)
    BY <1>8
  <2>3. PICK cells : cells = result.cells /\ Consists(cells, asked, extra)
    BY <2>2
  <2>4. /\ cells \in Seq(Cells) /\ Len(cells) = Len(asked) + Len(extra)
        /\ Len(asked) \in Nat /\ Len(extra) \in Nat
        /\ SubSeq(cells, 1, Len(asked)) = asked
    <3>1. Consists(cells, asked, extra)
      BY <2>3
    <3>2. extra \in Seq(Cells)
      BY <2>2
    <3> QED
      BY <2>1, <3>1, <3>2, ConsistsBegins
  <2> QED
    BY <2>3, <2>4
<1>10. /\ Len(asked) <= Len(origins)
       /\ (\A m \in DOMAIN s.items :
             ~(s.natural /\ s.items[m].kind = "star" /\ s.items[m].of = Nameless)) =>
            Len(asked) = Len(origins)
  <2>1. \A m \in DOMAIN s.items : s.items[m].kind = "star" => catalog = Catalog
    <3>1. SUFFICES ASSUME NEW m \in DOMAIN stmt.items, stmt.items[m].kind = "star"
                   PROVE  Target(result.altered) = Catalog
      BY <1>1, <1>3
    <3>2. ~result.altered
      BY <3>1 DEF WildcardShifted, ToSet
    <3> QED
      BY <3>2 DEF Target
  <2>2. ~HasNamesake(k, s) /\ Understands(s, JoinShapes(k))
    BY <1>1, <1>2 DEF PlanJoin
  <2> QED
    <3>1. WellFormed(s)
      BY <1>1
    <3>2. Reading(catalog, read)
      BY <1>6
    <3>3. /\ Len(Output(catalog, read)) <= Len(VisibleOrigins(k, s))
          /\ (\A m \in DOMAIN s.items :
                ~(s.natural /\ s.items[m].kind = "star" /\ s.items[m].of = Nameless)) =>
               Len(Output(catalog, read)) = Len(VisibleOrigins(k, s))
      BY <1>4, <2>1, <2>2, <3>1, <3>2, OutputCounted
    <3> QED
      BY <1>5, <1>7, <3>3
<1>11. /\ Len(origins) > Len(result.cells) => result.visible = Len(result.cells)
       /\ ~(Len(origins) > Len(result.cells)) => result.visible = Len(origins)
       /\ Len(origins) \in Nat
  BY <1>2, <1>5, ResultFields, LenProperties
<1>12. Len(asked) <= result.visible
  BY <1>9, <1>10, <1>11
<1>13. ASSUME ~WildcardMerges(stmt) PROVE Len(asked) = result.visible
  <2>1. CASE \A m \in DOMAIN s.items :
               ~(s.natural /\ s.items[m].kind = "star" /\ s.items[m].of = Nameless)
    BY <1>9, <1>10, <1>11, <2>1
  <2>2. CASE \E m \in DOMAIN s.items :
               s.natural /\ s.items[m].kind = "star" /\ s.items[m].of = Nameless
    <3>1. needs = << >>
      BY <1>1, <1>2, <1>5, <1>13, <2>2, SoleStar DEF PlanJoin
    <3>2. Len(extra) = 0
      BY <1>8, <3>1, EmptySeq
    <3> QED
      BY <1>9, <1>10, <1>11, <3>2
  <2> QED
    BY <2>1, <2>2
<1>14. asked = Output(Target(result.altered), AsRead(kind, stmt))
  BY <1>1, <1>3, <1>4, <1>7
<1> QED
  BY <1>9, <1>12, <1>13, <1>14 DEF ShowsFirst

\* ShownAsAsked, in a state of the invariant.
LEMMA Shows == Inv => ShownAsAsked
<1> SUFFICES ASSUME Inv, Answered, ~HasNamesake(kind, stmt), ~WildcardShifted, ~ListOutdated
             PROVE  ShowsFirst(result.cells,
                               Output(Target(result.altered), AsRead(kind, stmt)),
                               result.visible, ~WildcardMerges(stmt))
  BY DEF ShownAsAsked, ShowsFirst
<1>1. plan.path \in {"join", "single", "plain"}
  BY ResultFields
<1>2. CASE plan.path = "join"
  BY <1>2, JoinShows
<1>3. CASE plan.path \in {"single", "plain"}
  <2>1. PICK cells \in Seq(Cells) : /\ cells = result.cells /\ result.visible = Len(cells)
                                    /\ cells = Output(Target(result.altered), plan.rewritten)
    BY <1>3, ResultIs, ResultFields
  <2>2. Output(Target(result.altered), plan.rewritten)
          = Output(Target(result.altered), AsRead(kind, stmt))
    <3>1. CASE plan.rewritten = AsRead(kind, stmt)
      BY <3>1
    <3>2. CASE plan.rewritten # AsRead(kind, stmt)
      <4>1. PlanSingle(kind, stmt, plan) /\ plan.cuts
        BY <1>3, <3>2, ResultFields DEF PlanSingle, PlanPlain
      <4>2. Target(result.altered) = Catalog
        BY <4>1 DEF ListOutdated, Target
      <4> QED
        BY <4>1, <4>2, ListSame, ResultIs
    <3> QED
      BY <3>1, <3>2
  <2>3. SubSeq(cells, 1, Len(cells)) = cells /\ Len(cells) \in Nat
    BY <2>1, SameBegins
  <2> QED
    BY <2>1, <2>2, <2>3 DEF ShowsFirst
<1> QED
  BY <1>1, <1>2, <1>3

\* The row that is shown begins with the columns asked for, in order and under
\* their names, and has no other (readQuery's visible prefix), unless a wildcard
\* merges columns, tables have namesakes or were altered since they were counted.
THEOREM AsAsked == Spec => []ShownAsAsked
<1> QED
  BY Invariance, Shows, PTL

----------------------------------------------------------------------------
(* The rows that origins find: the single-table path *)

\* Columns of one table of the home schema.
CellsOf(cells, names, ref) ==
  /\ DOMAIN cells = DOMAIN names
  /\ \A i \in DOMAIN names : cells[i] = Stored(ref, names[i])

\* A list that runs names columns the table has.
LEMMA ListHas ==
  ASSUME NEW catalog, IsCatalog(catalog), NEW query \in StatementsOver(Names),
         NEW ref \in TablesOver(Names), NEW table,
         FromOne(query, ref), Exists(catalog, ref), AsksList(query, table),
         AllRun(query.natural, Scope(catalog, query), query.items)
  PROVE  Lists(catalog[<<ref.schema, ref.name>>].columns, ColumnsOf(table))
<1>1. PICK scope \in Seq(Entries) :
        /\ scope = Scope(catalog, query)
        /\ OneEntry(scope, ref, StoredColumns(catalog, ref))
  BY ScopeOfOne
<1>2. /\ DOMAIN StoredColumns(catalog, ref) = DOMAIN catalog[<<ref.schema, ref.name>>].columns
      /\ \A j \in DOMAIN catalog[<<ref.schema, ref.name>>].columns :
           StoredColumns(catalog, ref)[j].name = catalog[<<ref.schema, ref.name>>].columns[j]
  <2>1. /\ DOMAIN StoredColumns(catalog, ref) = DOMAIN catalog[<<ref.schema, ref.name>>].columns
        /\ \A j \in DOMAIN catalog[<<ref.schema, ref.name>>].columns :
             StoredColumns(catalog, ref)[j]
               = Stored(ref, catalog[<<ref.schema, ref.name>>].columns[j])
    BY StoredColumnsAre
  <2>2. \A c : Stored(ref, c).name = c
    BY DEF Stored
  <2> QED
    BY <2>1, <2>2
<1>3. ASSUME NEW i \in DOMAIN ColumnsOf(table)
      PROVE  ColumnsOf(table)[i] \in ToSet(catalog[<<ref.schema, ref.name>>].columns)
  <2>1. PICK item : /\ item = ListOf(table)[i] /\ item.kind = "column"
                    /\ item.name = ColumnsOf(table)[i] /\ i \in DOMAIN query.items
                    /\ item = query.items[i]
    BY ListOfType DEF AsksList
  <2>2. ItemRuns(query.natural, scope, item)
    BY <1>1, <2>1 DEF AllRun
  <2>3. Named(scope, item) # {}
    <3>1. item.kind = "column"
      BY <2>1
    <3>2. scope \in Seq(Entries)
      BY <1>1
    <3> QED
      BY <2>2, <3>1, <3>2, RunsFinds
  <2>4. PICK a \in DOMAIN scope : \E b \in DOMAIN scope[a].columns :
          scope[a].columns[b].name = item.name
    BY <2>3, NamedIs
  <2>5. scope[a].columns = StoredColumns(catalog, ref)
    BY <1>1, <2>4 DEF OneEntry, Entry
  <2>6. PICK b \in DOMAIN catalog[<<ref.schema, ref.name>>].columns :
          catalog[<<ref.schema, ref.name>>].columns[b] = item.name
    BY <1>2, <2>4, <2>5
  <2> QED
    BY <2>1, <2>6 DEF ToSet
<1> QED
  BY <1>3 DEF Lists

\* Whatever was altered, the result holds the table's columns, the key's among them.
LEMMA SingleCells ==
  ASSUME NEW k \in Dialects, NEW s \in StatementsOver(Written), WellFormed(s),
         NEW p, PlanSingle(k, s, p), s.shape # "union", ~HasNamesake(k, s),
         NEW altered \in BOOLEAN, NEW catalog, catalog = Target(altered),
         Runs(catalog, p.rewritten)
  PROVE  \E ref : \E names \in Seq(Names) :
           /\ CellsOf(Output(catalog, p.rewritten), names, ref)
           /\ <<ref.schema, ref.name>> = <<Home, p.table>>
           /\ ToSet(p.key) \subseteq ToSet(names)
<1>1. /\ IsCatalog(catalog) /\ DOMAIN catalog = DOMAIN Catalog
      /\ \A t \in DOMAIN Catalog : catalog[t].key = Catalog[t].key
  BY TargetIs
<1>2. PICK read \in StatementsOver(Names) :
        read = AsRead(k, s) /\ Spells(k, s, read)
  <2>1. AsRead(k, s) \in StatementsOver(Names)
    BY AsReadIs, SpelledStatements
  <2> QED
    BY <2>1, AsReadIs
<1>3. /\ <<Home, p.table>> \in DOMAIN Catalog
      /\ ColumnsOf(p.table) = Catalog[<<Home, p.table>>].columns
      /\ p.key = Catalog[<<Home, p.table>>].key
  BY SinglePlanIs
<1>4. PICK ref \in TablesOver(Names) :
        /\ StarOf(read, ref) /\ <<ref.schema, ref.name>> = <<Home, p.table>>
  <2>1. PICK ref \in TablesOver(Written) :
          /\ StarOf(AsRead(k, s), ref) /\ SpellsTable(k, s.from[1], ref)
          /\ DOMAIN s.from = {1} /\ s.from[1] \in TablesOver(Written)
          /\ s.from[1].name = p.table
    BY SinglePlanIs
  <2>2. ref \in TablesOver(Names)
    <3>1. Written \subseteq Names
      BY DEF Written, UsersNames
    <3> QED
      BY <3>1 DEF TablesOver
  <2>3. ~IsDerived(s.from[1]) /\ 1 \in DOMAIN s.from
    BY <2>1, TableFields
  <2>4. ~IsNamesake(s.from[1], read.from[1])
    BY <1>2, <2>3 DEF HasNamesake
  <2>5. read.from[1] = ref
    BY <1>2, <2>1 DEF StarOf
  <2>6. <<ref.schema, ref.name>> = <<Home, p.table>>
    BY <1>3, <2>1, <2>4, <2>5 DEF IsNamesake
  <2> QED
    BY <1>2, <2>1, <2>2, <2>6
<1>5. Exists(catalog, ref)
  BY <1>1, <1>3, <1>4 DEF Exists
<1>6. PICK columns \in Seq(Names) :
        /\ columns = catalog[<<ref.schema, ref.name>>].columns
        /\ ToSet(p.key) \subseteq ToSet(columns)
  <2>1. /\ <<ref.schema, ref.name>> \in DOMAIN catalog
        /\ p.key = catalog[<<ref.schema, ref.name>>].key
    BY <1>1, <1>3, <1>4
  <2>2. PICK t \in DOMAIN catalog : t = <<ref.schema, ref.name>>
    BY <2>1
  <2>3. /\ catalog[t].columns \in Seq(Names)
        /\ ToSet(catalog[t].key) \subseteq ToSet(catalog[t].columns)
    <3>1. t \in DOMAIN catalog
      BY <2>2
    <3> QED
      BY <1>1, <3>1, CatalogColumns
  <2> QED
    BY <2>1, <2>2, <2>3
<1>7. CASE ~p.cuts
  <2>1. p.rewritten = read
    BY <1>2, <1>7 DEF PlanSingle
  <2>2. Output(catalog, read) = Listed(read.shape, StoredColumns(catalog, ref))
    BY <1>1, <1>4, <1>5, StarReturns
  <2>3. /\ StoredColumns(catalog, ref) \in Seq(Cells)
        /\ DOMAIN StoredColumns(catalog, ref) = DOMAIN columns
        /\ \A i \in DOMAIN columns : StoredColumns(catalog, ref)[i] = Stored(ref, columns[i])
    <3>1. /\ StoredColumns(catalog, ref) \in Seq(Cells)
          /\ DOMAIN StoredColumns(catalog, ref) = DOMAIN catalog[<<ref.schema, ref.name>>].columns
          /\ \A i \in DOMAIN catalog[<<ref.schema, ref.name>>].columns :
               StoredColumns(catalog, ref)[i]
                 = Stored(ref, catalog[<<ref.schema, ref.name>>].columns[i])
      BY <1>1, <1>5, StoredColumnsAre
    <3> QED
      BY <1>6, <3>1
  <2>4. read.shape # "union"
    BY <1>2 DEF Spells, SpellsList
  <2>5. Output(catalog, read) = StoredColumns(catalog, ref)
    <3>1. PICK stored \in Seq(Cells) : stored = StoredColumns(catalog, ref)
      BY <2>3
    <3>2. Listed(read.shape, stored) = stored
      BY <2>4, ListedIs
    <3> QED
      BY <2>2, <3>1, <3>2
  <2>6. CellsOf(Output(catalog, p.rewritten), columns, ref)
    BY <2>1, <2>3, <2>5 DEF CellsOf
  <2>7. columns \in Seq(Names) /\ ToSet(p.key) \subseteq ToSet(columns)
    BY <1>6
  <2>8. <<ref.schema, ref.name>> = <<Home, p.table>>
    BY <1>4
  <2> QED
    BY <2>6, <2>7, <2>8
<1>8. CASE p.cuts
  <2>1. PICK other \in StatementsOver(Names) :
          /\ other = p.rewritten /\ other.from = read.from /\ AsksList(other, p.table)
          /\ other.shape = read.shape
    <3>1. p.rewritten = RewrittenSelect(k, s, p.table)
      BY <1>8 DEF PlanSingle
    <3>2. /\ p.rewritten \in StatementsOver(UsersNames)
          /\ p.rewritten.from = read.from /\ p.rewritten.items = ListOf(p.table)
          /\ p.rewritten.shape = read.shape
      BY <1>2, <3>1, RewrittenSelectIs
    <3>3. UsersNames \subseteq Names
      BY DEF UsersNames
    <3>4. p.rewritten \in StatementsOver(Names)
      BY <3>2, <3>3, StatementsWiden
    <3> QED
      BY <3>2, <3>4 DEF AsksList
  <2>2. FromOne(other, ref)
    BY <1>4, <2>1 DEF StarOf, FromOne
  <2>3. AllRun(other.natural, Scope(catalog, other), other.items)
    <3>1. Runs(catalog, other)
      BY <2>1
    <3>2. ItemsRun(Scope(catalog, other), other)
      BY <1>1, <3>1, RunsParts
    <3> QED
      BY <3>2 DEF ItemsRun, AllRun
  <2>4. AsksList(other, p.table)
    BY <2>1
  <2>5. Lists(catalog[<<ref.schema, ref.name>>].columns, ColumnsOf(p.table))
    BY <1>1, <1>5, <2>2, <2>3, <2>4, ListHas
  <2>6. Output(catalog, other)
          = Listed(other.shape, [i \in DOMAIN ColumnsOf(p.table) |->
                                   Stored(ref, ColumnsOf(p.table)[i])])
    BY <1>1, <1>5, <2>2, <2>4, <2>5, ListReturns
  <2>7. other.shape # "union"
    BY <1>2, <2>1 DEF Spells, SpellsList
  <2>8. \A columns_ : Listed(other.shape, columns_) = [i \in DOMAIN columns_ |-> columns_[i]]
    BY <2>7 DEF Listed, ListedColumn
  <2>9. CellsOf(Output(catalog, other), ColumnsOf(p.table), ref)
    BY <2>6, <2>8 DEF CellsOf
  <2>10. ToSet(p.key) \subseteq ToSet(ColumnsOf(p.table)) /\ ColumnsOf(p.table) \in Seq(Names)
    BY TableColumns DEF PlanSingle
  <2> QED
    BY <1>4, <2>1, <2>9, <2>10
<1> QED
  BY <1>7, <1>8

\* An origin with a key and a position for each column of it.
Placed(origin) ==
  /\ origin.key \in Seq(Names) /\ origin.key # << >>
  /\ DOMAIN origin.at = DOMAIN origin.key

\* The origin's table is the cell's, and its positions are those of the row's key.
Finds(origin, cells, i) ==
  /\ cells[i].from.table = <<Home, origin.table>>
  /\ FetchesRowOf(origin, cells, cells[i].from.path)

LEMMA UniformFinds ==
  ASSUME NEW cells, NEW ref, NEW names \in Seq(Names), CellsOf(cells, names, ref),
         NEW table, <<ref.schema, ref.name>> = <<Home, table>>,
         NEW key \in Seq(Names), ToSet(key) \subseteq ToSet(names),
         NEW i \in DOMAIN names
  PROVE  /\ Finds(UniformOrigins(cells, table, key)[i], cells, i)
         /\ key # << >> => Placed(UniformOrigins(cells, table, key)[i])
<1>1. [j \in DOMAIN cells |-> cells[j].name] = names
  <2>1. \A j \in DOMAIN names : cells[j].name = names[j]
    BY DEF CellsOf, Stored
  <2>2. [j \in DOMAIN cells |-> cells[j].name] = [j \in DOMAIN names |-> names[j]]
    BY <2>1 DEF CellsOf
  <2>3. [j \in DOMAIN names |-> names[j]] = names
    OBVIOUS
  <2> QED
    BY <2>2, <2>3
<1>2. PICK origin : origin = UniformOrigins(cells, table, key)[i]
  OBVIOUS
<1>3. origin = Origin(table, key, [j \in DOMAIN key |-> Position(names, key[j])], << >>)
  BY <1>1, <1>2 DEF UniformOrigins, CellsOf
<1>4. /\ origin.table = table /\ origin.key = key
      /\ DOMAIN origin.at = DOMAIN key
      /\ \A j \in DOMAIN key : origin.at[j] = Position(names, key[j])
  BY <1>3 DEF Origin
<1>5. cells[i].from.table = <<Home, table>> /\ cells[i].from.path = <<ref.alias>>
  BY DEF CellsOf, Stored
<1>6. ASSUME NEW j \in DOMAIN key
      PROVE  /\ origin.at[j] \in DOMAIN cells
             /\ cells[origin.at[j]].from = [path |-> <<ref.alias>>, table |-> <<Home, table>>,
                                            column |-> key[j]]
  <2>1. key[j] \in ToSet(names)
    BY DEF ToSet
  <2>2. /\ Position(names, key[j]) \in DOMAIN names
        /\ names[Position(names, key[j])] = key[j]
    BY <2>1, PositionIs
  <2> QED
    <3>1. PICK n \in DOMAIN names : n = origin.at[j] /\ names[n] = key[j]
      BY <1>4, <2>2
    <3>2. n \in DOMAIN cells /\ cells[n] = Stored(ref, key[j])
      BY <3>1 DEF CellsOf
    <3>3. Stored(ref, key[j]).from = [path |-> <<ref.alias>>, table |-> <<Home, table>>,
                                      column |-> key[j]]
      BY DEF Stored
    <3> QED
      BY <3>1, <3>2, <3>3
<1> QED
  BY <1>2, <1>4, <1>5, <1>6 DEF Finds, FetchesRowOf, Placed

----------------------------------------------------------------------------
(* The rows that origins find: the join path *)

\* The target ran the statement grown by the carriers.
Ran(k, s, catalog, read, other, needs) ==
  /\ k \in Dialects /\ s \in StatementsOver(Written) /\ WellFormed(s)
  /\ Understands(s, JoinShapes(k)) /\ s.shape # "union" /\ ~HasNamesake(k, s)
  /\ IsCatalog(catalog) /\ DOMAIN catalog = DOMAIN Catalog
  /\ \A t \in DOMAIN Catalog : catalog[t].key = Catalog[t].key
  /\ \A m \in DOMAIN s.items : s.items[m].kind = "star" => catalog = Catalog
  /\ read = AsRead(k, s) /\ Reading(catalog, read)
  /\ needs \in Seq(Needs) /\ needs = Needed(VisibleOrigins(k, s))
  /\ other = GrownQuery(read, InnerOf(s, needs), Carriers(needs)) /\ Runs(catalog, other)

\* Its origins and its columns are laid out alike, and stars are not merged.
Alike(k, s, catalog, read) ==
  /\ SameLengths(ItemPieces(read.natural, Scope(catalog, read), read.items),
                 OriginPieces(k, s))
  /\ \A m \in DOMAIN s.items : s.items[m].kind = "star" =>
       ItemColumns(read.natural, Scope(catalog, read), read.items[m])
         = FlattenSeq(BlockColumns(Scope(catalog, read), read.items[m]))

LEMMA StarsWhole ==
  ASSUME NEW k, NEW s, NEW catalog, NEW read, NEW other, NEW needs,
         Ran(k, s, catalog, read, other, needs),
         NEW m \in DOMAIN s.items, s.items[m].kind = "star",
         NEW pieces, pieces = ItemColumns(read.natural, Scope(catalog, read), read.items[m]),
         (s.natural /\ s.items[m].of = Nameless) =>
           Len(pieces) >= Len(ItemOrigins(k, s.from, s.items[m]))
  PROVE  pieces = FlattenSeq(BlockColumns(Scope(catalog, read), read.items[m]))
<1>1. /\ k \in Dialects /\ s \in StatementsOver(Written) /\ WellFormed(s)
      /\ catalog = Catalog /\ Reading(Catalog, read) /\ ~HasNamesake(k, s)
      /\ ExpandsWildcard(s.from, s.items[m]) /\ read = AsRead(k, s)
  BY DEF Ran, Understands
<1>2. PICK scope \in Seq(Entries) : scope = Scope(Catalog, read) /\ scope # << >>
  BY <1>1 DEF Reading
<1>3. PICK blocks : blocks = BlockColumns(scope, read.items[m])
  OBVIOUS
<1>4. PICK tables : tables = WildcardNames(s.from, s.items[m])
  OBVIOUS
<1>5. /\ BlocksStored(blocks, tables)
      /\ pieces = IF read.items[m].of = Nameless THEN StarColumns(read.natural, scope)
                  ELSE FlattenSeq(blocks)
  BY <1>1, <1>2, <1>3, <1>4, StarBlocks
<1>6. CASE read.items[m].of # Nameless
  BY <1>1, <1>2, <1>3, <1>5, <1>6
<1>7. CASE read.items[m].of = Nameless
  <2>1. FlattenSeq(blocks) = AllColumns(scope)
    BY <1>2, <1>3, <1>7, AllColumnsHave DEF BlockColumns
  <2>2. Spells(k, s, read)
    BY <1>1, AsReadIs
  <2>3. read.natural = s.natural /\ s.natural \in BOOLEAN
    BY <1>1, <2>2, StatementQueries DEF Spells, SpellsList, QueriesOver
  <2>4. s.items[m].of = Nameless
    <3>1. s.items[m].of \in Written
      BY <1>1, StatementQueries, QueryFields, ItemFields
    <3>2. read.items[m].of = As(k, s.items[m].of)
      BY <2>2 DEF Spells, SpellsList, SpellsItem
    <3> QED
      BY <1>7, <3>1, <3>2, AsIs
  <2>5. PICK natural : natural = read.natural
    OBVIOUS
  <2>6. natural => Len(scope) > 1
    <3>1. s.natural => Len(s.from) > 1
      BY <1>1 DEF WellFormed
    <3>2. DOMAIN scope = DOMAIN s.from
      BY <1>2, <2>2, ScopeEntries DEF Spells, SpellsList
    <3>3. s.from \in Seq(Refs(Written))
      BY <1>1, StatementQueries, QueryFields
    <3>4. Len(scope) = Len(s.from)
      BY <1>2, <3>2, <3>3, SameDomain
    <3> QED
      BY <2>3, <2>5, <3>1, <3>4
  <2>7. PICK star : star = StarColumns(natural, scope)
    OBVIOUS
  <2>8. PICK all : all = AllColumns(scope)
    OBVIOUS
  <2>9. /\ Len(star) \in Nat /\ Len(all) \in Nat
        /\ star = all \/ Len(star) < Len(all)
        /\ ~natural => star = all
    <3>1. scope \in Seq(Entries) /\ scope # << >>
      BY <1>2
    <3>2. /\ Len(StarColumns(natural, scope)) \in Nat /\ Len(AllColumns(scope)) \in Nat
          /\ \/ StarColumns(natural, scope) = AllColumns(scope)
             \/ Len(StarColumns(natural, scope)) < Len(AllColumns(scope))
          /\ ~natural => StarColumns(natural, scope) = AllColumns(scope)
      BY <2>6, <3>1, StarLength
    <3> QED
      BY <2>7, <2>8, <3>2
  <2>10. Len(ItemOrigins(k, s.from, s.items[m])) = Len(all)
    <3>1. ItemOrigins(k, s.from, s.items[m]) = ExpandWildcardOrigins(tables)
      <4>1. s \in StatementsOver(Names)
        BY <1>1, SpelledStatements
      <4>2. s.from \in Seq(Refs(Names)) /\ s.items[m] \in ItemsOver(Names)
        BY <4>1, StatementQueries, QueryFields
      <4> QED
        BY <1>1, <1>4, <4>2, ItemOriginsType
    <3>2. /\ blocks \in Seq(Seq(Cells)) /\ tables \in Seq(Names)
          /\ SameLengths(blocks, ColumnLists(tables))
      BY <1>5 DEF BlocksStored
    <3>3. Len(ExpandWildcardOrigins(tables)) = Len(FlattenSeq(ColumnLists(tables)))
      BY <3>2, ExpandsTo
    <3>4. ColumnLists(tables) \in Seq(Seq(UsersNames))
      BY <3>2, BlocksAre
    <3>5. Len(FlattenSeq(blocks)) = Len(FlattenSeq(ColumnLists(tables)))
      BY <3>2, <3>4, FlattenLengths
    <3> QED
      BY <2>1, <2>8, <3>1, <3>3, <3>5
  <2>11. pieces = star
    BY <1>5, <1>7, <2>5, <2>7
  <2>12. natural => Len(pieces) >= Len(all)
    BY <2>3, <2>4, <2>5, <2>10
  <2>13. star = all
    BY <2>9, <2>11, <2>12
  <2> QED
    BY <1>1, <1>2, <1>3, <2>1, <2>8, <2>11, <2>13
<1> QED
  BY <1>6, <1>7

LEMMA LaidAlike ==
  ASSUME NEW k, NEW s, NEW catalog, NEW read, NEW other, NEW needs,
         Ran(k, s, catalog, read, other, needs), ~WildcardMerges(s),
         Len(Output(catalog, read)) = Len(VisibleOrigins(k, s))
  PROVE  Alike(k, s, catalog, read)
<1>1. /\ k \in Dialects /\ s \in StatementsOver(Written) /\ WellFormed(s)
      /\ Understands(s, JoinShapes(k)) /\ ~HasNamesake(k, s) /\ read = AsRead(k, s)
      /\ Reading(catalog, read)
      /\ \A m \in DOMAIN s.items : s.items[m].kind = "star" => catalog = Catalog
  BY DEF Ran
<1>2. CASE \A m \in DOMAIN s.items :
             ~(s.natural /\ s.items[m].kind = "star" /\ s.items[m].of = Nameless)
  <2>1. SameLengths(ItemPieces(read.natural, Scope(catalog, read), read.items),
                    OriginPieces(k, s))
    BY <1>1, <1>2, OutputCounted
  <2>2. ASSUME NEW m \in DOMAIN s.items, s.items[m].kind = "star"
        PROVE  ItemColumns(read.natural, Scope(catalog, read), read.items[m])
                 = FlattenSeq(BlockColumns(Scope(catalog, read), read.items[m]))
    BY <1>2, <2>2, StarsWhole
  <2> QED
    BY <2>1, <2>2 DEF Alike
<1>3. CASE \E m \in DOMAIN s.items :
             s.natural /\ s.items[m].kind = "star" /\ s.items[m].of = Nameless
  <2>1. PICK m \in DOMAIN s.items :
          s.natural /\ s.items[m].kind = "star" /\ s.items[m].of = Nameless
    BY <1>3
  <2>2. DOMAIN s.items = {1} /\ m = 1
    BY <1>1, <2>1, SoleStar
  <2>3. PICK origins \in Seq(Seq(Origins)) :
          /\ origins = OriginPieces(k, s) /\ VisibleOrigins(k, s) = FlattenSeq(origins)
          /\ DOMAIN origins = {1}
    BY <1>1, <2>2, SpelledStatements, OriginPiecesType
  <2>4. PICK pieces \in Seq(Seq(Cells)) :
          /\ pieces = ItemPieces(read.natural, Scope(catalog, read), read.items)
          /\ DOMAIN pieces = {1}
    <3>1. /\ Scope(catalog, read) \in Seq(Entries)
          /\ AllRun(read.natural, Scope(catalog, read), read.items)
      BY <1>1 DEF Reading
    <3>2. read \in StatementsOver(Names) /\ DOMAIN read.items = {1}
      BY <1>1, <2>2, AsReadIs, SpelledStatements DEF Spells, SpellsList
    <3>3. read.items \in Seq(ItemsOver(Names))
      BY <3>2, StatementQueries, QueryFields
    <3>4. /\ ItemPieces(read.natural, Scope(catalog, read), read.items) \in Seq(Seq(Cells))
          /\ DOMAIN ItemPieces(read.natural, Scope(catalog, read), read.items)
               = DOMAIN read.items
      BY <3>1, <3>3, ItemPiecesType
    <3> QED
      BY <3>2, <3>4
  <2>5. OnlyAt(origins, 1) /\ OnlyAt(pieces, 1)
    BY <2>3, <2>4 DEF OnlyAt
  <2>6. FlattenSeq(origins) = origins[1] /\ FlattenSeq(pieces) = pieces[1]
    BY <2>3, <2>4, <2>5, FlattenOne
  <2>7. Len(Output(catalog, read)) = Len(pieces[1])
    <3>1. Output(catalog, read) = Listed(read.shape, pieces[1])
      BY <1>1, <2>4, <2>6 DEF Reading, Columns
    <3>2. pieces[1] \in Seq(Cells)
      BY <2>4
    <3> QED
      BY <3>1, <3>2, ListedIs
  <2>8. Len(pieces[1]) = Len(origins[1])
    BY <2>3, <2>6, <2>7
  <2>9. /\ pieces[1] = ItemColumns(read.natural, Scope(catalog, read), read.items[1])
        /\ origins[1] = ItemOrigins(k, s.from, s.items[1])
    <3>1. 1 \in DOMAIN read.items /\ 1 \in DOMAIN s.items
      BY <1>1, <2>2, AsReadIs DEF Spells, SpellsList
    <3> QED
      BY <2>3, <2>4, <3>1 DEF ItemPieces, OriginPieces
  <2>10. SameLengths(pieces, origins)
    <3>1. Len(pieces) = Len(origins)
      <4>1. DOMAIN pieces = DOMAIN origins
        BY <2>3, <2>4
      <4>2. pieces \in Seq(Seq(Cells)) /\ origins \in Seq(Seq(Origins))
        BY <2>3, <2>4
      <4> QED
        BY <4>1, <4>2, SameDomain
    <3> QED
      BY <2>4, <2>8, <3>1 DEF SameLengths
  <2>11. Len(pieces[1]) >= Len(ItemOrigins(k, s.from, s.items[1]))
    <3>1. Len(pieces[1]) \in Nat
      BY <2>4, LenProperties
    <3> QED
      BY <2>8, <2>9, <3>1
  <2>12. pieces[1] = FlattenSeq(BlockColumns(Scope(catalog, read), read.items[1]))
    BY <2>1, <2>2, <2>9, <2>11, StarsWhole
  <2> QED
    BY <2>2, <2>3, <2>4, <2>9, <2>10, <2>12 DEF Alike
<1> QED
  BY <1>2, <1>3

LEMMA RanPieces ==
  ASSUME NEW k, NEW s, NEW catalog, NEW read, NEW other, NEW needs,
         Ran(k, s, catalog, read, other, needs)
  PROVE  /\ OriginPieces(k, s) \in Seq(Seq(Origins))
         /\ DOMAIN OriginPieces(k, s) = DOMAIN s.items
         /\ VisibleOrigins(k, s) = FlattenSeq(OriginPieces(k, s))
         /\ VisibleOrigins(k, s) \in Seq(Origins)
         /\ Scope(catalog, read) \in Seq(Entries)
         /\ ItemPieces(read.natural, Scope(catalog, read), read.items) \in Seq(Seq(Cells))
         /\ DOMAIN ItemPieces(read.natural, Scope(catalog, read), read.items) = DOMAIN s.items
         /\ Output(catalog, read)
              = FlattenSeq(ItemPieces(read.natural, Scope(catalog, read), read.items))
         /\ Output(catalog, read) \in Seq(Cells)
         /\ Spells(k, s, read)
<1>1. /\ k \in Dialects /\ s \in StatementsOver(Written) /\ s.shape # "union"
      /\ Understands(s, JoinShapes(k)) /\ read = AsRead(k, s) /\ Reading(catalog, read)
  BY DEF Ran
<1>2. /\ OriginPieces(k, s) \in Seq(Seq(Origins))
      /\ DOMAIN OriginPieces(k, s) = DOMAIN s.items
      /\ VisibleOrigins(k, s) = FlattenSeq(OriginPieces(k, s))
      /\ VisibleOrigins(k, s) \in Seq(Origins)
  BY <1>1, SpelledStatements, OriginPiecesType
<1>3. Spells(k, s, read) /\ read \in StatementsOver(Names)
  BY <1>1, AsReadIs, SpelledStatements
<1>4. read.items \in Seq(ItemsOver(Names)) /\ DOMAIN read.items = DOMAIN s.items
      /\ read.shape = s.shape
  BY <1>3, StatementQueries, QueryFields DEF Spells, SpellsList
<1>5. /\ Scope(catalog, read) \in Seq(Entries)
      /\ AllRun(read.natural, Scope(catalog, read), read.items)
      /\ Output(catalog, read)
           = Listed(read.shape, Columns(read.natural, Scope(catalog, read), read.items))
  BY <1>1 DEF Reading
<1>6. /\ ItemPieces(read.natural, Scope(catalog, read), read.items) \in Seq(Seq(Cells))
      /\ DOMAIN ItemPieces(read.natural, Scope(catalog, read), read.items) = DOMAIN read.items
  <2>1. read.items \in Seq(ItemsOver(Names))
    BY <1>4
  <2> QED
    BY <1>5, <2>1, ItemPiecesType
<1>7. PICK columns \in Seq(Cells) :
        columns = FlattenSeq(ItemPieces(read.natural, Scope(catalog, read), read.items))
  BY <1>6, FlattenType
<1>8. Output(catalog, read) = Listed(read.shape, columns)
  BY <1>5, <1>7 DEF Columns
<1>9. Listed(read.shape, columns) = columns
  <2>1. read.shape # "union"
    BY <1>1, <1>4
  <2>2. columns \in Seq(Cells)
    BY <1>7
  <2> QED
    BY <2>1, <2>2, ListedIs
<1> QED
  BY <1>2, <1>3, <1>4, <1>5, <1>6, <1>7, <1>8, <1>9

\* The ith column is the jth of item m, and so is the ith origin.
At(k, s, catalog, read, i, m, j) ==
  /\ j \in DOMAIN ItemOrigins(k, s.from, s.items[m])
  /\ VisibleOrigins(k, s)[i] = ItemOrigins(k, s.from, s.items[m])[j]
  /\ j \in DOMAIN ItemColumns(read.natural, Scope(catalog, read), read.items[m])
  /\ i \in DOMAIN Output(catalog, read)
  /\ Output(catalog, read)[i]
       = ItemColumns(read.natural, Scope(catalog, read), read.items[m])[j]
  /\ m = 1 => i = j

LEMMA LaidAt ==
  ASSUME NEW S, NEW T, NEW s \in Seq(Seq(S)), NEW t \in Seq(Seq(T)), SameLengths(s, t),
         NEW i \in DOMAIN FlattenSeq(t)
  PROVE  \E m \in DOMAIN t : \E j \in DOMAIN t[m] :
           /\ m \in DOMAIN s /\ j \in DOMAIN s[m]
           /\ FlattenSeq(t)[i] = t[m][j]
           /\ i \in DOMAIN FlattenSeq(s) /\ FlattenSeq(s)[i] = s[m][j]
           /\ m = 1 => i = j
<1>1. LaidOut(s) /\ LaidOut(t)
  BY FlattenLaidOut
<1>2. PICK m \in DOMAIN t : \E j \in DOMAIN t[m] : i = Before(t, m) + j
  BY <1>1 DEF LaidOut
<1>3. PICK j \in DOMAIN t[m] : i = Before(t, m) + j
  BY <1>2
<1>4. FlattenSeq(t)[i] = t[m][j]
  BY <1>1, <1>3 DEF LaidOut
<1>5. PICK n \in Nat : n = Len(s) /\ DOMAIN s = 1..n /\ n = Len(t) /\ DOMAIN t = 1..n
  BY LenProperties DEF SameLengths
<1>6. m \in 1..n /\ Before(s, m) = Before(t, m)
  <2>1. m \in 1..Len(s)
    BY <1>5
  <2> QED
    BY <1>5, <2>1, BeforeLengths
<1>7. j \in DOMAIN s[m]
  <2>1. s[m] \in Seq(S) /\ t[m] \in Seq(T) /\ Len(s[m]) = Len(t[m])
    BY <1>5, <1>6 DEF SameLengths
  <2>2. DOMAIN s[m] = 1..Len(s[m]) /\ DOMAIN t[m] = 1..Len(t[m])
    BY <2>1, LenProperties
  <2>3. j \in 1..Len(t[m])
    BY <1>3, <2>2
  <2> QED
    BY <2>1, <2>2, <2>3
<1>8. /\ Before(s, m) + j \in DOMAIN FlattenSeq(s)
      /\ FlattenSeq(s)[Before(s, m) + j] = s[m][j]
  BY <1>1, <1>5, <1>6, <1>7 DEF LaidOut
<1>9. m = 1 => i = j
  <2>1. ASSUME m = 1 PROVE i = j
    <3>1. t # << >>
      BY <1>5, <1>6, EmptySeq
    <3>2. SubSeq(t, 1, 0) = << >>
      BY SubSeqProperties, EmptySeq
    <3>3. Before(t, 1) = 0
      <4>1. Before(t, 1) = Len(FlattenSeq(SubSeq(t, 1, 1 - 1)))
        BY DEF Before
      <4>2. SubSeq(t, 1, 1 - 1) = << >>
        BY <3>2
      <4> QED
        BY <4>1, <4>2, FlattenEmpty, EmptySeq
    <3>4. j \in Nat
      <4>1. t[m] \in Seq(T)
        BY <1>5, <1>6
      <4> QED
        BY <1>3, <4>1, LenProperties
    <3> QED
      BY <1>3, <2>1, <3>3, <3>4
  <2> QED
    BY <2>1
<1> QED
  BY <1>3, <1>4, <1>5, <1>6, <1>7, <1>8, <1>9

LEMMA PlaceOf ==
  ASSUME NEW k, NEW s, NEW catalog, NEW read, NEW other, NEW needs,
         Ran(k, s, catalog, read, other, needs), Alike(k, s, catalog, read),
         NEW i \in DOMAIN VisibleOrigins(k, s)
  PROVE  \E m \in DOMAIN s.items : \E j : At(k, s, catalog, read, i, m, j)
<1>1. PICK origins \in Seq(Seq(Origins)) :
        /\ origins = OriginPieces(k, s) /\ VisibleOrigins(k, s) = FlattenSeq(origins)
        /\ DOMAIN origins = DOMAIN s.items
  BY RanPieces
<1>2. PICK pieces \in Seq(Seq(Cells)) :
        /\ pieces = ItemPieces(read.natural, Scope(catalog, read), read.items)
        /\ DOMAIN pieces = DOMAIN s.items /\ Output(catalog, read) = FlattenSeq(pieces)
  BY RanPieces
<1>3. SameLengths(pieces, origins)
  BY <1>1, <1>2 DEF Alike
<1>4. i \in DOMAIN FlattenSeq(origins)
  BY <1>1
<1>5. PICK m \in DOMAIN origins : \E j \in DOMAIN origins[m] :
        /\ m \in DOMAIN pieces /\ j \in DOMAIN pieces[m]
        /\ FlattenSeq(origins)[i] = origins[m][j]
        /\ i \in DOMAIN FlattenSeq(pieces) /\ FlattenSeq(pieces)[i] = pieces[m][j]
        /\ m = 1 => i = j
  <2>1. origins \in Seq(Seq(Origins)) /\ pieces \in Seq(Seq(Cells))
    BY <1>1, <1>2
  <2> QED
    BY <1>3, <1>4, <2>1, LaidAt
<1>6. PICK j \in DOMAIN origins[m] :
        /\ m \in DOMAIN pieces /\ j \in DOMAIN pieces[m]
        /\ FlattenSeq(origins)[i] = origins[m][j]
        /\ i \in DOMAIN FlattenSeq(pieces) /\ FlattenSeq(pieces)[i] = pieces[m][j]
        /\ m = 1 => i = j
  BY <1>5
<1>7. m \in DOMAIN s.items /\ origins[m] = ItemOrigins(k, s.from, s.items[m])
  BY <1>1, <1>5 DEF OriginPieces
<1>8. pieces[m] = ItemColumns(read.natural, Scope(catalog, read), read.items[m])
  <2>1. m \in DOMAIN read.items
    <3>1. Spells(k, s, read)
      BY RanPieces
    <3> QED
      BY <1>7, <3>1 DEF Spells, SpellsList
  <2> QED
    BY <1>2, <2>1 DEF ItemPieces
<1> QED
  BY <1>1, <1>2, <1>6, <1>7, <1>8 DEF At

LEMMA BeforeFirst ==
  ASSUME NEW S, NEW s \in Seq(Seq(S)), NEW j \in DOMAIN s[1], 1 \in DOMAIN s
  PROVE  j \in DOMAIN FlattenSeq(s) /\ FlattenSeq(s)[j] = s[1][j]
<1>1. LaidOut(s)
  BY FlattenLaidOut
<1>2. Before(s, 1) = 0
  <2>1. SubSeq(s, 1, 0) = << >>
    BY SubSeqProperties, EmptySeq
  <2>2. Before(s, 1) = Len(FlattenSeq(SubSeq(s, 1, 1 - 1)))
    BY DEF Before
  <2>3. SubSeq(s, 1, 1 - 1) = << >>
    BY <2>1
  <2> QED
    BY <2>2, <2>3, FlattenEmpty, EmptySeq
<1>3. j \in Nat
  <2>1. s[1] \in Seq(S)
    BY ElementOfSeq, LenProperties
  <2> QED
    BY <2>1, LenProperties
<1> QED
  BY <1>1, <1>2, <1>3 DEF LaidOut

\* A result begins with the columns that were asked for.
Begins(cells, asked) ==
  \A i \in DOMAIN asked : i \in DOMAIN cells /\ cells[i] = asked[i]

\* The blocks of a wildcard that comes first find their rows: their positions
\* count from the beginning of the result.
LEMMA StarFinds ==
  ASSUME NEW k, NEW s, NEW catalog, NEW read, NEW other, NEW needs,
         Ran(k, s, catalog, read, other, needs), Alike(k, s, catalog, read),
         NEW cells, Begins(cells, Output(catalog, read)),
         NEW i \in DOMAIN VisibleOrigins(k, s), At(k, s, catalog, read, i, 1, i),
         1 \in DOMAIN s.items, s.items[1].kind = "star",
         VisibleOrigins(k, s)[i] # NoOrigin
  PROVE  /\ VisibleOrigins(k, s)[i].via = << >> /\ Placed(VisibleOrigins(k, s)[i])
         /\ Finds(VisibleOrigins(k, s)[i], cells, i)
<1>1. /\ k \in Dialects /\ s \in StatementsOver(Written) /\ catalog = Catalog
      /\ Reading(Catalog, read) /\ ~HasNamesake(k, s)
      /\ ExpandsWildcard(s.from, s.items[1]) /\ read = AsRead(k, s)
  BY DEF Ran, Understands
<1>2. PICK scope : scope = Scope(catalog, read)
  OBVIOUS
<1>3. PICK blocks : blocks = BlockColumns(scope, read.items[1])
  OBVIOUS
<1>4. PICK tables : tables = WildcardNames(s.from, s.items[1])
  OBVIOUS
<1>5. BlocksStored(blocks, tables)
  BY <1>1, <1>2, <1>3, <1>4, StarBlocks
<1>6. PICK lists \in Seq(Seq(UsersNames)) : lists = ColumnLists(tables)
  BY <1>5, BlocksAre DEF BlocksStored
<1>7. /\ blocks \in Seq(Seq(Cells)) /\ tables \in Seq(Names) /\ DOMAIN blocks = DOMAIN tables
      /\ SameLengths(blocks, lists)
      /\ \A l \in DOMAIN tables : \E alias : StoredFrom(blocks[l], tables[l], alias)
  BY <1>5, <1>6 DEF BlocksStored
<1>8. ItemOrigins(k, s.from, s.items[1]) = ExpandWildcardOrigins(tables)
  <2>1. s \in StatementsOver(Names)
    BY <1>1, SpelledStatements
  <2>2. s.from \in Seq(Refs(Names)) /\ s.items[1] \in ItemsOver(Names)
    BY <2>1, StatementQueries, QueryFields
  <2> QED
    BY <1>1, <1>4, <2>2, ItemOriginsType
<1>9. PICK o : /\ o = VisibleOrigins(k, s)[i] /\ i \in DOMAIN ExpandWildcardOrigins(tables)
               /\ o = ExpandWildcardOrigins(tables)[i]
  BY <1>8 DEF At
<1>10. PICK l \in DOMAIN tables : \E j \in DOMAIN ColumnsOf(tables[l]) :
         /\ i = Before(lists, l) + j
         /\ BlockOrigin(o, tables[l], Before(lists, l))
  <2>1. \E l \in DOMAIN tables : \E j \in DOMAIN ColumnsOf(tables[l]) :
          /\ i = Before(ColumnLists(tables), l) + j
          /\ BlockOrigin(ExpandWildcardOrigins(tables)[i], tables[l],
                         Before(ColumnLists(tables), l))
    BY <1>7, <1>9, ExpandsTo
  <2> QED
    BY <1>6, <1>9, <2>1
<1>11. PICK j \in DOMAIN ColumnsOf(tables[l]) : i = Before(lists, l) + j
  BY <1>10
<1>12. PICK base : base = Before(lists, l) /\ base = Before(blocks, l)
  <2>1. l \in 1..Len(blocks)
    BY <1>7, LenProperties
  <2>2. lists \in Seq(Seq(UsersNames))
    BY <1>6
  <2>3. Before(blocks, l) = Before(lists, l)
    BY <1>7, <2>1, <2>2, BeforeLengths
  <2> QED
    BY <2>3
<1>13. PICK table : table = tables[l]
  OBVIOUS
<1>14. PICK key : key = PrimaryKeyColumns(table) /\ key # << >> /\
         o = Origin(table, key, [q \in DOMAIN key |-> base + Position(ColumnsOf(table), key[q])],
                    << >>)
  BY <1>9, <1>10, <1>12, <1>13 DEF BlockOrigin
<1>15. PICK alias : StoredFrom(blocks[l], table, alias)
  BY <1>7, <1>13
<1>16. ASSUME NEW x \in DOMAIN ColumnsOf(table)
       PROVE  /\ base + x \in DOMAIN cells
              /\ cells[base + x] = StoredCell(table, alias, ColumnsOf(table)[x])
  <2>1. x \in DOMAIN blocks[l] /\ blocks[l][x] = StoredCell(table, alias, ColumnsOf(table)[x])
    BY <1>15 DEF StoredFrom
  <2>2. /\ base + x \in DOMAIN FlattenSeq(blocks)
        /\ FlattenSeq(blocks)[base + x] = blocks[l][x]
    <3>1. LaidOut(blocks)
      BY <1>7, FlattenLaidOut
    <3> QED
      BY <1>7, <1>12, <2>1, <3>1 DEF LaidOut
  <2>3. PICK pieces \in Seq(Seq(Cells)) :
          /\ DOMAIN pieces = DOMAIN s.items /\ Output(catalog, read) = FlattenSeq(pieces)
          /\ pieces[1] = FlattenSeq(blocks)
    <3>1. 1 \in DOMAIN read.items
      BY RanPieces DEF Spells, SpellsList
    <3>2. ItemColumns(read.natural, scope, read.items[1]) = FlattenSeq(blocks)
      BY <1>2, <1>3 DEF Alike
    <3>3. ItemPieces(read.natural, scope, read.items)[1]
            = ItemColumns(read.natural, scope, read.items[1])
      BY <3>1 DEF ItemPieces
    <3> QED
      BY <1>2, <3>2, <3>3, RanPieces
  <2>4. /\ base + x \in DOMAIN FlattenSeq(pieces)
        /\ FlattenSeq(pieces)[base + x] = pieces[1][base + x]
    <3>1. base + x \in DOMAIN pieces[1] /\ 1 \in DOMAIN pieces
      BY <2>2, <2>3
    <3>2. pieces \in Seq(Seq(Cells))
      BY <2>3
    <3> QED
      BY <3>1, <3>2, BeforeFirst
  <2> QED
    BY <2>1, <2>2, <2>3, <2>4 DEF Begins
<1>17. /\ o.table = table /\ o.key = key /\ o.via = << >> /\ DOMAIN o.at = DOMAIN key
       /\ \A q \in DOMAIN key : o.at[q] = base + Position(ColumnsOf(table), key[q])
  BY <1>14 DEF Origin
<1>18. cells[i] = StoredCell(table, alias, ColumnsOf(table)[j])
  BY <1>11, <1>12, <1>13, <1>16
<1>19. cells[i].from.table = <<Home, table>> /\ cells[i].from.path = <<alias>>
  BY <1>18 DEF StoredCell
<1>20. ASSUME NEW q \in DOMAIN key
       PROVE  /\ o.at[q] \in DOMAIN cells
              /\ cells[o.at[q]].from = [path |-> <<alias>>, table |-> <<Home, table>>,
                                        column |-> key[q]]
  <2>1. key[q] \in ToSet(ColumnsOf(table))
    BY <1>14, TableColumns DEF ToSet
  <2>2. PICK columns \in Seq(Names) : columns = ColumnsOf(table)
    BY TableColumns
  <2>3. PICK x \in DOMAIN columns : x = Position(columns, key[q]) /\ columns[x] = key[q]
    <3>1. columns \in Seq(Names) /\ key[q] \in ToSet(columns)
      BY <2>1, <2>2
    <3> QED
      BY <3>1, PositionIs
  <2>4. o.at[q] = base + x
    BY <1>17, <2>2, <2>3
  <2>5. cells[base + x] = StoredCell(table, alias, key[q]) /\ base + x \in DOMAIN cells
    BY <1>16, <2>2, <2>3
  <2> QED
    BY <2>4, <2>5 DEF StoredCell
<1>21. Finds(o, cells, i)
  BY <1>17, <1>19, <1>20 DEF Finds, FetchesRowOf
<1> QED
  BY <1>9, <1>14, <1>17, <1>21, TableColumns DEF Placed

\* A path leads to one table.
LEMMA TracesSame ==
  ASSUME NEW from, NEW item, NEW o, NEW a, TracesAt(from, item, o, a),
         NEW other, NEW p, NEW b, TracesAt(from, other, p, b), o.via = p.via
  PROVE  from[a] = from[b] /\ o.table = p.table /\ o.key = p.key
<1>1. /\ ~IsDerived(from[a]) => TracedTo(o, from[a].name, <<from[a].alias>>)
      /\ ~IsDerived(from[b]) => TracedTo(p, from[b].name, <<from[b].alias>>)
  BY DEF TracesAt
<1>2. ASSUME IsDerived(from[a])
      PROVE  \E j \in DOMAIN from[a].query.from :
               /\ ResolvesAt(from[a].query, item.name, j)
               /\ TracedTo(o, from[a].query.from[j].name,
                           <<from[a].alias, from[a].query.from[j].alias>>)
  BY <1>2 DEF TracesAt
<1>3. ASSUME IsDerived(from[b])
      PROVE  \E j \in DOMAIN from[b].query.from :
               /\ ResolvesAt(from[b].query, other.name, j)
               /\ TracedTo(p, from[b].query.from[j].name,
                           <<from[b].alias, from[b].query.from[j].alias>>)
  BY <1>3 DEF TracesAt
<1>4. \A t, via : /\ TracedTo(o, t, via) => /\ o.via = via /\ o.table = t
                                            /\ o.key = PrimaryKeyColumns(t)
                  /\ TracedTo(p, t, via) => /\ p.via = via /\ p.table = t
                                            /\ p.key = PrimaryKeyColumns(t)
  BY DEF TracedTo, Origin
<1>5. \A x, y, z : <<x>> # <<y, z>>
  OBVIOUS
<1>6. \A x, y : <<x>> = <<y>> => x = y
  OBVIOUS
<1>7. \A x, y, z, w : <<x, y>> = <<z, w>> => x = z /\ y = w
  OBVIOUS
<1>8. from[a].alias = from[b].alias => from[a] = from[b]
  BY DEF TracesAt
<1>9. CASE ~IsDerived(from[a])
  <2>1. o.via = <<from[a].alias>> /\ o.table = from[a].name
        /\ o.key = PrimaryKeyColumns(from[a].name)
    BY <1>1, <1>4, <1>9
  <2>2. ~IsDerived(from[b])
    <3>1. SUFFICES ASSUME IsDerived(from[b]) PROVE FALSE
      OBVIOUS
    <3>2. PICK j \in DOMAIN from[b].query.from :
            p.via = <<from[b].alias, from[b].query.from[j].alias>>
      BY <1>3, <1>4, <3>1
    <3> QED
      BY <1>5, <2>1, <3>2
  <2>3. p.via = <<from[b].alias>> /\ p.table = from[b].name
        /\ p.key = PrimaryKeyColumns(from[b].name)
    BY <1>1, <1>4, <2>2
  <2>4. from[a].alias = from[b].alias
    <3>1. <<from[a].alias>> = <<from[b].alias>>
      BY <2>1, <2>3
    <3> QED
      BY <1>6, <3>1
  <2> QED
    BY <1>8, <2>1, <2>3, <2>4
<1>10. CASE IsDerived(from[a])
  <2>1. PICK i \in DOMAIN from[a].query.from :
          /\ ResolvesAt(from[a].query, item.name, i)
          /\ o.via = <<from[a].alias, from[a].query.from[i].alias>>
          /\ o.table = from[a].query.from[i].name
          /\ o.key = PrimaryKeyColumns(from[a].query.from[i].name)
    BY <1>2, <1>4, <1>10
  <2>2. IsDerived(from[b])
    <3>1. SUFFICES ASSUME ~IsDerived(from[b]) PROVE FALSE
      OBVIOUS
    <3>2. p.via = <<from[b].alias>>
      BY <1>1, <1>4, <3>1
    <3> QED
      BY <1>5, <2>1, <3>2
  <2>3. PICK j \in DOMAIN from[b].query.from :
          /\ ResolvesAt(from[b].query, other.name, j)
          /\ p.via = <<from[b].alias, from[b].query.from[j].alias>>
          /\ p.table = from[b].query.from[j].name
          /\ p.key = PrimaryKeyColumns(from[b].query.from[j].name)
    BY <1>3, <1>4, <2>2
  <2>4. /\ from[a].alias = from[b].alias
        /\ from[a].query.from[i].alias = from[b].query.from[j].alias
    <3>1. <<from[a].alias, from[a].query.from[i].alias>>
            = <<from[b].alias, from[b].query.from[j].alias>>
      BY <2>1, <2>3
    <3> QED
      BY <1>7, <3>1
  <2>5. from[a] = from[b]
    BY <1>8, <2>4
  <2>6. from[a].query.from[i] = from[b].query.from[j]
    BY <2>1, <2>3, <2>4, <2>5 DEF ResolvesAt
  <2> QED
    BY <2>1, <2>3, <2>5, <2>6
<1> QED
  BY <1>9, <1>10

\* The carriers of a path carry the key that is needed.
LEMMA NeedSame ==
  ASSUME NEW k, NEW s, NEW catalog, NEW read, NEW other, NEW needs,
         Ran(k, s, catalog, read, other, needs),
         NEW i \in DOMAIN VisibleOrigins(k, s), NEW n \in DOMAIN needs,
         needs[n].via = VisibleOrigins(k, s)[i].via, needs[n].via # << >>
  PROVE  needs[n].key = VisibleOrigins(k, s)[i].key
<1>1. /\ k \in Dialects /\ s \in StatementsOver(Names) /\ needs = Needed(VisibleOrigins(k, s))
      /\ Understands(s, JoinShapes(k))
  BY SpelledStatements DEF Ran
<1>2. PICK origins \in Seq(Origins) : origins = VisibleOrigins(k, s)
  BY RanPieces
<1>3. PICK l \in DOMAIN origins : needs[n] = origins[l]
  <2>1. origins \in Seq(Origins) /\ n \in DOMAIN Needed(origins)
    BY <1>1, <1>2
  <2>2. \E l \in DOMAIN origins : Needed(origins)[n] = origins[l]
    BY <2>1, NeededIs
  <2> QED
    BY <1>1, <1>2, <2>2
<1>4. PICK m \in DOMAIN s.items : Traces(s.from, s.items[m], VisibleOrigins(k, s)[i])
  BY <1>1, PathIsTraced
<1>5. PICK x \in DOMAIN s.items : Traces(s.from, s.items[x], needs[n])
  <2>1. l \in DOMAIN VisibleOrigins(k, s) /\ VisibleOrigins(k, s)[l].via # << >>
    BY <1>2, <1>3
  <2>2. \E x \in DOMAIN s.items : Traces(s.from, s.items[x], VisibleOrigins(k, s)[l])
    BY <1>1, <2>1, PathIsTraced
  <2> QED
    BY <1>2, <1>3, <2>2
<1>6. PICK a : TracesAt(s.from, s.items[m], VisibleOrigins(k, s)[i], a)
  BY <1>4 DEF Traces
<1>7. PICK b : TracesAt(s.from, s.items[x], needs[n], b)
  BY <1>5 DEF Traces
<1> QED
  BY <1>6, <1>7, TracesSame

\* An origin with the places of its n-th path filled in.
PlacedAt(filled, o, needs, count, n) ==
  /\ needs[n].via = o.via
  /\ filled = [o EXCEPT !.at = [q \in DOMAIN needs[n].key |->
                                  count + Before(KeyPieces(needs), n) + q]]

\* Where the positions of a filled origin are.
LEMMA FilledAt ==
  ASSUME NEW origins \in Seq(Origins), NEW needs \in Seq(Needs), needs = Needed(origins),
         NEW i \in DOMAIN origins
  PROVE  /\ origins[i].via = << >> => FillIndexes(origins, needs)[i] = origins[i]
         /\ origins[i].via # << >> =>
              \E n \in DOMAIN needs :
                PlacedAt(FillIndexes(origins, needs)[i], origins[i], needs,
                         Len(origins), n)
<1>1. CASE origins[i].via = << >>
  BY <1>1 DEF FillIndexes
<1>2. CASE origins[i].via # << >>
  <2>1. FillIndexes(origins, needs)[i]
          = [origins[i] EXCEPT !.at = HiddenIndexes(Len(origins), needs, origins[i].via)]
    BY <1>2 DEF FillIndexes
  <2>2. PICK via : via = origins[i].via /\ \E n \in DOMAIN needs : needs[n].via = via
    <3>1. \E n \in DOMAIN Needed(origins) : Needed(origins)[n].via = origins[i].via
      BY <1>2, NeededIs
    <3> QED
      BY <3>1
  <2>3. PICK n \in DOMAIN needs :
          n = SelectInSeq(needs, LAMBDA need : need.via = via) /\ needs[n].via = via
    <3>1. \E n \in DOMAIN needs : needs[n].via = via
      BY <2>2
    <3>2. /\ SelectInSeq(needs, LAMBDA need : need.via = via) \in DOMAIN needs
          /\ needs[SelectInSeq(needs, LAMBDA need : need.via = via)].via = via
      BY <3>1, NeedOf
    <3> QED
      BY <3>2
  <2>4. HiddenIndexes(Len(origins), needs, via)
          = [q \in DOMAIN needs[n].key |->
               Len(origins) + Len(FlattenSeq([m \in 1..n - 1 |-> needs[m].key])) + q]
    BY <2>3 DEF HiddenIndexes
  <2>5. Len(FlattenSeq([m \in 1..n - 1 |-> needs[m].key])) = Before(KeyPieces(needs), n)
    BY <2>3, KeysBefore
  <2>6. HiddenIndexes(Len(origins), needs, via)
          = [q \in DOMAIN needs[n].key |-> Len(origins) + Before(KeyPieces(needs), n) + q]
    BY <2>4, <2>5
  <2>7. PlacedAt(FillIndexes(origins, needs)[i], origins[i], needs, Len(origins), n)
    BY <2>1, <2>2, <2>3, <2>6 DEF PlacedAt
  <2> QED
    BY <1>2, <2>3, <2>7
<1> QED
  BY <1>1, <1>2

----------------------------------------------------------------------------
(* The carriers in a result *)

\* What the statement that is sent returns behind the columns that were asked for.
LEMMA RanGrown ==
  ASSUME NEW k, NEW s, NEW catalog, NEW read, NEW other, NEW needs,
         Ran(k, s, catalog, read, other, needs)
  PROVE  /\ Scope(catalog, other) \in Seq(Entries)
         /\ AllRun(read.natural, Scope(catalog, other), Carriers(needs))
         /\ Consists(Output(catalog, other), Output(catalog, read),
                     Columns(read.natural, Scope(catalog, other), Carriers(needs)))
         /\ Grown(Scope(catalog, read), Scope(catalog, other))
         /\ OwnAliases(read.from)
<1>1. /\ k \in Dialects /\ s \in StatementsOver(Written) /\ s.shape # "union"
      /\ Understands(s, JoinShapes(k)) /\ read = AsRead(k, s) /\ Reading(catalog, read)
      /\ IsCatalog(catalog) /\ needs \in Seq(Needs) /\ needs = Needed(VisibleOrigins(k, s))
      /\ other = GrownQuery(read, InnerOf(s, needs), Carriers(needs))
      /\ Runs(catalog, other)
  BY DEF Ran
<1>2. /\ Inserts(read, InnerOf(s, needs))
      /\ Carriers(needs) \in Seq(ItemsOver(Names)) /\ HiddenItems(Carriers(needs))
  BY <1>1, InjectIs
<1>3. NoUnionInside(read) /\ read.from # << >>
  BY <1>1, NoUnionRead
<1>4. StarsOverTables(read) /\ OwnAliases(read.from)
  <2>1. OwnAliases(read.from)
    BY <1>1 DEF Reading
  <2> QED
    BY <1>1, <2>1, StarsCounted
<1>5. read \in StatementsOver(UsersNames) /\ read.shape # "union"
  <2>1. AsRead(k, s) \in StatementsOver(Written) /\ Spells(k, s, AsRead(k, s))
    BY <1>1, AsReadIs
  <2> QED
    BY <1>1, <2>1, SpelledStatements DEF Spells, SpellsList
<1>6. /\ Scope(catalog, other) \in Seq(Entries)
      /\ Grown(Scope(catalog, read), Scope(catalog, other))
  BY <1>1, <1>2, <1>3, <1>5, QueryGrown
<1>7. /\ AllRun(read.natural, Scope(catalog, other), Carriers(needs))
      /\ Consists(Output(catalog, other), Output(catalog, read),
                  Listed(read.shape,
                         Columns(read.natural, Scope(catalog, other), Carriers(needs))))
  BY <1>1, <1>2, <1>3, <1>4, <1>5, OutputGrown
<1>8. Columns(read.natural, Scope(catalog, other), Carriers(needs)) \in Seq(Cells)
  BY <1>2, <1>6, <1>7, ColumnsType
<1>9. Listed(read.shape, Columns(read.natural, Scope(catalog, other), Carriers(needs)))
        = Columns(read.natural, Scope(catalog, other), Carriers(needs))
  BY <1>5, <1>8, ListedIs
<1> QED
  BY <1>4, <1>6, <1>7, <1>9

\* The place of a carrier among those of all paths.
LEMMA CarrierAt ==
  ASSUME NEW needs \in Seq(Needs), NEW n \in DOMAIN needs, NEW q \in DOMAIN needs[n].key
  PROVE  /\ Before(KeyPieces(needs), n) + q \in DOMAIN Carriers(needs)
         /\ Carriers(needs)[Before(KeyPieces(needs), n) + q] = OuterCarrier(needs[n], q)
<1>1. /\ OuterPieces(needs) \in Seq(Seq(ItemsOver(Names)))
      /\ KeyPieces(needs) \in Seq(Seq(Names))
      /\ DOMAIN OuterPieces(needs) = DOMAIN needs
      /\ SameLengths(OuterPieces(needs), KeyPieces(needs))
      /\ Carriers(needs) = FlattenSeq(OuterPieces(needs))
  BY CarriersAre
<1>2. n \in 1..Len(OuterPieces(needs))
  BY <1>1, LenProperties
<1>3. Before(OuterPieces(needs), n) = Before(KeyPieces(needs), n)
  BY <1>1, <1>2, BeforeLengths
<1>4. needs[n] \in Needs
  BY ElementOfSeq, LenProperties
<1>5. /\ q \in DOMAIN OuterPieces(needs)[n]
      /\ OuterPieces(needs)[n][q] = OuterCarrier(needs[n], q)
  BY <1>4, CarriersOf DEF OuterPieces, CarrierList
<1>6. LaidOut(OuterPieces(needs))
  BY <1>1, FlattenLaidOut
<1>7. /\ Before(OuterPieces(needs), n) + q \in DOMAIN FlattenSeq(OuterPieces(needs))
      /\ FlattenSeq(OuterPieces(needs))[Before(OuterPieces(needs), n) + q]
           = OuterPieces(needs)[n][q]
  BY <1>1, <1>5, <1>6 DEF LaidOut
<1> QED
  BY <1>1, <1>3, <1>5, <1>7

\* The place of a carrier in the result.
LEMMA CarrierPlace ==
  ASSUME NEW k, NEW s, NEW catalog, NEW read, NEW other, NEW needs,
         Ran(k, s, catalog, read, other, needs),
         NEW n \in DOMAIN needs, NEW q \in DOMAIN needs[n].key, NEW l,
         l = Len(Output(catalog, read)) + (Before(KeyPieces(needs), n) + q)
  PROVE  /\ l \in DOMAIN Output(catalog, other)
         /\ CarriedFrom(Scope(catalog, other), OuterCarrier(needs[n], q),
                        Output(catalog, other)[l])
<1>1. PICK x : x = Before(KeyPieces(needs), n) + q
  OBVIOUS
<1>2. needs \in Seq(Needs)
  BY DEF Ran
<1>3. x \in DOMAIN Carriers(needs) /\ Carriers(needs)[x] = OuterCarrier(needs[n], q)
  BY <1>1, <1>2, CarrierAt
<1>4. /\ Carriers(needs) \in Seq(ItemsOver(Names)) /\ HiddenItems(Carriers(needs))
  BY <1>2, CarriersAre
<1>5. PICK extra : extra = Columns(read.natural, Scope(catalog, other), Carriers(needs))
  OBVIOUS
<1>6. /\ Scope(catalog, other) \in Seq(Entries)
      /\ AllRun(read.natural, Scope(catalog, other), Carriers(needs))
  BY RanGrown
<1>7. /\ extra \in Seq(Cells) /\ x \in DOMAIN extra
      /\ CarriedFrom(Scope(catalog, other), Carriers(needs)[x], extra[x])
  BY <1>3, <1>4, <1>5, <1>6, HiddenColumns
<1>8. Output(catalog, read) \in Seq(Cells)
  BY RanPieces
<1>9. Consists(Output(catalog, other), Output(catalog, read), extra)
  BY <1>5, RanGrown
<1>10. /\ Len(Output(catalog, read)) + x \in DOMAIN Output(catalog, other)
       /\ Output(catalog, other)[Len(Output(catalog, read)) + x] = extra[x]
  <2>1. extra \in Seq(Cells)
    BY <1>7
  <2> QED
    BY <1>7, <1>8, <1>9, <2>1, ConsistsBegins
<1> QED
  BY <1>1, <1>3, <1>7, <1>10

\* A column that an item takes out of the entries its qualifier admits, when they
\* are one.
TakenAt(columns, item, cell, b) ==
  /\ b \in DOMAIN columns /\ columns[b].name = item.name
  /\ cell = Renamed(columns[b], item.as)

OnlyEntry(scope, item, i) ==
  \A a \in DOMAIN scope : item.of \in {Nameless, scope[a].alias} => a = i

LEMMA CarriedBy ==
  ASSUME NEW scope, NEW item, NEW cell, CarriedFrom(scope, item, cell), NEW i,
         OnlyEntry(scope, item, i)
  PROVE  i \in DOMAIN scope /\ \E b : TakenAt(scope[i].columns, item, cell, b)
<1>1. PICK a \in DOMAIN scope : \E b \in DOMAIN scope[a].columns :
        /\ <<a, b>> \in Named(scope, item)
        /\ cell = Renamed(scope[a].columns[b], item.as)
  BY DEF CarriedFrom
<1>2. PICK b \in DOMAIN scope[a].columns :
        /\ <<a, b>> \in Named(scope, item)
        /\ cell = Renamed(scope[a].columns[b], item.as)
  BY <1>1
<1>3. PICK p : p = <<a, b>>
  OBVIOUS
<1>4. PICK x \in DOMAIN scope : \E y \in DOMAIN scope[x].columns :
        /\ p = <<x, y>> /\ item.of \in {Nameless, scope[x].alias}
        /\ scope[x].columns[y].name = item.name
  BY <1>2, <1>3, NamedIs
<1>5. PICK y \in DOMAIN scope[x].columns :
        /\ p = <<x, y>> /\ item.of \in {Nameless, scope[x].alias}
        /\ scope[x].columns[y].name = item.name
  BY <1>4
<1>6. x = a /\ y = b
  <2>1. \A c, d, e, f : <<c, d>> = <<e, f>> => c = e /\ d = f
    OBVIOUS
  <2>2. <<x, y>> = <<a, b>>
    BY <1>3, <1>5
  <2> QED
    BY <2>1, <2>2
<1>7. a = i
  BY <1>4, <1>5, <1>6 DEF OnlyEntry
<1> QED
  BY <1>1, <1>2, <1>5, <1>6, <1>7 DEF TakenAt

----------------------------------------------------------------------------
(* The entry of FROM an item takes its column from *)

SpelledAliases(k, from, others) ==
  /\ DOMAIN others = DOMAIN from
  /\ \A a \in DOMAIN from : /\ from[a].alias \in Written /\ from[a].alias # Nameless
                            /\ others[a].alias = As(k, from[a].alias)

\* The qualifier of admits entry i: its alias, as it is spelled or as it is read,
\* or none where there is one alias.
Reaches(k, from, i, of) ==
  \/ of = from[i].alias
  \/ of = As(k, from[i].alias)
  \/ of = Nameless /\ \A a \in DOMAIN from : from[a].alias = from[i].alias

LEMMA Reached ==
  ASSUME NEW k, NEW from, NEW others, SpelledAliases(k, from, others), OwnAliases(others),
         NEW i \in DOMAIN from, NEW of, Reaches(k, from, i, of),
         NEW a \in DOMAIN from, of \in {Nameless, others[a].alias}
  PROVE  a = i
<1>1. /\ from[a].alias \in Written /\ from[a].alias # Nameless
      /\ from[i].alias \in Written /\ from[i].alias # Nameless
      /\ others[a].alias = As(k, from[a].alias) /\ others[i].alias = As(k, from[i].alias)
  BY DEF SpelledAliases
<1>2. /\ As(k, As(k, from[a].alias)) = As(k, from[a].alias)
      /\ As(k, from[i].alias) # Nameless
  BY <1>1, AsIs
<1>3. As(k, from[i].alias) = As(k, from[a].alias)
  <2>1. CASE of = from[i].alias
    <3>1. from[i].alias = As(k, from[a].alias)
      BY <1>1, <2>1
    <3> QED
      BY <1>2, <3>1
  <2>2. CASE of = As(k, from[i].alias)
    BY <1>1, <1>2, <2>2
  <2>3. CASE of = Nameless /\ \A b \in DOMAIN from : from[b].alias = from[i].alias
    BY <2>3
  <2> QED
    BY <2>1, <2>2, <2>3 DEF Reaches
<1>4. others[i].alias = others[a].alias
  BY <1>1, <1>3
<1> QED
  BY <1>4 DEF OwnAliases, IsInjective, SpelledAliases

LEMMA AliasesAre ==
  ASSUME NEW k, NEW s \in StatementsOver(Written), NEW read, Spells(k, s, read)
  PROVE  /\ SpelledAliases(k, s.from, read.from)
         /\ \A i \in DOMAIN s.from : IsDerived(s.from[i]) =>
              SpelledAliases(k, s.from[i].query.from, read.from[i].query.from)
<1>1. /\ s.from \in Seq(Refs(Written))
      /\ \A i \in DOMAIN s.from : s.from[i] \in Refs(Written)
  BY StatementQueries, QueryFields
<1>2. SpelledAliases(k, s.from, read.from)
  BY <1>1, RefCases DEF Spells, SpellsList, SpellsRef, SpelledAliases
<1>3. ASSUME NEW i \in DOMAIN s.from, IsDerived(s.from[i])
      PROVE  SpelledAliases(k, s.from[i].query.from, read.from[i].query.from)
  <2>1. s.from[i].query \in InnerQueries(Written)
    BY <1>1, <1>3, RefCases, DerivedFields
  <2>2. \A j \in DOMAIN s.from[i].query.from : s.from[i].query.from[j] \in TablesOver(Written)
    BY <2>1, QueryFields DEF InnerQueries
  <2>3. SpellsInner(k, s.from[i].query, read.from[i].query)
    BY <1>3 DEF Spells, SpellsRef
  <2> QED
    BY <2>2, <2>3, TableFields DEF SpellsInner, SpellsList, SpellsTable, SpelledAliases
<1> QED
  BY <1>2, <1>3

\* A column item's column is one it names.
LEMMA ItemCarried ==
  ASSUME NEW k, NEW s, NEW catalog, NEW read, NEW other, NEW needs,
         Ran(k, s, catalog, read, other, needs), NEW i, NEW m \in DOMAIN s.items, NEW j,
         s.items[m].kind = "column", At(k, s, catalog, read, i, m, j)
  PROVE  CarriedFrom(Scope(catalog, read), read.items[m], Output(catalog, read)[i])
<1>1. m \in DOMAIN read.items /\ read.items[m].kind = "column"
  BY RanPieces DEF Spells, SpellsList, SpellsItem
<1>2. PICK scope \in Seq(Entries) : scope = Scope(catalog, read)
  BY RanPieces
<1>3. ItemRuns(read.natural, scope, read.items[m])
  BY <1>1, <1>2 DEF Ran, Reading, AllRun
<1>4. PICK item : item = read.items[m]
  OBVIOUS
<1>5. Named(scope, item) # {}
  <2>1. scope \in Seq(Entries) /\ item.kind = "column" /\ ItemRuns(read.natural, scope, item)
    BY <1>1, <1>2, <1>3, <1>4
  <2> QED
    BY <2>1, RunsFinds
<1>6. PICK a \in DOMAIN scope : \E b \in DOMAIN scope[a].columns :
        /\ <<a, b>> \in Named(scope, item)
        /\ ItemColumns(read.natural, scope, item) = <<Renamed(scope[a].columns[b], item.as)>>
  <2>1. scope \in Seq(Entries) /\ item.kind = "column"
    BY <1>1, <1>2, <1>4
  <2> QED
    BY <1>5, <2>1, ColumnTaken
<1>7. PICK b \in DOMAIN scope[a].columns :
        /\ <<a, b>> \in Named(scope, item)
        /\ ItemColumns(read.natural, scope, item) = <<Renamed(scope[a].columns[b], item.as)>>
  BY <1>6
<1>8. /\ j \in DOMAIN ItemColumns(read.natural, scope, item)
      /\ Output(catalog, read)[i] = ItemColumns(read.natural, scope, item)[j]
  BY <1>2, <1>4 DEF At
<1>9. Output(catalog, read)[i] = Renamed(scope[a].columns[b], item.as)
  BY <1>7, <1>8
<1>10. CarriedFrom(scope, item, Output(catalog, read)[i])
  BY <1>6, <1>7, <1>9 DEF CarriedFrom
<1> QED
  BY <1>2, <1>4, <1>10

----------------------------------------------------------------------------
(* The rows that paths find *)

\* The entries of FROM that the target reads, as the user gave them and grown.
LEMMA OtherIs ==
  ASSUME NEW k, NEW s, NEW catalog, NEW read, NEW other, NEW needs,
         Ran(k, s, catalog, read, other, needs)
  PROVE  /\ OwnAliases(read.from) /\ OwnAliases(other.from)
         /\ SpelledAliases(k, s.from, read.from) /\ SpelledAliases(k, s.from, other.from)
         /\ \A a \in DOMAIN s.from :
              /\ other.from[a] = GrownRef(read.from[a], InnerOf(s, needs)[a])
              /\ read.from[a] \in Refs(UsersNames) /\ other.from[a] \in Refs(Names)
              /\ SpellsRef(k, s.from[a], read.from[a])
<1>1. /\ k \in Dialects /\ s \in StatementsOver(Written) /\ read = AsRead(k, s)
      /\ IsCatalog(catalog) /\ needs \in Seq(Needs) /\ Reading(catalog, read)
      /\ other = GrownQuery(read, InnerOf(s, needs), Carriers(needs))
      /\ Runs(catalog, other)
  BY DEF Ran
<1>2. /\ Inserts(read, InnerOf(s, needs))
      /\ Carriers(needs) \in Seq(ItemsOver(Names)) /\ HiddenItems(Carriers(needs))
  BY <1>1, InjectIs
<1>3. read \in StatementsOver(UsersNames) /\ Spells(k, s, read)
  <2>1. AsRead(k, s) \in StatementsOver(Written) /\ Spells(k, s, AsRead(k, s))
    BY <1>1, AsReadIs
  <2> QED
    BY <1>1, <2>1, SpelledStatements
<1>4. /\ other \in StatementsOver(Names) /\ DOMAIN other.from = DOMAIN read.from
      /\ \A a \in DOMAIN read.from :
           other.from[a] = GrownRef(read.from[a], InnerOf(s, needs)[a])
  BY <1>1, <1>2, <1>3, GrownQueryIs
<1>5. OwnAliases(read.from) /\ OwnAliases(other.from)
  BY <1>1, <1>4, RunsParts DEF Reading
<1>6. SpelledAliases(k, s.from, read.from) /\ DOMAIN read.from = DOMAIN s.from
  <2>1. s \in StatementsOver(Written) /\ Spells(k, s, read)
    BY <1>1, <1>3
  <2>2. SpelledAliases(k, s.from, read.from)
    BY <2>1, AliasesAre
  <2> QED
    BY <2>2 DEF SpelledAliases
<1>7. ASSUME NEW a \in DOMAIN s.from
      PROVE  /\ other.from[a] = GrownRef(read.from[a], InnerOf(s, needs)[a])
             /\ other.from[a].alias = read.from[a].alias
             /\ read.from[a] \in Refs(UsersNames) /\ other.from[a] \in Refs(Names)
             /\ SpellsRef(k, s.from[a], read.from[a])
  <2>1. read.from[a] \in Refs(UsersNames)
    BY <1>3, <1>6, StatementQueries, QueryFields
  <2>2. InnerOf(s, needs)[a] \in Seq(ItemsOver(Names))
    BY <1>2, <1>6 DEF Inserts
  <2>3. /\ GrownRef(read.from[a], InnerOf(s, needs)[a]).alias = read.from[a].alias
        /\ GrownRef(read.from[a], InnerOf(s, needs)[a]) \in Refs(Names)
    BY <2>1, <2>2, GrownRefType
  <2> QED
    BY <1>3, <1>4, <1>6, <2>1, <2>3 DEF Spells
<1>8. SpelledAliases(k, s.from, other.from)
  BY <1>4, <1>6, <1>7 DEF SpelledAliases
<1> QED
  BY <1>5, <1>6, <1>7, <1>8

\* A column is from this row.
FromRow(cell, path, table) ==
  cell.from.path = path /\ cell.from.table = <<Home, table>>

KeyCell(cell, path, table, c) ==
  cell.from = [path |-> path, table |-> <<Home, table>>, column |-> c]

\* The carriers of a path carry the key of this row.
Carries(scope, needs, via, path, table) ==
  \A n \in DOMAIN needs : needs[n].via = via =>
    \A q \in DOMAIN needs[n].key : \A cell :
      CarriedFrom(scope, OuterCarrier(needs[n], q), cell) =>
        KeyCell(cell, path, table, needs[n].key[q])

LEMMA TakenStored ==
  ASSUME NEW catalog, NEW ref, NEW item, NEW cell, NEW b,
         TakenAt(StoredColumns(catalog, ref), item, cell, b)
  PROVE  cell.from = [path |-> <<ref.alias>>, table |-> <<ref.schema, ref.name>>,
                      column |-> item.name]
<1>1. PICK column : column = StoredColumns(catalog, ref)[b]
  OBVIOUS
<1>2. column = [name |-> item.name,
                from |-> [path |-> <<ref.alias>>, table |-> <<ref.schema, ref.name>>,
                          column |-> item.name]]
  BY <1>1 DEF TakenAt, StoredColumns
<1>3. cell = Renamed(column, item.as)
  BY <1>1 DEF TakenAt
<1> QED
  BY <1>2, <1>3 DEF Renamed

\* The entry that a path begins with is the only one an item of it reaches.
LEMMA ItemReaches ==
  ASSUME NEW k, NEW s, NEW catalog, NEW read, NEW other, NEW needs,
         Ran(k, s, catalog, read, other, needs),
         NEW m \in DOMAIN s.items, NEW o, NEW i \in DOMAIN s.from,
         TracesAt(s.from, s.items[m], o, i)
  PROVE  OnlyEntry(Scope(catalog, read), read.items[m], i)
<1> SUFFICES ASSUME NEW a \in DOMAIN Scope(catalog, read),
                    read.items[m].of \in {Nameless, Scope(catalog, read)[a].alias}
             PROVE  a = i
  BY DEF OnlyEntry
<1>1. /\ OwnAliases(read.from) /\ SpelledAliases(k, s.from, read.from)
      /\ Spells(k, s, read)
  BY OtherIs, RanPieces
<1>2. a \in DOMAIN s.from /\ Scope(catalog, read)[a].alias = read.from[a].alias
  BY <1>1, ScopeEntries DEF SpelledAliases
<1>3. read.items[m].of = As(k, s.items[m].of)
  BY <1>1 DEF Spells, SpellsList, SpellsItem
<1>4. Reaches(k, s.from, i, read.items[m].of)
  <2>1. CASE s.items[m].of = s.from[i].alias
    BY <1>3, <2>1 DEF Reaches
  <2>2. CASE s.items[m].of = Nameless /\ Len(s.from) = 1
    <3>1. s \in StatementsOver(Written)
      BY DEF Ran
    <3>2. s.items[m].of \in Written
      BY <3>1, StatementQueries, QueryFields, ItemFields
    <3>3. read.items[m].of = Nameless
      BY <1>3, <2>2, <3>2, AsIs
    <3>4. DOMAIN s.from = {1}
      <4>1. DOMAIN s.from = 1..Len(s.from)
        BY <3>1, StatementQueries, QueryFields
      <4> QED
        BY <2>2, <4>1
    <3> QED
      BY <3>3, <3>4 DEF Reaches
  <2> QED
    BY <2>1, <2>2 DEF TracesAt
<1> QED
  BY <1>1, <1>2, <1>4, Reached

LEMMA CarrierReaches ==
  ASSUME NEW k, NEW s, NEW catalog, NEW read, NEW other, NEW needs,
         Ran(k, s, catalog, read, other, needs),
         NEW i \in DOMAIN s.from, NEW item, item.of = s.from[i].alias
  PROVE  OnlyEntry(Scope(catalog, other), item, i)
<1> SUFFICES ASSUME NEW a \in DOMAIN Scope(catalog, other),
                    item.of \in {Nameless, Scope(catalog, other)[a].alias}
             PROVE  a = i
  BY DEF OnlyEntry
<1>1. OwnAliases(other.from) /\ SpelledAliases(k, s.from, other.from)
  BY OtherIs
<1>2. a \in DOMAIN s.from /\ Scope(catalog, other)[a].alias = other.from[a].alias
  BY <1>1, ScopeEntries DEF SpelledAliases
<1>3. Reaches(k, s.from, i, item.of)
  BY DEF Reaches
<1> QED
  BY <1>1, <1>2, <1>3, Reached

\* A path to a table.
LEMMA TableFinds ==
  ASSUME NEW k, NEW s, NEW catalog, NEW read, NEW other, NEW needs,
         Ran(k, s, catalog, read, other, needs),
         NEW m \in DOMAIN s.items, NEW cell,
         CarriedFrom(Scope(catalog, read), read.items[m], cell),
         NEW o, NEW i \in DOMAIN s.from, TracesAt(s.from, s.items[m], o, i),
         ~IsDerived(s.from[i])
  PROVE  \E path : /\ FromRow(cell, path, o.table)
                   /\ Carries(Scope(catalog, other), needs, o.via, path, o.table)
<1>1. /\ o.table = s.from[i].name /\ o.via = <<s.from[i].alias>>
      /\ PrimaryKeyColumns(s.from[i].name) # << >>
  BY DEF TracesAt, TracedTo, Origin
<1>2. /\ other.from[i] = GrownRef(read.from[i], InnerOf(s, needs)[i])
      /\ SpellsRef(k, s.from[i], read.from[i])
      /\ i \in DOMAIN read.from /\ i \in DOMAIN other.from
  BY OtherIs DEF SpelledAliases
<1>3. PICK ref : ref = read.from[i] /\ ref = other.from[i] /\ ~IsDerived(ref)
  BY <1>2 DEF GrownRef, SpellsRef
<1>4. <<ref.schema, ref.name>> = <<Home, o.table>>
  <2>1. ~IsNamesake(s.from[i], ref)
    BY <1>3 DEF Ran, HasNamesake
  <2>2. <<Home, s.from[i].name>> \in DOMAIN Catalog
    BY <1>1, TableColumns
  <2> QED
    BY <1>1, <2>1, <2>2 DEF IsNamesake
<1>5. Exposes(catalog, ref) = StoredColumns(catalog, ref)
  BY <1>3 DEF Exposes
<1>6. /\ Scope(catalog, read)[i].columns = StoredColumns(catalog, ref)
      /\ Scope(catalog, other)[i].columns = StoredColumns(catalog, ref)
  <2>1. i \in DOMAIN read.from /\ i \in DOMAIN other.from
    BY <1>2
  <2>2. /\ Scope(catalog, read)[i].columns = Exposes(catalog, read.from[i])
        /\ Scope(catalog, other)[i].columns = Exposes(catalog, other.from[i])
    BY <2>1, ScopeEntries
  <2> QED
    BY <1>3, <1>5, <2>2
<1>7. PICK item : item = read.items[m]
  OBVIOUS
<1>8. PICK b : TakenAt(StoredColumns(catalog, ref), item, cell, b)
  <2>1. OnlyEntry(Scope(catalog, read), item, i)
    BY <1>7, ItemReaches
  <2>2. CarriedFrom(Scope(catalog, read), item, cell)
    BY <1>7
  <2>3. \E b : TakenAt(Scope(catalog, read)[i].columns, item, cell, b)
    BY <2>1, <2>2, CarriedBy
  <2> QED
    BY <1>6, <2>3
<1>9. FromRow(cell, <<ref.alias>>, o.table)
  <2>1. cell.from = [path |-> <<ref.alias>>, table |-> <<ref.schema, ref.name>>,
                     column |-> item.name]
    BY <1>8, TakenStored
  <2> QED
    BY <1>4, <2>1 DEF FromRow
<1>10. ASSUME NEW n \in DOMAIN needs, needs[n].via = o.via, NEW q \in DOMAIN needs[n].key,
              NEW carrier, CarriedFrom(Scope(catalog, other), OuterCarrier(needs[n], q), carrier)
       PROVE  KeyCell(carrier, <<ref.alias>>, o.table, needs[n].key[q])
  <2>1. PICK hidden : hidden = OuterCarrier(needs[n], q)
    OBVIOUS
  <2>2. hidden.of = s.from[i].alias /\ hidden.name = needs[n].key[q]
    <3>1. PICK via : via = needs[n].via /\ via = <<s.from[i].alias>>
      BY <1>1, <1>10
    <3>2. Len(via) = 1 /\ via[1] = s.from[i].alias
      BY <3>1
    <3>3. hidden.of = via[1]
      BY <2>1, <3>1 DEF OuterCarrier, Column
    <3>4. hidden.name = needs[n].key[q]
      BY <2>1, <3>1, <3>2 DEF OuterCarrier, Column
    <3> QED
      BY <3>2, <3>3, <3>4
  <2>3. OnlyEntry(Scope(catalog, other), hidden, i)
    BY <2>2, CarrierReaches
  <2>4. CarriedFrom(Scope(catalog, other), hidden, carrier)
    BY <1>10, <2>1
  <2>5. PICK d : TakenAt(Scope(catalog, other)[i].columns, hidden, carrier, d)
    BY <2>3, <2>4, CarriedBy
  <2>6. TakenAt(StoredColumns(catalog, ref), hidden, carrier, d)
    BY <1>6, <2>5
  <2>7. carrier.from = [path |-> <<ref.alias>>, table |-> <<ref.schema, ref.name>>,
                        column |-> hidden.name]
    BY <2>6, TakenStored
  <2> QED
    BY <1>4, <2>2, <2>7 DEF KeyCell
<1>11. Carries(Scope(catalog, other), needs, o.via, <<ref.alias>>, o.table)
  BY <1>10 DEF Carries
<1> QED
  BY <1>9, <1>11

----------------------------------------------------------------------------
(* Columns of a derived table *)

\* A column under the name of an item that takes it has a name of its own or the
\* column's.
LEMMA CarriedName ==
  ASSUME NEW scope \in Seq(Entries), NEW item, item.as \in Names, NEW cell,
         CarriedFrom(scope, item, cell)
  PROVE  cell.name = ExposedName(item)
<1>1. PICK a \in DOMAIN scope : \E b \in DOMAIN scope[a].columns :
        /\ <<a, b>> \in Named(scope, item)
        /\ cell = Renamed(scope[a].columns[b], item.as)
  BY DEF CarriedFrom
<1>2. PICK b \in DOMAIN scope[a].columns :
        /\ <<a, b>> \in Named(scope, item)
        /\ cell = Renamed(scope[a].columns[b], item.as)
  BY <1>1
<1>3. scope[a].columns[b].name = item.name
  <2>1. PICK c \in DOMAIN scope : \E d \in DOMAIN scope[c].columns :
          <<a, b>> = <<c, d>> /\ scope[c].columns[d].name = item.name
    BY <1>2, NamedIs
  <2>2. PICK d \in DOMAIN scope[c].columns :
          <<a, b>> = <<c, d>> /\ scope[c].columns[d].name = item.name
    BY <2>1
  <2>3. \A u, v, x, y : <<u, v>> = <<x, y>> => u = x /\ v = y
    OBVIOUS
  <2> QED
    BY <2>2, <2>3
<1>4. scope[a].columns[b] \in Cells
  BY <1>1, <1>2, ScopeAt
<1>5. cell.name = IF item.as = Nameless THEN scope[a].columns[b].name ELSE item.as
  BY <1>2, <1>4, RenamedType
<1> QED
  BY <1>3, <1>5 DEF ExposedName

LEMMA InnerTaken ==
  ASSUME NEW catalog, NEW query \in InnerQueries(Names), IsCatalog(catalog),
         InnerRuns(catalog, query), NEW item, NEW cell,
         CarriedFrom(InnerScope(catalog, query), item, cell), NEW j,
         OnlyEntry(InnerScope(catalog, query), item, j)
  PROVE  cell.from = [path |-> <<query.from[j].alias>>,
                      table |-> <<query.from[j].schema, query.from[j].name>>,
                      column |-> item.name]
<1>1. j \in DOMAIN InnerScope(catalog, query)
      /\ \E b : TakenAt(InnerScope(catalog, query)[j].columns, item, cell, b)
  BY CarriedBy
<1>2. \A i \in DOMAIN query.from : Exists(catalog, query.from[i])
  BY DEF InnerRuns
<1>3. InnerScope(catalog, query)[j].columns = StoredColumns(catalog, query.from[j])
  BY <1>1, <1>2, InnerScopeType
<1>4. PICK b : TakenAt(StoredColumns(catalog, query.from[j]), item, cell, b)
  BY <1>1, <1>3
<1> QED
  BY <1>4, TakenStored

LEMMA PairJoined ==
  ASSUME NEW S, NEW a \in S, NEW b \in S
  PROVE  <<a>> \o <<b>> = <<a, b>>
<1>1. <<a>> \in Seq(S) /\ Len(<<a>>) = 1
  OBVIOUS
<1>2. <<b>> \in Seq(S) /\ Len(<<b>>) = 1
  OBVIOUS
<1>3. <<a, b>> \in Seq(S) /\ Len(<<a, b>>) = 2
  OBVIOUS
<1>4. <<a>>[1] = a /\ <<b>>[1] = b /\ <<a, b>>[1] = a /\ <<a, b>>[2] = b
  OBVIOUS
<1>5. PICK s \in Seq(S) : s = <<a>>
  BY <1>1
<1>6. PICK t \in Seq(S) : t = <<b>>
  BY <1>2
<1>7. PICK u \in Seq(S) : u = <<a, b>>
  BY <1>3
<1>8. 1 = Len(s) /\ 1 = Len(t) /\ Len(u) = 2
      /\ s[1] = a /\ t[1] = b /\ u[1] = a /\ u[2] = b
  BY <1>1, <1>2, <1>3, <1>4, <1>5, <1>6, <1>7
<1>9. /\ s \o t \in Seq(S) /\ Len(s \o t) = 1 + 1
      /\ \A i \in 1..1 : (s \o t)[i] = s[i]
      /\ \A i \in 1..1 : (s \o t)[1 + i] = t[i]
  <2>1. Len(s) \in Nat /\ Len(t) \in Nat
    BY <1>5, <1>6, LenProperties
  <2>2. /\ s \o t \in Seq(S) /\ Len(s \o t) = Len(s) + Len(t)
        /\ \A i \in 1..Len(s) : (s \o t)[i] = s[i]
        /\ \A i \in 1..Len(t) : (s \o t)[Len(s) + i] = t[i]
    BY <1>5, <1>6, <2>1, Joined
  <2> QED
    BY <1>8, <2>2
<1>10. PICK v \in Seq(S) : v = s \o t
  BY <1>9
<1>11. Len(v) = Len(u) /\ \A i \in 1..Len(v) : v[i] = u[i]
  <2>1. Len(v) = 2 /\ v[1] = a /\ v[2] = b
    BY <1>8, <1>9, <1>10
  <2> QED
    BY <1>8, <2>1
<1>12. v = u
  BY <1>7, <1>10, <1>11, SeqEqual
<1> QED
  BY <1>5, <1>6, <1>7, <1>10, <1>12

\* A cell is of column c in the row at this path.
Holds(column, path, t, c) ==
  column.from = [path |-> path, table |-> t, column |-> c]

\* What a derived table exposes of a row.
LEMMA WithinStored ==
  ASSUME NEW alias \in Names, NEW x, NEW t, NEW c, NEW column \in Cells,
         Holds(column, <<x>>, t, c)
  PROVE  Holds(Within(alias, column), <<alias, x>>, t, c)
<1>1. column.from # Computed
  <2>1. <<x>> # << >>
    OBVIOUS
  <2> QED
    BY <2>1 DEF Computed, Holds
<1>2. /\ Within(alias, column) \in Cells
      /\ Within(alias, column).from.path = <<alias>> \o column.from.path
      /\ Within(alias, column).from.table = column.from.table
      /\ Within(alias, column).from.column = column.from.column
  BY <1>1, WithinIs
<1>3. <<alias>> \o <<x>> = <<alias, x>>
  <2> DEFINE S == {alias, x}
  <2>1. alias \in S /\ x \in S
    OBVIOUS
  <2> QED
    BY <2>1, PairJoined
<1>4. Within(alias, column).from \in Provenances
  BY <1>2 DEF Cells
<1> QED
  <2>1. PICK from : /\ from = Within(alias, column).from
                    /\ from = [path |-> from.path, table |-> from.table,
                               column |-> from.column]
    BY <1>4 DEF Provenances
  <2>2. from.path = <<alias, x>> /\ from.table = t /\ from.column = c
    <3>1. column.from.path = <<x>> /\ column.from.table = t /\ column.from.column = c
      BY DEF Holds
    <3> QED
      BY <1>2, <1>3, <2>1, <3>1
  <2> QED
    BY <2>1, <2>2 DEF Holds

\* A derived table returns the column of an item.
LEMMA InnerItem ==
  ASSUME NEW catalog, NEW query \in InnerQueries(Names), IsCatalog(catalog),
         InnerRuns(catalog, query), query.shape # "union",
         NEW m \in DOMAIN query.items, query.items[m].kind = "column"
  PROVE  \E x \in DOMAIN InnerColumns(catalog, query) :
           CarriedFrom(InnerScope(catalog, query), query.items[m],
                       InnerColumns(catalog, query)[x])
<1>1. PICK scope \in Seq(Entries) : scope = InnerScope(catalog, query)
  BY InnerColumnsType
<1>2. ItemsRun(scope, query) /\ query.items \in Seq(ItemsOver(Names))
  BY <1>1, InnerColumnsType, QueryFields DEF InnerQueries
<1>3. PICK pieces \in Seq(Seq(Cells)) :
        pieces = Pieces(scope, query) /\ DOMAIN pieces = DOMAIN query.items
        /\ Returned(scope, query) = FlattenSeq(pieces)
  <2>1. Pieces(scope, query) \in Seq(Seq(Cells))
        /\ DOMAIN Pieces(scope, query) = DOMAIN query.items
    BY <1>2, PiecesType
  <2>2. Returned(scope, query) = FlattenSeq(Pieces(scope, query))
    BY <1>2, ReturnedIs
  <2> QED
    BY <2>1, <2>2
<1>4. PICK item : item = query.items[m] /\ item.kind = "column"
  OBVIOUS
<1>5. pieces[m] = ItemColumns(query.natural, scope, item)
  BY <1>3, <1>4 DEF Pieces
<1>6. Named(scope, item) # {}
  <2>1. ItemRuns(query.natural, scope, item)
    BY <1>2, <1>4 DEF ItemsRun
  <2>2. scope \in Seq(Entries) /\ item.kind = "column"
    BY <1>1, <1>4
  <2> QED
    BY <2>1, <2>2, RunsFinds
<1>7. PICK a \in DOMAIN scope : \E b \in DOMAIN scope[a].columns :
        /\ <<a, b>> \in Named(scope, item)
        /\ ItemColumns(query.natural, scope, item)
             = <<Renamed(scope[a].columns[b], item.as)>>
  <2>1. scope \in Seq(Entries) /\ item.kind = "column"
    BY <1>1, <1>4
  <2> QED
    BY <1>6, <2>1, ColumnTaken
<1>8. PICK b \in DOMAIN scope[a].columns :
        /\ <<a, b>> \in Named(scope, item)
        /\ ItemColumns(query.natural, scope, item)
             = <<Renamed(scope[a].columns[b], item.as)>>
  BY <1>7
<1>9. 1 \in DOMAIN pieces[m] /\ pieces[m][1] = Renamed(scope[a].columns[b], item.as)
  BY <1>5, <1>8
<1>10. LaidOut(pieces) /\ m \in DOMAIN pieces
  BY <1>3, FlattenLaidOut
<1>11. /\ Before(pieces, m) + 1 \in DOMAIN FlattenSeq(pieces)
       /\ FlattenSeq(pieces)[Before(pieces, m) + 1] = pieces[m][1]
  BY <1>9, <1>10 DEF LaidOut
<1>12. PICK x : /\ x \in DOMAIN Returned(scope, query)
                /\ Returned(scope, query)[x] = Renamed(scope[a].columns[b], item.as)
  BY <1>3, <1>9, <1>11
<1>13. CarriedFrom(scope, item, Returned(scope, query)[x])
  BY <1>7, <1>8, <1>12 DEF CarriedFrom
<1> QED
  BY <1>1, <1>4, <1>12, <1>13 DEF InnerColumns

\* A derived table as the user gave it, sq, and as the target read it, rq; the
\* columns it would expose, and all those it exposes with more items inside.
DerivedRan(k, catalog, sq, alias, rq, columns, all, more) ==
  /\ SpellsInner(k, sq, rq) /\ rq \in InnerQueries(Names) /\ sq \in InnerQueries(Written)
  /\ SpelledAliases(k, sq.from, rq.from) /\ OwnAliases(rq.from)
  /\ IsCatalog(catalog) /\ InnerRuns(catalog, rq) /\ rq.shape # "union"
  /\ alias \in Names
  /\ DOMAIN columns = DOMAIN InnerColumns(catalog, rq)
  /\ \A x \in DOMAIN columns : columns[x] = Within(alias, InnerColumns(catalog, rq)[x])
  /\ OwnNames(all) /\ GrownEntry(Entry(alias, columns), Entry(alias, all))
  /\ Exposed(all, Len(columns), InnerScope(catalog, rq), alias, more)

LEMMA InsideRan ==
  ASSUME NEW k, NEW s, NEW catalog, NEW read, NEW other, NEW needs,
         Ran(k, s, catalog, read, other, needs),
         NEW i \in DOMAIN s.from, IsDerived(s.from[i])
  PROVE  DerivedRan(k, catalog, s.from[i].query, read.from[i].alias, read.from[i].query,
                    Exposes(catalog, read.from[i]), Exposes(catalog, other.from[i]),
                    CarriersWithin(s.from[i].alias, needs))
<1>1. /\ k \in Dialects /\ s \in StatementsOver(Written) /\ read = AsRead(k, s)
      /\ IsCatalog(catalog) /\ needs \in Seq(Needs) /\ Understands(s, JoinShapes(k))
      /\ Runs(catalog, other)
  BY DEF Ran
<1>2. PICK ref \in DerivedOver(UsersNames) : ref = read.from[i]
  BY OtherIs, RefCases DEF SpellsRef
<1>3. PICK more \in Seq(ItemsOver(Names)) :
        more = CarriersWithin(s.from[i].alias, needs) /\ HiddenItems(more)
  BY <1>1, CarriersWithinAre
<1>4. other.from[i] = Derived(ref.alias, Adding(ref.query, more)) /\ IsDerived(ref)
  <2>1. IsDerived(ref)
    BY <1>2, DerivedFields
  <2>2. other.from[i] = GrownRef(ref, InnerOf(s, needs)[i])
    BY <1>2, OtherIs
  <2> QED
    BY <1>3, <2>1, <2>2 DEF GrownRef, InnerOf
<1>5. PICK grown : grown = Derived(ref.alias, Adding(ref.query, more))
                   /\ grown = other.from[i] /\ IsDerived(grown)
                   /\ grown.query = Adding(ref.query, more)
  BY <1>4 DEF IsDerived, Derived
<1>6. InnerRuns(catalog, grown.query) /\ OwnNames(Exposes(catalog, grown))
  <2>1. i \in DOMAIN other.from
    BY OtherIs DEF SpelledAliases
  <2> QED
    BY <1>1, <1>5, <2>1 DEF Runs
<1>7. ref.query.shape # "union" /\ SpellsInner(k, s.from[i].query, ref.query)
  <2>1. NoUnionInside(read)
    BY <1>1, NoUnionRead
  <2>2. i \in DOMAIN read.from
    BY OtherIs DEF SpelledAliases
  <2>3. SpellsRef(k, s.from[i], ref)
    BY <1>2, OtherIs
  <2> QED
    BY <1>2, <1>4, <2>1, <2>2, <2>3 DEF NoUnionInside, SpellsRef
<1>8. /\ ref \in DerivedOver(Names) /\ InnerRuns(catalog, ref.query)
      /\ GrownEntry(Entry(ref.alias, Exposes(catalog, ref)),
                    Entry(ref.alias, Exposes(catalog, grown)))
      /\ Exposed(Exposes(catalog, grown), Len(Exposes(catalog, ref)),
                 InnerScope(catalog, ref.query), ref.alias, more)
  <2>1. grown = Derived(ref.alias, Adding(ref.query, more))
        /\ InnerRuns(catalog, grown.query) /\ IsCatalog(catalog)
    BY <1>1, <1>5, <1>6
  <2> QED
    BY <1>3, <1>7, <2>1, DerivedGrown
<1>9. ref.alias \in Names /\ ref.query \in InnerQueries(Names)
  BY <1>8, DerivedFields
<1>10. /\ DOMAIN Exposes(catalog, ref) = DOMAIN InnerColumns(catalog, ref.query)
       /\ \A x \in DOMAIN InnerColumns(catalog, ref.query) :
            Exposes(catalog, ref)[x] = Within(ref.alias, InnerColumns(catalog, ref.query)[x])
  BY <1>1, <1>8, ExposesDerived
<1>11. s.from[i].query \in InnerQueries(Written)
  <2>1. s.from[i] \in Refs(Written)
    BY <1>1, StatementQueries, QueryFields
  <2> QED
    BY <2>1, RefCases, DerivedFields
<1>12. SpelledAliases(k, s.from[i].query.from, ref.query.from)
  <2>1. Spells(k, s, read)
    BY RanPieces
  <2>2. SpelledAliases(k, s.from[i].query.from, read.from[i].query.from)
    <3>1. s \in StatementsOver(Written)
      BY <1>1
    <3> QED
      BY <2>1, <3>1, AliasesAre
  <2> QED
    BY <1>2, <2>2
<1>13. OwnAliases(ref.query.from)
  BY <1>1, <1>8, <1>9, InnerColumnsType
<1>14. DerivedRan(k, catalog, s.from[i].query, ref.alias, ref.query,
                  Exposes(catalog, ref), Exposes(catalog, grown), more)
  BY <1>1, <1>6, <1>7, <1>8, <1>9, <1>10, <1>11, <1>12, <1>13 DEF DerivedRan
<1> QED
  BY <1>2, <1>3, <1>5, <1>14

\* An item of a derived table that reaches its entry j takes its column from there.
LEMMA InnerReaches ==
  ASSUME NEW k, NEW catalog, NEW sq, NEW alias, NEW rq, NEW columns, NEW all, NEW more,
         DerivedRan(k, catalog, sq, alias, rq, columns, all, more),
         NEW j \in DOMAIN sq.from, NEW item, Reaches(k, sq.from, j, item.of)
  PROVE  OnlyEntry(InnerScope(catalog, rq), item, j)
<1> SUFFICES ASSUME NEW a \in DOMAIN InnerScope(catalog, rq),
                    item.of \in {Nameless, InnerScope(catalog, rq)[a].alias}
             PROVE  a = j
  BY DEF OnlyEntry
<1>1. /\ SpelledAliases(k, sq.from, rq.from) /\ OwnAliases(rq.from)
      /\ IsCatalog(catalog) /\ InnerRuns(catalog, rq) /\ rq \in InnerQueries(Names)
  BY DEF DerivedRan
<1>2. \A i \in DOMAIN rq.from : Exists(catalog, rq.from[i])
  BY <1>1 DEF InnerRuns
<1>3. a \in DOMAIN rq.from /\ InnerScope(catalog, rq)[a].alias = rq.from[a].alias
  BY <1>1, <1>2, InnerScopeType
<1>4. a \in DOMAIN sq.from /\ item.of \in {Nameless, rq.from[a].alias}
  BY <1>1, <1>3 DEF SpelledAliases
<1> QED
  BY <1>1, <1>4, Reached

LEMMA SameName ==
  ASSUME NEW all, OwnNames(all), NEW x \in DOMAIN all, NEW y \in DOMAIN all,
         all[x].name = all[y].name
  PROVE  x = y
  BY DEF OwnNames, IsInjective

\* A derived table's column of this name is the one its name resolves to.
LEMMA InnerFinds ==
  ASSUME NEW k, NEW catalog, NEW sq, NEW alias, NEW rq, NEW columns, NEW all, NEW more,
         DerivedRan(k, catalog, sq, alias, rq, columns, all, more),
         NEW name, NEW j \in DOMAIN sq.from, ResolvesAt(sq, name, j),
         NEW b \in DOMAIN columns, columns[b].name = As(k, name)
  PROVE  /\ columns[b].from.path = <<alias, rq.from[j].alias>>
         /\ columns[b].from.table = <<rq.from[j].schema, rq.from[j].name>>
<1>1. /\ SpellsInner(k, sq, rq) /\ rq \in InnerQueries(Names) /\ sq \in InnerQueries(Written)
      /\ IsCatalog(catalog) /\ InnerRuns(catalog, rq) /\ rq.shape # "union"
      /\ alias \in Names /\ OwnNames(all)
      /\ DOMAIN columns = DOMAIN InnerColumns(catalog, rq)
      /\ \A x \in DOMAIN columns : columns[x] = Within(alias, InnerColumns(catalog, rq)[x])
      /\ \A x \in DOMAIN columns : x \in DOMAIN all /\ all[x] = columns[x]
  BY DEF DerivedRan, GrownEntry, Entry
<1>2. PICK m \in DOMAIN sq.items :
        /\ sq.items[m].kind = "column" /\ ExposedName(sq.items[m]) = name
        /\ \/ sq.items[m].of = sq.from[j].alias
           \/ sq.items[m].of = Nameless /\ Aliases(sq.from) = {sq.from[j].alias}
  BY DEF ResolvesAt
<1>3. sq.items[m] \in ItemsOver(Written)
  BY <1>1, QueryFields DEF InnerQueries
<1>4. /\ sq.items[m].of \in Written /\ sq.items[m].as \in Written
      /\ sq.items[m].name \in Written
  BY <1>3, ItemFields
<1>5. PICK item : item = rq.items[m] /\ m \in DOMAIN rq.items /\ SpellsItem(k, sq.items[m], item)
  BY <1>1 DEF SpellsInner, SpellsList
<1>6. item.kind = "column" /\ item.of = As(k, sq.items[m].of)
      /\ item.name = As(k, sq.items[m].name) /\ item.as = As(k, sq.items[m].as)
  BY <1>2, <1>5 DEF SpellsItem
<1>7. ExposedName(item) = As(k, name)
  <2>1. item.as = Nameless <=> sq.items[m].as = Nameless
    BY <1>4, <1>6, AsIs
  <2>2. CASE sq.items[m].as = Nameless
    BY <1>2, <1>6, <2>1, <2>2 DEF ExposedName
  <2>3. CASE sq.items[m].as # Nameless
    BY <1>2, <1>6, <2>1, <2>3 DEF ExposedName
  <2> QED
    BY <2>2, <2>3
<1>8. Reaches(k, sq.from, j, item.of)
  <2>1. CASE sq.items[m].of = sq.from[j].alias
    BY <1>6, <2>1 DEF Reaches
  <2>2. CASE sq.items[m].of = Nameless /\ Aliases(sq.from) = {sq.from[j].alias}
    <3>1. item.of = Nameless
      BY <1>4, <1>6, <2>2, AsIs
    <3>2. \A a \in DOMAIN sq.from : sq.from[a].alias = sq.from[j].alias
      BY <2>2 DEF Aliases
    <3> QED
      BY <3>1, <3>2 DEF Reaches
  <2> QED
    BY <1>2, <2>1, <2>2
<1>9. OnlyEntry(InnerScope(catalog, rq), item, j)
  BY <1>8, InnerReaches
<1>10. PICK x \in DOMAIN InnerColumns(catalog, rq) :
         CarriedFrom(InnerScope(catalog, rq), item, InnerColumns(catalog, rq)[x])
  <2>1. m \in DOMAIN rq.items /\ rq.items[m].kind = "column"
    BY <1>5, <1>6
  <2> QED
    BY <1>1, <1>5, <2>1, InnerItem
<1>11. PICK column \in Cells : column = InnerColumns(catalog, rq)[x]
  <2>1. InnerColumns(catalog, rq) \in Seq(Cells)
    BY <1>1, InnerColumnsType
  <2> QED
    BY <1>10, <2>1, ElementOfSeq, LenProperties
<1>12. CarriedFrom(InnerScope(catalog, rq), item, column)
  BY <1>10, <1>11
<1>13. column.name = As(k, name)
  <2>1. InnerScope(catalog, rq) \in Seq(Entries)
    BY <1>1, InnerColumnsType
  <2>2. item.as \in Names
    <3>1. rq.items[m] \in ItemsOver(Names)
      BY <1>1, <1>5, QueryFields DEF InnerQueries
    <3> QED
      BY <1>5, <3>1, ItemFields
  <2>3. column.name = ExposedName(item)
    BY <1>12, <2>1, <2>2, CarriedName
  <2> QED
    BY <1>7, <2>3
<1>14. column.from = [path |-> <<rq.from[j].alias>>,
                      table |-> <<rq.from[j].schema, rq.from[j].name>>,
                      column |-> item.name]
  BY <1>1, <1>9, <1>12, InnerTaken
<1>15. Within(alias, column).from = [path |-> <<alias, rq.from[j].alias>>,
                                     table |-> <<rq.from[j].schema, rq.from[j].name>>,
                                     column |-> item.name]
  <2>1. Holds(column, <<rq.from[j].alias>>, <<rq.from[j].schema, rq.from[j].name>>, item.name)
    BY <1>14 DEF Holds
  <2>2. alias \in Names /\ column \in Cells
    BY <1>1, <1>12
  <2>3. Holds(Within(alias, column), <<alias, rq.from[j].alias>>,
              <<rq.from[j].schema, rq.from[j].name>>, item.name)
    BY <2>1, <2>2, WithinStored
  <2> QED
    BY <2>3 DEF Holds
<1>16. x \in DOMAIN columns /\ columns[x] = Within(alias, column)
  BY <1>1, <1>10, <1>11
<1>17. columns[x].name = As(k, name)
  <2>1. alias \in Names
    BY <1>1
  <2>2. Within(alias, column).name = column.name
    BY <1>11, <2>1, WithinIs
  <2> QED
    BY <1>13, <1>16, <2>2
<1>18. x = b
  <2>1. x \in DOMAIN all /\ b \in DOMAIN all /\ all[x].name = all[b].name
    BY <1>1, <1>16, <1>17
  <2> QED
    BY <1>1, <2>1, SameName
<1> QED
  BY <1>15, <1>16, <1>18

\* The place of a carrier among those in a derived table.
LEMMA InnerCarrierAt ==
  ASSUME NEW needs \in Seq(Needs), NEW alias, NEW n \in DOMAIN needs,
         Len(needs[n].via) = 2, needs[n].via[1] = alias, NEW q \in DOMAIN needs[n].key
  PROVE  \E x \in DOMAIN CarriersWithin(alias, needs) :
           CarriersWithin(alias, needs)[x] = InnerCarrier(needs[n], q)
<1>1. /\ InnerPieces(alias, needs) \in Seq(Seq(ItemsOver(Names)))
      /\ CarriersWithin(alias, needs) = FlattenSeq(InnerPieces(alias, needs))
  BY CarriersWithinAre
<1>2. needs[n] \in Needs
  BY ElementOfSeq, LenProperties
<1>3. InnerPieces(alias, needs)[n] = InnerCarriers(needs[n])
      /\ n \in DOMAIN InnerPieces(alias, needs)
  BY DEF InnerPieces
<1>4. /\ q \in DOMAIN InnerCarriers(needs[n])
      /\ InnerCarriers(needs[n])[q] = InnerCarrier(needs[n], q)
  BY <1>2, CarriersOf DEF CarrierList
<1>5. LaidOut(InnerPieces(alias, needs))
  BY <1>1, FlattenLaidOut
<1>6. PICK pieces : pieces = InnerPieces(alias, needs)
  OBVIOUS
<1>7. /\ Before(pieces, n) + q \in DOMAIN FlattenSeq(pieces)
      /\ FlattenSeq(pieces)[Before(pieces, n) + q] = pieces[n][q]
  BY <1>3, <1>4, <1>5, <1>6 DEF LaidOut
<1> QED
  BY <1>1, <1>3, <1>4, <1>6, <1>7

\* A path through a derived table.
Crosses(need, alias, inner) ==
  Len(need.via) = 2 /\ need.via[1] = alias /\ need.via[2] = inner

\* The column of a derived table that a carrier is read through, by its name.
HiddenAt(all, b, need, q) ==
  b \in DOMAIN all /\ all[b].name = HiddenName(need.via, need.key[q])

\* The carrier a derived table exposes under a hidden name carries that column.
LEMMA InnerCarries ==
  ASSUME NEW k, NEW catalog, NEW sq, NEW alias, NEW rq, NEW columns, NEW all,
         NEW needs \in Seq(Needs), NEW spelled,
         DerivedRan(k, catalog, sq, alias, rq, columns, all, CarriersWithin(spelled, needs)),
         NEW j \in DOMAIN sq.from, NEW n \in DOMAIN needs,
         Crosses(needs[n], spelled, sq.from[j].alias), NEW q \in DOMAIN needs[n].key,
         NEW b, HiddenAt(all, b, needs[n], q)
  PROVE  all[b].from = [path |-> <<alias, rq.from[j].alias>>,
                        table |-> <<rq.from[j].schema, rq.from[j].name>>,
                        column |-> needs[n].key[q]]
<1>1. PICK more : more = CarriersWithin(spelled, needs)
  OBVIOUS
<1>2. /\ rq \in InnerQueries(Names) /\ IsCatalog(catalog) /\ InnerRuns(catalog, rq)
      /\ alias \in Names /\ OwnNames(all)
      /\ Exposed(all, Len(columns), InnerScope(catalog, rq), alias, more)
  BY <1>1 DEF DerivedRan
<1>3. PICK x \in DOMAIN more : more[x] = InnerCarrier(needs[n], q)
  <2>1. Len(needs[n].via) = 2 /\ needs[n].via[1] = spelled
    BY DEF Crosses
  <2>2. \E x \in DOMAIN CarriersWithin(spelled, needs) :
          CarriersWithin(spelled, needs)[x] = InnerCarrier(needs[n], q)
    BY <2>1, InnerCarrierAt
  <2> QED
    BY <1>1, <2>2
<1>4. PICK item : item = InnerCarrier(needs[n], q)
  OBVIOUS
<1>5. /\ item.of = sq.from[j].alias /\ item.name = needs[n].key[q]
      /\ item.as = HiddenName(needs[n].via, needs[n].key[q])
  BY <1>4 DEF InnerCarrier, Column, Crosses
<1>6. PICK column \in Cells :
        /\ Len(columns) + x \in DOMAIN all
        /\ CarriedFrom(InnerScope(catalog, rq), item, column) /\ column.name = item.as
        /\ all[Len(columns) + x] = Within(alias, column)
  BY <1>2, <1>3, <1>4 DEF Exposed
<1>7. OnlyEntry(InnerScope(catalog, rq), item, j)
  <2>1. Reaches(k, sq.from, j, item.of)
    BY <1>5 DEF Reaches
  <2> QED
    BY <2>1, InnerReaches
<1>8. column.from = [path |-> <<rq.from[j].alias>>,
                     table |-> <<rq.from[j].schema, rq.from[j].name>>,
                     column |-> item.name]
  BY <1>2, <1>6, <1>7, InnerTaken
<1>9. Within(alias, column).from = [path |-> <<alias, rq.from[j].alias>>,
                                    table |-> <<rq.from[j].schema, rq.from[j].name>>,
                                    column |-> item.name]
  <2>1. alias \in Names /\ column \in Cells
    BY <1>2, <1>6
  <2>2. Holds(column, <<rq.from[j].alias>>, <<rq.from[j].schema, rq.from[j].name>>, item.name)
    BY <1>8 DEF Holds
  <2>3. Holds(Within(alias, column), <<alias, rq.from[j].alias>>,
              <<rq.from[j].schema, rq.from[j].name>>, item.name)
    BY <2>1, <2>2, WithinStored
  <2> QED
    BY <2>3 DEF Holds
<1>10. Within(alias, column).name = all[b].name
  <2>1. alias \in Names
    BY <1>2
  <2>2. Within(alias, column).name = column.name
    BY <1>6, <2>1, WithinIs
  <2> QED
    BY <1>5, <1>6, <2>2 DEF HiddenAt
<1>11. Len(columns) + x = b
  <2>1. PICK y : y = Len(columns) + x
    OBVIOUS
  <2>2. y \in DOMAIN all /\ b \in DOMAIN all /\ all[y].name = all[b].name
    BY <1>6, <1>10, <2>1 DEF HiddenAt
  <2>3. y = b
    BY <1>2, <2>2, SameName
  <2> QED
    BY <2>1, <2>3
<1> QED
  BY <1>5, <1>6, <1>9, <1>11

\* A path through a derived table.
LEMMA DerivedFinds ==
  ASSUME NEW k, NEW s, NEW catalog, NEW read, NEW other, NEW needs,
         Ran(k, s, catalog, read, other, needs),
         NEW m \in DOMAIN s.items, NEW cell,
         CarriedFrom(Scope(catalog, read), read.items[m], cell),
         NEW o, NEW i \in DOMAIN s.from, TracesAt(s.from, s.items[m], o, i),
         IsDerived(s.from[i])
  PROVE  \E path : /\ FromRow(cell, path, o.table)
                   /\ Carries(Scope(catalog, other), needs, o.via, path, o.table)
<1>1. PICK sq, rq, alias, spelled, columns, all :
        /\ sq = s.from[i].query /\ rq = read.from[i].query
        /\ alias = read.from[i].alias /\ spelled = s.from[i].alias
        /\ columns = Exposes(catalog, read.from[i]) /\ all = Exposes(catalog, other.from[i])
  OBVIOUS
<1>2. DerivedRan(k, catalog, sq, alias, rq, columns, all, CarriersWithin(spelled, needs))
  BY <1>1, InsideRan
<1>3. PICK j \in DOMAIN sq.from :
        /\ ResolvesAt(sq, s.items[m].name, j)
        /\ TracedTo(o, sq.from[j].name, <<spelled, sq.from[j].alias>>)
  BY <1>1 DEF TracesAt
<1>4. /\ o.table = sq.from[j].name /\ o.via = <<spelled, sq.from[j].alias>>
      /\ PrimaryKeyColumns(sq.from[j].name) # << >>
  BY <1>3 DEF TracedTo, Origin
<1>5. <<rq.from[j].schema, rq.from[j].name>> = <<Home, o.table>>
  <2>1. ~IsNamesake(sq.from[j], rq.from[j])
    BY <1>1, <1>3 DEF Ran, HasNamesake
  <2>2. <<Home, sq.from[j].name>> \in DOMAIN Catalog
    BY <1>4, TableColumns
  <2> QED
    BY <1>4, <2>1, <2>2 DEF IsNamesake
<1>6. /\ Scope(catalog, read)[i].columns = columns /\ Scope(catalog, other)[i].columns = all
  <2>1. i \in DOMAIN read.from /\ i \in DOMAIN other.from
    BY OtherIs DEF SpelledAliases
  <2>2. /\ Scope(catalog, read)[i].columns = Exposes(catalog, read.from[i])
        /\ Scope(catalog, other)[i].columns = Exposes(catalog, other.from[i])
    BY <2>1, ScopeEntries
  <2> QED
    BY <1>1, <2>2
<1>7. PICK item : item = read.items[m] /\ item.name = As(k, s.items[m].name)
  BY RanPieces DEF Spells, SpellsList, SpellsItem
<1>8. PICK b : TakenAt(columns, item, cell, b)
  <2>1. OnlyEntry(Scope(catalog, read), item, i)
    BY <1>7, ItemReaches
  <2>2. CarriedFrom(Scope(catalog, read), item, cell)
    BY <1>7
  <2>3. \E b : TakenAt(Scope(catalog, read)[i].columns, item, cell, b)
    BY <2>1, <2>2, CarriedBy
  <2> QED
    BY <1>6, <2>3
<1>9. FromRow(cell, <<alias, rq.from[j].alias>>, o.table)
  <2>1. b \in DOMAIN columns /\ columns[b].name = As(k, s.items[m].name)
    BY <1>7, <1>8 DEF TakenAt
  <2>2. /\ columns[b].from.path = <<alias, rq.from[j].alias>>
        /\ columns[b].from.table = <<rq.from[j].schema, rq.from[j].name>>
    BY <1>2, <1>3, <2>1, InnerFinds
  <2>3. cell.from = columns[b].from
    BY <1>8 DEF TakenAt, Renamed
  <2> QED
    BY <1>5, <2>2, <2>3 DEF FromRow
<1>10. ASSUME NEW n \in DOMAIN needs, needs[n].via = o.via, NEW q \in DOMAIN needs[n].key,
              NEW carrier, CarriedFrom(Scope(catalog, other), OuterCarrier(needs[n], q), carrier)
       PROVE  KeyCell(carrier, <<alias, rq.from[j].alias>>, o.table, needs[n].key[q])
  <2>1. Crosses(needs[n], spelled, sq.from[j].alias)
    <3>1. PICK via : via = needs[n].via /\ via = <<spelled, sq.from[j].alias>>
      BY <1>4, <1>10
    <3>2. Len(via) = 2 /\ via[1] = spelled /\ via[2] = sq.from[j].alias
      BY <3>1
    <3> QED
      BY <3>1, <3>2 DEF Crosses
  <2>2. PICK name : name = HiddenName(needs[n].via, needs[n].key[q])
    OBVIOUS
  <2>3. PICK hidden : hidden = OuterCarrier(needs[n], q)
    OBVIOUS
  <2>4. hidden.of = s.from[i].alias /\ hidden.name = name
    <3>1. hidden.of = needs[n].via[1]
      BY <2>3 DEF OuterCarrier, Column
    <3>2. hidden.name = IF Len(needs[n].via) = 1 THEN needs[n].key[q]
                        ELSE HiddenName(needs[n].via, needs[n].key[q])
      BY <2>3 DEF OuterCarrier, Column
    <3>3. Len(needs[n].via) = 2 /\ needs[n].via[1] = s.from[i].alias
      BY <1>1, <2>1 DEF Crosses
    <3> QED
      BY <2>2, <3>1, <3>2, <3>3
  <2>5. OnlyEntry(Scope(catalog, other), hidden, i)
    BY <2>4, CarrierReaches
  <2>6. CarriedFrom(Scope(catalog, other), hidden, carrier)
    BY <1>10, <2>3
  <2>7. PICK d : TakenAt(all, hidden, carrier, d)
    <3>1. \E d : TakenAt(Scope(catalog, other)[i].columns, hidden, carrier, d)
      BY <2>5, <2>6, CarriedBy
    <3> QED
      BY <1>6, <3>1
  <2>8. HiddenAt(all, d, needs[n], q)
    BY <2>2, <2>4, <2>7 DEF TakenAt, HiddenAt
  <2>9. /\ needs \in Seq(Needs) /\ j \in DOMAIN sq.from
        /\ n \in DOMAIN needs /\ q \in DOMAIN needs[n].key
    BY <1>3, <1>10 DEF Ran
  <2>10. all[d].from = [path |-> <<alias, rq.from[j].alias>>,
                        table |-> <<rq.from[j].schema, rq.from[j].name>>,
                        column |-> needs[n].key[q]]
    BY <1>2, <2>1, <2>8, <2>9, InnerCarries
  <2>11. carrier.from = all[d].from
    BY <2>7 DEF TakenAt, Renamed
  <2> QED
    BY <1>5, <2>10, <2>11 DEF KeyCell
<1>11. Carries(Scope(catalog, other), needs, o.via, <<alias, rq.from[j].alias>>, o.table)
  BY <1>10 DEF Carries
<1> QED
  BY <1>9, <1>11

----------------------------------------------------------------------------
(* An origin finds its row *)

\* The origin of a column is traced to the row that the column comes from.
LEMMA ColumnFinds ==
  ASSUME NEW k, NEW s, NEW catalog, NEW read, NEW other, NEW needs,
         Ran(k, s, catalog, read, other, needs), NEW i, NEW m \in DOMAIN s.items, NEW j,
         At(k, s, catalog, read, i, m, j), s.items[m].kind # "star",
         VisibleOrigins(k, s)[i] # NoOrigin
  PROVE  /\ VisibleOrigins(k, s)[i].via # << >> /\ VisibleOrigins(k, s)[i].key # << >>
         /\ \E path :
              /\ FromRow(Output(catalog, read)[i], path, VisibleOrigins(k, s)[i].table)
              /\ Carries(Scope(catalog, other), needs, VisibleOrigins(k, s)[i].via, path,
                         VisibleOrigins(k, s)[i].table)
<1>1. /\ s.from \in Seq(Refs(Names)) /\ s.items[m] \in ItemsOver(Names) /\ k \in Dialects
  <2>1. k \in Dialects /\ s \in StatementsOver(Names)
    BY SpelledStatements DEF Ran
  <2>2. s \in QueriesOver(Refs(Names), Names)
    BY <2>1, StatementQueries
  <2> QED
    BY <2>1, <2>2, QueryFields
<1>2. PICK o : o = VisibleOrigins(k, s)[i]
  OBVIOUS
<1>3. o = ItemOrigin(k, s.from, s.items[m])
  <2>1. ItemOrigins(k, s.from, s.items[m]) = <<ItemOrigin(k, s.from, s.items[m])>>
    BY <1>1, ItemOriginsType
  <2>2. \A x, y : y \in DOMAIN <<x>> => <<x>>[y] = x
    OBVIOUS
  <2> QED
    BY <1>2, <2>1, <2>2 DEF At
<1>4. s.items[m].kind = "column" /\ Traces(s.from, s.items[m], o)
  <2>1. \/ ItemOrigin(k, s.from, s.items[m]) = NoOrigin
        \/ /\ s.items[m].kind = "column"
           /\ Traces(s.from, s.items[m], ItemOrigin(k, s.from, s.items[m]))
    BY <1>1, ItemOriginIs
  <2> QED
    BY <1>2, <1>3, <2>1
<1>5. PICK a \in DOMAIN s.from : TracesAt(s.from, s.items[m], o, a)
  BY <1>4 DEF Traces
<1>6. o.via # << >> /\ o.key # << >>
  <2>1. \/ \E table, x : TracedTo(o, table, <<x>>)
        \/ \E table, x, y : TracedTo(o, table, <<x, y>>)
    <3>1. CASE IsDerived(s.from[a])
      <4>1. PICK b \in DOMAIN s.from[a].query.from :
              TracedTo(o, s.from[a].query.from[b].name,
                       <<s.from[a].alias, s.from[a].query.from[b].alias>>)
        BY <1>5, <3>1 DEF TracesAt
      <4> QED
        BY <4>1
    <3>2. CASE ~IsDerived(s.from[a])
      <4>1. TracedTo(o, s.from[a].name, <<s.from[a].alias>>)
        BY <1>5, <3>2 DEF TracesAt
      <4> QED
        BY <4>1
    <3> QED
      BY <3>1, <3>2
  <2>2. \A table, via : TracedTo(o, table, via) => o.via = via /\ o.key # << >>
    BY DEF TracedTo, Origin
  <2>3. ASSUME NEW table, NEW x, TracedTo(o, table, <<x>>)
        PROVE  o.via # << >> /\ o.key # << >>
    BY <2>2, <2>3
  <2>4. ASSUME NEW table, NEW x, NEW y, TracedTo(o, table, <<x, y>>)
        PROVE  o.via # << >> /\ o.key # << >>
    BY <2>2, <2>4
  <2> QED
    BY <2>1, <2>3, <2>4
<1>7. PICK cell : /\ cell = Output(catalog, read)[i]
                  /\ CarriedFrom(Scope(catalog, read), read.items[m], cell)
  BY <1>4, ItemCarried
<1>8. CarriedFrom(Scope(catalog, read), read.items[m], cell)
  BY <1>7
<1>9. \E path : /\ FromRow(cell, path, o.table)
                /\ Carries(Scope(catalog, other), needs, o.via, path, o.table)
  <2>1. CASE IsDerived(s.from[a])
    BY <1>5, <1>8, <2>1, DerivedFinds
  <2>2. CASE ~IsDerived(s.from[a])
    BY <1>5, <1>8, <2>2, TableFinds
  <2> QED
    BY <2>1, <2>2
<1> QED
  BY <1>2, <1>6, <1>7, <1>9

\* Where its carriers are, the key of an origin is that of its row.
LEMMA FilledFinds ==
  ASSUME NEW k, NEW s, NEW catalog, NEW read, NEW other, NEW needs,
         Ran(k, s, catalog, read, other, needs), NEW i \in DOMAIN VisibleOrigins(k, s),
         VisibleOrigins(k, s)[i].via # << >>, NEW path,
         Carries(Scope(catalog, other), needs, VisibleOrigins(k, s)[i].via, path,
                 VisibleOrigins(k, s)[i].table),
         Len(Output(catalog, read)) = Len(VisibleOrigins(k, s)),
         NEW filled, filled = FillIndexes(VisibleOrigins(k, s), needs)[i]
  PROVE  /\ filled.table = VisibleOrigins(k, s)[i].table
         /\ filled.key = VisibleOrigins(k, s)[i].key
         /\ DOMAIN filled.at = DOMAIN filled.key
         /\ FetchesRowOf(filled, Output(catalog, other), path)
<1>1. PICK origins \in Seq(Origins) : origins = VisibleOrigins(k, s)
  BY RanPieces
<1>2. needs \in Seq(Needs) /\ needs = Needed(origins)
  BY <1>1 DEF Ran
<1>3. PICK o \in Origins : o = origins[i]
  BY <1>1
<1>4. PICK n \in DOMAIN needs : PlacedAt(filled, o, needs, Len(origins), n)
  <2>1. i \in DOMAIN origins /\ origins[i].via # << >> /\ origins \in Seq(Origins)
    BY <1>1
  <2>2. \E n \in DOMAIN needs :
          PlacedAt(FillIndexes(origins, needs)[i], origins[i], needs, Len(origins), n)
    BY <1>2, <2>1, FilledAt
  <2> QED
    BY <1>1, <1>3, <2>2
<1>5. /\ filled.table = o.table /\ filled.key = o.key
      /\ filled.at = [q \in DOMAIN needs[n].key |->
                        Len(origins) + Before(KeyPieces(needs), n) + q]
  BY <1>3, <1>4 DEF Origins, PlacedAt
<1>6. needs[n].key = o.key
  <2>1. needs[n].via = VisibleOrigins(k, s)[i].via /\ needs[n].via # << >>
    BY <1>1, <1>3, <1>4 DEF PlacedAt
  <2>2. needs[n].key = VisibleOrigins(k, s)[i].key
    BY <1>4, <2>1, NeedSame
  <2> QED
    BY <1>1, <1>3, <2>2
<1>7. ASSUME NEW q \in DOMAIN filled.key
      PROVE  /\ filled.at[q] \in DOMAIN Output(catalog, other)
             /\ KeyCell(Output(catalog, other)[filled.at[q]], path, filled.table,
                        filled.key[q])
  <2>1. n \in DOMAIN needs /\ q \in DOMAIN needs[n].key
    BY <1>4, <1>5, <1>6, <1>7
  <2>2. PICK l : l = Len(Output(catalog, read)) + (Before(KeyPieces(needs), n) + q)
    OBVIOUS
  <2>3. l \in DOMAIN Output(catalog, other)
        /\ CarriedFrom(Scope(catalog, other), OuterCarrier(needs[n], q),
                       Output(catalog, other)[l])
    BY <2>1, <2>2, CarrierPlace
  <2>4. filled.at[q] = l
    <3>1. Len(origins) \in Nat /\ Before(KeyPieces(needs), n) \in Nat /\ q \in Nat
      <4>1. needs[n] \in Needs
        BY <1>2, <2>1
      <4>2. Before(KeyPieces(needs), n) \in Nat
        BY <1>2, <2>1, KeysBefore
      <4>3. DOMAIN needs[n].key = 1..Len(needs[n].key) /\ Len(needs[n].key) \in Nat
        BY <4>1, NeedFields
      <4>4. Len(origins) \in Nat
        BY <1>1, LenProperties
      <4> QED
        BY <2>1, <4>2, <4>3, <4>4
    <3>2. \A x, y, z \in Nat : x + y + z = x + (y + z)
      OBVIOUS
    <3>3. Len(Output(catalog, read)) = Len(origins)
      BY <1>1
    <3>4. filled.at[q] = Len(origins) + Before(KeyPieces(needs), n) + q
      BY <1>5, <2>1
    <3> QED
      BY <2>2, <3>1, <3>2, <3>3, <3>4
  <2>5. needs[n].via = VisibleOrigins(k, s)[i].via
    BY <1>1, <1>3, <1>4 DEF PlacedAt
  <2>6. KeyCell(Output(catalog, other)[l], path, VisibleOrigins(k, s)[i].table,
                needs[n].key[q])
    BY <2>1, <2>3, <2>5 DEF Carries
  <2> QED
    BY <1>1, <1>3, <1>5, <1>6, <2>3, <2>4, <2>6
<1>8. FetchesRowOf(filled, Output(catalog, other), path)
  BY <1>7 DEF FetchesRowOf, KeyCell
<1> QED
  BY <1>1, <1>3, <1>5, <1>6, <1>8

\* What the server keeps for a column of a statement that ran finds its row.
LEMMA RanFinds ==
  ASSUME NEW k, NEW s, NEW catalog, NEW read, NEW other, NEW needs,
         Ran(k, s, catalog, read, other, needs), ~WildcardMerges(s), WildcardLeads(s),
         Len(Output(catalog, read)) = Len(VisibleOrigins(k, s)),
         NEW i \in DOMAIN VisibleOrigins(k, s), NEW filled,
         filled = FillIndexes(VisibleOrigins(k, s), needs)[i], filled # NoOrigin
  PROVE  Placed(filled) /\ Finds(filled, Output(catalog, other), i)
<1>1. Alike(k, s, catalog, read)
  BY LaidAlike
<1>2. PICK m \in DOMAIN s.items : \E j : At(k, s, catalog, read, i, m, j)
  BY <1>1, PlaceOf
<1>20. PICK j : At(k, s, catalog, read, i, m, j)
  BY <1>2
<1>3. Begins(Output(catalog, other), Output(catalog, read))
  <2>1. PICK asked \in Seq(Cells) : asked = Output(catalog, read)
    BY RanPieces
  <2>2. Consists(Output(catalog, other), asked,
                 Columns(read.natural, Scope(catalog, other), Carriers(needs)))
    BY <2>1, RanGrown
  <2>3. PICK extra \in Seq(Cells) :
          extra = Columns(read.natural, Scope(catalog, other), Carriers(needs))
    <3>1. PICK scope \in Seq(Entries) : scope = Scope(catalog, other)
      BY RanGrown
    <3>2. AllRun(read.natural, scope, Carriers(needs))
      BY <3>1, RanGrown
    <3>3. Carriers(needs) \in Seq(ItemsOver(Names)) /\ HiddenItems(Carriers(needs))
      BY CarriersAre DEF Ran
    <3>4. Columns(read.natural, scope, Carriers(needs)) \in Seq(Cells)
      BY <3>2, <3>3, HiddenColumns
    <3> QED
      BY <3>1, <3>4
  <2>4. Consists(Output(catalog, other), asked, extra)
    BY <2>2, <2>3
  <2>5. \A a \in DOMAIN asked : a \in DOMAIN Output(catalog, other)
                                /\ Output(catalog, other)[a] = asked[a]
    BY <2>4, ConsistsBegins
  <2> QED
    BY <2>1, <2>5 DEF Begins
<1>4. PICK origins \in Seq(Origins) : origins = VisibleOrigins(k, s)
  BY RanPieces
<1>5. origins[i].via = << >> => filled = origins[i]
  <2>1. needs \in Seq(Needs) /\ needs = Needed(origins) /\ i \in DOMAIN origins
    BY <1>4 DEF Ran
  <2>2. origins[i].via = << >> => FillIndexes(origins, needs)[i] = origins[i]
    <3>1. origins \in Seq(Origins)
      OBVIOUS
    <3> QED
      BY <2>1, <3>1, FilledAt
  <2> QED
    BY <1>4, <2>2
<1>6. VisibleOrigins(k, s)[i] # NoOrigin
  <2>1. NoOrigin.via = << >>
    BY DEF NoOrigin
  <2> QED
    BY <1>4, <1>5, <2>1
<1>7. CASE s.items[m].kind = "star"
  <2>1. m = 1
    BY <1>7 DEF WildcardLeads
  <2>2. At(k, s, catalog, read, i, 1, i)
    BY <1>2, <1>20, <2>1 DEF At
  <2>3. /\ VisibleOrigins(k, s)[i].via = << >> /\ Placed(VisibleOrigins(k, s)[i])
        /\ Finds(VisibleOrigins(k, s)[i], Output(catalog, other), i)
    <3>1. 1 \in DOMAIN s.items /\ s.items[1].kind = "star"
      BY <1>7, <2>1
    <3> QED
      BY <1>1, <1>3, <1>6, <2>2, <3>1, StarFinds
  <2> QED
    BY <1>4, <1>5, <2>3
<1>8. CASE s.items[m].kind # "star"
  <2>1. PICK o : o = VisibleOrigins(k, s)[i]
    OBVIOUS
  <2>2. /\ VisibleOrigins(k, s)[i].via # << >> /\ VisibleOrigins(k, s)[i].key # << >>
        /\ \E path :
             /\ FromRow(Output(catalog, read)[i], path, VisibleOrigins(k, s)[i].table)
             /\ Carries(Scope(catalog, other), needs, VisibleOrigins(k, s)[i].via, path,
                        VisibleOrigins(k, s)[i].table)
    BY <1>2, <1>20, <1>6, <1>8, ColumnFinds
  <2>3. PICK path :
          /\ FromRow(Output(catalog, read)[i], path, VisibleOrigins(k, s)[i].table)
          /\ Carries(Scope(catalog, other), needs, VisibleOrigins(k, s)[i].via, path,
                     VisibleOrigins(k, s)[i].table)
    BY <2>2
  <2>4. VisibleOrigins(k, s)[i].via # << >>
    BY <2>2
  <2>5. /\ filled.table = VisibleOrigins(k, s)[i].table
        /\ filled.key = VisibleOrigins(k, s)[i].key
        /\ DOMAIN filled.at = DOMAIN filled.key
        /\ FetchesRowOf(filled, Output(catalog, other), path)
    <3>1. Carries(Scope(catalog, other), needs, VisibleOrigins(k, s)[i].via, path,
                  VisibleOrigins(k, s)[i].table)
      BY <2>3
    <3> QED
      BY <2>4, <3>1, FilledFinds
  <2>6. filled.key \in Seq(Names)
    <3>1. origins[i] \in Origins
      BY <1>4
    <3> QED
      BY <1>4, <2>5, <3>1 DEF Origins
  <2>7. i \in DOMAIN Output(catalog, read)
    BY <1>2, <1>20 DEF At
  <2>8. FromRow(Output(catalog, other)[i], path, filled.table)
    BY <1>3, <2>3, <2>5, <2>7 DEF Begins
  <2> QED
    BY <2>2, <2>5, <2>6, <2>8 DEF Finds, FromRow, Placed
<1> QED
  BY <1>7, <1>8

\* The plan of a join that ran is one of those.
LEMMA JoinRan ==
  ASSUME Inv, Answered, plan.path = "join", ~HasNamesake(kind, stmt),
         ~UnionMissed(kind, stmt), ~WildcardShifted
  PROVE  \E catalog : \E needs :
           /\ catalog = Target(result.altered)
           /\ needs = Needed(VisibleOrigins(kind, stmt))
           /\ Ran(kind, stmt, catalog, AsRead(kind, stmt), plan.rewritten, needs)
           /\ plan.origins = FillIndexes(VisibleOrigins(kind, stmt), needs)
           /\ Len(plan.origins) = Len(VisibleOrigins(kind, stmt))
           /\ VisibleOrigins(kind, stmt) \in Seq(Origins)
<1>1. PICK k \in Dialects, s \in StatementsOver(Written) :
        k = kind /\ s = stmt /\ WellFormed(s)
  BY ResultIs
<1>2. PICK p : p = plan /\ PlanJoin(k, s, p)
  BY <1>1, ResultFields
<1>3. PICK altered \in BOOLEAN : altered = result.altered
  BY ResultIs
<1>4. PICK catalog : catalog = Target(altered)
  OBVIOUS
<1>5. /\ IsCatalog(catalog) /\ DOMAIN catalog = DOMAIN Catalog
      /\ \A t \in DOMAIN Catalog : catalog[t].key = Catalog[t].key
  BY <1>4, TargetIs
<1>6. Runs(catalog, p.rewritten)
  BY <1>2, <1>3, <1>4, ResultIs
<1>7. PICK read : read = AsRead(k, s)
  OBVIOUS
<1>8. PICK origins \in Seq(Origins), needs \in Seq(Needs) :
        /\ origins = VisibleOrigins(k, s) /\ needs = Needed(origins)
        /\ p.rewritten = GrownQuery(AsRead(k, s), InnerOf(s, needs), Carriers(needs))
        /\ p.origins = FillIndexes(origins, needs)
        /\ Len(p.origins) = Len(origins)
  BY <1>2, JoinPlanIs
<1>9. Reading(catalog, read)
  BY <1>2, <1>5, <1>6, <1>7, <1>8, JoinReturns
<1>10. Understands(s, JoinShapes(k)) /\ s.shape # "union"
  <2>1. Understands(s, JoinShapes(k))
    BY <1>2 DEF PlanJoin
  <2>2. s.shape \in JoinShapes(k)
    BY <2>1 DEF Understands
  <2> QED
    BY <1>1, <2>1, <2>2 DEF JoinShapes, UnionMissed
<1>11. \A m \in DOMAIN s.items : s.items[m].kind = "star" => catalog = Catalog
  <2>1. ASSUME NEW m \in DOMAIN s.items, s.items[m].kind = "star" PROVE catalog = Catalog
    <3>1. s.items[m] \in ToSet(stmt.items)
      BY <1>1 DEF ToSet
    <3>2. altered = FALSE
      BY <1>3, <2>1, <3>1 DEF WildcardShifted
    <3> QED
      BY <1>4, <3>2 DEF Target
  <2> QED
    BY <2>1
<1>12. Ran(k, s, catalog, read, p.rewritten, needs)
  BY <1>1, <1>5, <1>6, <1>7, <1>8, <1>9, <1>10, <1>11 DEF Ran
<1> QED
  BY <1>1, <1>2, <1>3, <1>4, <1>7, <1>8, <1>12

LEMMA JoinFinds ==
  ASSUME Inv, Answered, plan.path = "join", ~HasNamesake(kind, stmt),
         ~UnionMissed(kind, stmt), ~WildcardShifted, ~WildcardMerges(stmt),
         WildcardLeads(stmt), NEW i \in 1..result.visible, result.origins[i] # NoOrigin
  PROVE  Placed(result.origins[i]) /\ Finds(result.origins[i], result.cells, i)
<1>1. PICK catalog, needs :
        /\ catalog = Target(result.altered)
        /\ needs = Needed(VisibleOrigins(kind, stmt))
        /\ Ran(kind, stmt, catalog, AsRead(kind, stmt), plan.rewritten, needs)
        /\ plan.origins = FillIndexes(VisibleOrigins(kind, stmt), needs)
        /\ Len(plan.origins) = Len(VisibleOrigins(kind, stmt))
        /\ VisibleOrigins(kind, stmt) \in Seq(Origins)
  BY JoinRan
<1>2. PICK read : read = AsRead(kind, stmt)
  OBVIOUS
<1>3. Ran(kind, stmt, catalog, read, plan.rewritten, needs)
  BY <1>1, <1>2
<1>4. result.cells = Output(catalog, plan.rewritten) /\ result.cells \in Seq(Cells)
  BY <1>1, ResultIs
<1>5. /\ Len(plan.origins) > Len(result.cells) =>
           /\ result.visible = Len(result.cells)
           /\ result.origins = [j \in DOMAIN result.cells |-> NoOrigin]
      /\ ~(Len(plan.origins) > Len(result.cells)) =>
           result.visible = Len(plan.origins) /\ result.origins = plan.origins
  BY ResultFields
<1>6. result.visible = Len(plan.origins) /\ result.origins = plan.origins
  <2>1. CASE Len(plan.origins) > Len(result.cells)
    <3>1. i \in DOMAIN result.cells
      <4>1. PICK cells \in Seq(Cells) : cells = result.cells
        BY <1>4
      <4>2. DOMAIN cells = 1..Len(cells)
        BY LenProperties
      <4> QED
        BY <1>5, <2>1, <4>1, <4>2
    <3>2. result.origins[i] = NoOrigin
      BY <1>5, <2>1, <3>1
    <3> QED
      BY <3>2
  <2> QED
    BY <1>5, <2>1
<1>7. Len(Output(catalog, read)) = Len(VisibleOrigins(kind, stmt))
  <2>1. ShowsFirst(result.cells, Output(Target(result.altered), AsRead(kind, stmt)),
                   result.visible, ~WildcardMerges(stmt))
    BY JoinShows
  <2>2. Len(Output(Target(result.altered), AsRead(kind, stmt))) = result.visible
    BY <2>1 DEF ShowsFirst
  <2> QED
    BY <1>1, <1>2, <1>6, <2>2
<1>8. i \in DOMAIN VisibleOrigins(kind, stmt)
  <2>1. PICK origins \in Seq(Origins) : origins = VisibleOrigins(kind, stmt)
    BY <1>1
  <2>2. DOMAIN origins = 1..Len(origins)
    BY LenProperties
  <2> QED
    BY <1>1, <1>6, <2>1, <2>2
<1>9. PICK filled : filled = FillIndexes(VisibleOrigins(kind, stmt), needs)[i]
  OBVIOUS
<1>10. filled = result.origins[i]
  BY <1>1, <1>6, <1>9
<1>11. filled # NoOrigin
  BY <1>10
<1>12. Placed(filled) /\ Finds(filled, Output(catalog, plan.rewritten), i)
  BY <1>3, <1>7, <1>8, <1>9, <1>11, RanFinds
<1> QED
  BY <1>4, <1>10, <1>12

LEMMA SingleFinds ==
  ASSUME Inv, Answered, plan.path = "single", ~HasNamesake(kind, stmt),
         ~UnionMissed(kind, stmt), NEW i \in 1..result.visible
  PROVE  Placed(result.origins[i]) /\ Finds(result.origins[i], result.cells, i)
<1>1. PICK k \in Dialects, s \in StatementsOver(Written) :
        k = kind /\ s = stmt /\ WellFormed(s)
  BY ResultIs
<1>2. PICK p : p = plan /\ PlanSingle(k, s, p)
  BY <1>1, ResultFields
<1>3. PICK altered \in BOOLEAN : altered = result.altered
  BY ResultIs
<1>4. PICK catalog : catalog = Target(altered)
  OBVIOUS
<1>5. Runs(catalog, p.rewritten) /\ result.cells = Output(catalog, p.rewritten)
  BY <1>2, <1>3, <1>4, ResultIs
<1>6. PICK cells \in Seq(Cells) : cells = result.cells
  BY ResultIs
<1>7. s.shape # "union"
  BY <1>1, <1>2 DEF UnionMissed, PlanSingle
<1>8. ~HasNamesake(k, s)
  BY <1>1
<1>9. \E ref : \E names \in Seq(Names) :
        /\ CellsOf(Output(catalog, p.rewritten), names, ref)
        /\ <<ref.schema, ref.name>> = <<Home, p.table>>
        /\ ToSet(p.key) \subseteq ToSet(names)
  <2>1. WellFormed(s) /\ PlanSingle(k, s, p)
    BY <1>1, <1>2
  <2>2. Runs(catalog, p.rewritten)
    BY <1>5
  <2>3. altered \in BOOLEAN
    BY <1>3
  <2> QED
    BY <1>4, <1>7, <1>8, <2>1, <2>2, <2>3, SingleCells
<1>10. PICK ref : \E names \in Seq(Names) :
        /\ CellsOf(Output(catalog, p.rewritten), names, ref)
        /\ <<ref.schema, ref.name>> = <<Home, p.table>>
        /\ ToSet(p.key) \subseteq ToSet(names)
  BY <1>9
<1>11. PICK names \in Seq(Names) :
        /\ CellsOf(Output(catalog, p.rewritten), names, ref)
        /\ <<ref.schema, ref.name>> = <<Home, p.table>>
        /\ ToSet(p.key) \subseteq ToSet(names)
  BY <1>10
<1>12. CellsOf(cells, names, ref)
  BY <1>5, <1>6, <1>11
<1>13. PICK key \in Seq(Names) : key = p.key /\ key # << >>
  BY <1>2, TableColumns DEF PlanSingle
<1>14. i \in DOMAIN names
  <2>1. DOMAIN cells = 1..Len(cells)
    BY LenProperties
  <2>2. result.visible = Len(cells)
    BY <1>2, <1>6, ResultFields DEF PlanSingle
  <2> QED
    BY <1>12, <2>1, <2>2 DEF CellsOf
<1>15. PICK table : table = p.table
  OBVIOUS
<1>16. /\ Finds(UniformOrigins(cells, table, key)[i], cells, i)
       /\ Placed(UniformOrigins(cells, table, key)[i])
  <2>1. <<ref.schema, ref.name>> = <<Home, table>>
    BY <1>11, <1>15
  <2>2. ToSet(key) \subseteq ToSet(names)
    BY <1>11, <1>13
  <2> QED
    BY <1>12, <1>13, <1>14, <2>1, <2>2, UniformFinds
<1>17. result.origins = UniformOrigins(cells, table, key)
  BY <1>2, <1>6, <1>13, <1>15, ResultFields DEF PlanSingle
<1> QED
  BY <1>6, <1>13, <1>16, <1>17

\* What OriginsFindTheirRow and DownloadsServed except.
Excepted ==
  \/ WildcardMerges(stmt) \/ ~WildcardLeads(stmt) \/ UnionMissed(kind, stmt)
  \/ HasNamesake(kind, stmt) \/ WildcardShifted

LEMMA OriginFinds ==
  ASSUME Inv, Answered, ~Excepted, NEW i \in 1..result.visible,
         result.origins[i] # NoOrigin
  PROVE  Placed(result.origins[i]) /\ Finds(result.origins[i], result.cells, i)
<1>1. /\ ~WildcardMerges(stmt) /\ WildcardLeads(stmt) /\ ~UnionMissed(kind, stmt)
      /\ ~HasNamesake(kind, stmt) /\ ~WildcardShifted
  BY DEF Excepted
<1>2. plan.path \in {"join", "single", "plain"}
  BY ResultFields
<1>3. CASE plan.path = "join"
  BY <1>1, <1>3, JoinFinds
<1>4. CASE plan.path = "single"
  BY <1>1, <1>4, SingleFinds
<1>5. CASE plan.path = "plain"
  <2>1. /\ result.visible = Len(result.cells)
        /\ result.origins = [j \in DOMAIN result.cells |-> NoOrigin]
    BY <1>5, ResultFields
  <2>2. PICK cells \in Seq(Cells) : cells = result.cells
    BY ResultIs
  <2>3. DOMAIN cells = 1..Len(cells)
    BY LenProperties
  <2>4. result.origins[i] = NoOrigin
    BY <2>1, <2>2, <2>3
  <2> QED
    BY <2>4
<1> QED
  BY <1>2, <1>3, <1>4, <1>5

LEMMA Found == Inv => OriginsFindTheirRow
<1> SUFFICES ASSUME Inv, Answered, ~Excepted, NEW i \in 1..result.visible,
                    result.origins[i] # NoOrigin
             PROVE  /\ result.cells[i].from.table = <<Home, result.origins[i].table>>
                    /\ FetchesRowOf(result.origins[i], result.cells,
                                    result.cells[i].from.path)
  BY DEF OriginsFindTheirRow, Excepted
<1>1. Finds(result.origins[i], result.cells, i)
  BY OriginFinds
<1> QED
  BY <1>1 DEF Finds

\* The key that a shown column's origin points to (ColumnOrigin: the table, and
\* the places of its key's columns in the row) is that of the very row the cell
\* comes from, in every dialect, for every catalog and every statement: through
\* stars, joins, derived tables and derived tables in them, with what the code
\* cannot tell apart excepted.
THEOREM OriginsFound == Spec => []OriginsFindTheirRow
<1>1. Inv => OriginsFindTheirRow
  BY Found
<1> QED
  BY <1>1, Invariance, PTL

----------------------------------------------------------------------------
(* Every cell is of a column that its table has *)

TrueFrom(catalog, from) ==
  \/ from = Computed
  \/ /\ from.table \in DOMAIN catalog
     /\ from.column \in ToSet(catalog[from.table].columns)

\* These names are among those there are, and a catalog's among them.
NameSet(names) == UsersNames \subseteq names /\ names \subseteq Names

IsBacked(catalog, names, column) ==
  TrueFrom(catalog, column.from) /\ column.name \in names

Backed(catalog, names, columns) ==
  \A i \in DOMAIN columns : IsBacked(catalog, names, columns[i])

LEMMA FlattenBacked ==
  ASSUME NEW catalog, NEW names, NEW s \in Seq(Seq(Cells)),
         \A l \in DOMAIN s : Backed(catalog, names, s[l])
  PROVE  Backed(catalog, names, FlattenSeq(s))
<1>1. ASSUME NEW i \in DOMAIN FlattenSeq(s)
      PROVE  IsBacked(catalog, names, FlattenSeq(s)[i])
  <2>1. \E l \in DOMAIN s : \E j \in DOMAIN s[l] : FlattenSeq(s)[i] = s[l][j]
    BY <1>1, FlattenElements
  <2> QED
    BY <2>1 DEF Backed
<1> QED
  BY <1>1 DEF Backed

LEMMA NamedInBacked ==
  ASSUME NEW catalog, NEW names, NEW columns \in Seq(Cells),
         Backed(catalog, names, columns), NEW among
  PROVE  /\ NamedIn(columns, among) \in Seq(Cells)
         /\ Backed(catalog, names, NamedIn(columns, among))
<1>1. PICK s \in Seq(Seq(Cells)) :
        s = [i \in DOMAIN columns |-> Pick1(among, columns[i])]
  BY NamedInPieces
<1>2. NamedIn(columns, among) = FlattenSeq(s) /\ NamedIn(columns, among) \in Seq(Cells)
  BY <1>1, NamedInPieces
<1>3. ASSUME NEW l \in DOMAIN s PROVE Backed(catalog, names, s[l])
  <2>1. l \in DOMAIN columns /\ s[l] = Pick1(among, columns[l])
    BY <1>1
  <2>2. \A x, i : i \in DOMAIN <<x>> => <<x>>[i] = x
    OBVIOUS
  <2>3. \A i : i \notin DOMAIN << >>
    OBVIOUS
  <2> QED
    BY <2>1, <2>2, <2>3 DEF Backed, Pick1
<1>4. Backed(catalog, names, FlattenSeq(s))
  BY <1>3, FlattenBacked
<1> QED
  BY <1>2, <1>4

LEMMA JoinedBacked ==
  ASSUME NEW catalog, NEW names, NEW s \in Seq(Cells), NEW t \in Seq(Cells),
         Backed(catalog, names, s), Backed(catalog, names, t)
  PROVE  Backed(catalog, names, s \o t)
<1>1. PICK l \in Nat, m \in Nat : l = Len(s) /\ m = Len(t)
  BY LenProperties
<1>2. PICK u : /\ u = s \o t /\ DOMAIN u = 1..(l + m) /\ DOMAIN s = 1..l /\ DOMAIN t = 1..m
               /\ \A i \in 1..l : u[i] = s[i]
               /\ \A i \in 1..m : u[l + i] = t[i]
  <2>1. /\ DOMAIN (s \o t) = 1..(l + m) /\ DOMAIN s = 1..l /\ DOMAIN t = 1..m
        /\ \A i \in 1..l : (s \o t)[i] = s[i]
        /\ \A i \in 1..m : (s \o t)[l + i] = t[i]
    BY <1>1, Joined
  <2> QED
    BY <2>1
<1>3. ASSUME NEW i \in 1..(l + m) PROVE IsBacked(catalog, names, u[i])
  <2>1. CASE i <= l
    <3>1. i \in 1..l
      BY <2>1
    <3> QED
      BY <1>2, <3>1 DEF Backed
  <2>2. CASE ~(i <= l)
    <3>1. PICK j \in 1..m : i = l + j
      <4>1. i - l \in 1..m /\ i = l + (i - l)
        BY <2>2
      <4> QED
        BY <4>1
    <3> QED
      BY <1>2, <3>1 DEF Backed
  <2> QED
    BY <2>1, <2>2
<1> QED
  BY <1>2, <1>3 DEF Backed

ScopeBacked(catalog, names, scope) ==
  \A i \in DOMAIN scope : Backed(catalog, names, scope[i].columns)

LEMMA StarBacked ==
  ASSUME NEW catalog, NEW names, NEW natural, NEW scope \in Seq(Entries), scope # << >>,
         ScopeBacked(catalog, names, scope)
  PROVE  Backed(catalog, names, StarColumns(natural, scope))
<1>1. 1 \in DOMAIN scope
  BY EmptySeq, LenProperties
<1>2. PICK first \in Seq(Cells) : first = scope[1].columns /\ Backed(catalog, names, first)
  BY <1>1, ScopeAt DEF ScopeBacked
<1>3. PICK all \in Seq(Cells) : all = AllColumns(scope)
  BY AllColumnsAre
<1>4. Backed(catalog, names, all)
  BY <1>3, AllColumnsAre DEF Backed, ScopeBacked
<1>5. PICK merged, rest :
        StarColumns(natural, scope) = NamedIn(first, merged) \o NamedIn(all, rest)
  BY <1>2, <1>3 DEF StarColumns
<1>6. /\ NamedIn(first, merged) \in Seq(Cells)
      /\ Backed(catalog, names, NamedIn(first, merged))
      /\ NamedIn(all, rest) \in Seq(Cells) /\ Backed(catalog, names, NamedIn(all, rest))
  BY <1>2, <1>4, NamedInBacked
<1>7. Backed(catalog, names, NamedIn(first, merged) \o NamedIn(all, rest))
  BY <1>6, JoinedBacked
<1> QED
  BY <1>5, <1>7

LEMMA EntryBacked ==
  ASSUME NEW catalog, NEW names, NEW scope \in Seq(Entries),
         ScopeBacked(catalog, names, scope), NEW alias
  PROVE  Backed(catalog, names, EntryColumns(scope, alias))
<1>1. PICK s \in Seq(Seq(Cells)) : s = [i \in DOMAIN scope |-> OfEntry(scope[i], alias)]
  BY EntryColumnsPieces
<1>2. ASSUME NEW l \in DOMAIN s PROVE Backed(catalog, names, s[l])
  <2>1. \A i : i \notin DOMAIN << >>
    OBVIOUS
  <2> QED
    BY <1>1, <2>1 DEF Backed, OfEntry, ScopeBacked
<1>3. Backed(catalog, names, FlattenSeq(s))
  BY <1>2, FlattenBacked
<1> QED
  BY <1>1, <1>3, EntryColumnsPieces

LEMMA ItemBacked ==
  ASSUME NEW catalog, NEW names, NameSet(names), NEW natural, NEW scope \in Seq(Entries),
         ScopeBacked(catalog, names, scope), NEW item \in ItemsOver(names),
         ItemRuns(natural, scope, item)
  PROVE  Backed(catalog, names, ItemColumns(natural, scope, item))
<1> DEFINE only(x) == \A i : i \in DOMAIN <<x>> => <<x>>[i] = x
<1>1. \A x : only(x)
  OBVIOUS
<1>2. CASE item.kind = "expression"
  <2>1. PICK x : x = [name |-> item.as, from |-> Computed]
    OBVIOUS
  <2>2. ItemColumns(natural, scope, item) = <<x>> /\ x.from = Computed /\ x.name \in names
    BY <1>2, <2>1, ItemFields DEF ItemColumns
  <2> QED
    BY <1>1, <2>2 DEF Backed, IsBacked, TrueFrom
<1>3. CASE item.kind = "star"
  <2>1. scope # << >>
    BY <1>3 DEF ItemRuns
  <2>2. ItemColumns(natural, scope, item)
          = IF item.of = Nameless THEN StarColumns(natural, scope)
            ELSE EntryColumns(scope, item.of)
    BY <1>3, StarColumnsOf
  <2>3. Backed(catalog, names, StarColumns(natural, scope))
    BY <2>1, StarBacked
  <2>4. Backed(catalog, names, EntryColumns(scope, item.of))
    BY EntryBacked
  <2> QED
    BY <2>2, <2>3, <2>4
<1>4. CASE item.kind = "column"
  <2>1. Named(scope, item) # {}
    BY <1>4, RunsFinds
  <2>2. \E i \in DOMAIN scope : \E j \in DOMAIN scope[i].columns :
          /\ <<i, j>> \in Named(scope, item)
          /\ ItemColumns(natural, scope, item) = <<Renamed(scope[i].columns[j], item.as)>>
    BY <1>4, <2>1, ColumnTaken
  <2>3. PICK i \in DOMAIN scope : \E j \in DOMAIN scope[i].columns :
          ItemColumns(natural, scope, item) = <<Renamed(scope[i].columns[j], item.as)>>
    BY <2>2
  <2>4. PICK j \in DOMAIN scope[i].columns :
          ItemColumns(natural, scope, item) = <<Renamed(scope[i].columns[j], item.as)>>
    BY <2>3
  <2>5. PICK x : x = Renamed(scope[i].columns[j], item.as)
    OBVIOUS
  <2>6. /\ x.from = scope[i].columns[j].from
        /\ x.name = IF item.as = Nameless THEN scope[i].columns[j].name ELSE item.as
    <3>1. scope[i].columns[j] \in Cells
      BY ScopeAt
    <3> QED
      BY <2>5, <3>1 DEF Renamed, Cells
  <2>7. IsBacked(catalog, names, x)
    <3>1. IsBacked(catalog, names, scope[i].columns[j]) /\ item.as \in names
      BY ItemFields DEF ScopeBacked, Backed
    <3> QED
      BY <2>6, <3>1 DEF IsBacked
  <2> QED
    BY <1>1, <2>4, <2>5, <2>7 DEF Backed
<1> QED
  BY <1>2, <1>3, <1>4, ItemFields

LEMMA ReturnedBacked ==
  ASSUME NEW catalog, NEW names, NameSet(names), NEW scope \in Seq(Entries),
         ScopeBacked(catalog, names, scope), NEW query,
         query.items \in Seq(ItemsOver(names)), ItemsRun(scope, query)
  PROVE  Backed(catalog, names, Returned(scope, query))
<1>1. PICK s \in Seq(Seq(Cells)) :
        s = Pieces(scope, query) /\ DOMAIN s = DOMAIN query.items
  <2>1. ItemsOver(names) \subseteq ItemsOver(Names)
    BY ItemsWiden DEF NameSet
  <2>2. query.items \in Seq(ItemsOver(Names))
    BY <2>1, SequencesWiden
  <2> QED
    BY <2>2, PiecesType
<1>2. ASSUME NEW l \in DOMAIN s PROVE Backed(catalog, names, s[l])
  <2>1. query.items[l] \in ItemsOver(names)
    BY <1>1
  <2>2. ItemRuns(query.natural, scope, query.items[l])
    BY <1>1 DEF ItemsRun
  <2>3. Backed(catalog, names, ItemColumns(query.natural, scope, query.items[l]))
    BY <2>1, <2>2, ItemBacked
  <2> QED
    BY <1>1, <2>3 DEF Pieces
<1>3. Backed(catalog, names, FlattenSeq(s))
  BY <1>2, FlattenBacked
<1>4. PICK columns \in Seq(Cells) : columns = FlattenSeq(s)
  BY FlattenType
<1>5. Returned(scope, query)
        = IF query.shape = "union"
          THEN [i \in DOMAIN columns |-> [columns[i] EXCEPT !.from = Computed]]
          ELSE columns
  BY <1>1, <1>4 DEF Returned, Pieces
<1>6. \A i \in DOMAIN columns :
        /\ [columns[i] EXCEPT !.from = Computed].from = Computed
        /\ [columns[i] EXCEPT !.from = Computed].name = columns[i].name
  BY DEF Cells
<1> QED
  BY <1>3, <1>4, <1>5, <1>6 DEF Backed, IsBacked, TrueFrom

LEMMA StoredBacked ==
  ASSUME NEW catalog, NEW names, NameSet(names), IsCatalog(catalog),
         NEW ref \in TablesOver(Names), Exists(catalog, ref)
  PROVE  Backed(catalog, names, StoredColumns(catalog, ref))
<1>1. ASSUME NEW i \in DOMAIN StoredColumns(catalog, ref)
      PROVE  IsBacked(catalog, names, StoredColumns(catalog, ref)[i])
  <2>1. PICK cols : cols = catalog[<<ref.schema, ref.name>>].columns
    OBVIOUS
  <2>2. i \in DOMAIN cols /\ StoredColumns(catalog, ref)[i] = Stored(ref, cols[i])
    BY <2>1, StoredColumnsAre
  <2>3. /\ StoredColumns(catalog, ref)[i].from.table = <<ref.schema, ref.name>>
        /\ StoredColumns(catalog, ref)[i].from.column = cols[i]
        /\ StoredColumns(catalog, ref)[i].name = cols[i]
    BY <2>2 DEF Stored
  <2>4. cols[i] \in ToSet(cols)
    BY <2>2 DEF ToSet
  <2> QED
    <3>1. cols[i] \in names
      <4>1. cols \in Seq(UsersNames)
        BY <2>1 DEF IsCatalog, Exists
      <4> QED
        BY <2>2, <4>1, ElementOfSeq DEF NameSet
    <3> QED
      BY <2>1, <2>3, <2>4, <3>1 DEF IsBacked, TrueFrom, Exists
<1> QED
  BY <1>1 DEF Backed

LEMMA WithinBacked ==
  ASSUME NEW catalog, NEW names, NameSet(names), NEW alias \in Names, NEW column \in Cells,
         IsBacked(catalog, names, column)
  PROVE  IsBacked(catalog, names, Within(alias, column))
<1>1. CASE column.from = Computed
  BY <1>1, WithinIs DEF IsBacked, TrueFrom
<1>2. CASE column.from # Computed
  BY <1>2, WithinIs DEF IsBacked, TrueFrom
<1> QED
  BY <1>1, <1>2

LEMMA ExposesBacked ==
  ASSUME NEW catalog, NEW names, NameSet(names), NEW ref \in Refs(Names), IsCatalog(catalog),
         IF IsDerived(ref) THEN InnerRuns(catalog, ref.query) ELSE Exists(catalog, ref),
         IsDerived(ref) => ref.query.items \in Seq(ItemsOver(names))
  PROVE  Backed(catalog, names, Exposes(catalog, ref))
<1>1. CASE ~IsDerived(ref)
  <2>1. ref \in TablesOver(Names) /\ Exists(catalog, ref)
    BY <1>1, RefCases
  <2>2. Exposes(catalog, ref) = StoredColumns(catalog, ref)
    BY <1>1 DEF Exposes
  <2> QED
    BY <2>1, <2>2, StoredBacked
<1>2. CASE IsDerived(ref)
  <2>1. ref \in DerivedOver(Names) /\ InnerRuns(catalog, ref.query)
    BY <1>2, RefCases
  <2>2. PICK query \in InnerQueries(Names) : query = ref.query
    BY <2>1, DerivedFields
  <2>3. InnerRuns(catalog, query)
    BY <2>1, <2>2
  <2>4. PICK scope \in Seq(Entries) :
          scope = InnerScope(catalog, query) /\ ItemsRun(scope, query)
    BY <2>3, InnerColumnsType
  <2>5. ScopeBacked(catalog, names, scope)
    <3>1. ASSUME NEW i \in DOMAIN scope PROVE Backed(catalog, names, scope[i].columns)
      <4>1. \A a \in DOMAIN query.from : Exists(catalog, query.from[a])
        BY <2>3 DEF InnerRuns
      <4>2. /\ i \in DOMAIN query.from
            /\ scope[i].columns = StoredColumns(catalog, query.from[i])
        BY <2>4, <4>1, InnerScopeType
      <4>3. query.from[i] \in TablesOver(Names)
        BY <4>2, QueryFields DEF InnerQueries
      <4>4. Backed(catalog, names, StoredColumns(catalog, query.from[i]))
        BY <4>1, <4>2, <4>3, StoredBacked
      <4> QED
        BY <4>2, <4>4
    <3> QED
      BY <3>1 DEF ScopeBacked
  <2>6. query.items \in Seq(ItemsOver(names))
    BY <1>2, <2>2
  <2>7. Backed(catalog, names, Returned(scope, query))
    BY <2>4, <2>5, <2>6, ReturnedBacked
  <2>8. PICK inner \in Seq(Cells) : inner = Returned(scope, query)
    BY <2>3, <2>4, InnerColumnsType DEF InnerColumns
  <2>9. Exposes(catalog, ref) = [i \in DOMAIN inner |-> Within(ref.alias, inner[i])]
    BY <1>2, <2>2, <2>4, <2>8 DEF Exposes
  <2>10. ASSUME NEW i \in DOMAIN inner
         PROVE  IsBacked(catalog, names, Within(ref.alias, inner[i]))
    <3>1. inner[i] \in Cells /\ IsBacked(catalog, names, inner[i])
      BY <2>7, <2>8, ElementOfSeq DEF Backed
    <3>2. ref.alias \in Names
      BY RefCases
    <3> QED
      BY <3>1, <3>2, WithinBacked
  <2> QED
    BY <2>9, <2>10 DEF Backed
<1> QED
  BY <1>1, <1>2

LEMMA OutputBacked ==
  ASSUME NEW catalog, NEW query \in StatementsOver(Names), IsCatalog(catalog),
         Runs(catalog, query)
  PROVE  Backed(catalog, Names, Output(catalog, query))
<1>1. PICK scope \in Seq(Entries) :
        scope = Scope(catalog, query) /\ ItemsRun(scope, query)
  BY RunsParts
<1>2. query \in QueriesOver(Refs(Names), Names)
  BY StatementQueries
<1>3. FromRuns(catalog, query)
  BY RunsParts
<1>7. NameSet(Names)
  BY DEF NameSet, UsersNames
<1>4. ScopeBacked(catalog, Names, scope)
  <2>1. ASSUME NEW i \in DOMAIN scope PROVE Backed(catalog, Names, scope[i].columns)
    <3>1. i \in DOMAIN query.from /\ scope[i].columns = Exposes(catalog, query.from[i])
      BY <1>1, ScopeEntries
    <3>2. query.from[i] \in Refs(Names)
      BY <1>2, <3>1, QueryFields
    <3>3. IF IsDerived(query.from[i]) THEN InnerRuns(catalog, query.from[i].query)
          ELSE Exists(catalog, query.from[i])
      BY <1>3, <3>1 DEF FromRuns
    <3>4. IsDerived(query.from[i]) => query.from[i].query.items \in Seq(ItemsOver(Names))
      BY <3>2, RefCases, DerivedFields, QueryFields DEF InnerQueries
    <3>5. Backed(catalog, Names, Exposes(catalog, query.from[i]))
      BY <1>7, <3>2, <3>3, <3>4, ExposesBacked
    <3> QED
      BY <3>1, <3>5
  <2> QED
    BY <2>1 DEF ScopeBacked
<1>5. query.items \in Seq(ItemsOver(Names))
  BY <1>2, QueryFields
<1>6. Backed(catalog, Names, Returned(scope, query))
  BY <1>1, <1>4, <1>5, <1>7, ReturnedBacked
<1> QED
  BY <1>1, <1>6 DEF Output

----------------------------------------------------------------------------
(* A download is served *)

\* Where the key of an origin is one row's, no other row has it.
LEMMA OnlyPlace ==
  ASSUME NEW origin, Placed(origin), NEW cells, NEW p, FetchesRowOf(origin, cells, p),
         NEW q, FetchesRowOf(origin, cells, q)
  PROVE  p = q
<1>1. PICK key \in Seq(Names) : key = origin.key /\ key # << >>
  BY DEF Placed
<1>2. 1 \in DOMAIN key
  BY <1>1, EmptySeq, LenProperties
<1>3. PICK from : from = cells[origin.at[1]].from
  OBVIOUS
<1>4. /\ from = [path |-> p, table |-> <<Home, origin.table>>, column |-> key[1]]
      /\ from = [path |-> q, table |-> <<Home, origin.table>>, column |-> key[1]]
  BY <1>1, <1>2, <1>3 DEF FetchesRowOf
<1>5. from.path = p
  BY <1>4
<1>6. from.path = q
  BY <1>4
<1> QED
  BY <1>5, <1>6

LEMMA FetchedIs ==
  ASSUME NEW cells \in Seq(Cells), NEW i \in DOMAIN cells, NEW origin, Placed(origin),
         Finds(origin, cells, i)
  PROVE  FetchedCell(origin, cells, cells[i].from.column) = cells[i].from
<1>1. PICK from \in Provenances : from = cells[i].from
  <2>1. cells[i] \in Cells
    OBVIOUS
  <2>2. cells[i].from \in Provenances
    BY <2>1 DEF Cells
  <2> QED
    BY <2>2
<1>2. from = [path |-> from.path, table |-> from.table, column |-> from.column]
  BY DEF Provenances
<1>3. from.table = <<Home, origin.table>> /\ FetchesRowOf(origin, cells, from.path)
  BY <1>1 DEF Finds
<1>4. PICK places : places = {p \in {cells[a].from.path : a \in DOMAIN cells} :
                                FetchesRowOf(origin, cells, p)}
  OBVIOUS
<1>5. from.path \in places
  BY <1>1, <1>3, <1>4
<1>6. \A p \in places : p = from.path
  BY <1>3, <1>4, OnlyPlace
<1>7. (CHOOSE p \in places : TRUE) = from.path
  BY <1>5, <1>6
<1>8. FetchedCell(origin, cells, from.column)
        = [path |-> from.path, table |-> <<Home, origin.table>>, column |-> from.column]
  BY <1>4, <1>5, <1>7 DEF FetchedCell
<1> QED
  BY <1>1, <1>2, <1>3, <1>8

\* The key of a row that exists is not NULL.
LEMMA RowExists ==
  ASSUME NEW i, Finds(result.origins[i], result.cells, i), Placed(result.origins[i]),
         ~IsMissing(result.cells[i], result.missing)
  PROVE  ~FetchesNothing(result.origins[i])
<1>1. PICK origin : origin = result.origins[i]
  OBVIOUS
<1>2. SUFFICES ASSUME NEW a \in ToSet(origin.at) \cap DOMAIN result.cells,
                      IsMissing(result.cells[a], result.missing)
               PROVE  FALSE
  BY <1>1 DEF FetchesNothing
<1>3. PICK j \in DOMAIN origin.at : a = origin.at[j]
  BY <1>2 DEF ToSet
<1>4. j \in DOMAIN origin.key
  BY <1>1, <1>3 DEF Placed
<1>5. PICK path : path = result.cells[i].from.path /\ FetchesRowOf(origin, result.cells, path)
  BY <1>1 DEF Finds
<1>6. result.cells[a].from = [path |-> path, table |-> <<Home, origin.table>>,
                              column |-> origin.key[j]]
  BY <1>3, <1>4, <1>5 DEF FetchesRowOf
<1>7. result.cells[a].from.path = path
  BY <1>6
<1>8. path # << >> /\ path[1] \in result.missing
  BY <1>2, <1>7 DEF IsMissing
<1> QED
  BY <1>5, <1>8 DEF IsMissing

\* The table of a cell has its column.
LEMMA ColumnKnown ==
  ASSUME Inv, Answered, NEW i \in DOMAIN result.cells, NEW table,
         result.cells[i].from.table = <<Home, table>>
  PROVE  HasColumn(table, result.cells[i].from.column)
<1>1. PICK k \in Dialects, s \in StatementsOver(Written) : k = kind /\ s = stmt
  BY ResultIs
<1>2. plan.rewritten \in StatementsOver(Names)
  <2>1. PICK p : p = PrepareRead(k, s)
    OBVIOUS
  <2>2. p.rewritten \in StatementsOver(Names)
    BY <2>1, RewrittenIs
  <2> QED
    BY <1>1, <2>1, <2>2, ResultIs
<1>3. PICK altered \in BOOLEAN : altered = result.altered
  BY ResultIs
<1>4. PICK catalog : catalog = Target(altered)
  OBVIOUS
<1>5. IsCatalog(catalog)
  BY <1>4, TargetIs
<1>6. Runs(catalog, plan.rewritten) /\ result.cells = Output(catalog, plan.rewritten)
  BY <1>3, <1>4, ResultIs
<1>7. Backed(catalog, Names, Output(catalog, plan.rewritten))
  BY <1>2, <1>5, <1>6, OutputBacked
<1>8. TrueFrom(catalog, result.cells[i].from)
  BY <1>6, <1>7 DEF Backed, IsBacked
<1>9. result.cells[i].from # Computed
  <2>1. Computed.table = << >> /\ \A x, y : <<x, y>> # << >>
    BY DEF Computed
  <2> QED
    BY <2>1
<1> QED
  BY <1>3, <1>4, <1>8, <1>9 DEF TrueFrom, HasColumn

LEMMA Served == Inv => DownloadsServed
<1> SUFFICES ASSUME Inv, answer.done, ~Excepted,
                    ~IsMissing(result.cells[answer.cell], result.missing),
                    result.cells[answer.cell].name = result.cells[answer.cell].from.column,
                    Shown(plan, result.cells[answer.cell].from) \notin {"cut", "spelled"}
             PROVE  answer.served
  BY DEF DownloadsServed, Excepted
<1>1. Downloaded
  <2>1. answer # NoAnswer
    BY NotDone
  <2>2. answer = NoAnswer \/ Downloaded
    BY DEF Inv
  <2> QED
    BY <2>1, <2>2
<1>2. PICK i : /\ i = answer.cell /\ i \in 1..result.visible
               /\ result.origins[i] # NoOrigin /\ answer.served \in ServedAt(i)
  BY <1>1 DEF Downloaded
<1>3. Answered
  BY <1>2, FailedIs
<1>4. PICK cells \in Seq(Cells) : cells = result.cells
  BY <1>3, ResultIs
<1>5. i \in DOMAIN cells
  <2>1. result.visible \in 0..Len(cells)
    BY <1>3, <1>4, Visible
  <2>2. DOMAIN cells = 1..Len(cells) /\ Len(cells) \in Nat
    BY LenProperties
  <2> QED
    BY <1>2, <2>1, <2>2
<1>6. PICK origin : origin = result.origins[i]
  OBVIOUS
<1>7. Placed(result.origins[i]) /\ Finds(result.origins[i], result.cells, i)
  BY <1>2, <1>3, OriginFinds
<1>8. PICK from : from = cells[i].from
  OBVIOUS
<1>9. FetchedCell(origin, cells, from.column) = from
  <2>1. Placed(origin) /\ Finds(origin, cells, i)
    BY <1>4, <1>6, <1>7
  <2> QED
    BY <1>5, <1>8, <2>1, FetchedIs
<1>10. HasColumn(origin.table, from.column)
  <2>1. result.cells[i].from.table = <<Home, result.origins[i].table>>
    BY <1>7 DEF Finds
  <2>2. i \in DOMAIN result.cells
    BY <1>4, <1>5
  <2>3. HasColumn(result.origins[i].table, result.cells[i].from.column)
    BY <1>3, <2>1, <2>2, ColumnKnown
  <2> QED
    BY <1>4, <1>6, <1>8, <2>3
<1>11. ~FetchesNothing(origin)
  <2>1. ~IsMissing(result.cells[i], result.missing)
    BY <1>2
  <2> QED
    BY <1>6, <1>7, <2>1, RowExists
<1>12. Shown(plan, from) = TruncateCell(SizeOf(from))
  <2>1. Shown(plan, from) \notin {"cut", "spelled"}
    BY <1>2, <1>4, <1>8
  <2> QED
    BY <2>1 DEF Shown
<1>13. ServedAt(i) = {TRUE}
  <2>1. result.cells[i].name = from.column
    BY <1>2, <1>4, <1>8
  <2>2. ServedAt(i) = {TruncateCell(SizeOf(from)) = Shown(plan, from)}
    BY <1>4, <1>6, <1>8, <1>9, <1>10, <1>11, <2>1 DEF ServedAt
  <2>3. (TruncateCell(SizeOf(from)) = Shown(plan, from)) = TRUE
    BY <1>12
  <2> QED
    BY <2>2, <2>3
<1> QED
  BY <1>2, <1>13

\* A download that is offered succeeds (handleFetchCell) while the data stay as
\* they are: the row is found by its key, the column is one the table has, and
\* the value is spelled as it is shown, so that the comparison holds.
THEOREM DownloadsAreServed == Spec => []DownloadsServed
<1>1. Inv => DownloadsServed
  BY Served
<1> QED
  BY <1>1, Invariance, PTL

----------------------------------------------------------------------------
(* What is sent for a join runs if the statement does *)

\* What is sent for a statement that runs as it is written, the target's names
\* being spelled as the statement's are.
Sent(k, s, catalog, other, needs) ==
  /\ k \in Dialects /\ s \in StatementsOver(Written) /\ AsRead(k, s) = s
  /\ Understands(s, JoinShapes(k)) /\ s.shape # "union"
  /\ ~HasNamesake(k, s) /\ ~CarriersCollide(k, s)
  /\ IsCatalog(catalog) /\ DOMAIN catalog = DOMAIN Catalog
  /\ \A t \in DOMAIN Catalog : catalog[t].key = Catalog[t].key
  /\ Runs(catalog, s)
  /\ needs \in Seq(Needs) /\ needs = Needed(VisibleOrigins(k, s))
  /\ other = GrownQuery(s, InnerOf(s, needs), Carriers(needs))

\* The columns have this name, and have it once.
HasOnce(columns, name) ==
  \E b \in DOMAIN columns :
    /\ columns[b].name = name
    /\ \A c \in DOMAIN columns : columns[c].name = name => c = b

\* A column of an entry that an item names by its alias, and that is one, runs.
LEMMA NamedSingle ==
  ASSUME NEW natural, NEW scope \in Seq(Entries), NEW item, item.kind = "column",
         NEW i \in DOMAIN scope, item.of = scope[i].alias,
         OnlyEntry(scope, item, i), HasOnce(scope[i].columns, item.name)
  PROVE  ItemRuns(natural, scope, item)
<1>1. PICK b \in DOMAIN scope[i].columns :
        /\ scope[i].columns[b].name = item.name
        /\ \A c \in DOMAIN scope[i].columns :
             scope[i].columns[c].name = item.name => c = b
  BY DEF HasOnce
<1>2. <<i, b>> \in Named(scope, item)
  BY <1>1, NamedIs
<1>3. ASSUME NEW p \in Named(scope, item) PROVE p = <<i, b>>
  <2>1. PICK a \in DOMAIN scope : \E c \in DOMAIN scope[a].columns :
          /\ p = <<a, c>> /\ item.of \in {Nameless, scope[a].alias}
          /\ scope[a].columns[c].name = item.name
    BY <1>3, NamedIs
  <2>2. PICK c \in DOMAIN scope[a].columns :
          /\ p = <<a, c>> /\ item.of \in {Nameless, scope[a].alias}
          /\ scope[a].columns[c].name = item.name
    BY <2>1
  <2>3. a = i
    BY <2>2 DEF OnlyEntry
  <2>4. c = b
    BY <1>1, <2>2, <2>3
  <2> QED
    BY <2>2, <2>3, <2>4
<1>4. Named(scope, item) = {<<i, b>>}
  BY <1>2, <1>3
<1>5. Cardinality(Named(scope, item)) = 1
  BY <1>4, NamedOnce
<1> QED
  BY <1>5 DEF ItemRuns

\* A table that is no namesake of another has its key's columns once each.
LEMMA TableHasKey ==
  ASSUME NEW catalog, IsCatalog(catalog), DOMAIN catalog = DOMAIN Catalog,
         \A t \in DOMAIN Catalog : catalog[t].key = Catalog[t].key,
         NEW ref, ~IsNamesake(ref, ref), PrimaryKeyColumns(ref.name) # << >>,
         NEW q \in DOMAIN PrimaryKeyColumns(ref.name)
  PROVE  HasOnce(StoredColumns(catalog, ref), PrimaryKeyColumns(ref.name)[q])
<1>1. PICK key : key = PrimaryKeyColumns(ref.name)
  OBVIOUS
<1>2. <<Home, ref.name>> \in DOMAIN Catalog /\ key = Catalog[<<Home, ref.name>>].key
  BY <1>1, TableColumns
<1>3. PICK t \in DOMAIN catalog : t = <<ref.schema, ref.name>> /\ t = <<Home, ref.name>>
  BY <1>2 DEF IsNamesake
<1>4. PICK names \in Seq(UsersNames) : names = catalog[t].columns /\ IsInjective(names)
  BY DEF IsCatalog
<1>5. key[q] \in ToSet(names)
  <2>1. catalog[t].key = key
    BY <1>2, <1>3
  <2>2. ToSet(catalog[t].key) \subseteq ToSet(catalog[t].columns)
    BY DEF IsCatalog
  <2>3. key[q] \in ToSet(key)
    BY <1>1 DEF ToSet
  <2> QED
    BY <1>4, <2>1, <2>2, <2>3
<1>6. PICK b \in DOMAIN names : names[b] = key[q]
  BY <1>5 DEF ToSet
<1>7. \A c \in DOMAIN names : names[c] = key[q] => c = b
  BY <1>4, <1>6 DEF IsInjective
<1>8. /\ DOMAIN StoredColumns(catalog, ref) = DOMAIN names
      /\ \A c \in DOMAIN names : StoredColumns(catalog, ref)[c].name = names[c]
  BY <1>3, <1>4 DEF StoredColumns
<1> QED
  BY <1>1, <1>6, <1>7, <1>8 DEF HasOnce

\* A key that is needed is that of a table in FROM, or in a derived table there.
NeedAt(from, need, i) ==
  /\ ~IsDerived(from[i]) => TracedTo(need, from[i].name, <<from[i].alias>>)
  /\ IsDerived(from[i]) =>
       \E j \in DOMAIN from[i].query.from :
         TracedTo(need, from[i].query.from[j].name,
                  <<from[i].alias, from[i].query.from[j].alias>>)

LEMMA NeedTraced ==
  ASSUME NEW k, NEW s, NEW catalog, NEW other, NEW needs,
         Sent(k, s, catalog, other, needs), NEW n \in DOMAIN needs
  PROVE  \E i \in DOMAIN s.from : NeedAt(s.from, needs[n], i)
<1>1. PICK origins \in Seq(Origins) : origins = VisibleOrigins(k, s)
  BY SpelledStatements, OriginPiecesType DEF Sent
<1>2. PICK i \in DOMAIN origins : needs[n] = origins[i] /\ origins[i].via # << >>
  <2>1. needs = Needed(origins)
    BY <1>1 DEF Sent
  <2>2. n \in DOMAIN Needed(origins)
    BY <2>1
  <2>3. /\ Needed(origins)[n].via # << >>
        /\ \E i \in DOMAIN origins : Needed(origins)[n] = origins[i]
    BY <1>1, <2>2, NeededIs
  <2> QED
    BY <2>1, <2>3
<1>3. PICK m \in DOMAIN s.items : Traces(s.from, s.items[m], needs[n])
  <2>1. s \in StatementsOver(Names) /\ k \in Dialects /\ Understands(s, JoinShapes(k))
    BY SpelledStatements DEF Sent
  <2>2. i \in DOMAIN VisibleOrigins(k, s) /\ VisibleOrigins(k, s)[i].via # << >>
    BY <1>1, <1>2
  <2>3. \E m \in DOMAIN s.items :
          /\ s.items[m].kind = "column"
          /\ Traces(s.from, s.items[m], VisibleOrigins(k, s)[i])
    BY <2>1, <2>2, PathIsTraced
  <2> QED
    BY <1>1, <1>2, <2>3
<1>4. PICK a \in DOMAIN s.from : TracesAt(s.from, s.items[m], needs[n], a)
  BY <1>3 DEF Traces
<1> QED
  BY <1>4 DEF TracesAt, NeedAt

\* The places of a statement's FROM, with what is put there in it.
LEMMA SentFrom ==
  ASSUME NEW k, NEW s, NEW catalog, NEW other, NEW needs,
         Sent(k, s, catalog, other, needs)
  PROVE  /\ OwnAliases(s.from) /\ s.from # << >> /\ NoUnionInside(s)
         /\ s \in StatementsOver(UsersNames) /\ Inserts(s, InnerOf(s, needs))
         /\ other \in StatementsOver(Names) /\ other.items = s.items \o Carriers(needs)
         /\ other.shape = s.shape /\ other.natural = s.natural
         /\ DOMAIN other.from = DOMAIN s.from
         /\ \A i \in DOMAIN s.from :
              /\ s.from[i] \in Refs(UsersNames)
              /\ InnerOf(s, needs)[i] = CarriersWithin(s.from[i].alias, needs)
              /\ other.from[i] = GrownRef(s.from[i], CarriersWithin(s.from[i].alias, needs))
              /\ other.from[i] \in Refs(Names) /\ other.from[i].alias = s.from[i].alias
              /\ ~IsDerived(s.from[i]) =>
                   ~IsNamesake(s.from[i], s.from[i]) /\ Exists(catalog, s.from[i])
              /\ IsDerived(s.from[i]) =>
                   /\ InnerRuns(catalog, s.from[i].query)
                   /\ OwnNames(Exposes(catalog, s.from[i]))
                   /\ \A j \in DOMAIN s.from[i].query.from :
                        ~IsNamesake(s.from[i].query.from[j], s.from[i].query.from[j])
<1>1. /\ s \in StatementsOver(Written) /\ AsRead(k, s) = s /\ k \in Dialects
      /\ needs \in Seq(Needs) /\ Understands(s, JoinShapes(k)) /\ Runs(catalog, s)
      /\ other = GrownQuery(s, InnerOf(s, needs), Carriers(needs)) /\ ~HasNamesake(k, s)
  BY DEF Sent
<1>2. s \in StatementsOver(UsersNames)
  BY <1>1, SpelledStatements
<1>3. Inserts(s, InnerOf(s, needs)) /\ Carriers(needs) \in Seq(ItemsOver(Names))
  BY <1>1, InjectIs
<1>4. OwnAliases(s.from) /\ s.from # << >> /\ NoUnionInside(s)
  BY <1>1, NoUnionRead DEF Runs, ListRuns
<1>5. /\ other \in StatementsOver(Names) /\ other.items = s.items \o Carriers(needs)
      /\ other.shape = s.shape /\ other.natural = s.natural
      /\ DOMAIN other.from = DOMAIN s.from
      /\ \A i \in DOMAIN s.from : other.from[i] = GrownRef(s.from[i], InnerOf(s, needs)[i])
  BY <1>1, <1>2, <1>3, GrownQueryIs
<1>6. ASSUME NEW i \in DOMAIN s.from
      PROVE  /\ s.from[i] \in Refs(UsersNames)
             /\ InnerOf(s, needs)[i] = CarriersWithin(s.from[i].alias, needs)
             /\ other.from[i] = GrownRef(s.from[i], CarriersWithin(s.from[i].alias, needs))
             /\ other.from[i] \in Refs(Names) /\ other.from[i].alias = s.from[i].alias
  <2>1. s.from[i] \in Refs(UsersNames)
    BY <1>2, StatementQueries, QueryFields
  <2>2. InnerOf(s, needs)[i] = CarriersWithin(s.from[i].alias, needs)
    BY DEF InnerOf
  <2>3. InnerOf(s, needs)[i] \in Seq(ItemsOver(Names))
    BY <1>3 DEF Inserts
  <2> QED
    BY <1>5, <2>1, <2>2, <2>3, GrownRefType
<1>7. ASSUME NEW i \in DOMAIN s.from, ~IsDerived(s.from[i])
      PROVE  ~IsNamesake(s.from[i], s.from[i]) /\ Exists(catalog, s.from[i])
  BY <1>1, <1>7 DEF HasNamesake, Runs
<1>8. ASSUME NEW i \in DOMAIN s.from, IsDerived(s.from[i])
      PROVE  /\ InnerRuns(catalog, s.from[i].query)
             /\ OwnNames(Exposes(catalog, s.from[i]))
             /\ \A j \in DOMAIN s.from[i].query.from :
                  ~IsNamesake(s.from[i].query.from[j], s.from[i].query.from[j])
  BY <1>1, <1>8 DEF HasNamesake, Runs
<1> QED
  BY <1>2, <1>3, <1>4, <1>5, <1>6, <1>7, <1>8

\* The items of a derived table's list of carriers are those of the keys that are
\* needed through it, each at a place of its own.
LEMMA InnerElement ==
  ASSUME NEW needs \in Seq(Needs), NEW alias, NEW x \in DOMAIN CarriersWithin(alias, needs)
  PROVE  \E n \in DOMAIN needs : \E q \in DOMAIN needs[n].key :
           /\ Len(needs[n].via) = 2 /\ needs[n].via[1] = alias
           /\ CarriersWithin(alias, needs)[x] = InnerCarrier(needs[n], q)
           /\ x = Before(InnerPieces(alias, needs), n) + q
<1>1. PICK pieces \in Seq(Seq(ItemsOver(Names))) :
        pieces = InnerPieces(alias, needs) /\ CarriersWithin(alias, needs) = FlattenSeq(pieces)
  BY CarriersWithinAre
<1>2. LaidOut(pieces)
  BY FlattenLaidOut
<1>3. PICK n \in DOMAIN pieces : \E q \in DOMAIN pieces[n] : x = Before(pieces, n) + q
  BY <1>1, <1>2 DEF LaidOut
<1>4. PICK q \in DOMAIN pieces[n] : x = Before(pieces, n) + q
  BY <1>3
<1>5. FlattenSeq(pieces)[Before(pieces, n) + q] = pieces[n][q]
  BY <1>2 DEF LaidOut
<1>6. n \in DOMAIN needs
  BY <1>1 DEF InnerPieces
<1>7. /\ Len(needs[n].via) = 2 /\ needs[n].via[1] = alias
      /\ pieces[n] = InnerCarriers(needs[n])
  <2>1. \A y : y \notin DOMAIN << >>
    OBVIOUS
  <2> QED
    BY <1>1, <1>6, <2>1 DEF InnerPieces
<1>8. q \in DOMAIN needs[n].key /\ pieces[n][q] = InnerCarrier(needs[n], q)
  <2>1. needs[n] \in Needs
    BY <1>6, ElementOfSeq, LenProperties
  <2>2. CarrierList(InnerCarriers(needs[n]), needs[n])
    BY <1>7, <2>1, CarriersOf
  <2>3. q \in DOMAIN needs[n].key
    BY <1>7, <2>2 DEF CarrierList
  <2> QED
    BY <1>7, <2>1, <2>3, CarriersOf
<1> QED
  BY <1>1, <1>4, <1>5, <1>6, <1>7, <1>8

\* A derived table through which a key is needed has the table with the key.
LEMMA NeedInside ==
  ASSUME NEW k, NEW s, NEW catalog, NEW other, NEW needs,
         Sent(k, s, catalog, other, needs),
         NEW i \in DOMAIN s.from, IsDerived(s.from[i]), NEW n \in DOMAIN needs,
         needs[n].via[1] = s.from[i].alias
  PROVE  \E j \in DOMAIN s.from[i].query.from :
           TracedTo(needs[n], s.from[i].query.from[j].name,
                    <<s.from[i].alias, s.from[i].query.from[j].alias>>)
<1>1. PICK a \in DOMAIN s.from : NeedAt(s.from, needs[n], a)
  BY NeedTraced
<1>2. needs[n].via[1] = s.from[a].alias
  <2>1. \A x, y : <<x>>[1] = x /\ <<x, y>>[1] = x
    OBVIOUS
  <2> QED
    BY <1>1, <2>1 DEF NeedAt, TracedTo, Origin
<1>3. a = i
  <2>1. IsInjective([c \in DOMAIN s.from |-> s.from[c].alias])
    BY SentFrom DEF OwnAliases
  <2> QED
    BY <1>2, <2>1 DEF IsInjective
<1> QED
  BY <1>1, <1>3 DEF NeedAt


\* Two lists whose items run, one after the other.
LEMMA AllRunJoined ==
  ASSUME NEW natural, NEW scope, NEW S, NEW items \in Seq(S), NEW T, NEW more \in Seq(T),
         AllRun(natural, scope, items), AllRun(natural, scope, more)
  PROVE  AllRun(natural, scope, items \o more)
<1>1. PICK U : S \subseteq U /\ T \subseteq U
  <2>1. S \subseteq S \cup T /\ T \subseteq S \cup T
    OBVIOUS
  <2> QED
    BY <2>1
<1>2. items \in Seq(U) /\ more \in Seq(U)
  BY <1>1, SequencesWiden
<1>3. PICK l \in Nat, m \in Nat : l = Len(items) /\ m = Len(more)
  BY LenProperties
<1>4. PICK all : all = items \o more
  OBVIOUS
<1>5. /\ DOMAIN all = 1..(l + m) /\ DOMAIN items = 1..l /\ DOMAIN more = 1..m
      /\ \A i \in 1..l : all[i] = items[i]
      /\ \A i \in 1..m : all[l + i] = more[i]
  BY <1>2, <1>3, <1>4, Joined
<1>6. ASSUME NEW i \in 1..(l + m) PROVE ItemRuns(natural, scope, all[i])
  <2>1. CASE i <= l
    <3>1. i \in 1..l
      BY <2>1
    <3> QED
      BY <1>5, <3>1 DEF AllRun
  <2>2. CASE ~(i <= l)
    <3>1. PICK j \in 1..m : i = l + j
      <4>1. i - l \in 1..m /\ i = l + (i - l)
        BY <2>2
      <4> QED
        BY <4>1
    <3> QED
      BY <1>5, <3>1 DEF AllRun
  <2> QED
    BY <2>1, <2>2
<1> QED
  BY <1>4, <1>5, <1>6 DEF AllRun

\* Only one entry has an alias.
LEMMA AliasReaches ==
  ASSUME NEW from, OwnAliases(from), NEW scope, DOMAIN scope = DOMAIN from,
         \A a \in DOMAIN from : scope[a].alias = from[a].alias,
         NEW i \in DOMAIN from, from[i].alias # Nameless, NEW item, item.of = from[i].alias
  PROVE  OnlyEntry(scope, item, i)
<1>1. IsInjective([c \in DOMAIN from |-> from[c].alias])
  BY DEF OwnAliases
<1>2. ASSUME NEW a \in DOMAIN scope, item.of \in {Nameless, scope[a].alias} PROVE a = i
  BY <1>1, <1>2 DEF IsInjective
<1> QED
  BY <1>2 DEF OnlyEntry

\* What is put in a derived table's list runs in it.
LEMMA WithinRuns ==
  ASSUME NEW k, NEW s, NEW catalog, NEW other, NEW needs,
         Sent(k, s, catalog, other, needs), NEW i \in DOMAIN s.from, IsDerived(s.from[i])
  PROVE  AllRun(s.from[i].query.natural, InnerScope(catalog, s.from[i].query),
                CarriersWithin(s.from[i].alias, needs))
<1>1. PICK query \in InnerQueries(Names) : query = s.from[i].query
  <2>1. s.from[i] \in Refs(UsersNames)
    BY SentFrom
  <2>2. s.from[i].query \in InnerQueries(UsersNames)
    BY <2>1, RefCases, DerivedFields
  <2> QED
    BY <2>2, UsersInner
<1>2. /\ IsCatalog(catalog) /\ DOMAIN catalog = DOMAIN Catalog /\ needs \in Seq(Needs)
      /\ \A t \in DOMAIN Catalog : catalog[t].key = Catalog[t].key
  BY DEF Sent
<1>3. InnerRuns(catalog, query)
  BY <1>1, SentFrom
<1>4. PICK scope \in Seq(Entries) :
        /\ scope = InnerScope(catalog, query) /\ DOMAIN scope = DOMAIN query.from
        /\ \A j \in DOMAIN query.from :
             /\ scope[j].alias = query.from[j].alias
             /\ scope[j].columns = StoredColumns(catalog, query.from[j])
  BY <1>2, <1>3, InnerScopeType DEF InnerRuns
<1>5. PICK more : more = CarriersWithin(s.from[i].alias, needs)
  OBVIOUS
<1>6. ASSUME NEW x \in DOMAIN more
      PROVE  ItemRuns(query.natural, scope, more[x])
  <2>1. PICK n \in DOMAIN needs : \E q \in DOMAIN needs[n].key :
          /\ Len(needs[n].via) = 2 /\ needs[n].via[1] = s.from[i].alias
          /\ more[x] = InnerCarrier(needs[n], q)
    BY <1>2, <1>5, InnerElement
  <2>2. PICK q \in DOMAIN needs[n].key :
          /\ Len(needs[n].via) = 2 /\ needs[n].via[1] = s.from[i].alias
          /\ more[x] = InnerCarrier(needs[n], q)
    BY <2>1
  <2>3. PICK j \in DOMAIN query.from :
          TracedTo(needs[n], query.from[j].name, <<s.from[i].alias, query.from[j].alias>>)
    BY <1>1, <2>2, NeedInside
  <2>4. PICK ref \in TablesOver(Names) : ref = query.from[j]
    BY QueryFields DEF InnerQueries
  <2>5. /\ needs[n].via[2] = ref.alias /\ needs[n].key = PrimaryKeyColumns(ref.name)
        /\ PrimaryKeyColumns(ref.name) # << >>
    <3>1. \A u, v : <<u, v>>[2] = v
      OBVIOUS
    <3> QED
      BY <2>3, <2>4, <3>1 DEF TracedTo, Origin
  <2>6. PICK item : item = more[x]
    OBVIOUS
  <2>7. /\ item.kind = "column" /\ item.of = ref.alias
        /\ item.name = PrimaryKeyColumns(ref.name)[q]
    BY <2>2, <2>5, <2>6 DEF InnerCarrier, Column
  <2>8. q \in DOMAIN PrimaryKeyColumns(ref.name)
    BY <2>2, <2>5
  <2>9. ~IsNamesake(ref, ref)
    BY <1>1, <2>4, SentFrom
  <2>10. HasOnce(StoredColumns(catalog, ref), PrimaryKeyColumns(ref.name)[q])
    BY <1>2, <2>5, <2>8, <2>9, TableHasKey
  <2>11. OnlyEntry(scope, item, j)
    <3>1. OwnAliases(query.from)
      BY <1>3 DEF InnerRuns, ListRuns
    <3>2. ref.alias # Nameless
      BY TableFields
    <3>3. query.from[j].alias # Nameless /\ item.of = query.from[j].alias
      BY <2>4, <2>7, <3>2
    <3>4. DOMAIN scope = DOMAIN query.from /\ \A a \in DOMAIN query.from : scope[a].alias = query.from[a].alias
      BY <1>4
    <3> QED
      BY <3>1, <3>3, <3>4, AliasReaches
  <2>12. j \in DOMAIN scope /\ item.of = scope[j].alias
         /\ HasOnce(scope[j].columns, item.name)
    BY <1>4, <2>4, <2>7, <2>10
  <2>13. ItemRuns(query.natural, scope, item)
    BY <2>7, <2>11, <2>12, NamedSingle
  <2> QED
    BY <2>6, <2>13
<1> QED
  BY <1>1, <1>4, <1>5, <1>6 DEF AllRun

\* A derived table runs with what is put in its list.
LEMMA InnerStillRuns ==
  ASSUME NEW k, NEW s, NEW catalog, NEW other, NEW needs,
         Sent(k, s, catalog, other, needs), NEW i \in DOMAIN s.from, IsDerived(s.from[i])
  PROVE  InnerRuns(catalog, Adding(s.from[i].query, CarriersWithin(s.from[i].alias, needs)))
<1>1. PICK query \in InnerQueries(UsersNames) : query = s.from[i].query
  <2>1. s.from[i] \in Refs(UsersNames)
    BY SentFrom
  <2> QED
    BY <2>1, RefCases, DerivedFields
<1>2. PICK more \in Seq(ItemsOver(Names)) : more = CarriersWithin(s.from[i].alias, needs)
  BY CarriersWithinAre DEF Sent
<1>3. PICK adding : adding = Adding(query, more)
  OBVIOUS
<1>4. /\ adding.items = query.items \o more /\ adding.from = query.from
      /\ adding.shape = query.shape /\ adding.natural = query.natural
  BY <1>3, InnerAdding
<1>5. InnerRuns(catalog, query) /\ query.shape # "union"
  BY <1>1, SentFrom DEF NoUnionInside
<1>6. InnerScope(catalog, adding) = InnerScope(catalog, query)
  BY <1>4 DEF InnerScope
<1>7. PICK scope : scope = InnerScope(catalog, query)
  OBVIOUS
<1>8. AllRun(query.natural, scope, query.items) /\ AllRun(query.natural, scope, more)
  <2>1. AllRun(query.natural, scope, query.items)
    BY <1>5, <1>7 DEF InnerRuns, ListRuns, AllRun
  <2> QED
    BY <1>1, <1>2, <1>7, <2>1, WithinRuns
<1>9. AllRun(query.natural, scope, query.items \o more)
  <2>1. query.items \in Seq(ItemsOver(UsersNames))
    BY QueryFields DEF InnerQueries
  <2>2. more \in Seq(ItemsOver(Names))
    BY <1>2
  <2> QED
    BY <1>8, <2>1, <2>2, AllRunJoined
<1> QED
  BY <1>1, <1>2, <1>3, <1>4, <1>5, <1>6, <1>7, <1>9 DEF InnerRuns, ListRuns, AllRun, Exists

----------------------------------------------------------------------------
(* A derived table still exposes every name once *)

LEMMA Shortened ==
  ASSUME NEW S, NEW p \in Seq(S), NEW c \in Seq(S), NEW d \in Seq(S), p \o c = p \o d
  PROVE  c = d
<1>1. PICK u : u = p \o c /\ u = p \o d
  OBVIOUS
<1>2. PICK l \in Nat, m \in Nat, n \in Nat : l = Len(p) /\ m = Len(c) /\ n = Len(d)
  BY LenProperties
<1>3. \A x \in Seq(S) : /\ Len(p \o x) = Len(p) + Len(x)
                        /\ \A i \in 1..Len(x) : (p \o x)[Len(p) + i] = x[i]
  <2>1. ASSUME NEW x \in Seq(S)
        PROVE  /\ Len(p \o x) = Len(p) + Len(x)
               /\ \A i \in 1..Len(x) : (p \o x)[Len(p) + i] = x[i]
    <3>1. Len(p) \in Nat /\ Len(x) \in Nat
      BY LenProperties
    <3>2. PICK a \in Nat, b \in Nat : a = Len(p) /\ b = Len(x)
      BY <3>1
    <3>3. Len(p \o x) = a + b /\ \A i \in 1..b : (p \o x)[a + i] = x[i]
      BY <3>2, Joined
    <3> QED
      BY <3>2, <3>3
  <2> QED
    BY <2>1
<1>4. Len(u) = l + m /\ \A i \in 1..m : u[l + i] = c[i]
  BY <1>1, <1>2, <1>3
<1>5. Len(u) = l + n /\ \A i \in 1..n : u[l + i] = d[i]
  BY <1>1, <1>2, <1>3
<1>6. m = n
  BY <1>2, <1>4, <1>5
<1>7. \A i \in 1..m : c[i] = d[i]
  BY <1>4, <1>5, <1>6
<1> QED
  BY <1>2, <1>6, <1>7, SeqEqual

\* One path's hidden names are as different as the columns.
LEMMA HiddenApart ==
  ASSUME NEW via \in Seq(Names), NEW c \in Names, NEW d \in Names,
         HiddenName(via, c) = HiddenName(via, d)
  PROVE  c = d
<1> DEFINE W == STRING \cup {"", "pk"}
<1>1. "" \in W /\ "pk" \in W
  OBVIOUS
<1>2. FlattenSeq(via) \in Seq(W) /\ c \in Seq(W) /\ d \in Seq(W)
  BY FlattenType DEF Names
<1> HIDE DEF W
<1>3. PICK path \in Seq(W) : path = FlattenSeq(via)
  BY <1>2
<1>4. PICK p \in Seq(W) : p = <<"", "", "pk">> \o path
  <2>1. <<"", "", "pk">> \in Seq(W)
    <3>1. \A x, y, z \in W : <<x, y, z>> \in Seq(W)
      OBVIOUS
    <3> QED
      BY <1>1, <3>1
  <2>2. <<"", "", "pk">> \o path \in Seq(W)
    BY <2>1, <1>3, ConcatProperties
  <2> QED
    BY <2>2
<1>5. p \o c = p \o d
  BY <1>3, <1>4 DEF HiddenName
<1> QED
  BY <1>2, <1>4, <1>5, Shortened

\* A path is needed once, and has the columns of a key.
LEMMA NeedOnce ==
  ASSUME NEW k, NEW s, NEW catalog, NEW other, NEW needs,
         Sent(k, s, catalog, other, needs), NEW n \in DOMAIN needs
  PROVE  /\ IsInjective(needs[n].key)
         /\ \A m \in DOMAIN needs : needs[n].via = needs[m].via => n = m
<1>1. PICK origins \in Seq(Origins) : origins = VisibleOrigins(k, s)
  BY SpelledStatements, OriginPiecesType DEF Sent
<1>2. needs = Needed(origins)
  BY <1>1 DEF Sent
<1>3. \A m \in DOMAIN needs : needs[n].via = needs[m].via => n = m
  BY <1>2, NeededIs
<1>4. PICK i \in DOMAIN s.from : NeedAt(s.from, needs[n], i)
  BY NeedTraced
<1>5. \E table : TracedTo(needs[n], table, needs[n].via)
  BY <1>4 DEF NeedAt, TracedTo, Origin
<1>6. \E table : needs[n].key = PrimaryKeyColumns(table)
  BY <1>5 DEF TracedTo, Origin
<1> QED
  BY <1>3, <1>6, TableColumns

\* The names of what is put in a derived table's list are all different.
LEMMA WithinApart ==
  ASSUME NEW k, NEW s, NEW catalog, NEW other, NEW needs,
         Sent(k, s, catalog, other, needs), NEW alias,
         NEW x \in DOMAIN CarriersWithin(alias, needs),
         NEW y \in DOMAIN CarriersWithin(alias, needs),
         CarriersWithin(alias, needs)[x].as = CarriersWithin(alias, needs)[y].as
  PROVE  x = y
<1>1. needs \in Seq(Needs) /\ ~CarriersCollide(k, s) /\ needs = Needed(VisibleOrigins(k, s))
  BY DEF Sent
<1>2. PICK n \in DOMAIN needs : \E q \in DOMAIN needs[n].key :
        /\ Len(needs[n].via) = 2 /\ needs[n].via[1] = alias
        /\ CarriersWithin(alias, needs)[x] = InnerCarrier(needs[n], q)
        /\ x = Before(InnerPieces(alias, needs), n) + q
  BY <1>1, InnerElement
<1>3. PICK m \in DOMAIN needs : \E r \in DOMAIN needs[m].key :
        /\ Len(needs[m].via) = 2 /\ needs[m].via[1] = alias
        /\ CarriersWithin(alias, needs)[y] = InnerCarrier(needs[m], r)
        /\ y = Before(InnerPieces(alias, needs), m) + r
  BY <1>1, InnerElement
<1>4. PICK q \in DOMAIN needs[n].key :
        /\ Len(needs[n].via) = 2 /\ needs[n].via[1] = alias
        /\ CarriersWithin(alias, needs)[x] = InnerCarrier(needs[n], q)
        /\ x = Before(InnerPieces(alias, needs), n) + q
  BY <1>2
<1>5. PICK r \in DOMAIN needs[m].key :
        /\ Len(needs[m].via) = 2 /\ needs[m].via[1] = alias
        /\ CarriersWithin(alias, needs)[y] = InnerCarrier(needs[m], r)
        /\ y = Before(InnerPieces(alias, needs), m) + r
  BY <1>3
<1>6. HiddenName(needs[n].via, needs[n].key[q]) = HiddenName(needs[m].via, needs[m].key[r])
  <2>1. InnerCarrier(needs[n], q).as = HiddenName(needs[n].via, needs[n].key[q])
    BY DEF InnerCarrier, Column
  <2>2. InnerCarrier(needs[m], r).as = HiddenName(needs[m].via, needs[m].key[r])
    BY DEF InnerCarrier, Column
  <2> QED
    BY <1>4, <1>5, <2>1, <2>2
<1>7. needs[n].via = needs[m].via
  <2>1. needs[n] \in ToSet(needs) /\ needs[m] \in ToSet(needs)
    BY <1>2, <1>3 DEF ToSet
  <2>2. needs[n].key[q] \in ToSet(needs[n].key) /\ needs[m].key[r] \in ToSet(needs[m].key)
    BY <1>4, <1>5 DEF ToSet
  <2>3. ~ \E a, b \in ToSet(needs) :
            /\ Len(a.via) = 2 /\ Len(b.via) = 2 /\ a.via[1] = b.via[1] /\ a.via # b.via
            /\ \E c \in ToSet(a.key), d \in ToSet(b.key) :
                 HiddenName(a.via, c) = HiddenName(b.via, d)
    <3>1. ~CarriersCollide(k, s)
      BY <1>1
    <3>2. ~ \E a, b \in ToSet(Needed(VisibleOrigins(k, s))) :
              /\ Len(a.via) = 2 /\ Len(b.via) = 2 /\ a.via[1] = b.via[1] /\ a.via # b.via
              /\ \E c \in ToSet(a.key), d \in ToSet(b.key) :
                   HiddenName(a.via, c) = HiddenName(b.via, d)
      BY <3>1, Zenon DEF CarriersCollide
    <3>3. needs = Needed(VisibleOrigins(k, s))
      BY <1>1
    <3> QED
      BY <3>2, <3>3
  <2> QED
    BY <1>4, <1>5, <1>6, <2>1, <2>2, <2>3
<1>8. n = m
  BY <1>2, <1>3, <1>7, NeedOnce
<1>9. needs[n].key[q] = needs[n].key[r]
  <2>1. /\ needs[n].via \in Seq(Names) /\ needs[n].key[q] \in Names
        /\ needs[n].key[r] \in Names
    <3>1. needs[n] \in Needs
      BY <1>1, <1>2, ElementOfSeq, LenProperties
    <3> QED
      BY <1>4, <1>5, <1>8, <3>1, NeedFields
  <2>2. HiddenName(needs[n].via, needs[n].key[q]) = HiddenName(needs[n].via, needs[n].key[r])
    BY <1>6, <1>8
  <2> QED
    BY <2>1, <2>2, HiddenApart
<1>10. q = r
  <2>1. IsInjective(needs[n].key)
    BY <1>2, NeedOnce
  <2> QED
    BY <1>4, <1>5, <1>8, <1>9, <2>1 DEF IsInjective
<1> QED
  BY <1>4, <1>5, <1>8, <1>10

\* A derived table exposes a column more for each item more.
LEMMA DerivedLength ==
  ASSUME NEW catalog, NEW ref \in DerivedOver(UsersNames),
         NEW more \in Seq(ItemsOver(Names)), HiddenItems(more),
         NEW other, other = Derived(ref.alias, Adding(ref.query, more)),
         IsCatalog(catalog), ref.query.shape # "union", InnerRuns(catalog, other.query)
  PROVE  Len(Exposes(catalog, other)) = Len(Exposes(catalog, ref)) + Len(more)
<1>1. ref.query \in InnerQueries(UsersNames)
  BY DerivedFields
<1>2. PICK inner \in InnerQueries(UsersNames) : inner = ref.query
  BY <1>1
<1>3. PICK grown \in InnerQueries(Names) : grown = Adding(inner, more)
  BY InnerAdding
<1>4. other.query = grown /\ other \in DerivedOver(Names) /\ ref \in DerivedOver(Names)
  <2>1. other.query = grown
    BY <1>2, <1>3 DEF Derived
  <2>2. /\ other \in DerivedOver(Names) /\ ref \in DerivedOver(Names)
        /\ InnerRuns(catalog, ref.query)
        /\ Exposes(catalog, ref) \in Seq(Cells) /\ Exposes(catalog, other) \in Seq(Cells)
        /\ GrownEntry(Entry(ref.alias, Exposes(catalog, ref)),
                      Entry(ref.alias, Exposes(catalog, other)))
    BY DerivedGrown
  <2> QED
    BY <2>1, <2>2
<1>5. /\ InnerRuns(catalog, inner) /\ InnerRuns(catalog, grown)
      /\ AllRun(inner.natural, InnerScope(catalog, inner), more)
      /\ Consists(InnerColumns(catalog, grown), InnerColumns(catalog, inner),
                  Columns(inner.natural, InnerScope(catalog, inner), more))
  BY <1>2, <1>3, <1>4, InnerGrown
<1>6. /\ InnerColumns(catalog, inner) \in Seq(Cells)
      /\ InnerScope(catalog, inner) \in Seq(Entries)
  BY <1>5, UsersInner, InnerColumnsType
<1>7. PICK scope \in Seq(Entries) : scope = InnerScope(catalog, inner)
  BY <1>6
<1>8. PICK s \in Seq(Cells) : s = InnerColumns(catalog, inner)
  BY <1>6
<1>9. PICK t \in Seq(Cells) :
        t = Columns(inner.natural, scope, more) /\ Len(t) = Len(more)
  BY <1>5, <1>7, HiddenColumns
<1>10. PICK u : u = InnerColumns(catalog, grown)
  OBVIOUS
<1>11. u = s \o t
  BY <1>5, <1>7, <1>8, <1>9, <1>10 DEF Consists
<1>12. Len(u) = Len(s) + Len(more)
  <2>1. PICK l \in Nat, m \in Nat : l = Len(s) /\ m = Len(t)
    BY LenProperties
  <2>2. Len(s \o t) = l + m
    BY <2>1, Joined
  <2> QED
    BY <1>9, <1>11, <2>1, <2>2
<1>13. Len(Exposes(catalog, ref)) = Len(s)
  BY <1>2, <1>4, <1>5, <1>8, ExposesDerived
<1>14. Len(Exposes(catalog, other)) = Len(u)
  BY <1>4, <1>5, <1>10, ExposesDerived
<1> QED
  BY <1>12, <1>13, <1>14

\* A list whose columns are those of another, with users' names of their own, and
\* then one for each of these items, which have other names, and hidden ones.
LEMMA NamesApart ==
  ASSUME NEW old \in Seq(Cells), OwnNames(old),
         \A i \in DOMAIN old : ~IsHidden(old[i].name),
         NEW more \in Seq(ItemsOver(Names)), HiddenItems(more),
         \A x, y \in DOMAIN more : more[x].as = more[y].as => x = y,
         NEW all \in Seq(Cells), Len(all) = Len(old) + Len(more),
         \A i \in DOMAIN old : all[i] = old[i],
         NEW scope, NEW alias \in Names, Exposed(all, Len(old), scope, alias, more)
  PROVE  OwnNames(all)
<1>1. PICK l \in Nat, m \in Nat : l = Len(old) /\ m = Len(more)
  BY LenProperties
<1>2. DOMAIN all = 1..(l + m) /\ DOMAIN old = 1..l /\ DOMAIN more = 1..m
  BY <1>1, LenProperties
<1>3. ASSUME NEW j \in 1..m PROVE all[l + j].name = more[j].as
  <2>1. PICK column \in Cells :
          column.name = more[j].as /\ all[l + j] = Within(alias, column)
    BY <1>1, <1>2, <1>3 DEF Exposed
  <2>2. column \in Cells
    BY <2>1
  <2>3. Within(alias, column).name = column.name
    BY <2>2, WithinIs
  <2> QED
    BY <2>1, <2>3
<1>4. ASSUME NEW i \in 1..(l + m), ~(i <= l)
      PROVE  \E j \in 1..m : i = l + j /\ all[i].name = more[j].as
  <2>1. i - l \in 1..m /\ i = l + (i - l)
    BY <1>4
  <2> QED
    BY <1>3, <2>1
<1>5. \A i \in 1..l : all[i].name = old[i].name /\ ~IsHidden(old[i].name)
  BY <1>2
<1>6. \A j \in 1..m : IsHidden(more[j].as)
  BY <1>2 DEF HiddenItems
<1>7. ASSUME NEW i \in 1..(l + m), NEW j \in 1..(l + m), all[i].name = all[j].name
      PROVE  i = j
  <2>1. CASE i <= l /\ j <= l
    <3>1. i \in 1..l /\ j \in 1..l
      BY <2>1
    <3>2. old[i].name = old[j].name
      BY <1>5, <1>7, <3>1
    <3> QED
      BY <1>2, <3>1, <3>2 DEF OwnNames, IsInjective
  <2>2. CASE i <= l /\ ~(j <= l)
    <3>1. i \in 1..l
      BY <2>2
    <3> QED
      BY <1>4, <1>5, <1>6, <1>7, <2>2, <3>1
  <2>3. CASE ~(i <= l) /\ j <= l
    <3>1. j \in 1..l
      BY <2>3
    <3> QED
      BY <1>4, <1>5, <1>6, <1>7, <2>3, <3>1
  <2>4. CASE ~(i <= l) /\ ~(j <= l)
    <3>1. PICK a \in 1..m : i = l + a /\ all[i].name = more[a].as
      BY <1>4, <2>4
    <3>2. PICK b \in 1..m : j = l + b /\ all[j].name = more[b].as
      BY <1>4, <2>4
    <3>3. a = b
      BY <1>2, <1>7, <3>1, <3>2
    <3> QED
      BY <3>1, <3>2, <3>3
  <2> QED
    BY <2>1, <2>2, <2>3, <2>4
<1> QED
  BY <1>2, <1>7 DEF OwnNames, IsInjective

\* A derived table exposes every name once, with what is put in its list.
LEMMA StillOwnNames ==
  ASSUME NEW k, NEW s, NEW catalog, NEW other, NEW needs,
         Sent(k, s, catalog, other, needs), NEW i \in DOMAIN s.from, IsDerived(s.from[i])
  PROVE  /\ OwnNames(Exposes(catalog, other.from[i]))
         /\ Exposed(Exposes(catalog, other.from[i]), Len(Exposes(catalog, s.from[i])),
                    InnerScope(catalog, s.from[i].query), s.from[i].alias,
                    CarriersWithin(s.from[i].alias, needs))
<1>1. PICK ref \in DerivedOver(UsersNames) : ref = s.from[i]
  <2>1. s.from[i] \in Refs(UsersNames)
    BY SentFrom
  <2> QED
    BY <2>1, RefCases
<1>2. PICK more \in Seq(ItemsOver(Names)) :
        more = CarriersWithin(ref.alias, needs) /\ HiddenItems(more)
  BY CarriersWithinAre DEF Sent
<1>3. PICK oref : oref = Derived(ref.alias, Adding(ref.query, more))
  OBVIOUS
<1>4. /\ other.from[i] = oref /\ InnerRuns(catalog, ref.query)
      /\ OwnNames(Exposes(catalog, ref)) /\ ref.query.shape # "union"
  <2>1. /\ other.from[i] = GrownRef(s.from[i], CarriersWithin(s.from[i].alias, needs))
        /\ InnerRuns(catalog, s.from[i].query) /\ OwnNames(Exposes(catalog, s.from[i]))
    BY SentFrom
  <2>2. s.from[i].query.shape # "union"
    BY SentFrom DEF NoUnionInside
  <2>3. other.from[i] = oref
    BY <1>1, <1>2, <1>3, <2>1 DEF GrownRef
  <2> QED
    BY <1>1, <2>1, <2>2, <2>3
<1>5. InnerRuns(catalog, oref.query) /\ IsCatalog(catalog)
  <2>1. InnerRuns(catalog, Adding(s.from[i].query, CarriersWithin(s.from[i].alias, needs)))
    BY InnerStillRuns
  <2>2. oref.query = Adding(ref.query, more)
    BY <1>3 DEF Derived
  <2> QED
    BY <1>1, <1>2, <2>1, <2>2 DEF Sent
<1>6. /\ Exposes(catalog, ref) \in Seq(Cells) /\ Exposes(catalog, oref) \in Seq(Cells)
      /\ GrownEntry(Entry(ref.alias, Exposes(catalog, ref)),
                    Entry(ref.alias, Exposes(catalog, oref)))
      /\ Exposed(Exposes(catalog, oref), Len(Exposes(catalog, ref)),
                 InnerScope(catalog, ref.query), ref.alias, more)
      /\ ref \in DerivedOver(Names)
  BY <1>2, <1>3, <1>4, <1>5, DerivedGrown
<1>7. Len(Exposes(catalog, oref)) = Len(Exposes(catalog, ref)) + Len(more)
  BY <1>2, <1>3, <1>4, <1>5, DerivedLength
<1>8. PICK old \in Seq(Cells) : old = Exposes(catalog, ref)
  BY <1>6
<1>9. PICK all \in Seq(Cells) : all = Exposes(catalog, oref)
  BY <1>6
<1>10. \A x \in DOMAIN old : all[x] = old[x]
  BY <1>6, <1>8, <1>9 DEF GrownEntry, Entry
<1>11. \A x \in DOMAIN old : ~IsHidden(old[x].name)
  <2>1. NameSet(UsersNames)
    BY DEF NameSet, UsersNames
  <2>2. ref \in Refs(Names) /\ IsDerived(ref) /\ ref.query.items \in Seq(ItemsOver(UsersNames))
    BY <1>6, DerivedFields, QueryFields DEF Refs, InnerQueries
  <2>3. Backed(catalog, UsersNames, Exposes(catalog, ref))
    BY <1>4, <1>5, <2>1, <2>2, ExposesBacked
  <2> QED
    BY <1>8, <2>3 DEF Backed, IsBacked, UsersNames
<1>12. \A x, y \in DOMAIN more : more[x].as = more[y].as => x = y
  BY <1>2, WithinApart
<1>13. ref.alias \in Names
  BY <1>6, DerivedFields
<1>14. PICK scope : scope = InnerScope(catalog, ref.query)
  OBVIOUS
<1>15. OwnNames(old) /\ Len(all) = Len(old) + Len(more)
       /\ Exposed(all, Len(old), scope, ref.alias, more)
  BY <1>4, <1>6, <1>7, <1>8, <1>9, <1>14
<1>16. OwnNames(all)
  BY <1>2, <1>10, <1>11, <1>12, <1>13, <1>15, NamesApart
<1> QED
  BY <1>1, <1>2, <1>4, <1>8, <1>9, <1>14, <1>15, <1>16

----------------------------------------------------------------------------
(* The whole statement still runs *)

\* FROM runs with what is put in its derived tables, and each of its entries has
\* the columns it had, and hidden ones.
LEMMA StillGrown ==
  ASSUME NEW k, NEW s, NEW catalog, NEW other, NEW needs,
         Sent(k, s, catalog, other, needs)
  PROVE  /\ FromRuns(catalog, other)
         /\ Scope(catalog, s) \in Seq(Entries) /\ Scope(catalog, other) \in Seq(Entries)
         /\ Grown(Scope(catalog, s), Scope(catalog, other))
         /\ DOMAIN Scope(catalog, s) = DOMAIN s.from
         /\ \A i \in DOMAIN s.from :
              /\ Scope(catalog, other)[i].alias = s.from[i].alias
              /\ Scope(catalog, other)[i].columns = Exposes(catalog, other.from[i])
<1>1. IsCatalog(catalog) /\ needs \in Seq(Needs)
  BY DEF Sent
<1>2. ASSUME NEW i \in DOMAIN s.from
      PROVE  /\ IF IsDerived(other.from[i]) THEN InnerRuns(catalog, other.from[i].query)
                ELSE Exists(catalog, other.from[i])
             /\ IF IsDerived(s.from[i]) THEN InnerRuns(catalog, s.from[i].query)
                ELSE Exists(catalog, s.from[i])
             /\ GrownEntry(Entry(s.from[i].alias, Exposes(catalog, s.from[i])),
                           Entry(s.from[i].alias, Exposes(catalog, other.from[i])))
  <2>1. PICK ref \in Refs(UsersNames) : ref = s.from[i]
    BY SentFrom
  <2>2. PICK more \in Seq(ItemsOver(Names)) :
          more = CarriersWithin(ref.alias, needs) /\ HiddenItems(more)
    BY <1>1, CarriersWithinAre
  <2>3. PICK oref : oref = GrownRef(ref, more)
    OBVIOUS
  <2>4. other.from[i] = oref
    <3>1. other.from[i] = GrownRef(s.from[i], CarriersWithin(s.from[i].alias, needs))
      BY SentFrom
    <3> QED
      BY <2>1, <2>2, <2>3, <3>1
  <2>5. /\ IsDerived(GrownRef(ref, more)) <=> IsDerived(ref)
        /\ ~IsDerived(ref) => GrownRef(ref, more) = ref
        /\ IsDerived(ref) => GrownRef(ref, more).query = Adding(ref.query, more)
    BY GrownRefType
  <2>6. IF IsDerived(oref) THEN InnerRuns(catalog, oref.query) ELSE Exists(catalog, oref)
    <3>1. CASE IsDerived(ref)
      <4>1. InnerRuns(catalog, Adding(s.from[i].query,
                                      CarriersWithin(s.from[i].alias, needs)))
        BY <2>1, <3>1, InnerStillRuns
      <4>2. InnerRuns(catalog, Adding(ref.query, more))
        BY <2>1, <2>2, <4>1
      <4>3. IsDerived(oref) /\ oref.query = Adding(ref.query, more)
        BY <2>3, <2>5, <3>1
      <4> QED
        BY <4>2, <4>3
    <3>2. CASE ~IsDerived(ref)
      <4>1. Exists(catalog, s.from[i])
        BY <2>1, <3>2, SentFrom
      <4>2. oref = ref
        BY <2>3, <2>5, <3>2
      <4> QED
        BY <2>1, <3>2, <4>1, <4>2
    <3> QED
      BY <3>1, <3>2
  <2>7. IsDerived(ref) => ref.query.shape # "union"
    BY <2>1, SentFrom DEF NoUnionInside
  <2>8. /\ IF IsDerived(ref) THEN InnerRuns(catalog, ref.query)
                             ELSE Exists(catalog, ref)
        /\ GrownEntry(Entry(ref.alias, Exposes(catalog, ref)),
                      Entry(ref.alias, Exposes(catalog, oref)))
    BY <1>1, <2>2, <2>3, <2>6, <2>7, RefGrown
  <2> QED
    BY <2>1, <2>4, <2>6, <2>8
<1>3. FromRuns(catalog, other) /\ FromRuns(catalog, s)
  <2>1. DOMAIN other.from = DOMAIN s.from
    BY SentFrom
  <2> QED
    BY <1>2, <2>1 DEF FromRuns
<1>4. /\ s \in StatementsOver(Names) /\ other \in StatementsOver(Names)
      /\ DOMAIN other.from = DOMAIN s.from
      /\ \A i \in DOMAIN s.from : other.from[i].alias = s.from[i].alias
  BY SentFrom, SpelledStatements DEF Sent
<1>5. /\ Scope(catalog, s) \in Seq(Entries) /\ DOMAIN Scope(catalog, s) = DOMAIN s.from
      /\ \A i \in DOMAIN s.from :
           Scope(catalog, s)[i] = Entry(s.from[i].alias, Exposes(catalog, s.from[i]))
  <2>1. s \in QueriesOver(Refs(Names), Names)
    BY <1>4, StatementQueries
  <2> QED
    BY <1>1, <1>3, <2>1, ScopeType, ScopeEntries
<1>6. /\ Scope(catalog, other) \in Seq(Entries)
      /\ DOMAIN Scope(catalog, other) = DOMAIN other.from
      /\ \A i \in DOMAIN other.from :
           Scope(catalog, other)[i]
             = Entry(other.from[i].alias, Exposes(catalog, other.from[i]))
  <2>1. other \in QueriesOver(Refs(Names), Names)
    BY <1>4, StatementQueries
  <2> QED
    BY <1>1, <1>3, <2>1, ScopeType, ScopeEntries
<1>7. \A i \in DOMAIN s.from :
        Scope(catalog, other)[i] = Entry(s.from[i].alias, Exposes(catalog, other.from[i]))
  BY <1>4, <1>6
<1>8. Grown(Scope(catalog, s), Scope(catalog, other))
  BY <1>2, <1>4, <1>5, <1>6, <1>7 DEF Grown
<1>9. \A i \in DOMAIN s.from :
        /\ Scope(catalog, other)[i].alias = s.from[i].alias
        /\ Scope(catalog, other)[i].columns = Exposes(catalog, other.from[i])
  <2>1. \A a, c : Entry(a, c).alias = a /\ Entry(a, c).columns = c
    BY DEF Entry
  <2> QED
    BY <1>7, <2>1
<1> QED
  BY <1>3, <1>5, <1>6, <1>8, <1>9

\* The items of the outer list's carriers are those of the keys that are needed.
LEMMA OuterElement ==
  ASSUME NEW needs \in Seq(Needs), NEW x \in DOMAIN Carriers(needs)
  PROVE  \E n \in DOMAIN needs : \E q \in DOMAIN needs[n].key :
           Carriers(needs)[x] = OuterCarrier(needs[n], q)
<1>1. PICK pieces \in Seq(Seq(ItemsOver(Names))) :
        /\ pieces = OuterPieces(needs) /\ Carriers(needs) = FlattenSeq(pieces)
        /\ DOMAIN pieces = DOMAIN needs
  BY CarriersAre
<1>2. x \in DOMAIN FlattenSeq(pieces)
  BY <1>1
<1>3. PICK n \in DOMAIN pieces : \E q \in DOMAIN pieces[n] :
        FlattenSeq(pieces)[x] = pieces[n][q]
  BY <1>2, FlattenElements
<1>4. PICK q \in DOMAIN pieces[n] : FlattenSeq(pieces)[x] = pieces[n][q]
  BY <1>3
<1>5. n \in DOMAIN needs /\ pieces[n] = OuterCarriers(needs[n])
  BY <1>1, <1>3 DEF OuterPieces
<1>6. q \in DOMAIN needs[n].key /\ pieces[n][q] = OuterCarrier(needs[n], q)
  <2>1. needs[n] \in Needs
    BY <1>5, ElementOfSeq, LenProperties
  <2>2. /\ CarrierList(OuterCarriers(needs[n]), needs[n])
        /\ \A j \in DOMAIN needs[n].key : OuterCarriers(needs[n])[j] = OuterCarrier(needs[n], j)
    BY <2>1, CarriersOf
  <2> QED
    BY <1>4, <1>5, <2>2 DEF CarrierList
<1> QED
  BY <1>1, <1>4, <1>5, <1>6

\* What is put in the outer list runs: it names a key's column of a table, or a
\* hidden column of a derived one.
LEMMA CarriersRun ==
  ASSUME NEW k, NEW s, NEW catalog, NEW other, NEW needs,
         Sent(k, s, catalog, other, needs)
  PROVE  AllRun(s.natural, Scope(catalog, other), Carriers(needs))
<1>1. /\ IsCatalog(catalog) /\ DOMAIN catalog = DOMAIN Catalog /\ needs \in Seq(Needs)
      /\ \A t \in DOMAIN Catalog : catalog[t].key = Catalog[t].key
  BY DEF Sent
<1>2. PICK scope \in Seq(Entries) :
        /\ scope = Scope(catalog, other) /\ DOMAIN scope = DOMAIN s.from
        /\ \A i \in DOMAIN s.from : /\ scope[i].alias = s.from[i].alias
                                    /\ scope[i].columns = Exposes(catalog, other.from[i])
  BY StillGrown DEF Grown
<1>3. PICK all : all = Carriers(needs)
  OBVIOUS
<1>4. ASSUME NEW x \in DOMAIN all PROVE ItemRuns(s.natural, scope, all[x])
  <2>1. PICK n \in DOMAIN needs : \E q \in DOMAIN needs[n].key :
          all[x] = OuterCarrier(needs[n], q)
    BY <1>1, <1>3, <1>4, OuterElement
  <2>2. PICK q \in DOMAIN needs[n].key : all[x] = OuterCarrier(needs[n], q)
    BY <2>1
  <2>3. PICK i \in DOMAIN s.from : NeedAt(s.from, needs[n], i)
    BY NeedTraced
  <2>4. PICK item : item = all[x]
    OBVIOUS
  <2>5. /\ item.kind = "column" /\ item.of = needs[n].via[1]
        /\ item.name = IF Len(needs[n].via) = 1 THEN needs[n].key[q]
                       ELSE HiddenName(needs[n].via, needs[n].key[q])
    BY <2>2, <2>4 DEF OuterCarrier, Column
  <2>6. needs[n].via[1] = s.from[i].alias
    <3>1. \A u, v : <<u>>[1] = u /\ <<u, v>>[1] = u
      OBVIOUS
    <3> QED
      BY <2>3, <3>1 DEF NeedAt, TracedTo, Origin
  <2>7. HasOnce(scope[i].columns, item.name)
    <3>1. CASE ~IsDerived(s.from[i])
      <4>1. TracedTo(needs[n], s.from[i].name, <<s.from[i].alias>>)
        BY <2>3, <3>1 DEF NeedAt
      <4>2. /\ Len(needs[n].via) = 1 /\ PrimaryKeyColumns(s.from[i].name) # << >>
            /\ needs[n].key = PrimaryKeyColumns(s.from[i].name)
        <5>1. \A u : Len(<<u>>) = 1
          OBVIOUS
        <5> QED
          BY <4>1, <5>1 DEF TracedTo, Origin
      <4>3. other.from[i] = s.from[i] /\ ~IsNamesake(s.from[i], s.from[i])
        <5>1. /\ other.from[i] = GrownRef(s.from[i], CarriersWithin(s.from[i].alias, needs))
              /\ ~IsNamesake(s.from[i], s.from[i])
          BY <3>1, SentFrom
        <5> QED
          BY <3>1, <5>1 DEF GrownRef
      <4>4. PICK ref : ref = s.from[i]
        OBVIOUS
      <4>5. scope[i].columns = StoredColumns(catalog, ref)
        BY <1>2, <3>1, <4>3, <4>4 DEF Exposes
      <4>6. q \in DOMAIN PrimaryKeyColumns(ref.name) /\ PrimaryKeyColumns(ref.name) # << >>
            /\ ~IsNamesake(ref, ref)
        BY <2>2, <4>2, <4>3, <4>4
      <4>7. HasOnce(StoredColumns(catalog, ref), PrimaryKeyColumns(ref.name)[q])
        BY <1>1, <4>6, TableHasKey
      <4> QED
        BY <2>5, <4>2, <4>4, <4>5, <4>7
    <3>2. CASE IsDerived(s.from[i])
      <4>1. Len(needs[n].via) = 2 /\ needs[n].via[1] = s.from[i].alias
        <5>1. \A u, v : Len(<<u, v>>) = 2
          OBVIOUS
        <5> QED
          BY <2>3, <2>6, <3>2, <5>1 DEF NeedAt, TracedTo, Origin
      <4>2. PICK more : more = CarriersWithin(s.from[i].alias, needs)
        OBVIOUS
      <4>3. PICK y \in DOMAIN more : more[y] = InnerCarrier(needs[n], q)
        BY <1>1, <2>2, <4>1, <4>2, InnerCarrierAt
      <4>4. more[y].as = HiddenName(needs[n].via, needs[n].key[q])
        BY <4>3 DEF InnerCarrier, Column
      <4>5. PICK columns, m, inner :
              /\ columns = scope[i].columns /\ OwnNames(columns)
              /\ Exposed(columns, m, inner, s.from[i].alias, more)
        BY <1>2, <3>2, <4>2, StillOwnNames
      <4>6. m + y \in DOMAIN columns /\ columns[m + y].name = more[y].as
        <5>1. PICK column \in Cells :
                /\ m + y \in DOMAIN columns /\ column.name = more[y].as
                /\ columns[m + y] = Within(s.from[i].alias, column)
          BY <4>3, <4>5 DEF Exposed
        <5>2. column \in Cells
          BY <5>1
        <5>3. s.from[i].alias \in Names
          <6>1. s.from[i] \in Refs(UsersNames)
            BY SentFrom
          <6> QED
            BY <6>1, RefCases DEF UsersNames
        <5>4. Within(s.from[i].alias, column).name = column.name
          BY <5>2, <5>3, WithinIs
        <5> QED
          BY <5>1, <5>4
      <4>7. item.name = columns[m + y].name
        BY <2>5, <4>1, <4>4, <4>6
      <4>8. \A c \in DOMAIN columns : columns[c].name = item.name => c = m + y
        BY <4>5, <4>6, <4>7, SameName
      <4> QED
        BY <4>5, <4>6, <4>7, <4>8 DEF HasOnce
    <3> QED
      BY <3>1, <3>2
  <2>8. OnlyEntry(scope, item, i)
    <3>1. OwnAliases(s.from) /\ s.from[i] \in Refs(UsersNames)
      BY SentFrom
    <3>2. s.from[i].alias # Nameless
      BY <3>1, RefCases
    <3>3. DOMAIN scope = DOMAIN s.from /\ \A a \in DOMAIN s.from : scope[a].alias = s.from[a].alias
      BY <1>2
    <3>4. item.of = s.from[i].alias
      BY <2>5, <2>6
    <3> QED
      BY <3>1, <3>2, <3>3, <3>4, AliasReaches
  <2>9. item.kind = "column" /\ i \in DOMAIN scope /\ item.of = scope[i].alias
    BY <1>2, <2>5, <2>6
  <2>10. ItemRuns(s.natural, scope, item)
    BY <2>7, <2>8, <2>9, NamedSingle
  <2> QED
    BY <2>4, <2>10
<1> QED
  BY <1>2, <1>3, <1>4 DEF AllRun

LEMMA SentRuns ==
  ASSUME NEW k, NEW s, NEW catalog, NEW other, NEW needs,
         Sent(k, s, catalog, other, needs)
  PROVE  Runs(catalog, other)
<1>1. /\ FromRuns(catalog, other)
      /\ Scope(catalog, s) \in Seq(Entries) /\ Scope(catalog, other) \in Seq(Entries)
      /\ Grown(Scope(catalog, s), Scope(catalog, other))
      /\ DOMAIN Scope(catalog, s) = DOMAIN s.from
  BY StillGrown
<1>2. /\ OwnAliases(s.from) /\ s.from # << >> /\ s \in StatementsOver(UsersNames)
      /\ other.items = s.items \o Carriers(needs)
      /\ other.shape = s.shape /\ other.natural = s.natural
      /\ DOMAIN other.from = DOMAIN s.from
      /\ \A i \in DOMAIN s.from : other.from[i].alias = s.from[i].alias
  BY SentFrom
<1>3. needs \in Seq(Needs) /\ s.shape # "union" /\ Runs(catalog, s)
  BY DEF Sent
<1>4. PICK scope \in Seq(Entries), grown \in Seq(Entries) :
        /\ scope = Scope(catalog, s) /\ grown = Scope(catalog, other)
        /\ Grown(scope, grown) /\ DOMAIN scope = DOMAIN s.from
  BY <1>1
<1>5. scope # << >>
  <2>1. s.from \in Seq(Refs(UsersNames))
    BY <1>2, StatementQueries, QueryFields
  <2>2. 1 \in DOMAIN s.from
    BY <1>2, <2>1, EmptySeq, LenProperties
  <2>3. \A x : x \notin DOMAIN << >>
    OBVIOUS
  <2> QED
    BY <1>4, <2>2, <2>3
<1>6. s.natural \in BOOLEAN /\ s.items \in Seq(ItemsOver(UsersNames))
  BY <1>2 DEF StatementsOver, QueriesOver
<1>7. AllRun(s.natural, grown, s.items)
  <2>1. ASSUME NEW i \in DOMAIN s.items PROVE ItemRuns(s.natural, grown, s.items[i])
    <3>1. ItemRuns(s.natural, scope, s.items[i])
      BY <1>3, <1>4 DEF Runs, ListRuns
    <3>2. s.items[i] \in ItemsOver(UsersNames)
      BY <1>6, ElementOfSeq, LenProperties
    <3>3. Grown(scope, grown)
      BY <1>4
    <3>4. ItemRuns(s.natural, grown, s.items[i]) <=> ItemRuns(s.natural, scope, s.items[i])
      BY <1>4, <1>5, <1>6, <3>2, <3>3, ItemRunsGrown
    <3> QED
      BY <3>1, <3>4
  <2> QED
    BY <2>1 DEF AllRun
<1>8. AllRun(s.natural, grown, Carriers(needs))
  BY <1>4, CarriersRun
<1>9. AllRun(s.natural, grown, s.items \o Carriers(needs))
  <2>1. Carriers(needs) \in Seq(ItemsOver(Names))
    BY <1>3, CarriersAre
  <2> QED
    BY <1>6, <1>7, <1>8, <2>1, AllRunJoined
<1>10. OwnAliases(other.from)
  BY <1>2 DEF OwnAliases, IsInjective
<1>11. ListRuns(grown, other)
  BY <1>2, <1>3, <1>9, <1>10 DEF ListRuns, AllRun
<1>12. ASSUME NEW i \in DOMAIN other.from, IsDerived(other.from[i])
       PROVE  OwnNames(Exposes(catalog, other.from[i]))
  <2>1. i \in DOMAIN s.from
    BY <1>2
  <2>2. IsDerived(s.from[i])
    <3>1. other.from[i] = GrownRef(s.from[i], CarriersWithin(s.from[i].alias, needs))
      BY <2>1, SentFrom
    <3> QED
      BY <1>12, <3>1 DEF GrownRef
  <2> QED
    BY <2>1, <2>2, StillOwnNames
<1> QED
  BY <1>1, <1>4, <1>11, <1>12 DEF Runs, FromRuns

\* The names of a statement whose plan adds to its lists are spelled as the target
\* reads them.
SpelledAsRead == plan.path = "join" => AsRead(kind, stmt) = stmt

\* What is sent for a statement runs if it does.
LEMMA RewrittenRuns ==
  ASSUME NEW k \in Dialects, NEW s \in StatementsOver(Written), WellFormed(s),
         NEW p, p = PrepareRead(k, s), NEW altered \in BOOLEAN,
         Runs(Target(altered), AsRead(k, s)), ~(altered /\ p.cuts),
         ~UnionMissed(k, s), ~HasNamesake(k, s),
         p.path = "join" => AsRead(k, s) = s /\ ~CarriersCollide(k, s)
  PROVE  Runs(Target(altered), p.rewritten)
<1>1. PICK catalog : catalog = Target(altered)
  OBVIOUS
<1>2. CASE PlanSingle(k, s, p)
  <2>1. CASE p.cuts
    <3>1. catalog = Catalog
      BY <1>1, <2>1 DEF Target
    <3>2. Runs(Catalog, AsRead(k, s)) => Runs(Catalog, p.rewritten)
      BY <1>2, ListSame
    <3> QED
      BY <1>1, <3>1, <3>2
  <2>2. CASE ~p.cuts
    BY <1>2, <2>2 DEF PlanSingle
  <2> QED
    BY <2>1, <2>2
<1>3. CASE PlanPlain(k, s, p)
  BY <1>3 DEF PlanPlain
<1>4. CASE PlanJoin(k, s, p)
  <2>1. /\ Understands(s, JoinShapes(k)) /\ AsRead(k, s) = s /\ ~CarriersCollide(k, s)
    BY <1>4 DEF PlanJoin
  <2>2. s.shape # "union"
    BY <2>1 DEF Understands, JoinShapes, UnionMissed
  <2>3. PICK origins \in Seq(Origins), needs \in Seq(Needs) :
          /\ origins = VisibleOrigins(k, s) /\ needs = Needed(origins)
          /\ p.rewritten = GrownQuery(AsRead(k, s), InnerOf(s, needs), Carriers(needs))
    BY <1>4, JoinPlanIs
  <2>4. /\ IsCatalog(catalog) /\ DOMAIN catalog = DOMAIN Catalog
        /\ \A t \in DOMAIN Catalog : catalog[t].key = Catalog[t].key
    BY <1>1, TargetIs
  <2>5. Runs(catalog, s)
    BY <1>1, <2>1
  <2>6. PICK other : other = p.rewritten
    OBVIOUS
  <2>7. other = GrownQuery(s, InnerOf(s, needs), Carriers(needs))
    BY <2>1, <2>3, <2>6
  <2>8. needs = Needed(VisibleOrigins(k, s))
    BY <2>3
  <2>9. Sent(k, s, catalog, other, needs)
    BY <2>1, <2>2, <2>3, <2>4, <2>5, <2>7, <2>8 DEF Sent
  <2>10. Runs(catalog, other)
    BY <2>9, SentRuns
  <2> QED
    BY <1>1, <2>6, <2>10
<1> QED
  BY <1>2, <1>3, <1>4, PlanIs

LEMMA StillRunning ==
  ASSUME Inv, SpelledAsRead
  PROVE  StillRuns
<1> SUFFICES ASSUME result.done, result.failed,
                    Runs(Target(result.altered), AsRead(kind, stmt)), ~ListOutdated,
                    ~UnionMissed(kind, stmt), ~HasNamesake(kind, stmt),
                    ~(plan.path = "join" /\ CarriersCollide(kind, stmt))
             PROVE  FALSE
  BY DEF StillRuns
<1>1. Executed /\ plan = PrepareRead(kind, stmt)
  BY NotDone DEF Inv
<1>2. PICK altered \in BOOLEAN :
        ~Runs(Target(altered), plan.rewritten) /\ result.altered = altered
  <2>1. PICK altered \in BOOLEAN :
          \/ \E missing \in MissingRows(plan.rewritten) :
               result = ReadResult(plan, missing, altered)
          \/ /\ ~Runs(Target(altered), plan.rewritten)
             /\ result = [NoResult EXCEPT !.done = TRUE, !.failed = TRUE,
                                          !.altered = altered]
    BY <1>1 DEF Executed
  <2>2. ASSUME NEW missing, result = ReadResult(plan, missing, altered) PROVE FALSE
    BY <2>2 DEF ReadResult
  <2> QED
    BY <2>1, <2>2 DEF NoResult
<1>3. kind \in Dialects /\ stmt \in StatementsOver(Written) /\ WellFormed(stmt)
  BY ReadsAre DEF Inv
<1>4. ~(altered /\ plan.cuts)
  BY <1>2 DEF ListOutdated
<1>5. plan.path = "join" => AsRead(kind, stmt) = stmt /\ ~CarriersCollide(kind, stmt)
  BY DEF SpelledAsRead
<1>6. Runs(Target(altered), AsRead(kind, stmt))
  BY <1>2
<1>7. PICK k \in Dialects, s \in StatementsOver(Written) :
        k = kind /\ s = stmt /\ WellFormed(s)
  BY <1>3
<1>8. PICK p : p = plan
  OBVIOUS
<1>9. /\ p = PrepareRead(k, s) /\ Runs(Target(altered), AsRead(k, s)) /\ ~(altered /\ p.cuts)
      /\ ~UnionMissed(k, s) /\ ~HasNamesake(k, s)
      /\ p.path = "join" => AsRead(k, s) = s /\ ~CarriersCollide(k, s)
  BY <1>1, <1>4, <1>5, <1>6, <1>7, <1>8
<1>10. Runs(Target(altered), p.rewritten)
  BY <1>2, <1>7, <1>9, RewrittenRuns
<1> QED
  BY <1>2, <1>8, <1>10

\* Adding key columns to a statement (prepareJoinOrigins and its four dialects), or
\* writing out its star (prepareSelectStar), never makes one fail that ran as the
\* user wrote it: whatever names, joins and derived tables it has, and whatever was
\* altered in between. The exceptions are those of StillRuns; and names that Oracle
\* reads otherwise than they are written, where columns are added, since there it
\* does break (joinorigin_oracle.go quotes in the carriers what the user did not).
THEOREM StatementsStillRun == Spec => [](SpelledAsRead => StillRuns)
<1>1. Inv => (SpelledAsRead => StillRuns)
  BY StillRunning
<1> QED
  BY <1>1, Invariance, PTL

----------------------------------------------------------------------------
(* What Oracle is sent *)

LEMMA NothingCarried ==
  /\ Carriers(<< >>) = << >>
  /\ \A alias : CarriersWithin(alias, << >>) = << >>
<1>1. \A f : DOMAIN << >> = {} /\ [k \in DOMAIN << >> |-> f[k]] = << >>
  OBVIOUS
<1>2. Carriers(<< >>) = << >>
  BY FlattenEmpty DEF Carriers
<1>3. \A alias : CarriersWithin(alias, << >>) = << >>
  BY FlattenEmpty DEF CarriersWithin
<1> QED
  BY <1>2, <1>3

\* The statement sent, with nothing to splice in, is the user's own.
LEMMA NothingSpliced ==
  ASSUME NEW s \in StatementsOver(Written), NEW inner,
         \A i \in DOMAIN s.from : inner[i] = << >>
  PROVE  SplicedText(s, inner, << >>) = Text(s)
<1>1. /\ s.items \in Seq(ItemsOver(Written)) /\ << >> \in Seq(ItemsOver(Names))
      /\ \A i \in DOMAIN s.from : s.from[i] \in Refs(Written)
  BY QueryFields, StatementQueries
<1>2. ListText(s.items) \o ChunkText(<< >>) = ListText(s.items)
  <2>1. ListText(s.items) \in Seq(Tokens)
    BY <1>1, ListReads DEF Texts
  <2> QED
    BY <2>1, ChunkTextStep, ConcatEmptySeq
<1>3. \A i \in DOMAIN s.from : SplicedRef(s.from[i], inner[i]) = RefText(s.from[i])
  <2>1. ASSUME NEW i \in DOMAIN s.from
        PROVE  SplicedRef(s.from[i], inner[i]) = RefText(s.from[i])
    <3>1. SplicedRef(s.from[i], << >>) = RefText(s.from[i])
      BY <1>1, SameRef
    <3> QED
      BY <3>1
  <2> QED
    BY <2>1
<1>4. [i \in DOMAIN s.from |-> SplicedRef(s.from[i], inner[i])]
        = [i \in DOMAIN s.from |-> RefText(s.from[i])]
  BY <1>3
<1> QED
  BY <1>2, <1>4, TextIs DEF SplicedText

LEMMA SplicedStatement ==
  ASSUME NEW s \in StatementsOver(Written), HasLists(s), NEW needs \in Seq(Needs),
         needs = Needed(VisibleOrigins("oracle", s))
  PROVE  OracleReads(Spliced(s))
           = Text(GrownQuery(FoldedQuery(s), InnerOf(s, needs), Carriers(needs)))
<1>1. PICK more \in Seq(ItemsOver(Names)) : more = Carriers(needs)
  BY CarriersAre
<1>2. PICK inner : inner = InnerOf(s, needs)
  OBVIOUS
<1>3. /\ \A i \in DOMAIN s.from :
           /\ inner[i] \in Seq(ItemsOver(Names)) /\ inner[i] = OwnCarriers(s, needs, i)
      /\ inner = [i \in DOMAIN s.from |-> OwnCarriers(s, needs, i)]
  BY <1>2, CarriersWithinAre DEF InnerOf, OwnCarriers
<1>4. Spliced(s) = SplicedText(s, inner, more)
  <2>1. CASE needs = << >>
    <3>1. more = << >> /\ \A i \in DOMAIN s.from : inner[i] = << >>
      BY <1>1, <1>3, <2>1, NothingCarried DEF OwnCarriers
    <3>2. SplicedText(s, inner, << >>) = Text(s)
      BY <3>1, NothingSpliced
    <3>3. Spliced(s) = Text(s)
      BY <2>1 DEF Spliced
    <3> QED
      BY <3>1, <3>2, <3>3
  <2>2. CASE needs # << >>
    <3>1. Spliced(s) = Splice(Text(s), InOrder(Chunks(s, needs)))
      BY <2>2 DEF Spliced
    <3>2. Splice(Text(s), InOrder(Chunks(s, needs))) = SplicedText(s, inner, Carriers(needs))
      BY <1>1, <1>3, SplicedIs
    <3> QED
      BY <1>1, <3>1, <3>2
  <2> QED
    BY <2>1, <2>2
<1>5. OracleReads(SplicedText(s, inner, more)) = Text(GrownQuery(FoldedQuery(s), inner, more))
  BY <1>3, SplicedReads
<1> QED
  BY <1>1, <1>2, <1>4, <1>5

LEMMA SplicingReads ==
  ASSUME Inv
  PROVE  SpliceReadsAsInjected
<1> SUFFICES ASSUME kind = "oracle", plan.path = "join"
             PROVE  OracleReads(Spliced(stmt)) = Text(plan.rewritten)
  BY DEF SpliceReadsAsInjected
<1>1. /\ kind \in Dialects /\ stmt \in StatementsOver(Written) /\ HasLists(stmt)
  <2>1. kind \in Kinds /\ stmt \in Reads(kind) /\ kind # "postgres"
    BY DEF Inv
  <2> QED
    BY <2>1, ReadsAssumption, ReadsAre
<1>2. plan = PrepareRead(kind, stmt)
  BY DEF Inv, NoPlan
<1>3. PICK s \in StatementsOver(Written), k \in Dialects : s = stmt /\ k = kind
  BY <1>1
<1>4. PlanJoin(k, s, plan)
  BY <1>2, <1>3, PlanIs DEF PlanSingle, PlanPlain
<1>5. PICK needs \in Seq(Needs) :
        /\ needs = Needed(VisibleOrigins(k, s))
        /\ plan.rewritten = GrownQuery(AsRead(k, s), InnerOf(s, needs), Carriers(needs))
  BY <1>3, <1>4, JoinPlanIs
<1>6. AsRead(k, s) = FoldedQuery(s)
  BY <1>3 DEF AsRead
<1>7. OracleReads(Spliced(s))
        = Text(GrownQuery(FoldedQuery(s), InnerOf(s, needs), Carriers(needs)))
  BY <1>1, <1>3, <1>5, SplicedStatement
<1> QED
  BY <1>3, <1>5, <1>6, <1>7

\* On Oracle the columns are spliced into the user's own text, at places that were
\* counted in it as it came (prepareJoinOriginsOracle, buildSplicedSQL). Whatever
\* lists, tables and derived tables the statement has, and whichever of them need
\* keys, the text then reads, with Oracle's upper case for what is not quoted, as
\* the statement with the hidden columns at the end of the lists they belong to.
THEOREM SplicesReadRight == Spec => []SpliceReadsAsInjected
<1>1. Inv => SpliceReadsAsInjected
  BY SplicingReads
<1> QED
  BY <1>1, Invariance, PTL

=============================================================================
