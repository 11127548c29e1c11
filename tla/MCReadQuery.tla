---------------------------- MODULE MCReadQuery ----------------------------
(* Statements over three small tables, one or two of them, or a derived one,  *)
(* and a few over tables of other schemas, two derived tables and outer joins. *)
EXTENDS ReadQuery

U == <<"U">>
L == <<"L">>
D == <<"D">>
O == <<"O">>
Users == <<"USERS">>
Lines == <<"LINES">>
Logs == <<"LOGS">>
Id == <<"ID">>
Name == <<"NAME">>
Bio == <<"BIO">>
Qty == <<"QTY">>
Seqno == <<"SEQ">>
Msg == <<"MSG">>

\* For the tables of other schemas and for names of several words.
E == <<"E">>
B == <<"B">>
BC == <<"B", "C">>
Notes == <<"NOTES">>
Parts == <<"PARTS">>
CId == <<"C", "ID">>

MCUpper ==
  [w \in {"U", "L", "D", "O", "USERS", "LINES", "LOGS", "ID", "NAME", "BIO",
          "QTY", "SEQ", "MSG", "E", "B", "C", "NOTES", "PARTS", "AGE"} |-> w]
    @@ [w \in {"u", "users"} |-> IF w = "u" THEN "U" ELSE "USERS"]

\* A key of one column at the beginning, a key of two that is not, and none; a
\* key whose name is of two words.  In another schema, or given by WITH, one
\* table with a namesake and one without.
MCCatalog ==
  [t \in ({Home} \X {Users, Lines, Logs, Parts})
          \cup ({"other", "with"} \X {Users, Notes}) |->
     CASE t = <<Home, Users>> -> [columns |-> <<Id, Name, Bio>>, key |-> <<Id>>]
       [] t[2] = Lines -> [columns |-> <<Qty, Id, Seqno>>, key |-> <<Seqno, Id>>]
       [] t[2] = Logs -> [columns |-> <<Msg>>, key |-> << >>]
       [] t[2] = Parts -> [columns |-> <<CId, Name>>, key |-> <<CId>>]
       [] OTHER -> [columns |-> <<Name, Id>>, key |-> <<Name>>]]

\* One table gains a column in front of the others and loses one, another loses
\* its first.
Age == <<"AGE">>
MCAltered ==
  [MCCatalog EXCEPT ![Home, Users].columns = <<Age, Id, Bio>>,
                    ![Home, Lines].columns = <<Id, Seqno>>]

\* Values of two columns are long, and one of these is of unbounded type; a
\* third is a time.
Times == {Name}
Lobs == {Bio}
Bigs == {Bio, Qty}

At(alias, table) == Table(alias, Home, table)
Plain(of, name) == Column(of, name, Nameless)

----------------------------------------------------------------------------

InnerLists ==
  {<<Plain(O, Id)>>, <<Plain(Nameless, Name), Plain(O, Id)>>,
   <<Column(O, Name, Id)>>, <<Expression(Id), Plain(O, Name)>>,
   <<Star(O)>>, <<Plain(O, Seqno), Plain(O, Id)>>,
   <<Plain(L, Qty), Column(O, Bio, Name), Plain(O, Id)>>}

\* Unions of two columns.
Shaped(query, shape) ==
  [query EXCEPT !.shape = shape, !.width = IF shape = "union" THEN 2 ELSE 0]

Inner ==
  {q \in {Shaped(Select(from, items), shape) :
            shape \in {"plain", "distinct", "union"},
            from \in {<<At(O, Users)>>, <<At(O, Lines)>>,
                      <<At(O, Users), At(L, Lines)>>},
            items \in InnerLists} : Runs(MCCatalog, q)}

Froms ==
  {<<At(U, t)>> : t \in {Users, Lines, Logs}}
    \cup {<<At(U, t), At(L, u)>> : t \in {Users, Lines, Logs},
                                   u \in {Users, Lines}}
    \cup {<<Derived(D, q)>> : q \in Inner}
    \cup {<<At(L, t), Derived(D, q)>> : t \in {Users, Lines}, q \in Inner}

Items ==
  {Star(Nameless), Star(U), Star(D), Plain(U, Id), Plain(U, Name),
   Plain(L, Id), Column(L, Qty, Name), Plain(D, Id), Plain(D, Name),
   Plain(Nameless, Name), Expression(Id)}

Lists == {<<a>> : a \in Items} \cup {<<a, b>> : a, b \in Items}

\* Over each FROM, the lists that name no alias but its own.
Queries(froms) ==
  UNION {{Select(from, items) :
            items \in {l \in Lists : \A i \in DOMAIN l :
                                     l[i].of \in Aliases(from) \cup {Nameless}}} :
           from \in froms}

\* What the dialects do not have: natural joins in MSSQL, WITH in a derived table
\* in MSSQL and, as its parser has it, MySQL, a bare star beside other items in
\* Oracle, or behind them in MySQL.  Natural joins of Oracle are left out: there
\* a column they merge may not be qualified.
Has(dialect, s) ==
  /\ \A ref \in ToSet(s.from) :
       IsDerived(ref) /\ "with" \in {r.schema : r \in
                                      {q \in ToSet(ref.query.from) : ~IsDerived(q)}}
         => dialect \in {"postgres", "oracle"}
  /\ s.natural => dialect \in {"mysql", "postgres"} /\ Len(s.from) = 2
  /\ \A i \in DOMAIN s.items :
       s.items[i] = Star(Nameless) =>
         /\ dialect = "oracle" => Len(s.items) = 1
         /\ dialect = "mysql" => i = 1

OneTable == {f \in Froms : Len(f) = 1 /\ ~IsDerived(f[1])}

Tables == {f \in Froms : \A i \in DOMAIN f : ~IsDerived(f[i])}

Aggregates ==
  {[q EXCEPT !.shape = shape, !.where = where] :
     q \in Queries(OneTable), shape \in {"distinct", "grouped"}, where \in BOOLEAN}

\* Unions of up to three columns.
Unions ==
  {[q EXCEPT !.shape = "union", !.width = width, !.where = where] :
     q \in Queries(OneTable), width \in 1..3, where \in BOOLEAN}

NaturalJoins == {[q EXCEPT !.natural = TRUE] : q \in Queries(Tables)}

\* Tables of another schema, alone, joined, and in a derived table; there also
\* the tables of a WITH.
Foreign ==
  Queries({<<Table(U, "other", t)>> : t \in {Users, Notes}}
    \cup {<<Table(U, "other", t), At(L, Lines)>> : t \in {Users, Notes}}
    \cup {<<Derived(D, Select(<<Table(O, schema, t)>>, items))>> :
            schema \in {"other", "with"}, t \in {Users, Notes},
            items \in {<<Plain(O, Id)>>,
                      <<Plain(Nameless, Name), Plain(O, Id)>>}})
    \cup {[Select(<<Table(U, "other", t)>>, <<Star(Nameless)>>)
             EXCEPT !.shape = "grouped", !.where = TRUE] : t \in {Users, Notes}}

\* Two derived tables, in the order of FROM or against it.
Twins ==
  {Select(<<Derived(D, q), Derived(E, r)>>, items) :
     q, r \in {Select(<<At(O, t)>>, inner) :
                 t \in {Users, Lines}, inner \in {<<Plain(O, Id)>>,
                                                <<Expression(Name), Plain(O, Id)>>}},
     items \in {<<Plain(D, Id)>>, <<Plain(E, Id)>>, <<Plain(D, Id), Plain(E, Id)>>,
               <<Plain(E, Id), Plain(D, Id)>>, <<Plain(E, Id), Expression(Id)>>}}

\* Names of several words in one derived table, with and without a collision.
Worded ==
  {Select(<<Derived(D, Select(<<At(a, Parts), At(b, Users)>>,
                              <<Column(a, CId, Qty), Plain(b, Id)>>))>>, items) :
     a \in {B, BC}, b \in {B, BC},
     items \in {<<Plain(D, Qty)>>, <<Plain(D, Id)>>,
               <<Plain(D, Qty), Plain(D, Id)>>, <<Plain(D, Id), Plain(D, Qty)>>}}

\* Lists of three, with keys of two columns and carriers in two lists.
Triples ==
  {Select(from, items) :
     from \in {<<At(U, Lines), At(L, Users)>>,
              <<At(L, Lines), Derived(D, Select(<<At(O, Lines)>>,
                                              <<Plain(O, Id), Plain(O, Qty)>>))>>},
     items \in [1..3 -> {Star(U), Plain(L, Id), Plain(D, Id), Plain(U, Qty),
                        Expression(Id)}]}

OuterJoins ==
  {[q EXCEPT !.outer = TRUE] :
     q \in Queries({<<At(U, t), At(L, u)>> : t, u \in {Users, Lines}}
             \cup {<<At(L, Lines), Derived(D, Select(<<At(O, t)>>,
                                                   <<Plain(O, Id)>>))>> :
                     t \in {Users, Lines}})}

Statements ==
  {s \in Queries(Froms) \cup Aggregates \cup Unions \cup NaturalJoins
         \cup Triples \cup OuterJoins \cup Foreign \cup Twins
         \cup Worded : Runs(MCCatalog, s)}

MCReads(dialect) == {s \in Statements : Has(dialect, s)}

----------------------------------------------------------------------------
\* Names that are not in upper case: an alias, a table, or both.

SmallU == <<"u">>

MCSmallReads(dialect) ==
  {Select(<<At(alias, table)>>, <<Plain(of, Id)>>) :
     alias \in {U, SmallU}, table \in {Users, <<"users">>},
     of \in {Nameless, U, SmallU}}

=============================================================================
