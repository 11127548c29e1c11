---------------------------- MODULE OracleSplice ----------------------------
(***************************************************************************)
(* How the Oracle pass writes what JoinOrigins!Inject describes            *)
(* (joinorigin_oracle.go).  The other three dialects change the syntax     *)
(* tree and print it; here there is no printer, and the hidden columns are *)
(* spliced into the user's own text, behind the select list they belong    *)
(* to.  Every place is counted in the text as it came, and so the pieces   *)
(* have to go in from left to right in a single pass.                      *)
(*                                                                         *)
(* A text is a sequence of tokens: what stands for a whole select item, a  *)
(* name or a keyword is one token, and positions count tokens where the    *)
(* code counts runes.                                                      *)
(***************************************************************************)
EXTENDS JoinOrigins

Word(word) == [kind |-> "word", is |-> word]
Spelled(item) == [kind |-> "item", is |-> item]
Quoted(item) == [kind |-> "quoted", is |-> item]
Identifier(name) == [kind |-> "name", is |-> name]

Comma == Word(",")

\* The texts, with commas between them.
CommaSeparated(texts) ==
  FlattenSeq([i \in DOMAIN texts |->
                IF i = 1 THEN texts[i] ELSE <<Comma>> \o texts[i]])

ListText(items) ==
  CommaSeparated([i \in DOMAIN items |-> <<Spelled(items[i])>>])

TableText(ref) ==
  <<Word(ref.schema), Identifier(ref.name), Identifier(ref.alias)>>

\* Its shape and what follows FROM are no more than marks.
QueryText(query, entries) ==
  <<Word("SELECT"), Word(query.shape)>> \o ListText(query.items)
    \o <<Word("FROM")>> \o CommaSeparated(entries)
    \o <<Word(IF query.outer THEN "LEFT JOIN" ELSE "JOIN"),
         Word(IF query.where THEN "WHERE" ELSE ";")>>

InnerText(query) ==
  QueryText(query, [i \in DOMAIN query.from |-> TableText(query.from[i])])

RefText(ref) ==
  IF IsDerived(ref)
  THEN <<Word("(")>> \o InnerText(ref.query) \o <<Word(")"), Identifier(ref.alias)>>
  ELSE TableText(ref)

Text(query) ==
  QueryText(query, [i \in DOMAIN query.from |-> RefText(query.from[i])])

----------------------------------------------------------------------------
(* Where the pieces go *)

\* The stop token of a statement's select list, counted from its beginning.
ListStop(query) == 2 + Len(ListText(query.items))

\* The tokens in front of the query of the i-th entry of FROM.
BeforeDerived(query, i) ==
  LET before == [j \in 1..i - 1 |-> RefText(query.from[j]) \o <<Comma>>]
  IN  ListStop(query) + 1 + Len(FlattenSeq(before)) + 1

Chunk(pos, carriers) ==
  [pos |-> pos,
   text |-> FlattenSeq([i \in DOMAIN carriers |-> <<Comma, Quoted(carriers[i])>>])]

\* One for the outer list, and one for each derived table that has to expose
\* a key, once for all the tables in it; a map in the code.
Chunks(stmt, needs) ==
  LET Own(i) == CarriersWithin(stmt.from[i].alias, needs)
  IN  {Chunk(ListStop(stmt), Carriers(needs))}
        \cup {Chunk(BeforeDerived(stmt, i) + ListStop(stmt.from[i].query),
                    Own(i)) :
                i \in {j \in DOMAIN stmt.from :
                         IsDerived(stmt.from[j]) /\ Own(j) # << >>}}

Enumerations(chunks) ==
  {seq \in [1..Cardinality(chunks) -> chunks] : ToSet(seq) = chunks}

\* Mutant: the order in which a map hands its values out, here from the last.
InOrderAsFound(chunks) ==
  CHOOSE seq \in Enumerations(chunks) :
    \A i, j \in DOMAIN seq : i < j => seq[i].pos > seq[j].pos

InOrder(chunks) ==
  CHOOSE seq \in Enumerations(chunks) :
    \A i, j \in DOMAIN seq : i < j => seq[i].pos < seq[j].pos

\* Mutant: piece by piece, without regard to how the text has grown.
SpliceGrowing(text, chunks) ==
  FoldLeft(LAMBDA out, chunk :
             SubSeq(out, 1, chunk.pos) \o chunk.text
               \o SubSeq(out, chunk.pos + 1, Len(out)),
           text, chunks)

\* The pieces go in from left to right, each behind what stands between the
\* one before it and its own place.
Splice(text, chunks) ==
  LET Prev(k) == IF k = 1 THEN 0 ELSE chunks[k - 1].pos
      last == chunks[Len(chunks)].pos
  IN  FlattenSeq([k \in DOMAIN chunks |->
                    SubSeq(text, Prev(k) + 1, chunks[k].pos) \o chunks[k].text])
        \o SubSeq(text, last + 1, Len(text))

Spliced(stmt) ==
  LET needs == Needed(VisibleOrigins("oracle", stmt))
  IN  IF needs = << >> THEN Text(stmt)
      ELSE Splice(Text(stmt), InOrder(Chunks(stmt, needs)))

----------------------------------------------------------------------------

\* What Oracle makes of a text: names in upper case unless they are quoted.
OracleReading(token) ==
  CASE token.kind = "word" -> token
    [] token.kind = "name" -> Identifier(Folded(token.is))
    [] token.kind = "quoted" -> Spelled(token.is)
    [] token.kind = "item" ->
         Spelled([token.is EXCEPT !.of = Folded(@), !.name = Folded(@),
                                  !.as = Folded(@)])

OracleReads(text) == [i \in DOMAIN text |-> OracleReading(text[i])]

=============================================================================
