------------------------- MODULE JoinOrigins_proofs -------------------------
(***************************************************************************)
(* Facts for every catalog and every statement: about sequences that are   *)
(* put together from pieces, by induction; about what a target returns for *)
(* a statement (SqlSelect); about the path of a column and the key columns *)
(* that go with it (JoinOrigins); and about the text in which Oracle is    *)
(* sent them (OracleSplice).                                               *)
(*                                                                         *)
(* Induction is over sets: the numbers, or sequences, for which a fact     *)
(* holds.                                                                  *)
(***************************************************************************)
EXTENDS OracleSplice, SequenceTheorems, FiniteSetTheorems, WellFoundedInduction,
        TLAPS

----------------------------------------------------------------------------
(* Induction *)

\* A set with zero and every successor has every number: there is no least one
\* outside it.
LEMMA NumbersInduction ==
  ASSUME NEW S, 0 \in S, \A n \in Nat : n \in S => n + 1 \in S
  PROVE  Nat \subseteq S
<1> DEFINE T == Nat \ S
<1>1. SUFFICES ASSUME T # {} PROVE FALSE
  OBVIOUS
<1>2. PICK n \in T : \A m \in T : ~(<<m, n>> \in OpToRel(<, Nat))
  BY <1>1, NatLessThanWellFounded, WFMin
<1>3. n # 0
  OBVIOUS
<1>4. n - 1 \in Nat /\ n - 1 \notin S
  BY <1>3
<1>5. <<n - 1, n>> \in OpToRel(<, Nat)
  BY <1>4 DEF OpToRel
<1> QED
  BY <1>2, <1>4, <1>5

\* The first elements of a sequence, a sequence and one more element, and two
\* sequences one behind the other, element by element.
LEMMA Beginning ==
  ASSUME NEW S, NEW s \in Seq(S), NEW m \in 0..Len(s)
  PROVE  /\ SubSeq(s, 1, m) \in Seq(S) /\ Len(SubSeq(s, 1, m)) = m
         /\ DOMAIN SubSeq(s, 1, m) = 1..m
         /\ \A i \in 1..m : SubSeq(s, 1, m)[i] = s[i]
<1>1. m \in Nat /\ \A i \in 1..m : i \in 1..Len(s)
  OBVIOUS
<1>2. \A i \in 1..m : s[i] \in S
  BY <1>1, ElementOfSeq
<1> QED
  BY <1>1, <1>2

LEMMA Appended ==
  ASSUME NEW S, NEW s \in Seq(S), NEW e \in S, NEW n \in Nat, n = Len(s)
  PROVE  /\ Append(s, e) \in Seq(S) /\ Len(Append(s, e)) = n + 1
         /\ DOMAIN Append(s, e) = 1..(n + 1) /\ DOMAIN s = 1..n
         /\ Append(s, e)[n + 1] = e
         /\ \A i \in 1..n : Append(s, e)[i] = s[i]
BY AppendProperties

LEMMA Joined ==
  ASSUME NEW S, NEW s \in Seq(S), NEW t \in Seq(S), NEW l \in Nat, NEW m \in Nat,
         l = Len(s), m = Len(t)
  PROVE  /\ s \o t \in Seq(S) /\ Len(s \o t) = l + m
         /\ DOMAIN (s \o t) = 1..(l + m) /\ DOMAIN s = 1..l /\ DOMAIN t = 1..m
         /\ \A i \in 1..l : (s \o t)[i] = s[i]
         /\ \A i \in 1..m : (s \o t)[l + i] = t[i]
OBVIOUS

\* A sequence that is not empty is a shorter one and its last element.
LEMMA LastApart ==
  ASSUME NEW S, NEW s \in Seq(S), NEW n \in Nat, Len(s) = n + 1
  PROVE  /\ SubSeq(s, 1, n) \in Seq(S) /\ Len(SubSeq(s, 1, n)) = n
         /\ s[n + 1] \in S
         /\ s = Append(SubSeq(s, 1, n), s[n + 1])
<1>1. n + 1 \in 1..Len(s) /\ \A i \in 1..n : i \in 1..Len(s)
  OBVIOUS
<1>2. s[n + 1] \in S /\ \A i \in 1..n : s[i] \in S
  BY <1>1, ElementOfSeq
<1>3. /\ SubSeq(s, 1, n) \in Seq(S) /\ Len(SubSeq(s, 1, n)) = n
      /\ \A i \in 1..n : SubSeq(s, 1, n)[i] = s[i]
  BY <1>2
<1> DEFINE front == SubSeq(s, 1, n)
<1> HIDE DEF front
<1>4. /\ Append(front, s[n + 1]) \in Seq(S)
      /\ Len(Append(front, s[n + 1])) = Len(s)
      /\ \A i \in 1..Len(s) : s[i] = Append(front, s[n + 1])[i]
  <2>1. front \in Seq(S) /\ Len(front) = n /\ \A i \in 1..n : front[i] = s[i]
    BY <1>3 DEF front
  <2> QED
    BY <1>2, <2>1, AppendProperties
<1> QED
  BY <1>2, <1>3, <1>4, SeqEqual DEF front

\* A set with the empty sequence that is closed under appending has every one.
LEMMA SequencesInduction ==
  ASSUME NEW S, NEW P, << >> \in P,
         \A s \in Seq(S), e \in S : s \in P => Append(s, e) \in P
  PROVE  Seq(S) \subseteq P
<1> DEFINE N == {n \in Nat : \A s \in Seq(S) : Len(s) = n => s \in P}
<1>1. 0 \in N
  OBVIOUS
<1>2. ASSUME NEW n \in Nat, n \in N
      PROVE  n + 1 \in N
  <2>1. ASSUME NEW s \in Seq(S), Len(s) = n + 1
        PROVE  s \in P
    <3> DEFINE front == SubSeq(s, 1, n)
    <3> HIDE DEF front
    <3>1. /\ front \in Seq(S) /\ Len(front) = n /\ s[n + 1] \in S
          /\ s = Append(front, s[n + 1])
      BY <2>1, LastApart DEF front
    <3>2. front \in P
      BY <1>2, <3>1
    <3> QED
      BY <3>1, <3>2
  <2> QED
    BY <2>1
<1>3. Nat \subseteq N
  <2> HIDE DEF N
  <2> QED
    BY <1>1, <1>2, NumbersInduction
<1> QED
  BY <1>3

----------------------------------------------------------------------------
(* Sequences flattened.  The library's operator is a recursive function.    *)

\* f holds, at i, the first i pieces of s put together, for i up to n.
Flattens(f, s, n) ==
  f = [i \in 1..n |-> IF i = 1 THEN s[i] ELSE f[i - 1] \o s[i]]

\* There is such a function, however many pieces there are.
LEMMA FlatteningExists ==
  ASSUME NEW s
  PROVE  \A n \in Nat : \E f : Flattens(f, s, n)
<1> DEFINE N == {n \in Nat : \E f : Flattens(f, s, n)}
<1>1. 0 \in N
  <2>1. Flattens(<< >>, s, 0)
    BY DEF Flattens
  <2> QED
    BY <2>1
<1>2. ASSUME NEW n \in Nat, n \in N
      PROVE  n + 1 \in N
  <2>1. PICK f : Flattens(f, s, n)
    BY <1>2
  <2> DEFINE g == [i \in 1..n + 1 |-> IF i = 1 THEN s[i] ELSE f[i - 1] \o s[i]]
  <2>2. \A i \in 1..n : g[i] = f[i]
    <3>1. \A i \in 1..n : f[i] = IF i = 1 THEN s[i] ELSE f[i - 1] \o s[i]
      <4> HIDE DEF g
      <4> QED BY <2>1 DEF Flattens
    <3>2. \A i \in 1..n : i \in 1..n + 1
      OBVIOUS
    <3> QED
      BY <3>1, <3>2
  <2>3. Flattens(g, s, n + 1)
    <3>1. ASSUME NEW i \in 1..n + 1, i # 1
          PROVE  f[i - 1] = g[i - 1]
      <4>1. i - 1 \in 1..n
        BY <3>1
      <4> HIDE DEF g
      <4> QED BY <2>2, <4>1
    <3>2. g = [i \in 1..n + 1 |-> IF i = 1 THEN s[i] ELSE f[i - 1] \o s[i]]
      OBVIOUS
    <3> HIDE DEF g
    <3> QED
      BY <3>1, <3>2 DEF Flattens
  <2> HIDE DEF g
  <2> QED
    BY <2>3
<1>3. Nat \subseteq N
  <2> HIDE DEF N
  <2> QED
    BY <1>1, <1>2, NumbersInduction
<1> QED
  BY <1>3

\* Two functions have one value at each of the first n numbers.
Agree(f, g, n) == \A i \in 1..n : f[i] = g[i]

\* Two of them agree as far as their pieces do.
LEMMA FlatteningUnique ==
  ASSUME NEW s, NEW t, NEW f, NEW g, NEW n \in Nat, NEW m \in Nat,
         Flattens(f, s, n), Flattens(g, t, m),
         n <= m, Agree(s, t, n)
  PROVE  Agree(f, g, n)
<1> DEFINE N == {i \in Nat : i \in 1..n => f[i] = g[i]}
<1>1. \A i \in 1..n : /\ f[i] = IF i = 1 THEN s[i] ELSE f[i - 1] \o s[i]
                      /\ g[i] = IF i = 1 THEN t[i] ELSE g[i - 1] \o t[i]
  <2>1. \A i \in 1..n : f[i] = IF i = 1 THEN s[i] ELSE f[i - 1] \o s[i]
    BY DEF Flattens
  <2>2. \A i \in 1..m : g[i] = IF i = 1 THEN t[i] ELSE g[i - 1] \o t[i]
    BY DEF Flattens
  <2> QED
    BY <2>1, <2>2
<1>2. 0 \in N
  OBVIOUS
<1>3. ASSUME NEW i \in Nat, i \in N
      PROVE  i + 1 \in N
  <2>1. ASSUME i + 1 \in 1..n, i + 1 # 1
        PROVE  f[(i + 1) - 1] = g[(i + 1) - 1]
    BY <1>3, <2>1
  <2> QED
    BY <1>1, <2>1 DEF Agree
<1>4. Nat \subseteq N
  <2> HIDE DEF N
  <2> QED
    BY <1>2, <1>3, NumbersInduction
<1> QED
  BY <1>4 DEF Agree

\* Nothing flattened, and the step from the pieces before the last to all.
LEMMA FlattenEmpty == FlattenSeq(<< >>) = << >>
BY DEF FlattenSeq

LEMMA FlattenIs ==
  ASSUME NEW S, NEW s \in Seq(S), s # << >>
  PROVE  \E f : Flattens(f, s, Len(s)) /\ FlattenSeq(s) = f[Len(s)]
<1>1. Len(s) \in Nat /\ Len(s) # 0
  OBVIOUS
<1>2. \E f : f = [i \in 1..Len(s) |-> IF i = 1 THEN s[i] ELSE f[i - 1] \o s[i]]
  BY <1>1, FlatteningExists DEF Flattens
<1> DEFINE g == CHOOSE f : f = [i \in 1..Len(s) |->
                                  IF i = 1 THEN s[i] ELSE f[i - 1] \o s[i]]
<1>3. g = [i \in 1..Len(s) |-> IF i = 1 THEN s[i] ELSE g[i - 1] \o s[i]]
  BY <1>2
<1>4. FlattenSeq(s) = g[Len(s)]
  BY <1>1 DEF FlattenSeq
<1> QED
  BY <1>3, <1>4 DEF Flattens

LEMMA FlattenFirst ==
  ASSUME NEW S, NEW x \in Seq(S)
  PROVE  FlattenSeq(<<x>>) = x
<1>1. <<x>> \in Seq(Seq(S)) /\ <<x>> # << >> /\ Len(<<x>>) = 1 /\ <<x>>[1] = x
  OBVIOUS
<1>2. PICK f : Flattens(f, <<x>>, 1) /\ FlattenSeq(<<x>>) = f[1]
  BY <1>1, FlattenIs
<1>3. f[1] = <<x>>[1]
  BY <1>2 DEF Flattens
<1> QED
  BY <1>1, <1>2, <1>3

LEMMA FlattenStep ==
  ASSUME NEW S, NEW s \in Seq(Seq(S)), NEW x \in Seq(S), s # << >>
  PROVE  FlattenSeq(Append(s, x)) = FlattenSeq(s) \o x
<1>1. PICK n \in Nat : Len(s) = n /\ n # 0
  BY EmptySeq
<1>2. PICK t \in Seq(Seq(S)) : t = Append(s, x)
  BY AppendProperties
<1>3. PICK m \in Nat : m = n + 1
  OBVIOUS
<1>4. t # << >> /\ Len(t) = m /\ t[m] = x /\ \A i \in 1..n : s[i] = t[i]
  BY <1>1, <1>2, <1>3, AppendProperties
<1>5. PICK f : Flattens(f, s, n) /\ FlattenSeq(s) = f[n]
  BY <1>1, FlattenIs
<1>6. PICK g : Flattens(g, t, m) /\ FlattenSeq(t) = g[m]
  BY <1>4, FlattenIs
<1>7. Agree(f, g, n)
  <2>1. n <= m
    BY <1>3
  <2>2. Agree(s, t, n)
    BY <1>4 DEF Agree
  <2> QED
    BY <1>5, <1>6, <2>1, <2>2, FlatteningUnique
<1>8. g[m] = IF m = 1 THEN t[m] ELSE g[m - 1] \o t[m]
  <2>1. m \in 1..m
    BY <1>1, <1>3
  <2> QED
    BY <1>6, <2>1 DEF Flattens
<1>9. m # 1 /\ m - 1 = n /\ n \in 1..n
  BY <1>1, <1>3
<1>10. f[n] = g[n]
  BY <1>7, <1>9 DEF Agree
<1>11. g[m] = g[n] \o t[m]
  BY <1>8, <1>9
<1> QED
  BY <1>2, <1>4, <1>5, <1>6, <1>10, <1>11

\* Sequences flattened are a sequence.
LEMMA FlattenType ==
  ASSUME NEW S, NEW s \in Seq(Seq(S))
  PROVE  FlattenSeq(s) \in Seq(S)
<1> DEFINE P == {r \in Seq(Seq(S)) : FlattenSeq(r) \in Seq(S)}
<1>1. << >> \in P
  BY FlattenEmpty, EmptySeq
<1>2. ASSUME NEW r \in Seq(Seq(S)), NEW x \in Seq(S), r \in P
      PROVE  Append(r, x) \in P
  <2>1. Append(r, x) \in Seq(Seq(S))
    OBVIOUS
  <2>2. CASE r = << >>
    <3>1. Append(r, x) = <<x>>
      BY <2>2
    <3> QED
      BY <2>1, <3>1, FlattenFirst
  <2>3. CASE r # << >>
    <3>1. FlattenSeq(r) \in Seq(S)
      BY <1>2
    <3>2. FlattenSeq(r) \o x \in Seq(S)
      BY <3>1
    <3> QED
      BY <2>1, <2>3, <3>2, FlattenStep
  <2> QED
    BY <2>2, <2>3
<1>3. Seq(Seq(S)) \subseteq P
  <2> HIDE DEF P
  <2> QED
    BY <1>1, <1>2, SequencesInduction
<1> QED
  BY <1>3

LEMMA FlattenAppend ==
  ASSUME NEW S, NEW s \in Seq(Seq(S)), NEW x \in Seq(S)
  PROVE  FlattenSeq(Append(s, x)) = FlattenSeq(s) \o x
<1>1. CASE s = << >>
  <2>1. Append(s, x) = <<x>> /\ FlattenSeq(s) \o x = x
    BY <1>1, FlattenEmpty
  <2> QED
    BY <2>1, FlattenFirst
<1>2. CASE s # << >>
  BY <1>2, FlattenStep
<1> QED
  BY <1>1, <1>2

\* Two sequences of pieces, one behind the other.
LEMMA FlattenConcat ==
  ASSUME NEW S, NEW s \in Seq(Seq(S)), NEW t \in Seq(Seq(S))
  PROVE  FlattenSeq(s \o t) = FlattenSeq(s) \o FlattenSeq(t)
<1> DEFINE P == {r \in Seq(Seq(S)) :
                   FlattenSeq(s \o r) = FlattenSeq(s) \o FlattenSeq(r)}
<1>1. << >> \in P
  <2>1. s \o << >> = s /\ FlattenSeq(s) \o << >> = FlattenSeq(s)
    BY FlattenType, ConcatEmptySeq
  <2> QED
    BY <2>1, FlattenEmpty, EmptySeq
<1>2. ASSUME NEW r \in Seq(Seq(S)), NEW x \in Seq(S), r \in P
      PROVE  Append(r, x) \in P
  <2>1. s \o Append(r, x) = Append(s \o r, x)
    <3>1. Append(r, x) = r \o <<x>> /\ Append(s \o r, x) = (s \o r) \o <<x>>
      BY AppendIsConcat, ConcatProperties
    <3>2. <<x>> \in Seq(Seq(S))
      OBVIOUS
    <3> QED
      BY <3>1, <3>2, ConcatAssociative
  <2>2. s \o r \in Seq(Seq(S))
    BY ConcatProperties
  <2>3. FlattenSeq(s \o Append(r, x)) = (FlattenSeq(s) \o FlattenSeq(r)) \o x
    BY <1>2, <2>1, <2>2, FlattenAppend
  <2>4. FlattenSeq(Append(r, x)) = FlattenSeq(r) \o x
    BY FlattenAppend
  <2>5. FlattenSeq(s) \in Seq(S) /\ FlattenSeq(r) \in Seq(S)
    BY FlattenType
  <2>6. (FlattenSeq(s) \o FlattenSeq(r)) \o x = FlattenSeq(s) \o (FlattenSeq(r) \o x)
    BY <2>5, ConcatAssociative
  <2> QED
    BY <2>3, <2>4, <2>6, AppendProperties
<1>3. Seq(Seq(S)) \subseteq P
  <2> HIDE DEF P
  <2> QED
    BY <1>1, <1>2, SequencesInduction
<1> QED
  BY <1>3

----------------------------------------------------------------------------
(* Where the pieces are *)

\* How much is before the k-th piece.
Before(s, k) == Len(FlattenSeq(SubSeq(s, 1, k - 1)))

\* Each element of each piece is somewhere, and everything is one.
LaidOut(s) ==
  /\ \A k \in DOMAIN s : \A j \in DOMAIN s[k] :
       /\ Before(s, k) + j \in DOMAIN FlattenSeq(s)
       /\ FlattenSeq(s)[Before(s, k) + j] = s[k][j]
  /\ \A i \in DOMAIN FlattenSeq(s) :
       \E k \in DOMAIN s : \E j \in DOMAIN s[k] : i = Before(s, k) + j

LEMMA BeforeType ==
  ASSUME NEW S, NEW s \in Seq(Seq(S)), NEW k \in 1..Len(s) + 1
  PROVE  Before(s, k) \in Nat
<1>1. SubSeq(s, 1, k - 1) \in Seq(Seq(S))
  <2>1. \A i \in 1..k - 1 : i \in 1..Len(s) /\ s[i] \in Seq(S)
    BY ElementOfSeq
  <2> QED
    BY <2>1
<1> QED
  BY <1>1, FlattenType DEF Before

LEMMA BeforeAppended ==
  ASSUME NEW S, NEW s \in Seq(Seq(S)), NEW x \in Seq(S), NEW k \in 1..Len(s)
  PROVE  /\ Before(Append(s, x), k) = Before(s, k)
         /\ Before(Append(s, x), Len(s) + 1) = Len(FlattenSeq(s))
<1>1. PICK n \in Nat : Len(s) = n
  OBVIOUS
<1>2. PICK t \in Seq(Seq(S)) : t = Append(s, x)
  BY AppendProperties
<1>3. Len(t) = n + 1 /\ \A i \in 1..n : t[i] = s[i]
  BY <1>1, <1>2, AppendProperties
<1>4. \A m \in 0..n : SubSeq(t, 1, m) = SubSeq(s, 1, m)
  <2> TAKE m \in 0..n
  <2>1. m \in 0..Len(s) /\ m \in 0..Len(t)
    BY <1>1, <1>3
  <2>2. /\ SubSeq(s, 1, m) \in Seq(Seq(S)) /\ Len(SubSeq(s, 1, m)) = m
        /\ \A i \in 1..m : SubSeq(s, 1, m)[i] = s[i]
    BY <2>1, Beginning
  <2>3. /\ SubSeq(t, 1, m) \in Seq(Seq(S)) /\ Len(SubSeq(t, 1, m)) = m
        /\ \A i \in 1..m : SubSeq(t, 1, m)[i] = t[i]
    BY <2>1, Beginning
  <2>4. \A i \in 1..m : SubSeq(t, 1, m)[i] = SubSeq(s, 1, m)[i]
    BY <1>3, <2>2, <2>3
  <2> QED
    BY <2>2, <2>3, <2>4, SeqEqual
<1>5. SubSeq(s, 1, n) = s
  BY <1>1, SubSeqFull
<1>6. k - 1 \in 0..n /\ (n + 1) - 1 = n /\ n \in 0..n
  BY <1>1
<1> QED
  BY <1>1, <1>2, <1>4, <1>5, <1>6 DEF Before

LEMMA FlattenLaidOut ==
  ASSUME NEW S, NEW s \in Seq(Seq(S))
  PROVE  LaidOut(s)
<1> DEFINE P == {r \in Seq(Seq(S)) : LaidOut(r)}
<1>1. << >> \in P
  BY FlattenEmpty, EmptySeq DEF LaidOut
<1>2. ASSUME NEW r \in Seq(Seq(S)), NEW x \in Seq(S), r \in P
      PROVE  Append(r, x) \in P
  <2>1. PICK n \in Nat : n = Len(r)
    OBVIOUS
  <2>2. PICK t \in Seq(Seq(S)) : t = Append(r, x)
    BY AppendProperties
  <2>3. /\ DOMAIN r = 1..n /\ DOMAIN t = 1..(n + 1) /\ t[n + 1] = x
        /\ \A i \in 1..n : t[i] = r[i]
    BY <2>1, <2>2, Appended
  <2>4. PICK a \in Seq(S) : a = FlattenSeq(r)
    BY FlattenType
  <2>5. PICK b \in Seq(S) : b = FlattenSeq(t) /\ b = a \o x
    BY <2>2, <2>4, FlattenType, FlattenAppend
  <2>6. PICK l \in Nat, m \in Nat : l = Len(a) /\ m = Len(x)
    BY LenProperties
  <2>61. /\ DOMAIN a = 1..l /\ DOMAIN x = 1..m /\ DOMAIN b = 1..(l + m)
         /\ \A i \in 1..l : b[i] = a[i]
         /\ \A i \in 1..m : b[l + i] = x[i]
    BY <2>5, <2>6, Joined
  <2>7. \A k \in 1..n : Before(t, k) = Before(r, k)
    BY <2>1, <2>2, BeforeAppended
  <2>8. Before(t, n + 1) = l
    <3>1. CASE n = 0
      <4>1. r = << >> /\ l = 0
        BY <2>1, <2>4, <2>6, <3>1, FlattenEmpty, EmptySeq
      <4>2. SubSeq(t, 1, (n + 1) - 1) = << >>
        BY <3>1, SubSeqEmpty
      <4> QED
        BY <4>1, <4>2, FlattenEmpty, EmptySeq DEF Before
    <3>2. CASE n # 0
      BY <2>1, <2>2, <2>4, <2>6, <3>2, BeforeAppended
    <3> QED
      BY <3>1, <3>2
  <2>9. LaidOut(r)
    BY <1>2
  <2>10. \A k \in 1..n : Before(r, k) \in Nat
    BY <2>1, BeforeType
  <2>11. \A k \in 1..n : \A j \in DOMAIN t[k] :
           /\ Before(t, k) + j \in 1..l + m
           /\ b[Before(t, k) + j] = t[k][j]
    <3>1. \A k \in 1..n : \A j \in DOMAIN r[k] :
            /\ Before(r, k) + j \in 1..l
            /\ a[Before(r, k) + j] = r[k][j]
      BY <2>3, <2>4, <2>61, <2>9 DEF LaidOut
    <3>2. 1..l \subseteq 1..(l + m)
      OBVIOUS
    <3> QED
      BY <2>3, <2>61, <2>7, <3>1, <3>2
  <2>12. \A j \in DOMAIN t[n + 1] : /\ Before(t, n + 1) + j \in 1..l + m
                                    /\ b[Before(t, n + 1) + j] = t[n + 1][j]
    <3>1. \A j \in 1..m : l + j \in 1..l + m /\ b[l + j] = x[j]
      BY <2>61
    <3> QED
      BY <2>3, <2>61, <2>8, <3>1
  <2>13. ASSUME NEW i \in 1..l + m
         PROVE  \E k \in 1..n + 1 : \E j \in DOMAIN t[k] : i = Before(t, k) + j
    <3>1. CASE i \in 1..l
      <4>1. PICK k \in 1..n : \E j \in DOMAIN r[k] : i = Before(r, k) + j
        BY <2>3, <2>4, <2>61, <2>9, <3>1 DEF LaidOut
      <4>2. k \in 1..n + 1 /\ r[k] = t[k] /\ Before(t, k) = Before(r, k)
        BY <2>3, <2>7
      <4> QED
        BY <4>1, <4>2
    <3>2. CASE i \notin 1..l
      <4>1. i - l \in 1..m /\ i = l + (i - l)
        BY <3>2
      <4>2. i - l \in DOMAIN t[n + 1] /\ i = Before(t, n + 1) + (i - l)
        BY <2>3, <2>61, <2>8, <4>1
      <4>3. n + 1 \in 1..n + 1
        OBVIOUS
      <4> QED
        BY <4>2, <4>3
    <3> QED
      BY <3>1, <3>2
  <2>14. \A k \in 1..n + 1 : \A j \in DOMAIN t[k] :
           /\ Before(t, k) + j \in 1..l + m
           /\ b[Before(t, k) + j] = t[k][j]
    <3>1. \A k \in 1..n + 1 : k \in 1..n \/ k = n + 1
      OBVIOUS
    <3> QED
      BY <2>11, <2>12, <3>1
  <2>15. LaidOut(t)
    <3>1. DOMAIN FlattenSeq(t) = 1..(l + m)
      BY <2>5, <2>61
    <3> QED
      BY <2>3, <2>5, <2>13, <2>14, <3>1 DEF LaidOut
  <2> QED
    BY <2>2, <2>15
<1>3. Seq(Seq(S)) \subseteq P
  <2> HIDE DEF P
  <2> QED
    BY <1>1, <1>2, SequencesInduction
<1> QED
  BY <1>3

LEMMA FlattenElements ==
  ASSUME NEW S, NEW s \in Seq(Seq(S)), NEW i \in DOMAIN FlattenSeq(s)
  PROVE  \E k \in DOMAIN s : \E j \in DOMAIN s[k] : FlattenSeq(s)[i] = s[k][j]
<1>1. LaidOut(s)
  BY FlattenLaidOut
<1>2. PICK k \in DOMAIN s : \E j \in DOMAIN s[k] : i = Before(s, k) + j
  BY <1>1 DEF LaidOut
<1>3. PICK j \in DOMAIN s[k] : i = Before(s, k) + j
  BY <1>2
<1>4. FlattenSeq(s)[Before(s, k) + j] = s[k][j]
  BY <1>1 DEF LaidOut
<1> QED
  BY <1>3, <1>4

\* Pieces of the same lengths leave as much before each of them.
SameLengths(s, t) ==
  Len(s) = Len(t) /\ \A i \in DOMAIN s : Len(s[i]) = Len(t[i])

LEMMA FlattenLengths ==
  ASSUME NEW S, NEW T, NEW s \in Seq(Seq(S)), NEW t \in Seq(Seq(T)),
         SameLengths(s, t)
  PROVE  Len(FlattenSeq(s)) = Len(FlattenSeq(t))
<1> DEFINE P == {r \in Seq(Seq(S)) : \A u \in Seq(Seq(T)) :
                   SameLengths(r, u) => Len(FlattenSeq(r)) = Len(FlattenSeq(u))}
<1>1. << >> \in P
  <2>1. \A u \in Seq(Seq(T)) : Len(u) = 0 => u = << >>
    BY EmptySeq
  <2> QED
    BY <2>1, EmptySeq DEF SameLengths
<1>2. ASSUME NEW r \in Seq(Seq(S)), NEW x \in Seq(S), r \in P
      PROVE  Append(r, x) \in P
  <2>1. PICK n \in Nat : n = Len(r)
    OBVIOUS
  <2>2. PICK q \in Seq(Seq(S)) : q = Append(r, x)
    BY AppendProperties
  <2>3. /\ Len(q) = n + 1 /\ q[n + 1] = x /\ \A i \in 1..n : q[i] = r[i]
        /\ DOMAIN q = 1..n + 1 /\ DOMAIN r = 1..n
    BY <2>1, <2>2, Appended
  <2>4. ASSUME NEW u \in Seq(Seq(T)), SameLengths(q, u)
        PROVE  Len(FlattenSeq(q)) = Len(FlattenSeq(u))
    <3>1. Len(u) = n + 1 /\ \A i \in 1..n + 1 : Len(q[i]) = Len(u[i])
      BY <2>3, <2>4 DEF SameLengths
    <3> DEFINE v == SubSeq(u, 1, n)
    <3> HIDE DEF v
    <3>2. /\ v \in Seq(Seq(T)) /\ Len(v) = n /\ u[n + 1] \in Seq(T)
          /\ u = Append(v, u[n + 1])
      BY <3>1, LastApart DEF v
    <3>3. SameLengths(r, v)
      <4>1. \A i \in 1..n : u[i] = v[i]
        <5>1. PICK w \in Seq(T) : u = Append(v, w)
          BY <3>2
        <5> QED
          BY <3>2, <5>1, Appended
      <4>2. \A i \in 1..n : Len(r[i]) = Len(v[i])
        BY <2>3, <3>1, <4>1
      <4> QED
        BY <2>1, <2>3, <3>2, <4>2 DEF SameLengths
    <3>4. Len(FlattenSeq(r)) = Len(FlattenSeq(v))
      BY <1>2, <3>2, <3>3
    <3>5. Len(x) = Len(u[n + 1])
      BY <2>3, <3>1
    <3>6. FlattenSeq(r) \in Seq(S) /\ FlattenSeq(v) \in Seq(T)
      BY <3>2, FlattenType
    <3>7. /\ Len(FlattenSeq(q)) = Len(FlattenSeq(r)) + Len(x)
          /\ Len(FlattenSeq(u)) = Len(FlattenSeq(v)) + Len(u[n + 1])
      <4>1. /\ FlattenSeq(q) = FlattenSeq(r) \o x
            /\ FlattenSeq(u) = FlattenSeq(v) \o u[n + 1]
        BY <2>2, <3>2, FlattenAppend
      <4> QED
        BY <3>2, <3>6, <4>1, Joined, LenProperties
    <3> QED
      BY <3>4, <3>5, <3>7
  <2> QED
    BY <2>2, <2>4
<1>3. Seq(Seq(S)) \subseteq P
  <2> HIDE DEF P
  <2> QED
    BY <1>1, <1>2, SequencesInduction
<1> QED
  BY <1>3

LEMMA BeforeLengths ==
  ASSUME NEW S, NEW T, NEW s \in Seq(Seq(S)), NEW t \in Seq(Seq(T)),
         NEW k \in 1..Len(s), SameLengths(s, t)
  PROVE  Before(s, k) = Before(t, k)
<1>1. PICK n \in Nat : n = Len(s) /\ n = Len(t) /\ k - 1 \in 0..n
  BY DEF SameLengths
<1> DEFINE a == SubSeq(s, 1, k - 1)
           b == SubSeq(t, 1, k - 1)
<1>2. k - 1 \in 0..Len(s) /\ k - 1 \in 0..Len(t)
  BY <1>1
<1>3. /\ a \in Seq(Seq(S)) /\ b \in Seq(Seq(T))
      /\ Len(a) = k - 1 /\ Len(b) = k - 1 /\ DOMAIN a = 1..k - 1
      /\ \A i \in 1..k - 1 : a[i] = s[i] /\ b[i] = t[i]
  BY <1>2, Beginning
<1>4. SameLengths(a, b)
  <2> HIDE DEF a, b
  <2>1. \A i \in 1..k - 1 : i \in DOMAIN s
    <3>1. DOMAIN s = 1..n
      BY <1>1, LenProperties
    <3> QED
      BY <1>1, <3>1
  <2>2. \A i \in 1..k - 1 : Len(a[i]) = Len(b[i])
    BY <1>3, <2>1 DEF SameLengths
  <2> QED
    BY <1>3, <2>2 DEF SameLengths
<1>5. Len(FlattenSeq(a)) = Len(FlattenSeq(b))
  <2> HIDE DEF a, b
  <2> QED
    BY <1>3, <1>4, FlattenLengths
<1> QED
  BY <1>5 DEF Before

----------------------------------------------------------------------------
(* Pieces of one element or none *)

\* Pieces of one element each.
Singles(s, t) == Len(s) = Len(t) /\ \A i \in DOMAIN t : s[i] = <<t[i]>>

LEMMA FlattenSingles ==
  ASSUME NEW S, NEW t \in Seq(S), NEW s \in Seq(Seq(S)), Singles(s, t)
  PROVE  FlattenSeq(s) = t
<1> DEFINE P == {r \in Seq(S) : \A u \in Seq(Seq(S)) :
                   Singles(u, r) => FlattenSeq(u) = r}
<1>1. << >> \in P
  <2>1. \A u \in Seq(Seq(S)) : Len(u) = 0 => u = << >>
    BY EmptySeq
  <2> QED
    BY <2>1, FlattenEmpty, EmptySeq DEF Singles
<1>2. ASSUME NEW r \in Seq(S), NEW x \in S, r \in P
      PROVE  Append(r, x) \in P
  <2>1. PICK n \in Nat : n = Len(r)
    OBVIOUS
  <2>2. PICK q \in Seq(S) : q = Append(r, x)
    BY AppendProperties
  <2>3. /\ Len(q) = n + 1 /\ q[n + 1] = x /\ \A i \in 1..n : q[i] = r[i]
        /\ DOMAIN q = 1..n + 1 /\ DOMAIN r = 1..n
    BY <2>1, <2>2, Appended
  <2>4. ASSUME NEW u \in Seq(Seq(S)), Singles(u, q)
        PROVE  FlattenSeq(u) = q
    <3>1. Len(u) = n + 1 /\ \A i \in 1..n + 1 : u[i] = <<q[i]>>
      BY <2>3, <2>4 DEF Singles
    <3> DEFINE v == SubSeq(u, 1, n)
    <3> HIDE DEF v
    <3>2. PICK w \in Seq(S) : /\ v \in Seq(Seq(S)) /\ Len(v) = n /\ w = u[n + 1]
                              /\ u = Append(v, w)
      BY <3>1, LastApart DEF v
    <3>3. \A i \in 1..n : u[i] = v[i]
      BY <3>2, Appended
    <3>4. Singles(v, r)
      <4>1. \A i \in 1..n : v[i] = <<r[i]>>
        BY <2>3, <3>1, <3>3
      <4> QED
        BY <2>1, <2>3, <3>2, <4>1 DEF Singles
    <3>5. FlattenSeq(v) = r
      BY <1>2, <3>2, <3>4
    <3>6. w = <<x>>
      BY <2>3, <3>1, <3>2
    <3>7. FlattenSeq(u) = r \o <<x>>
      <4>1. FlattenSeq(u) = FlattenSeq(v) \o w
        BY <3>2, FlattenAppend
      <4> QED
        BY <3>5, <3>6, <4>1
    <3> QED
      BY <2>2, <3>6, <3>7, AppendIsConcat
  <2> QED
    BY <2>2, <2>4
<1>3. Seq(S) \subseteq P
  <2> HIDE DEF P
  <2> QED
    BY <1>1, <1>2, SequencesInduction
<1> QED
  BY <1>3

\* Nothing but empty pieces, and nothing but empty ones beside the k-th.
LEMMA FlattenNone ==
  ASSUME NEW S, NEW s \in Seq(Seq(S)), \A i \in DOMAIN s : s[i] = << >>
  PROVE  FlattenSeq(s) = << >>
<1>1. LaidOut(s) /\ FlattenSeq(s) \in Seq(S)
  BY FlattenLaidOut, FlattenType
<1>2. \A i \in DOMAIN s : DOMAIN s[i] = {}
  OBVIOUS
<1>3. DOMAIN FlattenSeq(s) = {}
  BY <1>1, <1>2 DEF LaidOut
<1> QED
  BY <1>1, <1>3, EmptySeq, LenProperties

OnlyAt(s, k) == k \in DOMAIN s /\ \A i \in DOMAIN s \ {k} : s[i] = << >>

LEMMA FlattenOne ==
  ASSUME NEW S, NEW s \in Seq(Seq(S)), NEW k, OnlyAt(s, k)
  PROVE  FlattenSeq(s) = s[k]
<1> DEFINE P == {r \in Seq(Seq(S)) : OnlyAt(r, k) => FlattenSeq(r) = r[k]}
<1>1. << >> \in P
  BY EmptySeq DEF OnlyAt
<1>2. ASSUME NEW r \in Seq(Seq(S)), NEW x \in Seq(S), r \in P
      PROVE  Append(r, x) \in P
  <2>1. PICK n \in Nat : n = Len(r)
    OBVIOUS
  <2>2. PICK q \in Seq(Seq(S)) : q = Append(r, x)
    BY AppendProperties
  <2>3. /\ Len(q) = n + 1 /\ q[n + 1] = x /\ \A i \in 1..n : q[i] = r[i]
        /\ DOMAIN q = 1..n + 1 /\ DOMAIN r = 1..n
    BY <2>1, <2>2, Appended
  <2>4. FlattenSeq(q) = FlattenSeq(r) \o x
    BY <2>2, FlattenAppend
  <2>5. ASSUME OnlyAt(q, k) PROVE FlattenSeq(q) = q[k]
    <3>1. CASE k = n + 1
      <4>1. \A i \in DOMAIN r : r[i] = << >>
        <5>1. \A i \in 1..n : i \in 1..n + 1 /\ i # n + 1
          OBVIOUS
        <5> QED
          BY <2>3, <2>5, <3>1, <5>1 DEF OnlyAt
      <4>2. FlattenSeq(r) = << >>
        BY <4>1, FlattenNone
      <4> QED
        BY <2>3, <2>4, <3>1, <4>2, ConcatEmptySeq
    <3>2. CASE k # n + 1
      <4>1. k \in 1..n /\ x = << >>
        <5>1. n + 1 \in 1..n + 1
          OBVIOUS
        <5>2. k \in 1..n + 1 /\ q[n + 1] = << >>
          BY <2>3, <2>5, <3>2, <5>1 DEF OnlyAt
        <5> QED
          BY <2>3, <3>2, <5>2
      <4>2. \A i \in 1..n : i # k => r[i] = << >>
        <5>1. \A i \in 1..n : i \in 1..n + 1
          OBVIOUS
        <5> QED
          BY <2>3, <2>5, <5>1 DEF OnlyAt
      <4>3. FlattenSeq(r) = r[k]
        BY <1>2, <2>3, <4>1, <4>2 DEF OnlyAt
      <4>4. FlattenSeq(r) \in Seq(S)
        BY FlattenType
      <4> QED
        BY <2>3, <2>4, <4>1, <4>3, <4>4, ConcatEmptySeq
    <3> QED
      BY <3>1, <3>2
  <2> QED
    BY <2>2, <2>5
<1>3. Seq(Seq(S)) \subseteq P
  <2> HIDE DEF P
  <2> QED
    BY <1>1, <1>2, SequencesInduction
<1> QED
  BY <1>3

\* Piece by piece what f gives for the elements of s and of t.
Mapped(f, s) == [i \in DOMAIN s |-> f[s[i]]]

LEMMA PiecesJoined ==
  ASSUME NEW S, NEW T, NEW s \in Seq(S), NEW t \in Seq(S), NEW f \in [S -> Seq(T)]
  PROVE  /\ Mapped(f, s) \in Seq(Seq(T))
         /\ FlattenSeq(Mapped(f, s \o t))
              = FlattenSeq(Mapped(f, s)) \o FlattenSeq(Mapped(f, t))
<1>1. ASSUME NEW u \in Seq(S)
      PROVE  /\ [i \in DOMAIN u |-> f[u[i]]] \in Seq(Seq(T))
             /\ Len([i \in DOMAIN u |-> f[u[i]]]) = Len(u)
  <2>1. \A i \in 1..Len(u) : f[u[i]] \in Seq(T)
    BY ElementOfSeq
  <2>2. DOMAIN u = 1..Len(u) /\ Len(u) \in Nat
    BY LenProperties
  <2> QED
    BY <2>1, <2>2
<1>2. PICK l \in Nat, m \in Nat : l = Len(s) /\ m = Len(t)
  BY LenProperties
<1>3. /\ s \o t \in Seq(S) /\ Len(s \o t) = l + m
      /\ DOMAIN (s \o t) = 1..(l + m) /\ DOMAIN s = 1..l /\ DOMAIN t = 1..m
      /\ \A i \in 1..l : (s \o t)[i] = s[i]
      /\ \A i \in 1..m : (s \o t)[l + i] = t[i]
  BY <1>2, Joined
<1> DEFINE a == [i \in DOMAIN s |-> f[s[i]]]
           b == [i \in DOMAIN t |-> f[t[i]]]
           c == [i \in DOMAIN (s \o t) |-> f[(s \o t)[i]]]
<1>4. /\ a \in Seq(Seq(T)) /\ b \in Seq(Seq(T)) /\ c \in Seq(Seq(T))
      /\ Len(a) = l /\ Len(b) = m /\ Len(c) = l + m
  BY <1>1, <1>2, <1>3
<1>5. \A i \in 1..l + m : c[i] = IF i \in 1..l THEN a[i] ELSE b[i - l]
  <2>1. \A i \in 1..l + m : i \in 1..l \/ (i - l \in 1..m /\ i = l + (i - l))
    OBVIOUS
  <2> QED
    BY <1>3, <2>1
<1> HIDE DEF a, b, c
<1>6. c = a \o b
  <2>1. /\ a \o b \in Seq(Seq(T)) /\ Len(a \o b) = l + m
        /\ \A i \in 1..l : (a \o b)[i] = a[i]
        /\ \A i \in 1..m : (a \o b)[l + i] = b[i]
    <3>1. PICK aa \in Seq(Seq(T)), bb \in Seq(Seq(T)) :
            aa = a /\ bb = b /\ l = Len(aa) /\ m = Len(bb)
      BY <1>4
    <3>2. /\ aa \o bb \in Seq(Seq(T)) /\ Len(aa \o bb) = l + m
          /\ \A i \in 1..l : (aa \o bb)[i] = aa[i]
          /\ \A i \in 1..m : (aa \o bb)[l + i] = bb[i]
      BY <3>1, Joined
    <3> QED
      BY <3>1, <3>2
  <2>2. \A i \in 1..l + m : c[i] = (a \o b)[i]
    <3>1. \A i \in 1..l + m : i \in 1..l \/ (i - l \in 1..m /\ i = l + (i - l))
      OBVIOUS
    <3>2. ASSUME NEW i \in 1..l + m, i \notin 1..l
          PROVE  c[i] = (a \o b)[i]
      <4>1. PICK j \in 1..m : j = i - l /\ i = l + j
        BY <3>1, <3>2
      <4> QED
        BY <1>5, <2>1, <3>2, <4>1
    <3> QED
      BY <1>5, <2>1, <3>2
  <2> QED
    BY <1>4, <2>1, <2>2, SeqEqual
<1>7. FlattenSeq(c) = FlattenSeq(a) \o FlattenSeq(b)
  BY <1>4, <1>6, FlattenConcat
<1>8. a = Mapped(f, s) /\ b = Mapped(f, t) /\ c = Mapped(f, s \o t)
  BY DEF a, b, c, Mapped
<1> QED
  BY <1>4, <1>7, <1>8

----------------------------------------------------------------------------
(* What a target returns: the shape of it *)

Provenances ==
  [path : Seq(Names), table : (STRING \X Names) \cup {<< >>}, column : Names]

Cells == [name : Names, from : Provenances]

Entries == [alias : Names, columns : Seq(Cells)]

\* A column of a table.
Stored(ref, c) ==
  [name |-> c, from |-> [path |-> <<ref.alias>>, table |-> <<ref.schema, ref.name>>,
                         column |-> c]]

\* A column under the name an item gives it.
Renamed(column, as) ==
  [column EXCEPT !.name = IF as = Nameless THEN @ ELSE as]

LEMMA StoredType ==
  ASSUME NEW ref \in TablesOver(Names), NEW c \in Names
  PROVE  Stored(ref, c) \in Cells
<1>1. ref.alias \in Names /\ ref.schema \in STRING /\ ref.name \in Names
  BY DEF TablesOver
<1>2. <<ref.alias>> \in Seq(Names) /\ <<ref.schema, ref.name>> \in STRING \X Names
  BY <1>1
<1> QED
  BY <1>2 DEF Stored, Cells, Provenances

LEMMA RenamedType ==
  ASSUME NEW column \in Cells, NEW as \in Names
  PROVE  /\ Renamed(column, as) \in Cells
         /\ Renamed(column, as).from = column.from
         /\ Renamed(column, as).name = IF as = Nameless THEN column.name ELSE as
BY DEF Cells, Renamed

LEMMA CatalogColumns ==
  ASSUME NEW catalog, NEW t \in DOMAIN catalog, IsCatalog(catalog)
  PROVE  /\ catalog[t].columns \in Seq(UsersNames) /\ catalog[t].key \in Seq(UsersNames)
         /\ catalog[t].columns \in Seq(Names) /\ catalog[t].key \in Seq(Names)
         /\ IsInjective(catalog[t].columns) /\ IsInjective(catalog[t].key)
         /\ ToSet(catalog[t].key) \subseteq ToSet(catalog[t].columns)
<1>1. UsersNames \subseteq Names
  BY DEF UsersNames
<1> QED
  BY <1>1, SeqMonotonic DEF IsCatalog

LEMMA StoredColumnsAre ==
  ASSUME NEW catalog, NEW ref \in TablesOver(Names),
         IsCatalog(catalog), Exists(catalog, ref)
  PROVE  /\ StoredColumns(catalog, ref) \in Seq(Cells)
         /\ Len(StoredColumns(catalog, ref))
              = Len(catalog[<<ref.schema, ref.name>>].columns)
         /\ DOMAIN StoredColumns(catalog, ref)
              = DOMAIN catalog[<<ref.schema, ref.name>>].columns
         /\ \A i \in DOMAIN catalog[<<ref.schema, ref.name>>].columns :
              StoredColumns(catalog, ref)[i]
                = Stored(ref, catalog[<<ref.schema, ref.name>>].columns[i])
<1>1. PICK columns \in Seq(Names) : columns = catalog[<<ref.schema, ref.name>>].columns
  BY CatalogColumns DEF Exists
<1>2. PICK n \in Nat : n = Len(columns) /\ DOMAIN columns = 1..n
  BY LenProperties
<1>3. StoredColumns(catalog, ref) = [i \in 1..n |-> Stored(ref, columns[i])]
  BY <1>1, <1>2 DEF StoredColumns, Stored
<1>4. \A i \in 1..n : Stored(ref, columns[i]) \in Cells
  BY <1>2, StoredType
<1> DEFINE stored == [i \in 1..n |-> Stored(ref, columns[i])]
<1>5. /\ stored \in Seq(Cells) /\ Len(stored) = n /\ DOMAIN stored = 1..n
      /\ \A i \in 1..n : stored[i] = Stored(ref, columns[i])
  BY <1>4
<1> HIDE DEF stored
<1>6. StoredColumns(catalog, ref) = stored
  BY <1>3 DEF stored
<1> QED
  BY <1>1, <1>2, <1>5, <1>6

LEMMA ComputedType == Computed \in Provenances
BY EmptySeq DEF Computed, Provenances, Names, Nameless

----------------------------------------------------------------------------
(* Columns found by name *)

LEMMA NamedIs ==
  ASSUME NEW scope, NEW item, NEW p
  PROVE  p \in Named(scope, item) <=>
           \E i \in DOMAIN scope : \E j \in DOMAIN scope[i].columns :
             /\ p = <<i, j>> /\ item.of \in {Nameless, scope[i].alias}
             /\ scope[i].columns[j].name = item.name
BY DEF Named, Indices

LEMMA LeastNumber ==
  ASSUME NEW S, S \subseteq Nat, S # {}
  PROVE  \E n \in S : \A m \in S : n <= m
<1>1. PICK n \in S : \A m \in S : ~(<<m, n>> \in OpToRel(<, Nat))
  BY NatLessThanWellFounded, WFMin
<1>2. \A m \in S : ~(m < n)
  BY <1>1 DEF OpToRel
<1> QED
  BY <1>2

\* A column item takes the place it names that is in the first entry of FROM.
LeastOf(places) == CHOOSE p \in places : \A q \in places : p[1] <= q[1]

LEMMA LeastPlace ==
  ASSUME NEW scope \in Seq(Entries), NEW item, Named(scope, item) # {}
  PROVE  LeastOf(Named(scope, item)) \in Named(scope, item)
<1>1. \E p \in Named(scope, item) : \A q \in Named(scope, item) : p[1] <= q[1]
  <2> DEFINE F == {p[1] : p \in Named(scope, item)}
  <2>1. \A p \in Named(scope, item) : p[1] \in DOMAIN scope
    BY NamedIs
  <2>2. F \subseteq Nat /\ F # {}
    BY <2>1, LenProperties
  <2>3. \E n \in F : \A m \in F : n <= m
    <3> HIDE DEF F
    <3> QED
      BY <2>2, LeastNumber
  <2> QED
    BY <2>3
<1> QED
  BY <1>1 DEF LeastOf

\* A column item takes one of the places it names, and no other entry of FROM is
\* before that.
LEMMA ColumnAt ==
  ASSUME NEW natural, NEW scope, NEW item, item.kind = "column"
  PROVE  ItemColumns(natural, scope, item)
           = <<Renamed(scope[LeastOf(Named(scope, item))[1]]
                         .columns[LeastOf(Named(scope, item))[2]], item.as)>>
BY DEF ItemColumns, Renamed, LeastOf

LEMMA ColumnTaken ==
  ASSUME NEW natural, NEW scope \in Seq(Entries), NEW item,
         item.kind = "column", Named(scope, item) # {}
  PROVE  \E i \in DOMAIN scope : \E j \in DOMAIN scope[i].columns :
           /\ <<i, j>> \in Named(scope, item)
           /\ ItemColumns(natural, scope, item)
                = <<Renamed(scope[i].columns[j], item.as)>>
<1> DEFINE place == LeastOf(Named(scope, item))
<1>2. place \in Named(scope, item)
  BY LeastPlace
<1>3. PICK i \in DOMAIN scope : \E j \in DOMAIN scope[i].columns : place = <<i, j>>
  <2> HIDE DEF place
  <2> QED
    BY <1>2, NamedIs
<1>4. PICK j \in DOMAIN scope[i].columns : place = <<i, j>>
  BY <1>3
<1>5. ItemColumns(natural, scope, item)
        = <<Renamed(scope[place[1]].columns[place[2]], item.as)>>
  BY ColumnAt
<1> QED
  <2> HIDE DEF place
  <2> QED
    BY <1>2, <1>4, <1>5

----------------------------------------------------------------------------
(* The columns of FROM *)

LEMMA ScopeAt ==
  ASSUME NEW scope \in Seq(Entries), NEW i \in DOMAIN scope
  PROVE  /\ scope[i].alias \in Names /\ scope[i].columns \in Seq(Cells)
         /\ \A j \in DOMAIN scope[i].columns : scope[i].columns[j] \in Cells
<1>1. i \in 1..Len(scope)
  BY LenProperties
<1>2. scope[i] \in Entries
  BY <1>1, ElementOfSeq
<1>3. scope[i].alias \in Names /\ scope[i].columns \in Seq(Cells)
  BY <1>2 DEF Entries
<1>4. \A j \in 1..Len(scope[i].columns) : scope[i].columns[j] \in Cells
  BY <1>3, ElementOfSeq
<1> QED
  BY <1>3, <1>4, LenProperties

\* Each column of each entry is one of all.
LEMMA AllColumnsAre ==
  ASSUME NEW scope \in Seq(Entries)
  PROVE  /\ [i \in DOMAIN scope |-> scope[i].columns] \in Seq(Seq(Cells))
         /\ AllColumns(scope) \in Seq(Cells)
         /\ \A k \in DOMAIN AllColumns(scope) :
              \E i \in DOMAIN scope : \E j \in DOMAIN scope[i].columns :
                AllColumns(scope)[k] = scope[i].columns[j]
<1> DEFINE pieces == [i \in DOMAIN scope |-> scope[i].columns]
<1>1. DOMAIN scope = 1..Len(scope) /\ Len(scope) \in Nat
  BY LenProperties
<1>2. /\ pieces \in Seq(Seq(Cells)) /\ DOMAIN pieces = DOMAIN scope
      /\ \A i \in DOMAIN scope : pieces[i] = scope[i].columns
  BY <1>1, ScopeAt
<1> HIDE DEF pieces
<1>3. FlattenSeq(pieces) \in Seq(Cells) /\ LaidOut(pieces)
  BY <1>2, FlattenType, FlattenLaidOut
<1>4. \A k \in DOMAIN FlattenSeq(pieces) :
        \E i \in DOMAIN scope : \E j \in DOMAIN scope[i].columns :
          FlattenSeq(pieces)[k] = scope[i].columns[j]
  <2> TAKE k \in DOMAIN FlattenSeq(pieces)
  <2>1. PICK i \in DOMAIN pieces :
          \E j \in DOMAIN pieces[i] : FlattenSeq(pieces)[k] = pieces[i][j]
    BY <1>2, FlattenElements
  <2>2. pieces[i] = scope[i].columns /\ i \in DOMAIN scope
    BY <1>2
  <2> QED
    BY <2>1, <2>2
<1>5. AllColumns(scope) = FlattenSeq(pieces)
  BY DEF AllColumns, pieces
<1>6. pieces = [i \in DOMAIN scope |-> scope[i].columns]
  BY DEF pieces
<1>7. \A k \in DOMAIN AllColumns(scope) :
        \E i \in DOMAIN scope : \E j \in DOMAIN scope[i].columns :
          AllColumns(scope)[k] = scope[i].columns[j]
  BY <1>4, <1>5
<1>8. AllColumns(scope) \in Seq(Cells)
  BY <1>3, <1>5
<1>9. [i \in DOMAIN scope |-> scope[i].columns] \in Seq(Seq(Cells))
  BY <1>2, <1>6
<1> QED
  BY <1>7, <1>8, <1>9

\* The one column with a name in names, or none.
Pick1(names, column) == IF column.name \in names THEN <<column>> ELSE << >>

LEMMA NamedInPieces ==
  ASSUME NEW S, NEW columns \in Seq(S), NEW names
  PROVE  /\ [i \in DOMAIN columns |-> Pick1(names, columns[i])] \in Seq(Seq(S))
         /\ Len([i \in DOMAIN columns |-> Pick1(names, columns[i])]) = Len(columns)
         /\ NamedIn(columns, names)
              = FlattenSeq([i \in DOMAIN columns |-> Pick1(names, columns[i])])
         /\ NamedIn(columns, names) \in Seq(S)
<1>1. DOMAIN columns = 1..Len(columns) /\ Len(columns) \in Nat
  BY LenProperties
<1>2. \A i \in 1..Len(columns) : Pick1(names, columns[i]) \in Seq(S)
  <2>1. \A i \in 1..Len(columns) : columns[i] \in S
    BY ElementOfSeq
  <2> QED
    BY <2>1, EmptySeq DEF Pick1
<1> DEFINE pieces == [i \in DOMAIN columns |-> Pick1(names, columns[i])]
<1>3. pieces \in Seq(Seq(S)) /\ Len(pieces) = Len(columns)
  BY <1>1, <1>2
<1>4. NamedIn(columns, names) = FlattenSeq(pieces)
  BY DEF NamedIn, Pick1
<1> HIDE DEF pieces
<1>5. FlattenSeq(pieces) \in Seq(S)
  BY <1>3, FlattenType
<1> QED
  BY <1>3, <1>4, <1>5 DEF pieces

\* Every column, or none, if all the names are among these or none of them is.
LEMMA NamedInAll ==
  ASSUME NEW S, NEW columns \in Seq(S), NEW names,
         \A i \in DOMAIN columns : columns[i].name \in names
  PROVE  NamedIn(columns, names) = columns
<1> DEFINE pieces == [i \in DOMAIN columns |-> Pick1(names, columns[i])]
<1>1. Singles(pieces, columns)
  BY NamedInPieces DEF Singles, Pick1
<1>2. pieces \in Seq(Seq(S)) /\ NamedIn(columns, names) = FlattenSeq(pieces)
  BY NamedInPieces
<1> HIDE DEF pieces
<1> QED
  BY <1>1, <1>2, FlattenSingles

LEMMA NamedInNone ==
  ASSUME NEW S, NEW columns \in Seq(S), NEW names,
         \A i \in DOMAIN columns : columns[i].name \notin names
  PROVE  NamedIn(columns, names) = << >>
<1> DEFINE pieces == [i \in DOMAIN columns |-> Pick1(names, columns[i])]
<1>1. \A i \in DOMAIN pieces : pieces[i] = << >>
  BY DEF Pick1
<1>2. pieces \in Seq(Seq(S)) /\ NamedIn(columns, names) = FlattenSeq(pieces)
  BY NamedInPieces
<1> HIDE DEF pieces
<1> QED
  BY <1>1, <1>2, FlattenNone

\* One column more.
LEMMA NamedInAppended ==
  ASSUME NEW S, NEW columns \in Seq(S), NEW column \in S, NEW names
  PROVE  NamedIn(Append(columns, column), names)
           = NamedIn(columns, names) \o Pick1(names, column)
<1> DEFINE longer == Append(columns, column)
           pieces == [i \in DOMAIN columns |-> Pick1(names, columns[i])]
           more == [i \in DOMAIN longer |-> Pick1(names, longer[i])]
<1>1. PICK n \in Nat : n = Len(columns)
  BY LenProperties
<1>2. /\ longer \in Seq(S) /\ DOMAIN longer = 1..(n + 1) /\ DOMAIN columns = 1..n
      /\ Len(longer) = n + 1 /\ longer[n + 1] = column
      /\ \A i \in 1..n : longer[i] = columns[i]
  BY <1>1, Appended
<1>3. /\ pieces \in Seq(Seq(S)) /\ NamedIn(columns, names) = FlattenSeq(pieces)
      /\ Len(pieces) = n
  BY <1>1, NamedInPieces
<1>4. /\ more \in Seq(Seq(S)) /\ NamedIn(longer, names) = FlattenSeq(more)
      /\ Len(more) = n + 1
  <2> HIDE DEF longer
  <2> QED
    BY <1>2, NamedInPieces
<1>5. /\ \A i \in 1..n : pieces[i] = Pick1(names, columns[i])
      /\ \A i \in 1..(n + 1) : more[i] = Pick1(names, longer[i])
  <2> HIDE DEF longer
  <2> QED
    BY <1>2
<1> HIDE DEF longer, pieces, more
<1>6. \A i \in 1..n : i \in 1..(n + 1) /\ more[i] = pieces[i]
  BY <1>2, <1>5
<1>7. more[n + 1] = Pick1(names, column)
  BY <1>2, <1>5
<1>8. Pick1(names, column) \in Seq(S)
  BY EmptySeq DEF Pick1
<1>9. more = Append(pieces, Pick1(names, column))
  <2>1. PICK q \in Seq(Seq(S)) : q = Append(pieces, Pick1(names, column))
    BY <1>3, <1>8, AppendProperties
  <2>2. /\ Len(q) = n + 1 /\ q[n + 1] = Pick1(names, column)
        /\ \A i \in 1..n : q[i] = pieces[i]
    BY <1>3, <1>8, <2>1, Appended
  <2>3. \A i \in 1..(n + 1) : q[i] = more[i]
    <3>1. \A i \in 1..(n + 1) : i \in 1..n \/ i = n + 1
      OBVIOUS
    <3> QED
      BY <1>6, <1>7, <2>2, <3>1
  <2> QED
    BY <1>4, <2>1, <2>2, <2>3, SeqEqual
<1> QED
  BY <1>3, <1>4, <1>8, <1>9, FlattenAppend DEF longer

\* Two sets of names that share out the columns.
LEMMA NamedInShared ==
  ASSUME NEW S, NEW columns \in Seq(S), NEW names, NEW others,
         \A i \in DOMAIN columns : columns[i].name \in names
                                     <=> columns[i].name \notin others
  PROVE  /\ Len(NamedIn(columns, names)) \in Nat
         /\ Len(NamedIn(columns, others)) \in Nat
         /\ Len(NamedIn(columns, names)) + Len(NamedIn(columns, others))
              = Len(columns)
<1> DEFINE P == {r \in Seq(S) :
                   (\A i \in DOMAIN r : r[i].name \in names
                                          <=> r[i].name \notin others)
                     => Len(NamedIn(r, names)) + Len(NamedIn(r, others)) = Len(r)}
<1>1. << >> \in P
  <2>1. \A i \in DOMAIN << >> : FALSE
    OBVIOUS
  <2>2. NamedIn(<< >>, names) = << >> /\ NamedIn(<< >>, others) = << >>
    BY <2>1, EmptySeq, NamedInNone
  <2> QED
    BY <2>2, EmptySeq
<1>2. ASSUME NEW r \in Seq(S), NEW x \in S, r \in P
      PROVE  Append(r, x) \in P
  <2>1. PICK n \in Nat : n = Len(r)
    BY LenProperties
  <2>2. PICK q \in Seq(S) : q = Append(r, x)
    BY AppendProperties
  <2>3. /\ Len(q) = n + 1 /\ q[n + 1] = x /\ \A i \in 1..n : q[i] = r[i]
        /\ DOMAIN q = 1..n + 1 /\ DOMAIN r = 1..n
    BY <2>1, <2>2, Appended
  <2>4. ASSUME \A i \in DOMAIN q : q[i].name \in names <=> q[i].name \notin others
        PROVE  Len(NamedIn(q, names)) + Len(NamedIn(q, others)) = Len(q)
    <3>1. \A i \in DOMAIN r : r[i].name \in names <=> r[i].name \notin others
      <4>1. \A i \in 1..n : i \in 1..n + 1
        OBVIOUS
      <4> QED
        BY <2>3, <2>4, <4>1
    <3>2. Len(NamedIn(r, names)) + Len(NamedIn(r, others)) = n
      BY <1>2, <2>1, <3>1
    <3>3. x.name \in names <=> x.name \notin others
      <4>1. n + 1 \in 1..n + 1
        OBVIOUS
      <4> QED
        BY <2>3, <2>4, <4>1
    <3>4. PICK a \in Seq(S), b \in Seq(S) :
            a = NamedIn(r, names) /\ b = NamedIn(r, others)
      BY NamedInPieces
    <3>5. /\ NamedIn(q, names) = a \o Pick1(names, x)
          /\ NamedIn(q, others) = b \o Pick1(others, x)
      BY <2>2, <3>4, NamedInAppended
    <3>6. CASE x.name \in names
      <4>1. Pick1(names, x) = <<x>> /\ Pick1(others, x) = << >>
        BY <3>3, <3>6 DEF Pick1
      <4>2. Len(a \o <<x>>) = Len(a) + 1 /\ b \o << >> = b
        BY ConcatEmptySeq
      <4> QED
        BY <2>3, <3>2, <3>4, <3>5, <4>1, <4>2
    <3>7. CASE x.name \notin names
      <4>1. Pick1(names, x) = << >> /\ Pick1(others, x) = <<x>>
        BY <3>3, <3>7 DEF Pick1
      <4>2. Len(b \o <<x>>) = Len(b) + 1 /\ a \o << >> = a
        BY ConcatEmptySeq
      <4> QED
        BY <2>3, <3>2, <3>4, <3>5, <4>1, <4>2
    <3> QED
      BY <3>6, <3>7
  <2> QED
    BY <2>2, <2>4
<1>3. Seq(S) \subseteq P
  <2> HIDE DEF P
  <2> QED
    BY <1>1, <1>2, SequencesInduction
<1>4. NamedIn(columns, names) \in Seq(S) /\ NamedIn(columns, others) \in Seq(S)
  BY NamedInPieces
<1> QED
  BY <1>3, <1>4

----------------------------------------------------------------------------
(* What an item stands for *)

LEMMA ItemFields ==
  ASSUME NEW names, NEW item \in ItemsOver(names)
  PROVE  /\ item.kind \in {"star", "column", "expression"}
         /\ item.of \in names /\ item.name \in names /\ item.as \in names
BY DEF ItemsOver

LEMMA NamedFinite ==
  ASSUME NEW scope \in Seq(Entries), NEW item
  PROVE  IsFiniteSet(Named(scope, item))
<1> DEFINE pieces == [i \in DOMAIN scope |-> scope[i].columns]
<1>1. pieces \in Seq(Seq(Cells)) /\ AllColumns(scope) = FlattenSeq(pieces)
  BY AllColumnsAre DEF AllColumns
<1>2. DOMAIN pieces = DOMAIN scope /\ \A i \in DOMAIN scope : pieces[i] = scope[i].columns
  OBVIOUS
<1>3. PICK n \in Nat : DOMAIN scope = 1..n
  BY LenProperties
<1> HIDE DEF pieces
<1>4. PICK m \in Nat : DOMAIN FlattenSeq(pieces) = 1..m
  BY <1>1, FlattenType, LenProperties
<1>5. LaidOut(pieces)
  BY <1>1, FlattenLaidOut
<1>6. ASSUME NEW i \in DOMAIN scope, NEW j \in DOMAIN scope[i].columns
      PROVE  j \in 1..m
  <2>1. Before(pieces, i) \in Nat
    <3>1. i \in 1..Len(pieces) + 1
      BY <1>1, <1>2, LenProperties
    <3> QED
      BY <1>1, <3>1, BeforeType
  <2>2. Before(pieces, i) + j \in 1..m
    BY <1>2, <1>4, <1>5 DEF LaidOut
  <2>3. j \in Nat /\ j >= 1
    BY ScopeAt, LenProperties
  <2> QED
    BY <2>1, <2>2, <2>3
<1>7. Named(scope, item) \in SUBSET ((1..n) \X (1..m))
  <2>1. ASSUME NEW p \in Named(scope, item)
        PROVE  p \in (1..n) \X (1..m)
    <3>1. PICK i \in DOMAIN scope : \E j \in DOMAIN scope[i].columns : p = <<i, j>>
      BY NamedIs
    <3>2. PICK j \in DOMAIN scope[i].columns : p = <<i, j>>
      BY <3>1
    <3> QED
      BY <1>3, <1>6, <3>2
  <2> QED
    BY <2>1
<1>8. IsFiniteSet((1..n) \X (1..m))
  <2>1. IsFiniteSet(1..n)
    BY FS_Interval
  <2>2. IsFiniteSet(1..m)
    BY FS_Interval
  <2> QED
    BY <2>1, <2>2, FS_Product
<1> QED
  BY <1>7, <1>8, FS_Subset

\* Cardinality 1, without counting.
LEMMA NamedOnce ==
  ASSUME NEW scope \in Seq(Entries), NEW item
  PROVE  Cardinality(Named(scope, item)) = 1 <=> \E p : Named(scope, item) = {p}
<1>1. \A S : IsFiniteSet(S) => (Cardinality(S) = 1 <=> \E x : S = {x})
  BY FS_Singleton
<1>2. IsFiniteSet(Named(scope, item))
  BY NamedFinite
<1> QED
  BY <1>1, <1>2, Zenon

LEMMA RunsFinds ==
  ASSUME NEW natural, NEW scope \in Seq(Entries), NEW item,
         item.kind = "column", ItemRuns(natural, scope, item)
  PROVE  Named(scope, item) # {}
<1>1. \/ Cardinality(Named(scope, item)) = 1
      \/ item.of = Nameless /\ item.name \in Merged(natural, scope)
  BY DEF ItemRuns
<1>2. CASE Cardinality(Named(scope, item)) = 1
  <2>1. ASSUME Named(scope, item) = {} PROVE FALSE
    <3>1. Cardinality({}) = 1
      BY <1>2, <2>1
    <3>2. Cardinality({}) = 0
      BY FS_EmptySet
    <3> QED
      BY <3>1, <3>2
  <2> QED
    BY <2>1
<1>3. CASE item.of = Nameless /\ item.name \in Merged(natural, scope)
  <2>1. PICK d \in ToSet(AllColumns(scope)) : d.name = item.name
    BY <1>3 DEF Merged
  <2>2. PICK k \in DOMAIN AllColumns(scope) : d = AllColumns(scope)[k]
    BY <2>1 DEF ToSet
  <2>3. PICK i \in DOMAIN scope : \E j \in DOMAIN scope[i].columns :
                                    d = scope[i].columns[j]
    BY <2>2, AllColumnsAre
  <2>4. PICK j \in DOMAIN scope[i].columns : d = scope[i].columns[j]
    BY <2>3
  <2>5. <<i, j>> \in Named(scope, item)
    BY <1>3, <2>1, <2>4, NamedIs
  <2> QED
    BY <2>5
<1> QED
  BY <1>1, <1>2, <1>3

LEMMA StarColumnsType ==
  ASSUME NEW natural, NEW scope \in Seq(Entries), scope # << >>
  PROVE  StarColumns(natural, scope) \in Seq(Cells)
<1>1. 1 \in DOMAIN scope
  BY EmptySeq, LenProperties
<1>2. scope[1].columns \in Seq(Cells) /\ AllColumns(scope) \in Seq(Cells)
  BY <1>1, ScopeAt, AllColumnsAre
<1>3. \A names : /\ NamedIn(scope[1].columns, names) \in Seq(Cells)
                 /\ NamedIn(AllColumns(scope), names) \in Seq(Cells)
  BY <1>2, NamedInPieces
<1> QED
  BY <1>3, ConcatProperties DEF StarColumns

\* The columns of one entry, or none.
OfEntry(entry, alias) == IF entry.alias = alias THEN entry.columns ELSE << >>

LEMMA EntryColumnsPieces ==
  ASSUME NEW scope \in Seq(Entries), NEW alias
  PROVE  /\ [i \in DOMAIN scope |-> OfEntry(scope[i], alias)] \in Seq(Seq(Cells))
         /\ EntryColumns(scope, alias)
              = FlattenSeq([i \in DOMAIN scope |-> OfEntry(scope[i], alias)])
         /\ EntryColumns(scope, alias) \in Seq(Cells)
<1> DEFINE pieces == [i \in DOMAIN scope |-> OfEntry(scope[i], alias)]
<1>1. DOMAIN scope = 1..Len(scope) /\ Len(scope) \in Nat
  BY LenProperties
<1>2. \A i \in DOMAIN scope : OfEntry(scope[i], alias) \in Seq(Cells)
  BY ScopeAt, EmptySeq DEF OfEntry
<1>3. pieces \in Seq(Seq(Cells))
  BY <1>1, <1>2
<1>4. EntryColumns(scope, alias) = FlattenSeq(pieces)
  BY DEF EntryColumns, OfEntry
<1> HIDE DEF pieces
<1>5. FlattenSeq(pieces) \in Seq(Cells)
  BY <1>3, FlattenType
<1> QED
  BY <1>3, <1>4, <1>5 DEF pieces

\* The only entry with an alias.
LEMMA EntryColumnsOfOne ==
  ASSUME NEW scope \in Seq(Entries), NEW i \in DOMAIN scope,
         \A j \in DOMAIN scope : scope[j].alias = scope[i].alias => j = i
  PROVE  EntryColumns(scope, scope[i].alias) = scope[i].columns
<1> DEFINE pieces == [j \in DOMAIN scope |-> OfEntry(scope[j], scope[i].alias)]
<1>1. OnlyAt(pieces, i) /\ pieces[i] = scope[i].columns
  BY DEF OnlyAt, OfEntry
<1>2. /\ pieces \in Seq(Seq(Cells))
      /\ EntryColumns(scope, scope[i].alias) = FlattenSeq(pieces)
  BY EntryColumnsPieces
<1> HIDE DEF pieces
<1> QED
  BY <1>1, <1>2, FlattenOne

LEMMA ItemType ==
  ASSUME NEW natural, NEW scope \in Seq(Entries), NEW item \in ItemsOver(Names),
         ItemRuns(natural, scope, item)
  PROVE  ItemColumns(natural, scope, item) \in Seq(Cells)
<1>1. CASE item.kind = "expression"
  <2>1. [name |-> item.as, from |-> Computed] \in Cells
    BY ItemFields, ComputedType DEF Cells
  <2>2. ItemColumns(natural, scope, item) = <<[name |-> item.as, from |-> Computed]>>
    BY <1>1 DEF ItemColumns
  <2> QED
    BY <2>1, <2>2
<1>2. CASE item.kind = "star" /\ item.of = Nameless
  <2>1. scope # << >>
    BY <1>2 DEF ItemRuns
  <2>2. ItemColumns(natural, scope, item) = StarColumns(natural, scope)
    BY <1>2 DEF ItemColumns
  <2> QED
    BY <2>1, <2>2, StarColumnsType
<1>3. CASE item.kind = "star" /\ item.of # Nameless
  <2>1. ItemColumns(natural, scope, item) = EntryColumns(scope, item.of)
    BY <1>3 DEF ItemColumns
  <2> QED
    BY <2>1, EntryColumnsPieces
<1>4. CASE item.kind = "column"
  <2>1. Named(scope, item) # {}
    BY <1>4, RunsFinds
  <2>2. PICK i \in DOMAIN scope : \E j \in DOMAIN scope[i].columns :
           /\ <<i, j>> \in Named(scope, item)
           /\ ItemColumns(natural, scope, item)
                = <<Renamed(scope[i].columns[j], item.as)>>
    BY <1>4, <2>1, ColumnTaken
  <2>3. PICK j \in DOMAIN scope[i].columns :
          ItemColumns(natural, scope, item) = <<Renamed(scope[i].columns[j], item.as)>>
    BY <2>2
  <2>4. Renamed(scope[i].columns[j], item.as) \in Cells
    BY ScopeAt, ItemFields, RenamedType
  <2> QED
    BY <2>3, <2>4
<1> QED
  BY <1>1, <1>2, <1>3, <1>4, ItemFields

----------------------------------------------------------------------------
(* What a statement returns *)

ItemsRun(scope, query) ==
  \A i \in DOMAIN query.items : ItemRuns(query.natural, scope, query.items[i])

\* Item by item.
Pieces(scope, query) ==
  [i \in DOMAIN query.items |->
     ItemColumns(query.natural, scope, query.items[i])]

LEMMA PiecesType ==
  ASSUME NEW scope \in Seq(Entries), NEW query, ItemsRun(scope, query),
         query.items \in Seq(ItemsOver(Names))
  PROVE  /\ Pieces(scope, query) \in Seq(Seq(Cells))
         /\ Len(Pieces(scope, query)) = Len(query.items)
         /\ DOMAIN Pieces(scope, query) = DOMAIN query.items
<1>1. PICK n \in Nat : n = Len(query.items) /\ DOMAIN query.items = 1..n
  BY LenProperties
<1>2. \A i \in 1..n : query.items[i] \in ItemsOver(Names)
  BY <1>1, ElementOfSeq
<1>3. \A i \in 1..n : ItemColumns(query.natural, scope, query.items[i]) \in Seq(Cells)
  BY <1>1, <1>2, ItemType DEF ItemsRun
<1>4. Pieces(scope, query)
        = [i \in 1..n |-> ItemColumns(query.natural, scope, query.items[i])]
  BY <1>1 DEF Pieces
<1> QED
  BY <1>1, <1>3, <1>4

LEMMA ReturnedIs ==
  ASSUME NEW scope \in Seq(Entries), NEW query, ItemsRun(scope, query),
         query.items \in Seq(ItemsOver(Names))
  PROVE  /\ Returned(scope, query) \in Seq(Cells)
         /\ Len(Returned(scope, query)) = Len(FlattenSeq(Pieces(scope, query)))
         /\ query.shape # "union" =>
              Returned(scope, query) = FlattenSeq(Pieces(scope, query))
         /\ query.shape = "union" =>
              Returned(scope, query)
                = [i \in DOMAIN FlattenSeq(Pieces(scope, query)) |->
                     [FlattenSeq(Pieces(scope, query))[i] EXCEPT !.from = Computed]]
<1>1. PICK columns \in Seq(Cells) : columns = FlattenSeq(Pieces(scope, query))
  BY PiecesType, FlattenType
<1>2. Returned(scope, query)
        = IF query.shape = "union"
          THEN [i \in DOMAIN columns |-> [columns[i] EXCEPT !.from = Computed]]
          ELSE columns
  BY <1>1 DEF Returned, Pieces
<1>3. PICK n \in Nat : n = Len(columns) /\ DOMAIN columns = 1..n
  BY LenProperties
<1>4. \A i \in 1..n : [columns[i] EXCEPT !.from = Computed] \in Cells
  <2>1. \A i \in 1..n : columns[i] \in Cells
    BY <1>3, ElementOfSeq
  <2> QED
    BY <2>1, ComputedType DEF Cells
<1>5. /\ [i \in 1..n |-> [columns[i] EXCEPT !.from = Computed]] \in Seq(Cells)
      /\ Len([i \in 1..n |-> [columns[i] EXCEPT !.from = Computed]]) = n
  BY <1>4
<1> QED
  BY <1>1, <1>2, <1>3, <1>5

----------------------------------------------------------------------------
(* Statements *)

Refs(names) == TablesOver(names) \cup DerivedOver(names)

InnerQueries(names) == QueriesOver(TablesOver(names), names)

LEMMA QueryFields ==
  ASSUME NEW refs, NEW names, NEW query \in QueriesOver(refs, names)
  PROVE  /\ query.shape \in Shapes /\ query.from \in Seq(refs)
         /\ query.items \in Seq(ItemsOver(names))
         /\ \A i \in DOMAIN query.from : query.from[i] \in refs
         /\ \A i \in DOMAIN query.items : query.items[i] \in ItemsOver(names)
         /\ DOMAIN query.from = 1..Len(query.from) /\ Len(query.from) \in Nat
         /\ DOMAIN query.items = 1..Len(query.items) /\ Len(query.items) \in Nat
<1>1. /\ query.shape \in Shapes /\ query.from \in Seq(refs)
      /\ query.items \in Seq(ItemsOver(names))
  BY DEF QueriesOver
<1>2. DOMAIN query.from = 1..Len(query.from) /\ Len(query.from) \in Nat
  BY <1>1, LenProperties
<1>3. DOMAIN query.items = 1..Len(query.items) /\ Len(query.items) \in Nat
  BY <1>1, LenProperties
<1>4. \A i \in DOMAIN query.from : query.from[i] \in refs
  BY <1>1, <1>2, ElementOfSeq
<1>5. \A i \in DOMAIN query.items : query.items[i] \in ItemsOver(names)
  BY <1>1, <1>3, ElementOfSeq
<1> QED
  BY <1>1, <1>2, <1>3, <1>4, <1>5

LEMMA TableFields ==
  ASSUME NEW names, NEW ref \in TablesOver(names)
  PROVE  /\ ref.alias \in names /\ ref.alias # Nameless /\ ref.schema \in STRING
         /\ ref.name \in names /\ ~IsDerived(ref)
         /\ ref = Table(ref.alias, ref.schema, ref.name)
BY DEF TablesOver, IsDerived, Table

LEMMA DerivedFields ==
  ASSUME NEW names, NEW ref \in DerivedOver(names)
  PROVE  /\ ref.alias \in names /\ ref.alias # Nameless
         /\ ref.query \in InnerQueries(names) /\ IsDerived(ref)
         /\ ref = Derived(ref.alias, ref.query)
BY DEF DerivedOver, IsDerived, InnerQueries, Derived

LEMMA RefCases ==
  ASSUME NEW names, NEW ref \in Refs(names)
  PROVE  /\ ref.alias \in names /\ ref.alias # Nameless
         /\ IsDerived(ref) => ref \in DerivedOver(names)
         /\ ~IsDerived(ref) => ref \in TablesOver(names)
BY TableFields, DerivedFields DEF Refs

LEMMA InnerScopeType ==
  ASSUME NEW catalog, NEW query \in InnerQueries(Names), IsCatalog(catalog),
         \A i \in DOMAIN query.from : Exists(catalog, query.from[i])
  PROVE  /\ InnerScope(catalog, query) \in Seq(Entries)
         /\ DOMAIN InnerScope(catalog, query) = DOMAIN query.from
         /\ Len(InnerScope(catalog, query)) = Len(query.from)
         /\ \A i \in DOMAIN query.from :
              /\ InnerScope(catalog, query)[i].alias = query.from[i].alias
              /\ InnerScope(catalog, query)[i].columns
                   = StoredColumns(catalog, query.from[i])
<1>1. \A i \in DOMAIN query.from : query.from[i] \in TablesOver(Names)
  BY QueryFields DEF InnerQueries
<1>2. \A i \in DOMAIN query.from :
        [alias |-> query.from[i].alias,
         columns |-> StoredColumns(catalog, query.from[i])] \in Entries
  BY <1>1, TableFields, StoredColumnsAre DEF Entries
<1>3. DOMAIN query.from = 1..Len(query.from) /\ Len(query.from) \in Nat
  BY QueryFields DEF InnerQueries
<1> QED
  BY <1>2, <1>3 DEF InnerScope

LEMMA WithinIs ==
  ASSUME NEW alias \in Names, NEW column \in Cells
  PROVE  /\ Within(alias, column) \in Cells
         /\ Within(alias, column).name = column.name
         /\ column.from = Computed => Within(alias, column).from = Computed
         /\ column.from # Computed =>
              /\ Within(alias, column).from.path = <<alias>> \o column.from.path
              /\ Within(alias, column).from.table = column.from.table
              /\ Within(alias, column).from.column = column.from.column
<1>1. column.from \in Provenances /\ column.name \in Names
  BY DEF Cells
<1>2. column.from.path \in Seq(Names)
  BY <1>1 DEF Provenances
<1>3. <<alias>> \o column.from.path \in Seq(Names)
  BY <1>2
<1>4. [column.from EXCEPT !.path = <<alias>> \o column.from.path] \in Provenances
  BY <1>1, <1>3 DEF Provenances
<1>5. CASE column.from = Computed
  BY <1>5 DEF Within
<1>6. CASE column.from # Computed
  <2> DEFINE from == [column.from EXCEPT !.path = <<alias>> \o column.from.path]
  <2>1. Within(alias, column) = [column EXCEPT !.from = from]
    BY <1>6 DEF Within, Cells, Provenances
  <2>2. /\ from.path = <<alias>> \o column.from.path
        /\ from.table = column.from.table /\ from.column = column.from.column
    BY <1>1 DEF Provenances
  <2>3. from \in Provenances
    BY <1>4
  <2> HIDE DEF from
  <2>4. /\ [column EXCEPT !.from = from] \in Cells
        /\ [column EXCEPT !.from = from].name = column.name
        /\ [column EXCEPT !.from = from].from = from
    BY <2>3 DEF Cells
  <2> QED
    BY <1>6, <2>1, <2>2, <2>4
<1> QED
  BY <1>5, <1>6

\* The columns of a derived table.
InnerColumns(catalog, query) == Returned(InnerScope(catalog, query), query)

LEMMA InnerColumnsType ==
  ASSUME NEW catalog, NEW query \in InnerQueries(Names),
         IsCatalog(catalog), InnerRuns(catalog, query)
  PROVE  /\ InnerColumns(catalog, query) \in Seq(Cells)
         /\ InnerScope(catalog, query) \in Seq(Entries)
         /\ ItemsRun(InnerScope(catalog, query), query)
         /\ OwnAliases(query.from)
<1>1. InnerScope(catalog, query) \in Seq(Entries)
  BY InnerScopeType DEF InnerRuns
<1>2. ItemsRun(InnerScope(catalog, query), query) /\ OwnAliases(query.from)
  BY DEF InnerRuns, ListRuns, ItemsRun
<1>3. query.items \in Seq(ItemsOver(Names))
  BY QueryFields DEF InnerQueries
<1> QED
  BY <1>1, <1>2, <1>3, ReturnedIs DEF InnerColumns

LEMMA ExposesDerived ==
  ASSUME NEW catalog, NEW ref \in DerivedOver(Names),
         IsCatalog(catalog), InnerRuns(catalog, ref.query)
  PROVE  /\ Exposes(catalog, ref) \in Seq(Cells)
         /\ DOMAIN Exposes(catalog, ref) = DOMAIN InnerColumns(catalog, ref.query)
         /\ Len(Exposes(catalog, ref)) = Len(InnerColumns(catalog, ref.query))
         /\ \A i \in DOMAIN InnerColumns(catalog, ref.query) :
              Exposes(catalog, ref)[i]
                = Within(ref.alias, InnerColumns(catalog, ref.query)[i])
<1>1. ref.alias \in Names /\ ref.query \in InnerQueries(Names) /\ IsDerived(ref)
  BY DerivedFields
<1>2. PICK inner \in Seq(Cells) : inner = InnerColumns(catalog, ref.query)
  BY <1>1, InnerColumnsType
<1>3. PICK n \in Nat : n = Len(inner) /\ DOMAIN inner = 1..n
  BY LenProperties
<1>4. \A i \in 1..n : Within(ref.alias, inner[i]) \in Cells
  BY <1>1, <1>3, ElementOfSeq, WithinIs
<1> DEFINE exposed == [i \in 1..n |-> Within(ref.alias, inner[i])]
<1>5. exposed \in Seq(Cells) /\ Len(exposed) = n /\ DOMAIN exposed = 1..n
      /\ \A i \in 1..n : exposed[i] = Within(ref.alias, inner[i])
  BY <1>4
<1>6. Exposes(catalog, ref) = exposed
  BY <1>1, <1>2, <1>3 DEF Exposes, InnerColumns
<1> HIDE DEF exposed
<1> QED
  BY <1>2, <1>3, <1>5, <1>6

\* Every entry of FROM can be read.
FromRuns(catalog, query) ==
  \A i \in DOMAIN query.from :
    IF IsDerived(query.from[i]) THEN InnerRuns(catalog, query.from[i].query)
    ELSE Exists(catalog, query.from[i])

LEMMA ExposesType ==
  ASSUME NEW catalog, NEW ref \in Refs(Names), IsCatalog(catalog),
         IF IsDerived(ref) THEN InnerRuns(catalog, ref.query)
                           ELSE Exists(catalog, ref)
  PROVE  /\ Exposes(catalog, ref) \in Seq(Cells)
         /\ ~IsDerived(ref) => Exposes(catalog, ref) = StoredColumns(catalog, ref)
<1>1. CASE IsDerived(ref)
  BY <1>1, RefCases, ExposesDerived
<1>2. CASE ~IsDerived(ref)
  BY <1>2, RefCases, StoredColumnsAre DEF Exposes
<1> QED
  BY <1>1, <1>2

LEMMA ScopeType ==
  ASSUME NEW catalog, NEW query \in QueriesOver(Refs(Names), Names),
         IsCatalog(catalog), FromRuns(catalog, query)
  PROVE  /\ Scope(catalog, query) \in Seq(Entries)
         /\ DOMAIN Scope(catalog, query) = DOMAIN query.from
         /\ Len(Scope(catalog, query)) = Len(query.from)
         /\ \A i \in DOMAIN query.from :
              /\ Scope(catalog, query)[i].alias = query.from[i].alias
              /\ Scope(catalog, query)[i].columns = Exposes(catalog, query.from[i])
<1>1. \A i \in DOMAIN query.from : query.from[i] \in Refs(Names)
  BY QueryFields
<1>2. \A i \in DOMAIN query.from : Exposes(catalog, query.from[i]) \in Seq(Cells)
  BY <1>1, ExposesType DEF FromRuns
<1>3. \A i \in DOMAIN query.from :
        [alias |-> query.from[i].alias,
         columns |-> Exposes(catalog, query.from[i])] \in Entries
  BY <1>1, <1>2, RefCases DEF Entries
<1>4. DOMAIN query.from = 1..Len(query.from) /\ Len(query.from) \in Nat
  BY QueryFields
<1> QED
  BY <1>3, <1>4 DEF Scope

LEMMA StatementQueries ==
  ASSUME NEW names
  PROVE  StatementsOver(names) = QueriesOver(Refs(names), names)
BY DEF StatementsOver, Refs

LEMMA RunsParts ==
  ASSUME NEW catalog, NEW query \in StatementsOver(Names),
         IsCatalog(catalog), Runs(catalog, query)
  PROVE  /\ FromRuns(catalog, query) /\ OwnAliases(query.from)
         /\ Scope(catalog, query) \in Seq(Entries)
         /\ ItemsRun(Scope(catalog, query), query)
         /\ Output(catalog, query) \in Seq(Cells)
<1>1. FromRuns(catalog, query) /\ OwnAliases(query.from)
  BY DEF Runs, ListRuns, FromRuns
<1>2. Scope(catalog, query) \in Seq(Entries)
  BY <1>1, ScopeType, StatementQueries
<1>3. ItemsRun(Scope(catalog, query), query)
  BY DEF Runs, ListRuns, ItemsRun
<1>4. query.items \in Seq(ItemsOver(Names))
  BY QueryFields, StatementQueries
<1> QED
  BY <1>1, <1>2, <1>3, <1>4, ReturnedIs DEF Output

----------------------------------------------------------------------------
(* Wildcards in a result *)

LEMMA NamedInJoined ==
  ASSUME NEW S, NEW s \in Seq(S), NEW t \in Seq(S), NEW names
  PROVE  NamedIn(s \o t, names) = NamedIn(s, names) \o NamedIn(t, names)
<1> DEFINE f == [column \in S |-> Pick1(names, column)]
<1>1. f \in [S -> Seq(S)]
  <2>1. \A column \in S : Pick1(names, column) \in Seq(S)
    BY EmptySeq DEF Pick1
  <2> QED
    BY <2>1
<1>2. s \o t \in Seq(S)
  BY ConcatProperties
<1>3. ASSUME NEW u \in Seq(S)
      PROVE  /\ NamedIn(u, names) = FlattenSeq(Mapped(f, u))
             /\ Mapped(f, u) \in Seq(Seq(S))
  <2>1. \A i \in DOMAIN u : f[u[i]] = Pick1(names, u[i])
    BY ElementOfSeq, LenProperties
  <2>2. [i \in DOMAIN u |-> f[u[i]]] = [i \in DOMAIN u |-> Pick1(names, u[i])]
    BY <2>1
  <2> QED
    BY <2>2, NamedInPieces DEF Mapped
<1> HIDE DEF f
<1>4. FlattenSeq(Mapped(f, s \o t))
        = FlattenSeq(Mapped(f, s)) \o FlattenSeq(Mapped(f, t))
  <2>1. Mapped(f, s) \in Seq(Seq(S)) /\ Mapped(f, t) \in Seq(Seq(S))
    BY <1>3
  <2> QED
    BY <1>1, <2>1, PiecesJoined
<1>5. PICK u \in Seq(S) : u = s \o t
  BY <1>2
<1>6. NamedIn(u, names) = FlattenSeq(Mapped(f, u))
  BY <1>3
<1>7. NamedIn(s, names) = FlattenSeq(Mapped(f, s))
  BY <1>3
<1>8. NamedIn(t, names) = FlattenSeq(Mapped(f, t))
  BY <1>3
<1> QED
  BY <1>4, <1>5, <1>6, <1>7, <1>8

LEMMA NamedInSome ==
  ASSUME NEW S, NEW columns \in Seq(S), NEW names, NEW k \in DOMAIN columns,
         columns[k].name \in names
  PROVE  Len(NamedIn(columns, names)) \in Nat \ {0}
<1> DEFINE pieces == [i \in DOMAIN columns |-> Pick1(names, columns[i])]
<1>1. pieces \in Seq(Seq(S)) /\ NamedIn(columns, names) = FlattenSeq(pieces)
  BY NamedInPieces
<1>2. k \in DOMAIN pieces /\ 1 \in DOMAIN pieces[k]
  BY DEF Pick1
<1> HIDE DEF pieces
<1>3. DOMAIN FlattenSeq(pieces) # {} /\ FlattenSeq(pieces) \in Seq(S)
  BY <1>1, <1>2, FlattenLaidOut, FlattenType DEF LaidOut
<1> QED
  BY <1>1, <1>3, LenProperties

\* Nothing is merged: every column of FROM, in order.
LEMMA StarUnmerged ==
  ASSUME NEW natural, NEW scope \in Seq(Entries), scope # << >>,
         Merged(natural, scope) = {}
  PROVE  StarColumns(natural, scope) = AllColumns(scope)
<1>1. PICK all \in Seq(Cells) : all = AllColumns(scope)
  BY AllColumnsAre
<1>2. scope[1].columns \in Seq(Cells)
  BY ScopeAt, EmptySeq, LenProperties
<1>3. NamedIn(scope[1].columns, {}) = << >>
  BY <1>2, NamedInNone
<1>4. NamedIn(all, {c.name : c \in ToSet(all)} \ {}) = all
  <2>1. \A i \in DOMAIN all : all[i].name \in {c.name : c \in ToSet(all)} \ {}
    BY DEF ToSet
  <2> QED
    BY <2>1, NamedInAll
<1>5. StarColumns(natural, scope)
        = NamedIn(scope[1].columns, {}) \o NamedIn(all, {c.name : c \in ToSet(all)} \ {})
  BY <1>1 DEF StarColumns
<1> QED
  BY <1>1, <1>3, <1>4, <1>5, ConcatEmptySeq

\* The first entry's columns, and those of the others.
Follow(rest, scope, n) ==
  \A i \in 2..n : \A j \in DOMAIN scope[i].columns :
    \E k \in DOMAIN rest : rest[k] = scope[i].columns[j]

LEMMA AllColumnsSplit ==
  ASSUME NEW scope \in Seq(Entries), NEW n \in Nat, n = Len(scope), n > 0
  PROVE  \E rest \in Seq(Cells) :
           /\ AllColumns(scope) = scope[1].columns \o rest
           /\ Follow(rest, scope, n)
<1> DEFINE pieces == [i \in DOMAIN scope |-> scope[i].columns]
<1>1. pieces \in Seq(Seq(Cells)) /\ AllColumns(scope) = FlattenSeq(pieces)
  BY AllColumnsAre DEF AllColumns
<1>2. DOMAIN pieces = 1..n /\ \A i \in 1..n : pieces[i] = scope[i].columns
  BY LenProperties
<1> HIDE DEF pieces
<1>3. Len(pieces) = n /\ \A i \in 1..n : pieces[i] \in Seq(Cells)
  BY <1>1, <1>2, LenProperties, ElementOfSeq
<1> DEFINE others == SubSeq(pieces, 2, n)
<1>4. /\ others \in Seq(Seq(Cells)) /\ DOMAIN others = 1..n - 1
      /\ \A i \in 1..n - 1 : others[i] = pieces[i + 1]
  <2>1. \A i \in 2..n : pieces[i] \in Seq(Cells)
    BY <1>3
  <2>2. /\ others \in Seq(Seq(Cells))
        /\ Len(others) = IF 2 <= n THEN n - 2 + 1 ELSE 0
        /\ \A i \in 1..n - 2 + 1 : others[i] = pieces[2 + i - 1]
    BY <2>1, SubSeqProperties
  <2>3. Len(others) = n - 1
    BY <2>2
  <2>4. \A i \in 1..n - 1 : i \in 1..n - 2 + 1 /\ 2 + i - 1 = i + 1
    OBVIOUS
  <2> HIDE DEF others
  <2> QED
    BY <2>2, <2>3, <2>4, LenProperties
<1>5. pieces = <<pieces[1]>> \o others
  <2>1. 1 \in 1..Len(pieces) /\ n \in 1..Len(pieces)
    BY <1>3
  <2>2. SubSeq(pieces, 1, n) = <<pieces[1]>> \o SubSeq(pieces, 1 + 1, n)
    BY <1>1, <2>1, SubSeqRecursiveFirst
  <2>3. SubSeq(pieces, 1, n) = pieces
    BY <1>1, <1>3, SubSeqFull
  <2> QED
    BY <2>2, <2>3
<1> HIDE DEF others
<1>6. pieces[1] = scope[1].columns /\ pieces[1] \in Seq(Cells)
  BY <1>2, <1>3
<1>7. FlattenSeq(pieces) = FlattenSeq(<<pieces[1]>>) \o FlattenSeq(others)
  <2>1. PICK a \in Seq(Seq(Cells)) : a = <<pieces[1]>>
    <3>1. <<pieces[1]>> \in Seq(Seq(Cells))
      BY <1>6
    <3> QED
      BY <3>1
  <2>2. PICK b \in Seq(Seq(Cells)) : b = others
    BY <1>4
  <2>3. FlattenSeq(a \o b) = FlattenSeq(a) \o FlattenSeq(b)
    BY <2>1, <2>2, FlattenConcat, Zenon
  <2>4. pieces = a \o b
    BY <1>5, <2>1, <2>2, Zenon
  <2> QED
    BY <2>1, <2>2, <2>3, <2>4, Zenon
<1>8. FlattenSeq(<<pieces[1]>>) = pieces[1]
  BY <1>6, FlattenFirst
<1>9. FlattenSeq(others) \in Seq(Cells) /\ LaidOut(others)
  BY <1>4, FlattenType, FlattenLaidOut
<1>10. ASSUME NEW i \in 2..n, NEW j \in DOMAIN scope[i].columns
       PROVE  \E k \in DOMAIN FlattenSeq(others) :
                FlattenSeq(others)[k] = scope[i].columns[j]
  <2>1. i - 1 \in 1..n - 1 /\ i = (i - 1) + 1 /\ i \in 1..n
    OBVIOUS
  <2>2. i - 1 \in DOMAIN others /\ others[i - 1] = scope[i].columns
    BY <1>2, <1>4, <2>1
  <2> QED
    BY <1>9, <2>2 DEF LaidOut
<1>11. AllColumns(scope) = scope[1].columns \o FlattenSeq(others)
  BY <1>1, <1>6, <1>7, <1>8
<1> QED
  BY <1>9, <1>10, <1>11 DEF Follow

\* Merged columns are there once, not once for each entry.
LEMMA StarMerged ==
  ASSUME NEW natural, NEW scope \in Seq(Entries), NEW n \in Nat, n = Len(scope),
         n > 1, Merged(natural, scope) # {}
  PROVE  /\ Len(StarColumns(natural, scope)) \in Nat
         /\ Len(AllColumns(scope)) \in Nat
         /\ Len(StarColumns(natural, scope)) < Len(AllColumns(scope))
<1>1. PICK all \in Seq(Cells) : all = AllColumns(scope)
  BY AllColumnsAre
<1>2. PICK rest \in Seq(Cells) :
        /\ all = scope[1].columns \o rest
        /\ Follow(rest, scope, n)
  <2>1. n > 0
    OBVIOUS
  <2> QED
    BY <1>1, <2>1, AllColumnsSplit
<1>3. PICK own \in Seq(Cells) : own = scope[1].columns
  <2>1. 1 \in DOMAIN scope
    BY LenProperties
  <2> QED
    BY <2>1, ScopeAt
<1>4. PICK merged : merged = Merged(natural, scope)
  OBVIOUS
<1> DEFINE names == {c.name : c \in ToSet(all)} \ merged
<1>5. StarColumns(natural, scope) = NamedIn(own, merged) \o NamedIn(all, names)
  BY <1>1, <1>3, <1>4 DEF StarColumns
<1>6. /\ Len(NamedIn(all, names)) \in Nat /\ Len(NamedIn(all, merged)) \in Nat
      /\ Len(NamedIn(all, names)) + Len(NamedIn(all, merged)) = Len(all)
  <2>1. \A i \in DOMAIN all : all[i].name \in names <=> all[i].name \notin merged
    BY DEF ToSet
  <2> HIDE DEF names
  <2> QED
    BY <2>1, NamedInShared
<1> HIDE DEF names
<1>7. NamedIn(all, merged) = NamedIn(own, merged) \o NamedIn(rest, merged)
  <2>1. all = own \o rest
    BY <1>2, <1>3
  <2> QED
    BY <2>1, NamedInJoined
<1>8. Len(NamedIn(rest, merged)) \in Nat \ {0}
  <2>1. PICK m \in merged : TRUE
    BY <1>4
  <2>2. PICK d \in ToSet(AllColumns(scope)) :
          /\ d.name = m
          /\ \A i \in DOMAIN scope : \E j \in DOMAIN scope[i].columns :
               scope[i].columns[j].name = d.name
    BY <1>4, <2>1 DEF Merged
  <2>3. 2 \in DOMAIN scope /\ 2 \in 2..n
    BY LenProperties
  <2>4. PICK j \in DOMAIN scope[2].columns : scope[2].columns[j].name = m
    BY <2>2, <2>3
  <2>5. PICK k \in DOMAIN rest : rest[k] = scope[2].columns[j]
    BY <1>2, <2>3, <2>4 DEF Follow
  <2>6. rest[k].name \in merged
    BY <2>1, <2>4, <2>5
  <2> QED
    BY <2>6, NamedInSome
<1>9. /\ NamedIn(own, merged) \in Seq(Cells) /\ NamedIn(rest, merged) \in Seq(Cells)
      /\ NamedIn(all, names) \in Seq(Cells)
  BY NamedInPieces
<1>10. PICK a \in Nat, b \in Nat, c \in Nat :
         /\ a = Len(NamedIn(own, merged)) /\ b = Len(NamedIn(rest, merged))
         /\ c = Len(NamedIn(all, names)) /\ b # 0
  BY <1>8, <1>9, LenProperties
<1>11. Len(NamedIn(all, merged)) = a + b
  BY <1>7, <1>9, <1>10, Joined
<1>12. Len(StarColumns(natural, scope)) = a + c
  BY <1>5, <1>9, <1>10, Joined
<1> QED
  BY <1>1, <1>6, <1>10, <1>11, <1>12

\* The length of a bare wildcard, whatever is merged.
LEMMA StarLength ==
  ASSUME NEW natural, NEW scope \in Seq(Entries), scope # << >>,
         natural => Len(scope) > 1
  PROVE  /\ Len(StarColumns(natural, scope)) \in Nat
         /\ Len(AllColumns(scope)) \in Nat
         /\ Len(StarColumns(natural, scope)) <= Len(AllColumns(scope))
         /\ \/ StarColumns(natural, scope) = AllColumns(scope)
            \/ Len(StarColumns(natural, scope)) < Len(AllColumns(scope))
         /\ ~natural => StarColumns(natural, scope) = AllColumns(scope)
<1>1. Len(AllColumns(scope)) \in Nat /\ Len(scope) \in Nat
  BY AllColumnsAre, LenProperties
<1>2. ~natural => Merged(natural, scope) = {}
  BY DEF Merged
<1>3. CASE Merged(natural, scope) = {}
  BY <1>1, <1>3, StarUnmerged
<1>4. CASE Merged(natural, scope) # {}
  <2>1. Len(scope) > 1
    BY <1>2, <1>4
  <2>2. Len(StarColumns(natural, scope)) < Len(AllColumns(scope))
    BY <1>1, <1>4, <2>1, StarMerged
  <2>3. Len(StarColumns(natural, scope)) \in Nat
    BY StarColumnsType, LenProperties
  <2> QED
    BY <1>1, <1>2, <1>4, <2>2, <2>3
<1> QED
  BY <1>3, <1>4

----------------------------------------------------------------------------
(* Statements with hidden columns behind those of an entry of FROM *)

\* The same columns, and hidden ones behind them.
GrownEntry(entry, other) ==
  /\ other.alias = entry.alias
  /\ DOMAIN entry.columns \subseteq DOMAIN other.columns
  /\ \A j \in DOMAIN entry.columns : other.columns[j] = entry.columns[j]
  /\ \A j \in DOMAIN other.columns \ DOMAIN entry.columns :
       IsHidden(other.columns[j].name)

Grown(scope, other) ==
  /\ DOMAIN other = DOMAIN scope
  /\ \A i \in DOMAIN scope : GrownEntry(scope[i], other[i])

\* What a user names is where it was.
LEMMA NamedGrown ==
  ASSUME NEW scope, NEW other, NEW item, Grown(scope, other), ~IsHidden(item.name)
  PROVE  Named(other, item) = Named(scope, item)
<1>1. ASSUME NEW p, p \in Named(scope, item)
      PROVE  p \in Named(other, item)
  <2>1. PICK i \in DOMAIN scope : \E j \in DOMAIN scope[i].columns :
          /\ p = <<i, j>> /\ item.of \in {Nameless, scope[i].alias}
          /\ scope[i].columns[j].name = item.name
    BY <1>1, NamedIs
  <2>2. i \in DOMAIN other /\ GrownEntry(scope[i], other[i])
    BY DEF Grown
  <2> QED
    BY <2>1, <2>2, NamedIs DEF GrownEntry
<1>2. ASSUME NEW p, p \in Named(other, item)
      PROVE  p \in Named(scope, item)
  <2>1. PICK i \in DOMAIN other : \E j \in DOMAIN other[i].columns :
          /\ p = <<i, j>> /\ item.of \in {Nameless, other[i].alias}
          /\ other[i].columns[j].name = item.name
    BY <1>2, NamedIs
  <2>2. i \in DOMAIN scope /\ GrownEntry(scope[i], other[i])
    BY DEF Grown
  <2> QED
    BY <2>1, <2>2, NamedIs DEF GrownEntry
<1> QED
  BY <1>1, <1>2

LEMMA ColumnGrown ==
  ASSUME NEW natural, NEW scope \in Seq(Entries), NEW other, NEW item,
         Grown(scope, other), ~IsHidden(item.name),
         item.kind = "column", Named(scope, item) # {}
  PROVE  ItemColumns(natural, other, item) = ItemColumns(natural, scope, item)
<1> DEFINE place == LeastOf(Named(scope, item))
<1>1. PICK i \in DOMAIN scope : \E j \in DOMAIN scope[i].columns : place = <<i, j>>
  <2>1. place \in Named(scope, item)
    BY LeastPlace
  <2> HIDE DEF place
  <2> QED
    BY <2>1, NamedIs
<1>2. PICK j \in DOMAIN scope[i].columns : place = <<i, j>>
  BY <1>1
<1>3. other[i].columns[j] = scope[i].columns[j]
  BY DEF Grown, GrownEntry
<1>4. ItemColumns(natural, scope, item)
        = <<Renamed(scope[place[1]].columns[place[2]], item.as)>>
  BY ColumnAt
<1>5. ItemColumns(natural, other, item)
        = <<Renamed(other[place[1]].columns[place[2]], item.as)>>
  BY NamedGrown, ColumnAt
<1> HIDE DEF place
<1> QED
  BY <1>2, <1>3, <1>4, <1>5

\* All the columns, entry by entry.
ColumnPieces(scope) == [i \in DOMAIN scope |-> scope[i].columns]

LEMMA AllColumnsHave ==
  ASSUME NEW scope \in Seq(Entries)
  PROVE  /\ ColumnPieces(scope) \in Seq(Seq(Cells))
         /\ Len(ColumnPieces(scope)) = Len(scope)
         /\ AllColumns(scope) = FlattenSeq(ColumnPieces(scope))
         /\ LaidOut(ColumnPieces(scope))
         /\ \A i \in DOMAIN scope : \A j \in DOMAIN scope[i].columns :
              \E k \in DOMAIN AllColumns(scope) :
                AllColumns(scope)[k] = scope[i].columns[j]
<1>1. ColumnPieces(scope) \in Seq(Seq(Cells))
  BY AllColumnsAre DEF ColumnPieces
<1>2. AllColumns(scope) = FlattenSeq(ColumnPieces(scope))
  BY DEF AllColumns, ColumnPieces
<1>3. LaidOut(ColumnPieces(scope))
  BY <1>1, FlattenLaidOut
<1>4. /\ DOMAIN ColumnPieces(scope) = DOMAIN scope
      /\ \A i \in DOMAIN scope : ColumnPieces(scope)[i] = scope[i].columns
  BY DEF ColumnPieces
<1>5. Len(ColumnPieces(scope)) = Len(scope)
  BY <1>1, <1>4, LenProperties
<1>6. \A i \in DOMAIN scope : \A j \in DOMAIN scope[i].columns :
        \E k \in DOMAIN AllColumns(scope) :
          AllColumns(scope)[k] = scope[i].columns[j]
  BY <1>2, <1>3, <1>4 DEF LaidOut
<1> QED
  BY <1>1, <1>2, <1>3, <1>5, <1>6

\* Every entry has a column of the name.
InAll(scope, name) ==
  \A i \in DOMAIN scope : \E j \in DOMAIN scope[i].columns :
    scope[i].columns[j].name = name

LEMMA MergedIs ==
  ASSUME NEW scope \in Seq(Entries), NEW name, scope # << >>
  PROVE  /\ name \in Merged(TRUE, scope) <=> InAll(scope, name)
         /\ Merged(FALSE, scope) = {}
<1>1. Merged(FALSE, scope) = {}
  BY DEF Merged
<1>2. ASSUME name \in Merged(TRUE, scope)
      PROVE  InAll(scope, name)
  BY <1>2 DEF Merged, InAll
<1>3. ASSUME InAll(scope, name)
      PROVE  name \in Merged(TRUE, scope)
  <2>1. 1 \in DOMAIN scope
    BY EmptySeq, LenProperties
  <2>2. PICK j \in DOMAIN scope[1].columns : scope[1].columns[j].name = name
    BY <1>3, <2>1 DEF InAll
  <2>3. PICK k \in DOMAIN AllColumns(scope) :
          AllColumns(scope)[k] = scope[1].columns[j]
    BY <2>1, AllColumnsHave
  <2>4. AllColumns(scope)[k] \in ToSet(AllColumns(scope))
    BY DEF ToSet
  <2>5. PICK d \in ToSet(AllColumns(scope)) : d.name = name
    BY <2>2, <2>3, <2>4
  <2> QED
    BY <1>3, <2>5 DEF Merged, InAll
<1> QED
  BY <1>1, <1>2, <1>3

\* A name of a user's that is merged is merged without the hidden columns.
LEMMA MergedGrown ==
  ASSUME NEW natural \in BOOLEAN, NEW scope \in Seq(Entries), NEW other \in Seq(Entries),
         NEW name, Grown(scope, other), ~IsHidden(name), scope # << >>
  PROVE  name \in Merged(natural, other) <=> name \in Merged(natural, scope)
<1>1. other # << >>
  BY EmptySeq DEF Grown
<1>2. ASSUME NEW i \in DOMAIN scope
      PROVE  (\E j \in DOMAIN other[i].columns : other[i].columns[j].name = name)
               <=> \E j \in DOMAIN scope[i].columns : scope[i].columns[j].name = name
  <2>1. GrownEntry(scope[i], other[i])
    BY DEF Grown
  <2>2. ASSUME NEW j \in DOMAIN other[i].columns, other[i].columns[j].name = name
        PROVE  j \in DOMAIN scope[i].columns /\ scope[i].columns[j].name = name
    BY <2>1, <2>2 DEF GrownEntry
  <2>3. ASSUME NEW j \in DOMAIN scope[i].columns, scope[i].columns[j].name = name
        PROVE  j \in DOMAIN other[i].columns /\ other[i].columns[j].name = name
    BY <2>1, <2>3 DEF GrownEntry
  <2> QED
    BY <2>2, <2>3
<1>3. DOMAIN other = DOMAIN scope
  BY DEF Grown
<1>4. CASE natural = TRUE
  <2>1. InAll(other, name) <=> InAll(scope, name)
    BY <1>2, <1>3 DEF InAll
  <2> QED
    BY <1>1, <1>4, <2>1, MergedIs
<1>5. CASE natural = FALSE
  BY <1>1, <1>5, MergedIs
<1> QED
  BY <1>4, <1>5

\* u is s and then t.
Consists(u, s, t) == u = s \o t

\* t is in u, behind the first l elements.
Behind(t, u, l, m) == \A i \in 1..m : t[i] = u[l + i]

\* A sequence that has the elements of two, one behind the other.
LEMMA JoinedIs ==
  ASSUME NEW S, NEW s \in Seq(S), NEW t \in Seq(S), NEW u \in Seq(S),
         NEW l \in Nat, NEW m \in Nat,
         l = Len(s), m = Len(t), Len(u) = l + m,
         Agree(s, u, l), Behind(t, u, l, m)
  PROVE  u = s \o t
<1>1. PICK v \in Seq(S) : v = s \o t
  BY ConcatProperties
<1>2. /\ Len(v) = l + m
      /\ \A i \in 1..l : v[i] = s[i]
      /\ \A i \in 1..m : v[l + i] = t[i]
  BY <1>1, Joined
<1>3. ASSUME NEW i \in 1..l + m
      PROVE  u[i] = v[i]
  <2>1. CASE i \in 1..l
    BY <1>2, <2>1 DEF Agree
  <2>2. CASE i \notin 1..l
    <3>1. PICK j \in 1..m : i = l + j
      <4>1. i - l \in 1..m /\ i = l + (i - l)
        BY <2>2
      <4> QED
        BY <4>1
    <3> QED
      BY <1>2, <3>1 DEF Behind
  <2> QED
    BY <2>1, <2>2
<1> QED
  BY <1>1, <1>2, <1>3, SeqEqual

----------------------------------------------------------------------------
(* Lists of items *)

ItemPieces(natural, scope, items) ==
  [i \in DOMAIN items |-> ItemColumns(natural, scope, items[i])]

AllRun(natural, scope, items) ==
  \A i \in DOMAIN items : ItemRuns(natural, scope, items[i])

LEMMA ItemPiecesType ==
  ASSUME NEW natural, NEW scope \in Seq(Entries), NEW items \in Seq(ItemsOver(Names)),
         AllRun(natural, scope, items)
  PROVE  /\ ItemPieces(natural, scope, items) \in Seq(Seq(Cells))
         /\ Len(ItemPieces(natural, scope, items)) = Len(items)
         /\ DOMAIN ItemPieces(natural, scope, items) = DOMAIN items
         /\ \A i \in DOMAIN items : /\ items[i] \in ItemsOver(Names)
                                    /\ ItemColumns(natural, scope, items[i]) \in Seq(Cells)
<1>1. \A i \in DOMAIN items : items[i] \in ItemsOver(Names)
  BY ElementOfSeq, LenProperties
<1>2. \A i \in DOMAIN items : ItemColumns(natural, scope, items[i]) \in Seq(Cells)
  BY <1>1, ItemType DEF AllRun
<1>3. DOMAIN items = 1..Len(items) /\ Len(items) \in Nat
  BY LenProperties
<1>4. /\ ItemPieces(natural, scope, items) \in Seq(Seq(Cells))
      /\ Len(ItemPieces(natural, scope, items)) = Len(items)
  BY <1>2, <1>3 DEF ItemPieces
<1> QED
  BY <1>1, <1>2, <1>4 DEF ItemPieces

LEMMA ItemPiecesJoined ==
  ASSUME NEW natural, NEW scope \in Seq(Entries), NEW items \in Seq(ItemsOver(Names)),
         NEW more \in Seq(ItemsOver(Names)), NEW all, all = items \o more,
         AllRun(natural, scope, all)
  PROVE  /\ AllRun(natural, scope, items) /\ AllRun(natural, scope, more)
         /\ Consists(ItemPieces(natural, scope, all),
                     ItemPieces(natural, scope, items), ItemPieces(natural, scope, more))
<1>1. PICK l \in Nat, m \in Nat : l = Len(items) /\ m = Len(more)
  BY LenProperties
<1>2. /\ all \in Seq(ItemsOver(Names)) /\ Len(all) = l + m
      /\ DOMAIN all = 1..(l + m) /\ DOMAIN items = 1..l /\ DOMAIN more = 1..m
      /\ \A i \in 1..l : all[i] = items[i]
      /\ \A i \in 1..m : all[l + i] = more[i]
  BY <1>1, Joined
<1>3. AllRun(natural, scope, items)
  <2>1. \A i \in 1..l : i \in 1..(l + m)
    OBVIOUS
  <2> QED
    BY <1>2, <2>1 DEF AllRun
<1>4. AllRun(natural, scope, more)
  <2>1. \A i \in 1..m : l + i \in 1..(l + m)
    OBVIOUS
  <2> QED
    BY <1>2, <2>1 DEF AllRun
<1>5. PICK a \in Seq(Seq(Cells)) : a = ItemPieces(natural, scope, items)
  BY <1>3, ItemPiecesType
<1>6. PICK b \in Seq(Seq(Cells)) : b = ItemPieces(natural, scope, more)
  BY <1>4, ItemPiecesType
<1>7. PICK c \in Seq(Seq(Cells)) : c = ItemPieces(natural, scope, all)
  BY <1>2, ItemPiecesType
<1>8. /\ Len(a) = l /\ Len(b) = m /\ Len(c) = l + m
  BY <1>1, <1>2, <1>3, <1>4, <1>5, <1>6, <1>7, ItemPiecesType
<1>9. /\ \A i \in 1..l : a[i] = c[i]
      /\ \A i \in 1..m : b[i] = c[l + i]
  <2>1. ASSUME NEW i \in 1..l
        PROVE  a[i] = c[i]
    <3>1. i \in DOMAIN items /\ i \in DOMAIN all /\ all[i] = items[i]
      BY <1>2
    <3> QED
      BY <1>5, <1>7, <3>1 DEF ItemPieces
  <2>2. ASSUME NEW i \in 1..m
        PROVE  b[i] = c[l + i]
    <3>1. i \in DOMAIN more /\ l + i \in DOMAIN all /\ all[l + i] = more[i]
      BY <1>2
    <3> QED
      BY <1>6, <1>7, <3>1 DEF ItemPieces
  <2> QED
    BY <2>1, <2>2
<1>10. Agree(a, c, l) /\ Behind(b, c, l, m)
  BY <1>9 DEF Agree, Behind
<1>11. c = a \o b
  BY <1>8, <1>10, JoinedIs
<1>12. Consists(c, a, b)
  BY <1>11 DEF Consists
<1> QED
  BY <1>3, <1>4, <1>5, <1>6, <1>7, <1>12

\* What a list of items returns: the columns, with the provenances of a union.
ListedColumn(shape, column) ==
  IF shape = "union" THEN [column EXCEPT !.from = Computed] ELSE column

Listed(shape, columns) ==
  [i \in DOMAIN columns |-> ListedColumn(shape, columns[i])]

LEMMA ListedColumnType ==
  ASSUME NEW shape, NEW column \in Cells
  PROVE  /\ ListedColumn(shape, column) \in Cells
         /\ ListedColumn(shape, column).name = column.name
         /\ shape # "union" => ListedColumn(shape, column) = column
BY ComputedType DEF Cells, ListedColumn

LEMMA ListedIs ==
  ASSUME NEW shape, NEW columns \in Seq(Cells)
  PROVE  /\ Listed(shape, columns) \in Seq(Cells)
         /\ Len(Listed(shape, columns)) = Len(columns)
         /\ DOMAIN Listed(shape, columns) = DOMAIN columns
         /\ \A i \in DOMAIN columns :
              Listed(shape, columns)[i] = ListedColumn(shape, columns[i])
         /\ shape # "union" => Listed(shape, columns) = columns
<1>1. DOMAIN columns = 1..Len(columns) /\ Len(columns) \in Nat
  BY LenProperties
<1>2. \A i \in DOMAIN columns : ListedColumn(shape, columns[i]) \in Cells
  BY <1>1, ElementOfSeq, ListedColumnType
<1>3. /\ Listed(shape, columns) \in Seq(Cells)
      /\ Len(Listed(shape, columns)) = Len(columns)
      /\ DOMAIN Listed(shape, columns) = DOMAIN columns
      /\ \A i \in DOMAIN columns :
           Listed(shape, columns)[i] = ListedColumn(shape, columns[i])
  BY <1>1, <1>2 DEF Listed
<1>4. ASSUME shape # "union"
      PROVE  Listed(shape, columns) = columns
  <2>1. \A i \in DOMAIN columns : ListedColumn(shape, columns[i]) = columns[i]
    BY <1>4 DEF ListedColumn
  <2> QED
    BY <1>1, <2>1 DEF Listed
<1> QED
  BY <1>3, <1>4

LEMMA ListedJoined ==
  ASSUME NEW shape, NEW s \in Seq(Cells), NEW t \in Seq(Cells)
  PROVE  Consists(Listed(shape, s \o t), Listed(shape, s), Listed(shape, t))
<1>1. PICK l \in Nat, m \in Nat : l = Len(s) /\ m = Len(t)
  BY LenProperties
<1>2. PICK u \in Seq(Cells) : u = s \o t
  BY ConcatProperties
<1>3. /\ Len(u) = l + m
      /\ DOMAIN u = 1..(l + m) /\ DOMAIN s = 1..l /\ DOMAIN t = 1..m
      /\ \A i \in 1..l : u[i] = s[i]
      /\ \A i \in 1..m : u[l + i] = t[i]
  BY <1>1, <1>2, Joined
<1>4. PICK a \in Seq(Cells) : a = Listed(shape, s)
  BY ListedIs
<1>5. PICK b \in Seq(Cells) : b = Listed(shape, t)
  BY ListedIs
<1>6. PICK c \in Seq(Cells) : c = Listed(shape, u)
  BY ListedIs
<1>7. Len(a) = l /\ Len(b) = m /\ Len(c) = l + m
  BY <1>1, <1>3, <1>4, <1>5, <1>6, ListedIs
<1>8. \A i \in 1..l : a[i] = c[i]
  <2>1. \A i \in 1..l : i \in DOMAIN u
    BY <1>3
  <2>2. \A i \in DOMAIN u : c[i] = ListedColumn(shape, u[i])
    BY <1>6, ListedIs
  <2>3. \A i \in DOMAIN s : a[i] = ListedColumn(shape, s[i])
    BY <1>4, ListedIs
  <2> QED
    BY <1>3, <2>1, <2>2, <2>3
<1>9. \A i \in 1..m : b[i] = c[l + i]
  <2>1. \A i \in 1..m : l + i \in DOMAIN u
    BY <1>3
  <2>2. \A i \in DOMAIN u : c[i] = ListedColumn(shape, u[i])
    BY <1>6, ListedIs
  <2>3. \A i \in DOMAIN t : b[i] = ListedColumn(shape, t[i])
    BY <1>5, ListedIs
  <2> QED
    BY <1>3, <2>1, <2>2, <2>3
<1>10. Agree(a, c, l) /\ Behind(b, c, l, m)
  BY <1>8, <1>9 DEF Agree, Behind
<1>11. c = a \o b
  BY <1>7, <1>10, JoinedIs
<1> QED
  BY <1>2, <1>4, <1>5, <1>6, <1>11 DEF Consists

----------------------------------------------------------------------------
(* What a user's items stand for, with hidden columns behind them or without *)

LEMMA ItemRunsGrown ==
  ASSUME NEW natural \in BOOLEAN, NEW scope \in Seq(Entries), NEW other \in Seq(Entries),
         NEW item \in ItemsOver(UsersNames), Grown(scope, other), scope # << >>
  PROVE  ItemRuns(natural, other, item) <=> ItemRuns(natural, scope, item)
<1>1. /\ item.kind \in {"star", "column", "expression"}
      /\ item.name \in UsersNames
  BY ItemFields
<1>2. ~IsHidden(item.name)
  BY <1>1 DEF UsersNames
<1>3. CASE item.kind = "expression"
  BY <1>3 DEF ItemRuns
<1>4. CASE item.kind = "star"
  <2>1. DOMAIN other = DOMAIN scope /\ \A i \in DOMAIN scope : other[i].alias = scope[i].alias
    BY DEF Grown, GrownEntry
  <2> QED
    BY <1>4, <2>1 DEF ItemRuns
<1>5. CASE item.kind = "column"
  <2>1. Named(other, item) = Named(scope, item)
    BY <1>2, NamedGrown
  <2>2. item.name \in Merged(natural, other) <=> item.name \in Merged(natural, scope)
    BY <1>2, MergedGrown
  <2>3. \A s : ItemRuns(natural, s, item)
                 <=> \/ Cardinality(Named(s, item)) = 1
                     \/ item.of = Nameless /\ item.name \in Merged(natural, s)
    BY <1>5 DEF ItemRuns
  <2> QED
    BY <2>1, <2>2, <2>3
<1> QED
  BY <1>1, <1>3, <1>4, <1>5

\* The wildcards stand for the same columns.
StarsKept(natural, scope, other, items) ==
  \A i \in DOMAIN items : items[i].kind = "star" =>
    ItemColumns(natural, other, items[i]) = ItemColumns(natural, scope, items[i])

LEMMA ListGrown ==
  ASSUME NEW natural \in BOOLEAN, NEW scope \in Seq(Entries), NEW other \in Seq(Entries),
         NEW items \in Seq(ItemsOver(UsersNames)), Grown(scope, other), scope # << >>,
         StarsKept(natural, scope, other, items)
  PROVE  /\ AllRun(natural, other, items) <=> AllRun(natural, scope, items)
         /\ AllRun(natural, scope, items) =>
              ItemPieces(natural, other, items) = ItemPieces(natural, scope, items)
<1>1. \A i \in DOMAIN items : items[i] \in ItemsOver(UsersNames)
  BY ElementOfSeq, LenProperties
<1>2. AllRun(natural, other, items) <=> AllRun(natural, scope, items)
  BY <1>1, ItemRunsGrown DEF AllRun
<1>3. ASSUME AllRun(natural, scope, items), NEW i \in DOMAIN items
      PROVE  ItemColumns(natural, other, items[i]) = ItemColumns(natural, scope, items[i])
  <2>1. PICK item \in ItemsOver(UsersNames) : item = items[i]
    BY <1>1
  <2>2. item.kind \in {"star", "column", "expression"} /\ item.name \in UsersNames
    BY ItemFields
  <2>3. CASE item.kind = "star"
    BY <2>1, <2>3 DEF StarsKept
  <2>4. CASE item.kind = "expression"
    BY <2>1, <2>4 DEF ItemColumns
  <2>5. CASE item.kind = "column"
    <3>1. ItemRuns(natural, scope, item) /\ ~IsHidden(item.name)
      BY <1>3, <2>1, <2>2 DEF AllRun, UsersNames
    <3>2. Named(scope, item) # {}
      BY <2>5, <3>1, RunsFinds
    <3> QED
      BY <2>1, <2>5, <3>1, <3>2, ColumnGrown
  <2> QED
    BY <2>2, <2>3, <2>4, <2>5
<1>4. AllRun(natural, scope, items) =>
        ItemPieces(natural, other, items) = ItemPieces(natural, scope, items)
  BY <1>3 DEF ItemPieces
<1> QED
  BY <1>2, <1>4

\* The columns of a statement with more items, which only find what they name in
\* what has grown, are those of the statement and the items' behind them.
Columns(natural, scope, items) == FlattenSeq(ItemPieces(natural, scope, items))

LEMMA ReturnedListed ==
  ASSUME NEW scope \in Seq(Entries), NEW query,
         query.items \in Seq(ItemsOver(Names)), ItemsRun(scope, query)
  PROVE  /\ Returned(scope, query)
              = Listed(query.shape, Columns(query.natural, scope, query.items))
         /\ Pieces(scope, query) = ItemPieces(query.natural, scope, query.items)
         /\ ItemsRun(scope, query) <=> AllRun(query.natural, scope, query.items)
<1>1. /\ Pieces(scope, query) = ItemPieces(query.natural, scope, query.items)
      /\ ItemsRun(scope, query) <=> AllRun(query.natural, scope, query.items)
  BY DEF ItemPieces, Pieces, ItemsRun, AllRun
<1>2. PICK columns \in Seq(Cells) :
        columns = Columns(query.natural, scope, query.items)
  BY <1>1, ItemPiecesType, FlattenType DEF Columns
<1>3. columns = FlattenSeq(Pieces(scope, query))
  BY <1>1, <1>2 DEF Columns
<1>4. CASE query.shape = "union"
  BY <1>1, <1>2, <1>3, <1>4, ReturnedIs DEF Listed, ListedColumn
<1>5. CASE query.shape # "union"
  BY <1>1, <1>2, <1>3, <1>5, ReturnedIs, ListedIs
<1> QED
  BY <1>1, <1>4, <1>5

LEMMA ColumnsType ==
  ASSUME NEW natural, NEW scope \in Seq(Entries), NEW items \in Seq(ItemsOver(Names)),
         AllRun(natural, scope, items)
  PROVE  Columns(natural, scope, items) \in Seq(Cells)
BY ItemPiecesType, FlattenType DEF Columns

LEMMA SequencesWiden ==
  ASSUME NEW S, NEW T, S \subseteq T, NEW s \in Seq(S)
  PROVE  s \in Seq(T)
OBVIOUS

LEMMA UsersItems == ItemsOver(UsersNames) \subseteq ItemsOver(Names)
BY DEF ItemsOver, UsersNames

LEMMA ReturnedGrown ==
  ASSUME NEW natural, NEW shape,
         NEW scope \in Seq(Entries), NEW other \in Seq(Entries),
         NEW items \in Seq(ItemsOver(UsersNames)), NEW more \in Seq(ItemsOver(Names)),
         NEW all, all = items \o more,
         natural \in BOOLEAN, Grown(scope, other), scope # << >>,
         StarsKept(natural, scope, other, items), AllRun(natural, other, all)
  PROVE  /\ AllRun(natural, scope, items) /\ AllRun(natural, other, more)
         /\ Consists(ItemPieces(natural, other, all),
                     ItemPieces(natural, scope, items), ItemPieces(natural, other, more))
         /\ Consists(Columns(natural, other, all),
                     Columns(natural, scope, items), Columns(natural, other, more))
         /\ Consists(Listed(shape, Columns(natural, other, all)),
                     Listed(shape, Columns(natural, scope, items)),
                     Listed(shape, Columns(natural, other, more)))
<1>1. items \in Seq(ItemsOver(Names))
  BY UsersItems, SequencesWiden
<1>2. /\ AllRun(natural, other, items) /\ AllRun(natural, other, more)
      /\ Consists(ItemPieces(natural, other, all),
                  ItemPieces(natural, other, items), ItemPieces(natural, other, more))
  BY <1>1, ItemPiecesJoined
<1>3. /\ AllRun(natural, scope, items)
      /\ ItemPieces(natural, other, items) = ItemPieces(natural, scope, items)
  BY <1>2, ListGrown
<1>4. PICK a \in Seq(Seq(Cells)) : a = ItemPieces(natural, scope, items)
  BY <1>1, <1>3, ItemPiecesType
<1>5. PICK b \in Seq(Seq(Cells)) : b = ItemPieces(natural, other, more)
  BY <1>2, ItemPiecesType
<1>6. FlattenSeq(a \o b) = FlattenSeq(a) \o FlattenSeq(b)
  BY <1>4, <1>5, FlattenConcat, Zenon
<1>7. PICK c : c = ItemPieces(natural, other, all) /\ c = a \o b
  BY <1>2, <1>3, <1>4, <1>5 DEF Consists
<1>8. PICK s \in Seq(Cells) : s = Columns(natural, scope, items)
  BY <1>1, <1>3, ColumnsType
<1>9. PICK t \in Seq(Cells) : t = Columns(natural, other, more)
  BY <1>2, ColumnsType
<1>10. Consists(Columns(natural, other, all), s, t)
  <2>1. FlattenSeq(c) = s \o t
    BY <1>4, <1>5, <1>6, <1>7, <1>8, <1>9 DEF Columns
  <2> QED
    BY <1>7, <2>1 DEF Columns, Consists
<1>11. Consists(Listed(shape, s \o t), Listed(shape, s), Listed(shape, t))
  BY <1>8, <1>9, ListedJoined, Zenon
<1>12. Consists(Listed(shape, Columns(natural, other, all)),
                Listed(shape, s), Listed(shape, t))
  <2>1. Columns(natural, other, all) = s \o t
    BY <1>10 DEF Consists
  <2> QED
    BY <1>11, <2>1
<1> QED
  BY <1>2, <1>3, <1>8, <1>9, <1>10, <1>12

----------------------------------------------------------------------------
(* Hidden items *)

LEMMA NamelessIsUsers == Nameless \in UsersNames /\ Nameless \in Names
<1>1. Len(Nameless) = 0 /\ Nameless \in Names
  BY EmptySeq DEF Nameless, Names
<1>2. ~IsHidden(Nameless)
  BY <1>1 DEF IsHidden
<1> QED
  BY <1>1, <1>2 DEF UsersNames

HiddenItems(items) ==
  \A i \in DOMAIN items : items[i].kind = "column" /\ IsHidden(items[i].as)

\* Each stands for one column, of what it names, under its hidden name.
CarriedFrom(scope, item, column) ==
  \E i \in DOMAIN scope : \E j \in DOMAIN scope[i].columns :
    /\ <<i, j>> \in Named(scope, item)
    /\ column = Renamed(scope[i].columns[j], item.as)

LEMMA HiddenColumns ==
  ASSUME NEW natural, NEW scope \in Seq(Entries), NEW items \in Seq(ItemsOver(Names)),
         HiddenItems(items), AllRun(natural, scope, items)
  PROVE  /\ Columns(natural, scope, items) \in Seq(Cells)
         /\ Len(Columns(natural, scope, items)) = Len(items)
         /\ DOMAIN Columns(natural, scope, items) = DOMAIN items
         /\ \A i \in DOMAIN items :
              /\ CarriedFrom(scope, items[i], Columns(natural, scope, items)[i])
              /\ Columns(natural, scope, items)[i].name = items[i].as
<1>1. ASSUME NEW i \in DOMAIN items
      PROVE  \E column \in Cells :
               /\ ItemColumns(natural, scope, items[i]) = <<column>>
               /\ CarriedFrom(scope, items[i], column)
               /\ column.name = items[i].as
  <2>1. PICK item \in ItemsOver(Names) : item = items[i]
    BY ItemPiecesType
  <2>2. /\ item.kind = "column" /\ IsHidden(item.as) /\ ItemRuns(natural, scope, item)
        /\ item.as \in Names
    BY <2>1, ItemFields DEF HiddenItems, AllRun
  <2>3. Named(scope, item) # {}
    BY <2>2, RunsFinds
  <2>4. PICK x \in DOMAIN scope : \E y \in DOMAIN scope[x].columns :
          /\ <<x, y>> \in Named(scope, item)
          /\ ItemColumns(natural, scope, item) = <<Renamed(scope[x].columns[y], item.as)>>
    BY <2>2, <2>3, ColumnTaken
  <2>5. PICK y \in DOMAIN scope[x].columns :
          /\ <<x, y>> \in Named(scope, item)
          /\ ItemColumns(natural, scope, item) = <<Renamed(scope[x].columns[y], item.as)>>
    BY <2>4
  <2>6. scope[x].columns[y] \in Cells
    BY ScopeAt
  <2>7. item.as # Nameless
    BY <2>2, NamelessIsUsers DEF UsersNames
  <2>8. /\ Renamed(scope[x].columns[y], item.as) \in Cells
        /\ Renamed(scope[x].columns[y], item.as).name = item.as
    BY <2>2, <2>6, <2>7, RenamedType
  <2>9. CarriedFrom(scope, item, Renamed(scope[x].columns[y], item.as))
    BY <2>5 DEF CarriedFrom
  <2> QED
    BY <2>1, <2>5, <2>8, <2>9
<1> DEFINE F(i) == ItemColumns(natural, scope, items[i])[1]
           columns == [i \in DOMAIN items |-> F(i)]
<1>2. \A i \in DOMAIN items : /\ F(i) \in Cells
                              /\ ItemColumns(natural, scope, items[i]) = <<F(i)>>
                              /\ CarriedFrom(scope, items[i], F(i))
                              /\ F(i).name = items[i].as
  BY <1>1
<1> HIDE DEF F
<1>3. DOMAIN items = 1..Len(items) /\ Len(items) \in Nat
  BY LenProperties
<1>4. /\ columns \in Seq(Cells) /\ Len(columns) = Len(items)
      /\ DOMAIN columns = DOMAIN items /\ \A i \in DOMAIN items : columns[i] = F(i)
  BY <1>2, <1>3
<1> HIDE DEF columns
<1>5. PICK pieces \in Seq(Seq(Cells)) : pieces = ItemPieces(natural, scope, items)
  BY ItemPiecesType
<1>6. Singles(pieces, columns)
  <2>1. Len(pieces) = Len(columns)
    BY <1>4, <1>5, ItemPiecesType
  <2>2. \A i \in DOMAIN columns : pieces[i] = <<columns[i]>>
    BY <1>2, <1>4, <1>5 DEF ItemPieces
  <2> QED
    BY <2>1, <2>2 DEF Singles
<1>7. Columns(natural, scope, items) = columns
  BY <1>4, <1>5, <1>6, FlattenSingles DEF Columns
<1> QED
  BY <1>2, <1>4, <1>7

LEMMA ColumnsJoined ==
  ASSUME NEW natural, NEW scope \in Seq(Entries),
         NEW items \in Seq(ItemsOver(Names)), NEW more \in Seq(ItemsOver(Names)),
         NEW all, all = items \o more, AllRun(natural, scope, all)
  PROVE  /\ AllRun(natural, scope, items) /\ AllRun(natural, scope, more)
         /\ Consists(Columns(natural, scope, all),
                     Columns(natural, scope, items), Columns(natural, scope, more))
<1>1. /\ AllRun(natural, scope, items) /\ AllRun(natural, scope, more)
      /\ Consists(ItemPieces(natural, scope, all),
                  ItemPieces(natural, scope, items), ItemPieces(natural, scope, more))
  BY ItemPiecesJoined
<1>2. PICK a \in Seq(Seq(Cells)) : a = ItemPieces(natural, scope, items)
  BY <1>1, ItemPiecesType
<1>3. PICK b \in Seq(Seq(Cells)) : b = ItemPieces(natural, scope, more)
  BY <1>1, ItemPiecesType
<1>4. FlattenSeq(a \o b) = FlattenSeq(a) \o FlattenSeq(b)
  BY <1>2, <1>3, FlattenConcat, Zenon
<1>5. PICK c : c = ItemPieces(natural, scope, all) /\ c = a \o b
  BY <1>1, <1>2, <1>3 DEF Consists
<1>6. PICK s \in Seq(Cells) : s = Columns(natural, scope, items)
  BY <1>1, ColumnsType
<1>7. PICK t \in Seq(Cells) : t = Columns(natural, scope, more)
  BY <1>1, ColumnsType
<1>8. FlattenSeq(c) = s \o t
  BY <1>2, <1>3, <1>4, <1>5, <1>6, <1>7 DEF Columns
<1>9. Consists(Columns(natural, scope, all), s, t)
  BY <1>5, <1>8 DEF Columns, Consists
<1> QED
  BY <1>1, <1>6, <1>7, <1>9

\* A query with more items behind its own.
Adding(query, more) == [query EXCEPT !.items = @ \o more]

LEMMA UsersTables == TablesOver(UsersNames) \subseteq TablesOver(Names)
BY DEF TablesOver, UsersNames

LEMMA UsersInner ==
  ASSUME NEW query \in InnerQueries(UsersNames)
  PROVE  query \in InnerQueries(Names)
<1>1. query.items \in Seq(ItemsOver(Names))
  BY QueryFields, UsersItems, SequencesWiden DEF InnerQueries
<1>2. query.from \in Seq(TablesOver(Names))
  BY QueryFields, UsersTables, SequencesWiden DEF InnerQueries
<1> QED
  BY <1>1, <1>2 DEF InnerQueries, QueriesOver

LEMMA InnerAdding ==
  ASSUME NEW query \in InnerQueries(UsersNames), NEW more \in Seq(ItemsOver(Names))
  PROVE  /\ Adding(query, more) \in InnerQueries(Names)
         /\ Adding(query, more).items = query.items \o more
         /\ Adding(query, more).from = query.from
         /\ Adding(query, more).shape = query.shape
         /\ Adding(query, more).natural = query.natural
         /\ Adding(query, more).width = query.width
<1>1. PICK items \in Seq(ItemsOver(Names)) : items = query.items
  BY UsersInner, QueryFields DEF InnerQueries
<1>2. items \o more \in Seq(ItemsOver(Names))
  BY <1>1, ConcatProperties
<1>3. query \in InnerQueries(Names)
  BY UsersInner
<1> QED
  BY <1>1, <1>2, <1>3 DEF Adding, QueriesOver, InnerQueries

\* A derived table with hidden items runs without them, and exposes what it
\* exposed, and theirs behind it.
LEMMA InnerGrown ==
  ASSUME NEW catalog, NEW query \in InnerQueries(UsersNames),
         NEW more \in Seq(ItemsOver(Names)), NEW other, other = Adding(query, more),
         IsCatalog(catalog), query.shape # "union", InnerRuns(catalog, other)
  PROVE  /\ InnerRuns(catalog, query)
         /\ AllRun(query.natural, InnerScope(catalog, query), more)
         /\ Consists(InnerColumns(catalog, other), InnerColumns(catalog, query),
                     Columns(query.natural, InnerScope(catalog, query), more))
<1>1. /\ other \in InnerQueries(Names) /\ query \in InnerQueries(Names)
      /\ other.items = query.items \o more /\ other.from = query.from
      /\ other.shape = query.shape /\ other.natural = query.natural
  BY InnerAdding, UsersInner
<1>2. InnerScope(catalog, other) = InnerScope(catalog, query)
  BY <1>1 DEF InnerScope
<1>3. PICK scope \in Seq(Entries) : /\ scope = InnerScope(catalog, query)
                                    /\ ItemsRun(scope, other)
  BY <1>1, <1>2, InnerColumnsType
<1>4. PICK items \in Seq(ItemsOver(Names)) : items = query.items
  BY <1>1, QueryFields DEF InnerQueries
<1>5. PICK all \in Seq(ItemsOver(Names)) : all = items \o more /\ all = other.items
  BY <1>1, <1>4, ConcatProperties
<1>6. PICK natural : natural = query.natural
  OBVIOUS
<1>7. AllRun(natural, scope, all)
  BY <1>1, <1>3, <1>5, <1>6 DEF ItemsRun, AllRun
<1>8. /\ AllRun(natural, scope, items) /\ AllRun(natural, scope, more)
      /\ Consists(Columns(natural, scope, all),
                  Columns(natural, scope, items), Columns(natural, scope, more))
  BY <1>5, <1>7, ColumnsJoined
<1>9. ItemsRun(scope, query)
  BY <1>4, <1>6, <1>8 DEF ItemsRun, AllRun
<1>10. InnerRuns(catalog, query)
  <2>1. ListRuns(scope, query)
    BY <1>1, <1>2, <1>3, <1>9 DEF InnerRuns, ListRuns, ItemsRun
  <2> QED
    BY <1>1, <1>3, <2>1 DEF InnerRuns
<1>11. InnerColumns(catalog, query) = Columns(natural, scope, items)
  <2>1. Returned(scope, query) = Listed(query.shape, Columns(query.natural, scope, query.items))
    BY <1>4, <1>9, ReturnedListed
  <2>2. Columns(natural, scope, items) \in Seq(Cells)
    BY <1>8, ColumnsType
  <2> QED
    BY <1>3, <1>4, <1>6, <2>1, <2>2, ListedIs DEF InnerColumns
<1>12. InnerColumns(catalog, other) = Columns(natural, scope, all)
  <2>1. Returned(scope, other) = Listed(other.shape, Columns(other.natural, scope, other.items))
    BY <1>3, <1>5, ReturnedListed
  <2>2. Columns(natural, scope, all) \in Seq(Cells)
    BY <1>7, ColumnsType
  <2> QED
    BY <1>1, <1>2, <1>3, <1>5, <1>6, <2>1, <2>2, ListedIs DEF InnerColumns
<1> QED
  BY <1>3, <1>6, <1>8, <1>10, <1>11, <1>12

----------------------------------------------------------------------------
(* Entries of FROM with hidden items *)

\* What more shows in an entry of FROM that had n columns.
Exposed(columns, n, scope, alias, more) ==
  \A j \in DOMAIN more :
    /\ n + j \in DOMAIN columns
    /\ \E column \in Cells : /\ CarriedFrom(scope, more[j], column)
                             /\ column.name = more[j].as
                             /\ columns[n + j] = Within(alias, column)

Entry(alias, columns) == [alias |-> alias, columns |-> columns]

LEMMA DerivedGrown ==
  ASSUME NEW catalog, NEW ref \in DerivedOver(UsersNames),
         NEW more \in Seq(ItemsOver(Names)), HiddenItems(more),
         NEW other, other = Derived(ref.alias, Adding(ref.query, more)),
         IsCatalog(catalog), ref.query.shape # "union", InnerRuns(catalog, other.query)
  PROVE  /\ other \in DerivedOver(Names) /\ ref \in DerivedOver(Names)
         /\ InnerRuns(catalog, ref.query)
         /\ Exposes(catalog, ref) \in Seq(Cells) /\ Exposes(catalog, other) \in Seq(Cells)
         /\ GrownEntry(Entry(ref.alias, Exposes(catalog, ref)),
                       Entry(ref.alias, Exposes(catalog, other)))
         /\ Exposed(Exposes(catalog, other), Len(Exposes(catalog, ref)),
                    InnerScope(catalog, ref.query), ref.alias, more)
<1>1. /\ ref.alias \in UsersNames /\ ref.alias # Nameless
      /\ ref.query \in InnerQueries(UsersNames)
  BY DerivedFields
<1>2. PICK inner \in InnerQueries(UsersNames) : inner = ref.query
  BY <1>1
<1>3. PICK grown \in InnerQueries(Names) : grown = Adding(inner, more)
  BY InnerAdding
<1>4. other = [alias |-> ref.alias, query |-> grown]
  BY <1>2, <1>3 DEF Derived
<1>5. other \in DerivedOver(Names) /\ other.alias = ref.alias /\ other.query = grown
  BY <1>1, <1>3, <1>4 DEF DerivedOver, InnerQueries, UsersNames
<1>6. ref \in DerivedOver(Names)
  <2>1. ref = [alias |-> ref.alias, query |-> ref.query]
    BY DerivedFields DEF Derived
  <2>2. ref.query \in InnerQueries(Names) /\ ref.alias \in Names \ {Nameless}
    BY <1>1, UsersInner DEF UsersNames
  <2> QED
    BY <2>1, <2>2 DEF DerivedOver, InnerQueries
<1>7. /\ InnerRuns(catalog, inner)
      /\ AllRun(inner.natural, InnerScope(catalog, inner), more)
      /\ Consists(InnerColumns(catalog, grown), InnerColumns(catalog, inner),
                  Columns(inner.natural, InnerScope(catalog, inner), more))
  BY <1>2, <1>3, <1>5, InnerGrown
<1>8. /\ InnerColumns(catalog, inner) \in Seq(Cells)
      /\ InnerScope(catalog, inner) \in Seq(Entries)
  BY <1>7, UsersInner, InnerColumnsType
<1>9. PICK scope \in Seq(Entries) : scope = InnerScope(catalog, inner)
  BY <1>8
<1>10. PICK s \in Seq(Cells) : s = InnerColumns(catalog, inner)
  BY <1>8
<1>11. PICK t \in Seq(Cells) :
        /\ t = Columns(inner.natural, scope, more)
        /\ Len(t) = Len(more) /\ DOMAIN t = DOMAIN more
        /\ \A j \in DOMAIN more : CarriedFrom(scope, more[j], t[j]) /\ t[j].name = more[j].as
  BY <1>7, <1>9, HiddenColumns
<1>12. PICK u \in Seq(Cells) : u = InnerColumns(catalog, grown)
  BY <1>5, InnerColumnsType
<1>13. u = s \o t
  BY <1>7, <1>9, <1>10, <1>11, <1>12 DEF Consists
<1>14. PICK n \in Nat, m \in Nat : n = Len(s) /\ m = Len(t)
  BY LenProperties
<1>15. /\ Len(u) = n + m /\ DOMAIN u = 1..(n + m) /\ DOMAIN s = 1..n /\ DOMAIN t = 1..m
       /\ \A i \in 1..n : u[i] = s[i]
       /\ \A i \in 1..m : u[n + i] = t[i]
  BY <1>13, <1>14, Joined
<1>16. PICK a \in Seq(Cells) :
         /\ a = Exposes(catalog, ref) /\ Len(a) = n /\ DOMAIN a = 1..n
         /\ \A i \in 1..n : a[i] = Within(ref.alias, s[i])
  BY <1>2, <1>6, <1>7, <1>10, <1>14, <1>15, ExposesDerived
<1>17. PICK b \in Seq(Cells) :
         /\ b = Exposes(catalog, other) /\ Len(b) = n + m /\ DOMAIN b = 1..(n + m)
         /\ \A i \in 1..(n + m) : b[i] = Within(ref.alias, u[i])
  BY <1>5, <1>12, <1>15, ExposesDerived
<1>18. \A j \in 1..n : j \in 1..(n + m) /\ b[j] = a[j]
  BY <1>15, <1>16, <1>17
<1>19. ASSUME NEW j \in 1..m
       PROVE  /\ n + j \in 1..(n + m)
              /\ t[j] \in Cells
              /\ b[n + j] = Within(ref.alias, t[j])
              /\ b[n + j].name = more[j].as
              /\ IsHidden(more[j].as)
  <2>1. n + j \in 1..(n + m)
    OBVIOUS
  <2>2. j \in DOMAIN t /\ j \in DOMAIN more /\ t[j] \in Cells
    BY <1>11, <1>14, <1>15, ElementOfSeq
  <2>3. b[n + j] = Within(ref.alias, t[j])
    BY <1>15, <1>17, <2>1
  <2>4. t[j].name = more[j].as /\ IsHidden(more[j].as)
    BY <1>11, <2>2 DEF HiddenItems
  <2>5. ref.alias \in Names
    BY <1>1 DEF UsersNames
  <2> QED
    BY <2>1, <2>2, <2>3, <2>4, <2>5, WithinIs
<1>20. GrownEntry(Entry(ref.alias, a), Entry(ref.alias, b))
  <2>1. ASSUME NEW j \in 1..(n + m), j \notin 1..n
        PROVE  IsHidden(b[j].name)
    <3>1. PICK i \in 1..m : j = n + i
      <4>1. j - n \in 1..m /\ j = n + (j - n)
        BY <2>1
      <4> QED
        BY <4>1
    <3> QED
      BY <1>19, <3>1
  <2>2. \A j \in 1..n : j \in 1..(n + m)
    OBVIOUS
  <2>3. DOMAIN a = 1..n /\ DOMAIN b = 1..(n + m)
    BY <1>16, <1>17
  <2>4. DOMAIN a \subseteq DOMAIN b
    BY <2>2, <2>3
  <2> QED
    BY <1>18, <2>1, <2>3, <2>4 DEF GrownEntry, Entry
<1>21. Exposed(b, n, scope, ref.alias, more)
  <2>1. DOMAIN more = 1..m
    BY <1>11, <1>15
  <2> QED
    BY <1>11, <1>17, <1>19, <2>1 DEF Exposed
<1> QED
  BY <1>2, <1>5, <1>6, <1>7, <1>9, <1>16, <1>17, <1>20, <1>21

----------------------------------------------------------------------------
(* Statements with hidden items in their list and in their derived tables *)

GrownRef(ref, more) ==
  IF IsDerived(ref) THEN Derived(ref.alias, Adding(ref.query, more)) ELSE ref

GrownQuery(query, inner, more) ==
  [query EXCEPT !.items = @ \o more,
                !.from = [i \in DOMAIN @ |-> GrownRef(@[i], inner[i])]]

NoUnionInside(query) ==
  \A i \in DOMAIN query.from :
    IsDerived(query.from[i]) => query.from[i].query.shape # "union"

\* inner gives hidden items for each entry of FROM.
Inserts(query, inner) ==
  \A i \in DOMAIN query.from :
    inner[i] \in Seq(ItemsOver(Names)) /\ HiddenItems(inner[i])

LEMMA UsersRefs ==
  ASSUME NEW ref \in Refs(UsersNames)
  PROVE  ref \in Refs(Names)
<1>1. CASE IsDerived(ref)
  <2>1. ref \in DerivedOver(UsersNames)
    BY <1>1, RefCases
  <2>2. /\ ref.alias \in UsersNames /\ ref.alias # Nameless
        /\ ref.query \in InnerQueries(Names) /\ ref = Derived(ref.alias, ref.query)
    BY <2>1, DerivedFields, UsersInner
  <2> QED
    BY <2>2 DEF Refs, DerivedOver, Derived, InnerQueries, UsersNames
<1>2. CASE ~IsDerived(ref)
  BY <1>2, RefCases, UsersTables DEF Refs
<1> QED
  BY <1>1, <1>2

LEMMA GrownRefType ==
  ASSUME NEW ref \in Refs(UsersNames), NEW more \in Seq(ItemsOver(Names))
  PROVE  /\ GrownRef(ref, more) \in Refs(Names)
         /\ GrownRef(ref, more).alias = ref.alias
         /\ IsDerived(GrownRef(ref, more)) <=> IsDerived(ref)
         /\ ~IsDerived(ref) => GrownRef(ref, more) = ref
         /\ IsDerived(ref) => GrownRef(ref, more).query = Adding(ref.query, more)
<1>1. CASE IsDerived(ref)
  <2>1. /\ ref.alias \in UsersNames /\ ref.alias # Nameless
        /\ ref.query \in InnerQueries(UsersNames)
    BY <1>1, RefCases, DerivedFields
  <2>2. PICK grown \in InnerQueries(Names) : grown = Adding(ref.query, more)
    BY <2>1, InnerAdding
  <2>3. GrownRef(ref, more) = [alias |-> ref.alias, query |-> grown]
    BY <1>1, <2>2 DEF GrownRef, Derived
  <2>4. GrownRef(ref, more) \in DerivedOver(Names)
    BY <2>1, <2>3 DEF DerivedOver, InnerQueries, UsersNames
  <2> QED
    BY <1>1, <2>2, <2>3, <2>4 DEF Refs, IsDerived
<1>2. CASE ~IsDerived(ref)
  BY <1>2, UsersRefs DEF GrownRef
<1> QED
  BY <1>1, <1>2

LEMMA GrownQueryIs ==
  ASSUME NEW query \in StatementsOver(UsersNames), NEW inner,
         NEW more \in Seq(ItemsOver(Names)), Inserts(query, inner),
         NEW other, other = GrownQuery(query, inner, more)
  PROVE  /\ other \in StatementsOver(Names)
         /\ other.items = query.items \o more
         /\ other.shape = query.shape /\ other.natural = query.natural
         /\ other.outer = query.outer /\ other.width = query.width
         /\ DOMAIN other.from = DOMAIN query.from
         /\ Len(other.from) = Len(query.from)
         /\ \A i \in DOMAIN query.from :
              other.from[i] = GrownRef(query.from[i], inner[i])
<1>1. /\ query \in QueriesOver(Refs(UsersNames), UsersNames)
      /\ query.from \in Seq(Refs(UsersNames))
      /\ DOMAIN query.from = 1..Len(query.from) /\ Len(query.from) \in Nat
      /\ \A i \in DOMAIN query.from : query.from[i] \in Refs(UsersNames)
  BY StatementQueries, QueryFields
<1>2. PICK items \in Seq(ItemsOver(Names)) : items = query.items
  BY <1>1, QueryFields, UsersItems, SequencesWiden
<1>3. items \o more \in Seq(ItemsOver(Names))
  BY <1>2, ConcatProperties
<1> DEFINE from == [i \in DOMAIN query.from |-> GrownRef(query.from[i], inner[i])]
<1>4. \A i \in DOMAIN query.from : GrownRef(query.from[i], inner[i]) \in Refs(Names)
  BY <1>1, GrownRefType DEF Inserts
<1>5. from \in Seq(Refs(Names)) /\ Len(from) = Len(query.from)
  BY <1>1, <1>4
<1>6. other = [query EXCEPT !.items = items \o more, !.from = from]
  BY <1>1, <1>2 DEF GrownQuery, QueriesOver
<1>7. /\ other \in QueriesOver(Refs(Names), Names)
      /\ other.items = items \o more /\ other.from = from
      /\ other.shape = query.shape /\ other.natural = query.natural
      /\ other.outer = query.outer /\ other.width = query.width
  <2> HIDE DEF from
  <2> QED
    BY <1>1, <1>3, <1>5, <1>6 DEF QueriesOver
<1> QED
  BY <1>2, <1>5, <1>7, StatementQueries

\* A table exposes what it did, a derived table what it did and hidden columns.
LEMMA RefGrown ==
  ASSUME NEW catalog, NEW ref \in Refs(UsersNames), IsCatalog(catalog),
         NEW more \in Seq(ItemsOver(Names)), HiddenItems(more),
         IsDerived(ref) => ref.query.shape # "union",
         NEW other, other = GrownRef(ref, more),
         IF IsDerived(other) THEN InnerRuns(catalog, other.query)
                             ELSE Exists(catalog, other)
  PROVE  /\ IF IsDerived(ref) THEN InnerRuns(catalog, ref.query)
                              ELSE Exists(catalog, ref)
         /\ GrownEntry(Entry(ref.alias, Exposes(catalog, ref)),
                       Entry(ref.alias, Exposes(catalog, other)))
<1>1. CASE IsDerived(ref)
  <2>1. PICK derived \in DerivedOver(UsersNames) : derived = ref
    BY <1>1, RefCases
  <2>2. other = Derived(derived.alias, Adding(derived.query, more))
    BY <1>1, <2>1 DEF GrownRef
  <2>3. IsDerived(other)
    BY <1>1, GrownRefType
  <2>4. InnerRuns(catalog, other.query) /\ derived.query.shape # "union"
    BY <1>1, <2>1, <2>3
  <2>5. /\ InnerRuns(catalog, derived.query)
        /\ GrownEntry(Entry(derived.alias, Exposes(catalog, derived)),
                      Entry(derived.alias, Exposes(catalog, other)))
    BY <2>2, <2>4, DerivedGrown
  <2> QED
    BY <1>1, <2>1, <2>5
<1>2. CASE ~IsDerived(ref)
  BY <1>2, GrownRefType DEF GrownEntry
<1> QED
  BY <1>1, <1>2

LEMMA QueryGrown ==
  ASSUME NEW catalog, NEW query \in StatementsOver(UsersNames), NEW inner,
         NEW more \in Seq(ItemsOver(Names)), Inserts(query, inner),
         NoUnionInside(query), IsCatalog(catalog),
         NEW other, other = GrownQuery(query, inner, more), Runs(catalog, other)
  PROVE  /\ FromRuns(catalog, query) /\ OwnAliases(query.from)
         /\ Scope(catalog, query) \in Seq(Entries)
         /\ Scope(catalog, other) \in Seq(Entries)
         /\ Grown(Scope(catalog, query), Scope(catalog, other))
         /\ AllRun(query.natural, Scope(catalog, other), other.items)
<1>1. /\ other \in StatementsOver(Names)
      /\ other.natural = query.natural
      /\ DOMAIN other.from = DOMAIN query.from
      /\ \A i \in DOMAIN query.from : other.from[i] = GrownRef(query.from[i], inner[i])
  BY GrownQueryIs
<1>2. /\ query \in QueriesOver(Refs(UsersNames), UsersNames)
      /\ \A i \in DOMAIN query.from : query.from[i] \in Refs(UsersNames)
      /\ query.from \in Seq(Refs(UsersNames))
  BY StatementQueries, QueryFields
<1>3. /\ FromRuns(catalog, other) /\ OwnAliases(other.from)
      /\ Scope(catalog, other) \in Seq(Entries)
      /\ ItemsRun(Scope(catalog, other), other)
  BY <1>1, RunsParts
<1>4. ASSUME NEW i \in DOMAIN query.from
      PROVE  /\ IF IsDerived(query.from[i]) THEN InnerRuns(catalog, query.from[i].query)
                ELSE Exists(catalog, query.from[i])
             /\ GrownEntry(Entry(query.from[i].alias, Exposes(catalog, query.from[i])),
                           Entry(query.from[i].alias, Exposes(catalog, other.from[i])))
             /\ other.from[i].alias = query.from[i].alias
  <2>1. PICK ref \in Refs(UsersNames) : ref = query.from[i]
    BY <1>2
  <2>2. PICK mine \in Seq(ItemsOver(Names)) : mine = inner[i] /\ HiddenItems(mine)
    BY DEF Inserts
  <2>3. other.from[i] = GrownRef(ref, mine)
    BY <1>1, <2>1, <2>2
  <2>4. IF IsDerived(other.from[i]) THEN InnerRuns(catalog, other.from[i].query)
        ELSE Exists(catalog, other.from[i])
    BY <1>1, <1>3 DEF FromRuns
  <2>5. IsDerived(ref) => ref.query.shape # "union"
    BY <2>1 DEF NoUnionInside
  <2>6. /\ IF IsDerived(ref) THEN InnerRuns(catalog, ref.query)
           ELSE Exists(catalog, ref)
        /\ GrownEntry(Entry(ref.alias, Exposes(catalog, ref)),
                      Entry(ref.alias, Exposes(catalog, other.from[i])))
    BY <2>2, <2>3, <2>4, <2>5, RefGrown
  <2>7. other.from[i].alias = ref.alias
    BY <2>2, <2>3, GrownRefType
  <2> QED
    BY <2>1, <2>6, <2>7
<1>5. FromRuns(catalog, query)
  BY <1>4 DEF FromRuns
<1>6. query \in StatementsOver(Names)
  <2>1. query.from \in Seq(Refs(Names))
    <3>1. Refs(UsersNames) \subseteq Refs(Names)
      BY UsersRefs
    <3> QED
      BY <1>2, <3>1, SequencesWiden
  <2>2. query.items \in Seq(ItemsOver(Names))
    BY <1>2, QueryFields, UsersItems, SequencesWiden
  <2> QED
    BY <1>2, <2>1, <2>2, StatementQueries DEF QueriesOver
<1>7. /\ Scope(catalog, query) \in Seq(Entries)
      /\ DOMAIN Scope(catalog, query) = DOMAIN query.from
      /\ \A i \in DOMAIN query.from :
           Scope(catalog, query)[i]
             = Entry(query.from[i].alias, Exposes(catalog, query.from[i]))
  BY <1>5, <1>6, StatementQueries, ScopeType DEF Scope, Entry
<1>8. /\ DOMAIN Scope(catalog, other) = DOMAIN query.from
      /\ \A i \in DOMAIN query.from :
           Scope(catalog, other)[i]
             = Entry(query.from[i].alias, Exposes(catalog, other.from[i]))
  BY <1>1, <1>4 DEF Scope, Entry
<1>9. Grown(Scope(catalog, query), Scope(catalog, other))
  BY <1>4, <1>7, <1>8 DEF Grown
<1>10. OwnAliases(query.from)
  BY <1>1, <1>3, <1>4 DEF OwnAliases, IsInjective
<1>11. AllRun(query.natural, Scope(catalog, other), other.items)
  BY <1>1, <1>3 DEF ItemsRun, AllRun
<1> QED
  BY <1>3, <1>5, <1>7, <1>9, <1>10, <1>11

----------------------------------------------------------------------------
(* What a statement returns with hidden items, and without *)

\* Wildcards stand for tables only.
StarsOverTables(query) ==
  \A i \in DOMAIN query.items : query.items[i].kind = "star" =>
    IF query.items[i].of = Nameless
    THEN \A j \in DOMAIN query.from : ~IsDerived(query.from[j])
    ELSE \E j \in DOMAIN query.from : /\ ~IsDerived(query.from[j])
                                      /\ query.from[j].alias = query.items[i].of

\* The columns of an entry that no other shares its alias with.
LEMMA EntryColumnsAt ==
  ASSUME NEW query, NEW scope \in Seq(Entries), OwnAliases(query.from),
         DOMAIN scope = DOMAIN query.from,
         \A i \in DOMAIN query.from : scope[i].alias = query.from[i].alias,
         NEW j \in DOMAIN query.from
  PROVE  EntryColumns(scope, query.from[j].alias) = scope[j].columns
<1>1. \A i \in DOMAIN scope : scope[i].alias = scope[j].alias => i = j
  BY DEF OwnAliases, IsInjective
<1> QED
  BY <1>1, EntryColumnsOfOne

LEMMA StarColumnsOf ==
  ASSUME NEW natural, NEW scope, NEW item, item.kind = "star"
  PROVE  ItemColumns(natural, scope, item)
           = IF item.of = Nameless THEN StarColumns(natural, scope)
             ELSE EntryColumns(scope, item.of)
BY DEF ItemColumns

LEMMA ScopeEntries ==
  ASSUME NEW catalog, NEW query
  PROVE  /\ DOMAIN Scope(catalog, query) = DOMAIN query.from
         /\ \A i \in DOMAIN query.from :
              /\ Scope(catalog, query)[i].alias = query.from[i].alias
              /\ Scope(catalog, query)[i].columns = Exposes(catalog, query.from[i])
              /\ Scope(catalog, query)[i]
                   = Entry(query.from[i].alias, Exposes(catalog, query.from[i]))
BY DEF Scope, Entry

LEMMA TablesKeepStars ==
  ASSUME NEW catalog, NEW query \in StatementsOver(UsersNames), NEW inner,
         NEW more \in Seq(ItemsOver(Names)), Inserts(query, inner),
         NoUnionInside(query), IsCatalog(catalog), StarsOverTables(query),
         NEW other, other = GrownQuery(query, inner, more), Runs(catalog, other)
  PROVE  StarsKept(query.natural, Scope(catalog, query), Scope(catalog, other), query.items)
<1>1. /\ OwnAliases(query.from)
      /\ Scope(catalog, query) \in Seq(Entries) /\ Scope(catalog, other) \in Seq(Entries)
  BY QueryGrown
<1>2. /\ \A i \in DOMAIN query.from : query.from[i] \in Refs(UsersNames)
      /\ \A i \in DOMAIN query.items : query.items[i] \in ItemsOver(UsersNames)
  BY StatementQueries, QueryFields
<1>3. /\ DOMAIN other.from = DOMAIN query.from
      /\ \A i \in DOMAIN query.from : other.from[i].alias = query.from[i].alias
      /\ \A i \in DOMAIN query.from :
           ~IsDerived(query.from[i]) => other.from[i] = query.from[i]
  BY <1>2, GrownQueryIs, GrownRefType DEF Inserts
<1>4. PICK s \in Seq(Entries) : s = Scope(catalog, query)
  BY <1>1
<1>5. PICK t \in Seq(Entries) : t = Scope(catalog, other)
  BY <1>1
<1>6. /\ DOMAIN s = DOMAIN query.from /\ DOMAIN t = DOMAIN query.from
      /\ \A i \in DOMAIN query.from : s[i].alias = query.from[i].alias
      /\ \A i \in DOMAIN query.from : t[i].alias = query.from[i].alias
      /\ \A i \in DOMAIN query.from : ~IsDerived(query.from[i]) => t[i] = s[i]
  BY <1>3, <1>4, <1>5, ScopeEntries
<1>7. ASSUME NEW i \in DOMAIN query.items, query.items[i].kind = "star"
      PROVE  ItemColumns(query.natural, t, query.items[i])
               = ItemColumns(query.natural, s, query.items[i])
  <2>1. CASE query.items[i].of = Nameless
    <3>1. \A j \in DOMAIN query.from : ~IsDerived(query.from[j])
      BY <1>7, <2>1 DEF StarsOverTables
    <3>2. t = s
      <4>1. \A j \in 1..Len(s) : t[j] = s[j]
        BY <1>6, <3>1, LenProperties
      <4>2. Len(t) = Len(s)
        BY <1>6, LenProperties
      <4> QED
        BY <4>1, <4>2, SeqEqual
    <3> QED
      BY <3>2
  <2>2. CASE query.items[i].of # Nameless
    <3>1. PICK j \in DOMAIN query.from : /\ ~IsDerived(query.from[j])
                                         /\ query.from[j].alias = query.items[i].of
      BY <1>7, <2>2 DEF StarsOverTables
    <3>2. EntryColumns(s, query.from[j].alias) = s[j].columns
      BY <1>1, <1>6, EntryColumnsAt
    <3>3. EntryColumns(t, query.from[j].alias) = t[j].columns
      BY <1>1, <1>6, EntryColumnsAt
    <3> QED
      BY <1>6, <1>7, <2>2, <3>1, <3>2, <3>3, StarColumnsOf
  <2> QED
    BY <2>1, <2>2
<1> QED
  BY <1>4, <1>5, <1>7 DEF StarsKept

LEMMA OutputGrown ==
  ASSUME NEW catalog, NEW query \in StatementsOver(UsersNames), NEW inner,
         NEW more \in Seq(ItemsOver(Names)), Inserts(query, inner),
         NoUnionInside(query), IsCatalog(catalog), StarsOverTables(query),
         query.from # << >>,
         NEW other, other = GrownQuery(query, inner, more), Runs(catalog, other)
  PROVE  /\ AllRun(query.natural, Scope(catalog, query), query.items)
         /\ AllRun(query.natural, Scope(catalog, other), more)
         /\ Consists(ItemPieces(query.natural, Scope(catalog, other), other.items),
                     ItemPieces(query.natural, Scope(catalog, query), query.items),
                     ItemPieces(query.natural, Scope(catalog, other), more))
         /\ Output(catalog, query)
              = Listed(query.shape,
                       Columns(query.natural, Scope(catalog, query), query.items))
         /\ Consists(Output(catalog, other), Output(catalog, query),
                     Listed(query.shape, Columns(query.natural, Scope(catalog, other), more)))
<1>1. /\ other \in StatementsOver(Names)
      /\ other.items = query.items \o more
      /\ other.natural = query.natural /\ other.shape = query.shape
  BY GrownQueryIs
<1>2. PICK s \in Seq(Entries) : s = Scope(catalog, query)
  BY QueryGrown
<1>3. PICK t \in Seq(Entries) : /\ t = Scope(catalog, other) /\ Grown(s, t)
                                /\ AllRun(query.natural, t, other.items)
  BY <1>2, QueryGrown
<1>4. StarsKept(query.natural, s, t, query.items)
  BY <1>2, <1>3, TablesKeepStars
<1>5. s # << >>
  <2>1. DOMAIN s # {}
    <3>1. query.from \in Seq(Refs(UsersNames))
      BY StatementQueries, QueryFields
    <3>2. DOMAIN query.from # {}
      <4>1. PICK from \in Seq(Refs(UsersNames)) : from = query.from /\ from # << >>
        BY <3>1
      <4>2. 1 \in DOMAIN from
        BY <4>1, EmptySeq, LenProperties
      <4> QED
        BY <4>1, <4>2
    <3> QED
      BY <1>2, <3>2, ScopeEntries
  <2> QED
    BY <2>1
<1>6. PICK items \in Seq(ItemsOver(UsersNames)) : items = query.items
  BY StatementQueries, QueryFields
<1>7. query.natural \in BOOLEAN
  BY StatementQueries DEF QueriesOver
<1>8. PICK natural : natural = query.natural /\ natural \in BOOLEAN
  BY <1>7
<1>9. PICK shape : shape = query.shape
  OBVIOUS
<1>10. PICK all : all = items \o more /\ all = other.items
  BY <1>1, <1>6
<1>11. AllRun(natural, t, all) /\ StarsKept(natural, s, t, items)
  BY <1>3, <1>4, <1>6, <1>8, <1>10
<1>12. /\ AllRun(natural, s, items) /\ AllRun(natural, t, more)
       /\ Consists(ItemPieces(natural, t, all), ItemPieces(natural, s, items),
                   ItemPieces(natural, t, more))
       /\ Consists(Listed(shape, Columns(natural, t, all)),
                   Listed(shape, Columns(natural, s, items)),
                   Listed(shape, Columns(natural, t, more)))
  BY <1>3, <1>5, <1>6, <1>8, <1>10, <1>11, ReturnedGrown
<1>13. Output(catalog, query) = Listed(shape, Columns(natural, s, items))
  <2>1. items \in Seq(ItemsOver(Names))
    BY <1>6, UsersItems, SequencesWiden
  <2>2. ItemsRun(s, query)
    BY <1>6, <1>8, <1>12 DEF ItemsRun, AllRun
  <2> QED
    BY <1>2, <1>6, <1>8, <1>9, <2>1, <2>2, ReturnedListed DEF Output
<1>14. Output(catalog, other) = Listed(shape, Columns(natural, t, all))
  <2>1. ItemsRun(t, other) /\ other.items \in Seq(ItemsOver(Names))
    BY <1>1, <1>3, StatementQueries, QueryFields DEF ItemsRun, AllRun
  <2> QED
    BY <1>1, <1>3, <1>8, <1>9, <1>10, <2>1, ReturnedListed DEF Output
<1> QED
  BY <1>2, <1>3, <1>6, <1>8, <1>9, <1>10, <1>12, <1>13, <1>14

----------------------------------------------------------------------------
(* Lookups *)

LEMMA GreatestNumber ==
  ASSUME NEW n \in Nat, NEW I, I \subseteq 1..n, I # {}
  PROVE  \E x \in I : \A y \in I : x >= y
<1> DEFINE J == {n - i : i \in I}
<1>1. \A i \in I : i \in 1..n /\ n - i \in Nat
  OBVIOUS
<1>2. J \subseteq Nat /\ J # {}
  BY <1>1
<1>3. PICK m \in J : \A k \in J : m <= k
  <2> HIDE DEF J
  <2> QED
    BY <1>2, LeastNumber
<1>4. PICK x \in I : m = n - x
  BY <1>3
<1>5. ASSUME NEW y \in I
      PROVE  x >= y
  <2>1. n - y \in J
    OBVIOUS
  <2>2. n - x <= n - y
    BY <1>3, <1>4, <2>1
  <2> QED
    BY <1>1, <2>2
<1> QED
  BY <1>5

LEMMA PositionIs ==
  ASSUME NEW S, NEW columns \in Seq(S), NEW c
  PROVE  /\ Position(columns, c) \in 0..Len(columns)
         /\ c \in ToSet(columns) => /\ Position(columns, c) \in DOMAIN columns
                                    /\ columns[Position(columns, c)] = c
<1> DEFINE I == {i \in 1..Len(columns) : columns[i] = c}
<1>1. Position(columns, c) = IF I # {} THEN Min(I) ELSE 0
  BY DEF Position, SelectInSeq
<1>2. Len(columns) \in Nat /\ DOMAIN columns = 1..Len(columns)
  BY LenProperties
<1>3. CASE I # {}
  <2>1. \E x \in I : \A y \in I : x <= y
    <3>1. I \subseteq Nat
      BY <1>2
    <3> HIDE DEF I
    <3> QED
      BY <1>3, <3>1, LeastNumber
  <2>2. Min(I) \in I
    BY <2>1 DEF Min
  <2> QED
    BY <1>1, <1>2, <1>3, <2>2
<1>4. CASE I = {}
  BY <1>1, <1>2, <1>4 DEF ToSet
<1> QED
  BY <1>3, <1>4

\* The last entry of an alias.
LEMMA RefOfIs ==
  ASSUME NEW S, NEW from \in Seq(S), NEW alias \in Aliases(from)
  PROVE  \E i \in DOMAIN from : RefOf(from, alias) = from[i] /\ from[i].alias = alias
<1> DEFINE I == {i \in 1..Len(from) : from[i].alias = alias}
<1>1. Len(from) \in Nat /\ DOMAIN from = 1..Len(from)
  BY LenProperties
<1>2. I # {} /\ I \subseteq 1..Len(from)
  BY <1>1 DEF Aliases
<1>3. SelectLastInSeq(from, LAMBDA ref : ref.alias = alias) = Max(I)
  BY <1>2 DEF SelectLastInSeq
<1>4. Max(I) \in I
  <2>1. \E x \in I : \A y \in I : x >= y
    <3> HIDE DEF I
    <3> QED
      BY <1>1, <1>2, GreatestNumber
  <2> QED
    BY <2>1 DEF Max
<1>5. RefOf(from, alias) = from[Max(I)]
  BY <1>3 DEF RefOf
<1> QED
  BY <1>1, <1>4, <1>5

LEMMA RefOfOwn ==
  ASSUME NEW S, NEW from \in Seq(S), OwnAliases(from), NEW i \in DOMAIN from
  PROVE  RefOf(from, from[i].alias) = from[i]
<1>1. from[i].alias \in Aliases(from)
  BY DEF Aliases
<1>2. PICK j \in DOMAIN from :
        RefOf(from, from[i].alias) = from[j] /\ from[j].alias = from[i].alias
  BY <1>1, RefOfIs
<1>3. j = i
  BY <1>2 DEF OwnAliases, IsInjective
<1> QED
  BY <1>2, <1>3

LEMMA TableColumns ==
  ASSUME NEW table
  PROVE  /\ ColumnsOf(table) \in Seq(UsersNames) /\ PrimaryKeyColumns(table) \in Seq(UsersNames)
         /\ ColumnsOf(table) \in Seq(Names) /\ PrimaryKeyColumns(table) \in Seq(Names)
         /\ IsInjective(PrimaryKeyColumns(table)) /\ IsInjective(ColumnsOf(table))
         /\ ToSet(PrimaryKeyColumns(table)) \subseteq ToSet(ColumnsOf(table))
         /\ (ColumnsOf(table) # << >> \/ PrimaryKeyColumns(table) # << >>) =>
              /\ <<Home, table>> \in DOMAIN Catalog
              /\ ColumnsOf(table) = Catalog[<<Home, table>>].columns
              /\ PrimaryKeyColumns(table) = Catalog[<<Home, table>>].key
<1>1. CASE <<Home, table>> \in DOMAIN Catalog
  BY <1>1, CatalogAssumption, CatalogColumns DEF ColumnsOf, PrimaryKeyColumns
<1>2. CASE <<Home, table>> \notin DOMAIN Catalog
  <2>1. ColumnsOf(table) = << >> /\ PrimaryKeyColumns(table) = << >>
    BY <1>2 DEF ColumnsOf, PrimaryKeyColumns
  <2>2. DOMAIN << >> = {}
    OBVIOUS
  <2> QED
    BY <2>1, <2>2, EmptySeq DEF IsInjective, ToSet
<1> QED
  BY <1>1, <1>2

----------------------------------------------------------------------------
(* Origins *)

\* To a table of FROM, or to one of a derived table.
Paths == {via \in Seq(Names) : Len(via) <= 2}

Origins == [table : Names, key : Seq(Names), at : Seq(Nat), via : Paths]

LEMMA PathsAre ==
  /\ << >> \in Paths
  /\ \A a \in Names : <<a>> \in Paths
  /\ \A a, b \in Names : <<a, b>> \in Paths
<1>1. << >> \in Seq(Names) /\ Len(<< >>) = 0
  BY EmptySeq
<1>2. \A a \in Names : <<a>> \in Seq(Names) /\ Len(<<a>>) = 1
  OBVIOUS
<1>3. \A a, b \in Names : <<a, b>> \in Seq(Names) /\ Len(<<a, b>>) = 2
  OBVIOUS
<1> QED
  BY <1>1, <1>2, <1>3 DEF Paths

LEMMA NoOriginType == NoOrigin \in Origins
BY NamelessIsUsers, EmptySeq, PathsAre DEF NoOrigin, Origins

\* The origin of a column of a wildcard whose block has base columns before the
\* table's.
BlockOrigin(o, table, base) ==
  \/ o = NoOrigin
  \/ /\ PrimaryKeyColumns(table) # << >>
     /\ o = Origin(table, PrimaryKeyColumns(table),
              [j \in DOMAIN PrimaryKeyColumns(table) |->
                 base + Position(ColumnsOf(table), PrimaryKeyColumns(table)[j])],
              << >>)

LEMMA TableBlockIs ==
  ASSUME NEW table \in Names, NEW base \in Nat
  PROVE  /\ TableBlock(table, base) \in Seq(Origins)
         /\ Len(TableBlock(table, base)) = Len(ColumnsOf(table))
         /\ DOMAIN TableBlock(table, base) = DOMAIN ColumnsOf(table)
         /\ \A i \in DOMAIN ColumnsOf(table) :
              BlockOrigin(TableBlock(table, base)[i], table, base)
<1>1. PICK columns \in Seq(UsersNames) : columns = ColumnsOf(table)
  BY TableColumns
<1>2. PICK key \in Seq(Names) : key = PrimaryKeyColumns(table)
  BY TableColumns
<1> DEFINE at == [j \in DOMAIN key |-> base + Position(columns, key[j])]
           origin == IF key = << >> \/ ~(ToSet(key) \subseteq ToSet(columns))
                     THEN NoOrigin ELSE Origin(table, key, at, << >>)
<1>3. TableBlock(table, base) = [i \in DOMAIN columns |-> origin]
  BY <1>1, <1>2 DEF TableBlock
<1>4. at \in Seq(Nat)
  <2>1. DOMAIN key = 1..Len(key) /\ Len(key) \in Nat
    BY LenProperties
  <2>2. \A j \in DOMAIN key : base + Position(columns, key[j]) \in Nat
    <3>1. \A j \in DOMAIN key : Position(columns, key[j]) \in 0..Len(columns)
      BY PositionIs
    <3>2. Len(columns) \in Nat
      BY LenProperties
    <3> QED
      BY <3>1, <3>2
  <2> QED
    BY <2>1, <2>2
<1>5. origin \in Origins /\ BlockOrigin(origin, table, base)
  <2>1. CASE key = << >> \/ ~(ToSet(key) \subseteq ToSet(columns))
    BY <2>1, NoOriginType DEF BlockOrigin
  <2>2. CASE key # << >> /\ ToSet(key) \subseteq ToSet(columns)
    <3>1. origin = Origin(table, key, at, << >>)
      BY <2>2
    <3>2. Origin(table, key, at, << >>) \in Origins
      BY <1>4, PathsAre DEF Origin, Origins
    <3>3. BlockOrigin(Origin(table, key, at, << >>), table, base)
      BY <1>1, <1>2, <2>2 DEF BlockOrigin
    <3> QED
      BY <3>1, <3>2, <3>3
  <2> QED
    BY <2>1, <2>2
<1> HIDE DEF origin
<1>6. DOMAIN columns = 1..Len(columns) /\ Len(columns) \in Nat
  BY LenProperties
<1> QED
  BY <1>1, <1>3, <1>5, <1>6

ColumnLists(tables) == [k \in DOMAIN tables |-> ColumnsOf(tables[k])]

Blocks(tables) ==
  [k \in DOMAIN tables |-> TableBlock(tables[k], Before(ColumnLists(tables), k))]

LEMMA BlocksAre ==
  ASSUME NEW tables \in Seq(Names)
  PROVE  /\ Blocks(tables) \in Seq(Seq(Origins))
         /\ ColumnLists(tables) \in Seq(Seq(UsersNames))
         /\ Len(Blocks(tables)) = Len(tables) /\ Len(ColumnLists(tables)) = Len(tables)
         /\ DOMAIN Blocks(tables) = DOMAIN tables /\ DOMAIN ColumnLists(tables) = DOMAIN tables
         /\ SameLengths(Blocks(tables), ColumnLists(tables))
         /\ ExpandWildcardOrigins(tables) = FlattenSeq(Blocks(tables))
<1>1. DOMAIN tables = 1..Len(tables) /\ Len(tables) \in Nat
  BY LenProperties
<1>2. \A k \in DOMAIN tables : tables[k] \in Names
  BY <1>1, ElementOfSeq
<1>3. /\ ColumnLists(tables) \in Seq(Seq(UsersNames))
      /\ Len(ColumnLists(tables)) = Len(tables)
  <2>1. \A k \in DOMAIN tables : ColumnsOf(tables[k]) \in Seq(UsersNames)
    BY TableColumns
  <2> QED
    BY <1>1, <2>1 DEF ColumnLists
<1>4. \A k \in DOMAIN tables : Before(ColumnLists(tables), k) \in Nat
  <2>1. \A k \in DOMAIN tables : k \in 1..Len(ColumnLists(tables)) + 1
    BY <1>1, <1>3
  <2> QED
    BY <1>3, <2>1, BeforeType
<1>5. Blocks(tables) \in Seq(Seq(Origins)) /\ Len(Blocks(tables)) = Len(tables)
  <2>1. \A k \in DOMAIN tables :
          TableBlock(tables[k], Before(ColumnLists(tables), k)) \in Seq(Origins)
    BY <1>2, <1>4, TableBlockIs
  <2> QED
    BY <1>1, <2>1 DEF Blocks
<1>6. SameLengths(Blocks(tables), ColumnLists(tables))
  <2>1. \A k \in DOMAIN tables : Len(Blocks(tables)[k]) = Len(ColumnLists(tables)[k])
    BY <1>2, <1>4, TableBlockIs DEF Blocks, ColumnLists
  <2> QED
    BY <1>3, <1>5, <2>1 DEF SameLengths, Blocks
<1>7. ExpandWildcardOrigins(tables) = FlattenSeq(Blocks(tables))
  <2>1. ASSUME NEW k \in DOMAIN tables
        PROVE  Len(FlattenSeq([l \in 1..k - 1 |-> ColumnsOf(tables[l])]))
                 = Before(ColumnLists(tables), k)
    <3>1. SubSeq(ColumnLists(tables), 1, k - 1) = [l \in 1..k - 1 |-> ColumnsOf(tables[l])]
      <4>1. k - 1 \in 0..Len(ColumnLists(tables))
        BY <1>1, <1>3
      <4>2. /\ SubSeq(ColumnLists(tables), 1, k - 1) \in Seq(Seq(UsersNames))
            /\ DOMAIN SubSeq(ColumnLists(tables), 1, k - 1) = 1..k - 1
            /\ \A l \in 1..k - 1 : SubSeq(ColumnLists(tables), 1, k - 1)[l]
                                     = ColumnLists(tables)[l]
        <5>1. PICK m \in 0..Len(ColumnLists(tables)) : m = k - 1
          BY <4>1
        <5> QED
          BY <1>3, <5>1, Beginning
      <4>3. \A l \in 1..k - 1 : ColumnLists(tables)[l] = ColumnsOf(tables[l])
        BY <1>1 DEF ColumnLists
      <4>4. PICK s \in Seq(Seq(UsersNames)) : s = SubSeq(ColumnLists(tables), 1, k - 1)
        BY <4>2
      <4>5. DOMAIN s = 1..k - 1 /\ \A l \in 1..k - 1 : s[l] = ColumnsOf(tables[l])
        BY <4>2, <4>3, <4>4
      <4>6. s = [l \in 1..k - 1 |-> ColumnsOf(tables[l])]
        BY <4>4, <4>5
      <4> QED
        BY <4>4, <4>6
    <3> QED
      BY <3>1 DEF Before
  <2>2. \A k \in DOMAIN tables :
          TableBlock(tables[k], Len(FlattenSeq([l \in 1..k - 1 |-> ColumnsOf(tables[l])])))
            = TableBlock(tables[k], Before(ColumnLists(tables), k))
    BY <2>1
  <2>3. [k \in DOMAIN tables |->
           TableBlock(tables[k], Len(FlattenSeq([l \in 1..k - 1 |-> ColumnsOf(tables[l])])))]
          = Blocks(tables)
    BY <2>2 DEF Blocks
  <2> QED
    BY <2>3 DEF ExpandWildcardOrigins
<1>8. DOMAIN Blocks(tables) = DOMAIN tables /\ DOMAIN ColumnLists(tables) = DOMAIN tables
  BY DEF Blocks, ColumnLists
<1> QED
  BY <1>3, <1>5, <1>6, <1>7, <1>8

\* As many origins as the tables have columns; each is the key of its table, where
\* the key is in the block.
LEMMA ExpandsTo ==
  ASSUME NEW tables \in Seq(Names)
  PROVE  /\ ExpandWildcardOrigins(tables) \in Seq(Origins)
         /\ Len(ExpandWildcardOrigins(tables)) = Len(FlattenSeq(ColumnLists(tables)))
         /\ \A i \in DOMAIN ExpandWildcardOrigins(tables) :
              \E k \in DOMAIN tables : \E j \in DOMAIN ColumnsOf(tables[k]) :
                /\ i = Before(ColumnLists(tables), k) + j
                /\ BlockOrigin(ExpandWildcardOrigins(tables)[i], tables[k],
                               Before(ColumnLists(tables), k))
<1>1. PICK blocks \in Seq(Seq(Origins)) :
        /\ blocks = Blocks(tables) /\ ExpandWildcardOrigins(tables) = FlattenSeq(blocks)
        /\ SameLengths(blocks, ColumnLists(tables)) /\ DOMAIN blocks = DOMAIN tables
        /\ DOMAIN tables = 1..Len(blocks)
  BY BlocksAre, LenProperties
<1>2. PICK lists \in Seq(Seq(UsersNames)) : lists = ColumnLists(tables) /\ Len(lists) = Len(tables)
  BY BlocksAre
<1>3. FlattenSeq(blocks) \in Seq(Origins) /\ LaidOut(blocks)
  BY FlattenType, FlattenLaidOut
<1>4. Len(FlattenSeq(blocks)) = Len(FlattenSeq(lists))
  BY <1>1, <1>2, FlattenLengths
<1>5. \A k \in DOMAIN tables : tables[k] \in Names /\ Before(lists, k) \in Nat
  <2>1. \A k \in DOMAIN tables : k \in 1..Len(lists) + 1
    BY <1>2, LenProperties
  <2> QED
    BY <2>1, BeforeType, ElementOfSeq, LenProperties
<1>6. ASSUME NEW i \in DOMAIN FlattenSeq(blocks)
      PROVE  \E k \in DOMAIN tables : \E j \in DOMAIN ColumnsOf(tables[k]) :
                /\ i = Before(lists, k) + j
                /\ BlockOrigin(FlattenSeq(blocks)[i], tables[k], Before(lists, k))
  <2>1. PICK k \in DOMAIN blocks : \E j \in DOMAIN blocks[k] : i = Before(blocks, k) + j
    BY <1>3 DEF LaidOut
  <2>2. PICK j \in DOMAIN blocks[k] : i = Before(blocks, k) + j
    BY <2>1
  <2>3. FlattenSeq(blocks)[i] = blocks[k][j]
    BY <1>3, <2>2 DEF LaidOut
  <2>4. Before(blocks, k) = Before(lists, k)
    BY <1>1, <1>2, BeforeLengths
  <2>5. blocks[k] = TableBlock(tables[k], Before(lists, k))
    BY <1>1, <1>2 DEF Blocks
  <2>6. /\ j \in DOMAIN ColumnsOf(tables[k])
        /\ BlockOrigin(blocks[k][j], tables[k], Before(lists, k))
    BY <1>1, <1>5, <2>5, TableBlockIs
  <2> QED
    BY <1>1, <2>2, <2>3, <2>4, <2>6
<1> QED
  BY <1>1, <1>2, <1>3, <1>4, <1>6

----------------------------------------------------------------------------
(* The origin of an item *)

\* The column name of a derived table is one of its entry j of FROM.
ResolvesAt(derived, name, j) ==
  /\ derived.shape = "plain"
  /\ derived.from[j] = RefOf(derived.from, derived.from[j].alias)
  /\ \E m \in DOMAIN derived.items :
       /\ derived.items[m].kind = "column" /\ ExposedName(derived.items[m]) = name
       /\ \/ derived.items[m].of = derived.from[j].alias
          \/ /\ derived.items[m].of = Nameless
             /\ Aliases(derived.from) = {derived.from[j].alias}

LEMMA OneAlias ==
  ASSUME NEW S, NEW from \in Seq(S), Cardinality(Aliases(from)) = 1,
         NEW a \in Aliases(from)
  PROVE  Aliases(from) = {a}
<1> DEFINE f == [i \in DOMAIN from |-> from[i].alias]
<1>1. DOMAIN from = 1..Len(from) /\ Len(from) \in Nat
  BY LenProperties
<1>2. IsFiniteSet(DOMAIN from)
  BY <1>1, FS_Interval
<1>3. IsFiniteSet({f[i] : i \in DOMAIN from})
  <2>1. f \in Surjection(DOMAIN from, {f[i] : i \in DOMAIN from})
    BY DEF Surjection
  <2> HIDE DEF f
  <2> QED
    BY <1>2, <2>1, FS_Surjection
<1>4. Aliases(from) = {f[i] : i \in DOMAIN from}
  BY DEF Aliases
<1>5. PICK x : Aliases(from) = {x}
  BY <1>3, <1>4, FS_Singleton
<1> QED
  BY <1>5

\* Whatever items a dialect passes over, what it finds is a column of that name.
LEMMA ResolveDerivedIs ==
  ASSUME NEW derived \in InnerQueries(Names), NEW name, NEW considered,
         considered \subseteq DOMAIN derived.items,
         ResolveDerived(derived, name, considered) # Nameless
  PROVE  \E j \in DOMAIN derived.from :
           /\ ResolvesAt(derived, name, j)
           /\ ResolveDerived(derived, name, considered) = derived.from[j].alias
<1> DEFINE found == {i \in considered : ExposedName(derived.items[i]) = name}
           item == derived.items[First(found)]
           aliases == Aliases(derived.from)
           alias == IF item.of # Nameless THEN item.of
                    ELSE IF Cardinality(aliases) = 1 THEN CHOOSE a \in aliases : TRUE
                    ELSE Nameless
<1>1. /\ derived.shape = "plain" /\ found # {} /\ item.kind = "column"
      /\ alias \in aliases
      /\ ResolveDerived(derived, name, considered) = alias
  BY DEF ResolveDerived
<1>2. First(found) \in found
  <2>1. found \subseteq Nat
    BY QueryFields DEF InnerQueries
  <2>2. \E i \in found : \A j \in found : i <= j
    <3> HIDE DEF found
    <3> QED
      BY <1>1, <2>1, LeastNumber
  <2> QED
    BY <2>2 DEF First
<1>3. PICK m \in DOMAIN derived.items :
        derived.items[m] = item /\ ExposedName(derived.items[m]) = name
  BY <1>2
<1>4. derived.from \in Seq(TablesOver(Names))
  BY QueryFields DEF InnerQueries
<1>5. PICK j \in DOMAIN derived.from :
        RefOf(derived.from, alias) = derived.from[j] /\ derived.from[j].alias = alias
  <2> HIDE DEF alias
  <2> QED
    BY <1>1, <1>4, RefOfIs
<1>6. \/ item.of = alias
      \/ item.of = Nameless /\ Aliases(derived.from) = {alias}
  <2>1. CASE item.of # Nameless
    BY <2>1
  <2>2. CASE item.of = Nameless
    <3>1. Cardinality(aliases) = 1
      <4>1. \A a \in aliases : a # Nameless
        BY <1>4, TableFields, QueryFields DEF Aliases, InnerQueries
      <4> QED
        BY <1>1, <2>2, <4>1
    <3>2. aliases = {alias}
      <4> HIDE DEF alias
      <4> QED
        BY <1>1, <1>4, <3>1, OneAlias
    <3> QED
      BY <2>2, <3>2
  <2> QED
    BY <2>1, <2>2
<1> HIDE DEF alias, item
<1> QED
  BY <1>1, <1>3, <1>5, <1>6 DEF ResolvesAt

LEMMA ResolveIs ==
  ASSUME NEW dialect \in Dialects, NEW derived \in InnerQueries(Names), NEW name,
         ResolveDerivedColumn(dialect, derived, name) # Nameless
  PROVE  \E j \in DOMAIN derived.from :
           /\ ResolvesAt(derived, name, j)
           /\ ResolveDerivedColumn(dialect, derived, name) = derived.from[j].alias
<1>1. PICK considered :
        /\ considered \subseteq DOMAIN derived.items
        /\ ResolveDerivedColumn(dialect, derived, name)
             = ResolveDerived(derived, name, considered)
  <2> DEFINE columns == Indices(derived.items, LAMBDA item : item.kind = "column")
             named == Indices(derived.items, LAMBDA item : item.kind # "star")
  <2>1. columns \subseteq DOMAIN derived.items /\ named \subseteq DOMAIN derived.items
    BY DEF Indices
  <2>2. ResolveDerivedColumn(dialect, derived, name)
          \in {ResolveDerived(derived, name, columns), ResolveDerived(derived, name, named)}
    BY DEF ResolveDerivedColumn, ResolveDerivedColumnMySQL, ResolveDerivedColumnPostgres,
           ResolveDerivedColumnMSSQL, ResolveDerivedColumnOracle, Dialects
  <2> QED
    BY <2>1, <2>2
<1> QED
  BY <1>1, ResolveDerivedIs

TracedTo(o, table, via) ==
  /\ PrimaryKeyColumns(table) # << >>
  /\ o = Origin(table, PrimaryKeyColumns(table), << >>, via)

\* The origin o of the item is that of a column of a table, at entry i of FROM or
\* in the derived table that is there.
TracesAt(from, item, o, i) ==
  /\ from[i] = RefOf(from, from[i].alias)
  /\ item.of = from[i].alias \/ (item.of = Nameless /\ Len(from) = 1)
  /\ ~IsDerived(from[i]) => TracedTo(o, from[i].name, <<from[i].alias>>)
  /\ IsDerived(from[i]) =>
       \E j \in DOMAIN from[i].query.from :
         /\ ResolvesAt(from[i].query, item.name, j)
         /\ TracedTo(o, from[i].query.from[j].name,
                     <<from[i].alias, from[i].query.from[j].alias>>)

Traces(from, item, o) == \E i \in DOMAIN from : TracesAt(from, item, o, i)

LEMMA ItemOriginIs ==
  ASSUME NEW dialect \in Dialects, NEW from \in Seq(Refs(Names)),
         NEW item \in ItemsOver(Names)
  PROVE  \/ ItemOrigin(dialect, from, item) = NoOrigin
         \/ item.kind = "column" /\ Traces(from, item, ItemOrigin(dialect, from, item))
<1> DEFINE outer == IF item.of # Nameless THEN item.of
                    ELSE IF Len(from) = 1 THEN from[1].alias ELSE Nameless
           ref == RefOf(from, outer)
           inner == ResolveDerivedColumn(dialect, ref.query, item.name)
           Traced(table, via) ==
             IF PrimaryKeyColumns(table) = << >> THEN NoOrigin
             ELSE Origin(table, PrimaryKeyColumns(table), << >>, via)
<1> SUFFICES ASSUME ItemOrigin(dialect, from, item) # NoOrigin
             PROVE  item.kind = "column" /\ Traces(from, item, ItemOrigin(dialect, from, item))
  OBVIOUS
<1>1. /\ item.kind = "column" /\ outer \in Aliases(from)
      /\ ItemOrigin(dialect, from, item)
           = IF ~IsDerived(ref) THEN Traced(ref.name, <<outer>>)
             ELSE IF inner = Nameless THEN NoOrigin
             ELSE Traced(RefOf(ref.query.from, inner).name, <<outer, inner>>)
  BY DEF ItemOrigin
<1>2. PICK i \in DOMAIN from : ref = from[i] /\ from[i].alias = outer
  <2> HIDE DEF outer
  <2> QED
    BY <1>1, RefOfIs
<1>3. from[i] \in Refs(Names)
  BY <1>2, ElementOfSeq, LenProperties
<1>4. item.of = from[i].alias \/ (item.of = Nameless /\ Len(from) = 1)
  <2>1. from[i].alias # Nameless
    BY <1>3, RefCases
  <2> QED
    BY <1>2, <2>1
<1>7. from[i] = RefOf(from, from[i].alias) /\ ref = from[i]
  BY <1>2
<1>5. CASE ~IsDerived(ref)
  <2>1. TracedTo(ItemOrigin(dialect, from, item), from[i].name, <<from[i].alias>>)
    BY <1>1, <1>2, <1>5 DEF TracedTo
  <2> HIDE DEF ref, outer
  <2> QED
    BY <1>1, <1>2, <1>4, <1>5, <1>7, <2>1 DEF Traces, TracesAt
<1>6. CASE IsDerived(ref)
  <2>1. from[i].query \in InnerQueries(Names)
    BY <1>2, <1>3, <1>6, RefCases, DerivedFields
  <2>2. inner # Nameless
    BY <1>1, <1>6
  <2>3. PICK j \in DOMAIN from[i].query.from :
          ResolvesAt(from[i].query, item.name, j) /\ inner = from[i].query.from[j].alias
    BY <1>2, <2>1, <2>2, ResolveIs
  <2>4. RefOf(from[i].query.from, inner) = from[i].query.from[j]
    BY <2>3 DEF ResolvesAt
  <2>5. TracedTo(ItemOrigin(dialect, from, item), from[i].query.from[j].name,
                 <<from[i].alias, from[i].query.from[j].alias>>)
    <3>1. ItemOrigin(dialect, from, item)
            = Traced(from[i].query.from[j].name,
                     <<from[i].alias, from[i].query.from[j].alias>>)
      <4> HIDE DEF Traced, inner
      <4> QED
        BY <1>1, <1>2, <1>6, <2>2, <2>3, <2>4
    <3> QED
      BY <3>1 DEF TracedTo
  <2> HIDE DEF ref, outer, inner
  <2> QED
    BY <1>1, <1>2, <1>4, <1>6, <1>7, <2>3, <2>5 DEF Traces, TracesAt
<1> QED
  BY <1>5, <1>6

----------------------------------------------------------------------------
(* The origins of all items *)

WildcardNames(from, item) ==
  [i \in DOMAIN WildcardRefs(from, item) |-> WildcardRefs(from, item)[i].name]

\* What the wildcard stands for at place k is the table at entry i of FROM.
StandsFor(from, item, k, i) ==
  /\ from[i] = RefOf(from, from[i].alias) /\ ~IsDerived(from[i])
  /\ from[i].alias = IF item.of # Nameless THEN item.of ELSE from[k].alias
  /\ WildcardNames(from, item)[k] = from[i].name

LEMMA WildcardTables ==
  ASSUME NEW from \in Seq(Refs(Names)), NEW item, ExpandsWildcard(from, item)
  PROVE  /\ WildcardNames(from, item) \in Seq(Names)
         /\ WildcardBlock(from, item) = ExpandWildcardOrigins(WildcardNames(from, item))
         /\ item.of # Nameless => Len(WildcardNames(from, item)) = 1
         /\ item.of = Nameless => Len(WildcardNames(from, item)) = Len(from)
         /\ \A k \in DOMAIN WildcardNames(from, item) :
              /\ ColumnsOf(WildcardNames(from, item)[k]) # << >>
              /\ \E i \in DOMAIN from : StandsFor(from, item, k, i)
<1>1. DOMAIN from = 1..Len(from) /\ Len(from) \in Nat
      /\ \A i \in DOMAIN from : from[i] \in Refs(Names) /\ from[i].alias \in Aliases(from)
  BY LenProperties, ElementOfSeq DEF Aliases
<1>2. \A a \in Aliases(from) : RefOf(from, a) \in Refs(Names)
  BY <1>1, RefOfIs
<1>3. /\ WildcardRefs(from, item) \in Seq(Refs(Names))
      /\ item.of # Nameless => Len(WildcardRefs(from, item)) = 1
      /\ item.of = Nameless => Len(WildcardRefs(from, item)) = Len(from)
  <2>1. CASE item.of # Nameless
    <3>1. RefOf(from, item.of) \in Refs(Names)
      BY <1>2, <2>1 DEF ExpandsWildcard
    <3>2. WildcardRefs(from, item) = <<RefOf(from, item.of)>>
      BY <2>1 DEF WildcardRefs
    <3> QED
      BY <2>1, <3>1, <3>2
  <2>2. CASE item.of = Nameless
    <3>1. WildcardRefs(from, item) = [i \in 1..Len(from) |-> RefOf(from, from[i].alias)]
      BY <1>1, <2>2 DEF WildcardRefs
    <3> QED
      BY <1>1, <1>2, <2>2, <3>1
  <2> QED
    BY <2>1, <2>2
<1>4. PICK refs \in Seq(Refs(Names)) :
        /\ refs = WildcardRefs(from, item)
        /\ item.of # Nameless => Len(refs) = 1
        /\ item.of = Nameless => Len(refs) = Len(from)
  BY <1>3
<1>5. DOMAIN refs = 1..Len(refs) /\ Len(refs) \in Nat
      /\ \A k \in DOMAIN refs : refs[k] \in Refs(Names)
  BY LenProperties, ElementOfSeq
<1>6. \A k \in DOMAIN refs : ~IsDerived(refs[k]) /\ ColumnsOf(refs[k].name) # << >>
  BY <1>4 DEF ExpandsWildcard, ToSet
<1>7. \A k \in DOMAIN refs : refs[k].name \in Names
  BY <1>5, <1>6, RefCases, TableFields
<1>8. WildcardNames(from, item) = [k \in DOMAIN refs |-> refs[k].name]
  BY <1>4 DEF WildcardNames
<1>9. WildcardNames(from, item) \in Seq(Names) /\ Len(WildcardNames(from, item)) = Len(refs)
      /\ DOMAIN WildcardNames(from, item) = DOMAIN refs
  BY <1>5, <1>7, <1>8
<1>10. WildcardBlock(from, item) = ExpandWildcardOrigins(WildcardNames(from, item))
  BY DEF WildcardBlock, WildcardNames
<1>11. ASSUME NEW k \in DOMAIN refs
       PROVE  /\ ColumnsOf(WildcardNames(from, item)[k]) # << >>
              /\ \E i \in DOMAIN from : StandsFor(from, item, k, i)
  <2>1. PICK a \in Aliases(from) :
          /\ a = IF item.of # Nameless THEN item.of ELSE from[k].alias
          /\ refs[k] = RefOf(from, a)
    <3>1. CASE item.of # Nameless
      <4>1. refs[k] = RefOf(from, item.of)
        BY <1>4, <1>5, <3>1 DEF WildcardRefs
      <4>2. item.of \in Aliases(from)
        BY <3>1 DEF ExpandsWildcard
      <4> QED
        BY <3>1, <4>1, <4>2
    <3>2. CASE item.of = Nameless
      <4>1. k \in DOMAIN from
        BY <1>1, <1>4, <1>5, <3>2
      <4>2. refs[k] = RefOf(from, from[k].alias)
        BY <1>4, <3>2, <4>1 DEF WildcardRefs
      <4> QED
        BY <1>1, <3>2, <4>1, <4>2
    <3> QED
      BY <3>1, <3>2
  <2>2. PICK i \in DOMAIN from : RefOf(from, a) = from[i] /\ from[i].alias = a
    BY <2>1, RefOfIs
  <2>3. WildcardNames(from, item)[k] = refs[k].name
    BY <1>8
  <2> QED
    BY <1>6, <2>1, <2>2, <2>3 DEF StandsFor
<1> QED
  BY <1>4, <1>9, <1>10, <1>11

OriginPieces(k, s) == [i \in DOMAIN s.items |-> ItemOrigins(k, s.from, s.items[i])]

LEMMA OriginType ==
  ASSUME NEW dialect \in Dialects, NEW from \in Seq(Refs(Names)),
         NEW item \in ItemsOver(Names)
  PROVE  ItemOrigin(dialect, from, item) \in Origins
<1>1. CASE ItemOrigin(dialect, from, item) = NoOrigin
  BY <1>1, NoOriginType
<1>2. ASSUME NEW o, NEW table \in Names, NEW via \in Paths, TracedTo(o, table, via)
      PROVE  o \in Origins
  BY <1>2, TableColumns, EmptySeq DEF TracedTo, Origin, Origins
<1>3. CASE Traces(from, item, ItemOrigin(dialect, from, item))
  <2>1. PICK i \in DOMAIN from : TracesAt(from, item, ItemOrigin(dialect, from, item), i)
    BY <1>3 DEF Traces
  <2>2. from[i] \in Refs(Names) /\ from[i].alias \in Names
    BY <2>1, ElementOfSeq, LenProperties, RefCases
  <2>3. CASE ~IsDerived(from[i])
    <3>1. from[i].name \in Names /\ <<from[i].alias>> \in Paths
      BY <2>2, <2>3, RefCases, TableFields, PathsAre
    <3>2. TracedTo(ItemOrigin(dialect, from, item), from[i].name, <<from[i].alias>>)
      BY <2>1, <2>3 DEF TracesAt
    <3> QED
      BY <1>2, <3>1, <3>2
  <2>4. CASE IsDerived(from[i])
    <3>1. PICK query \in InnerQueries(Names) : query = from[i].query
      BY <2>2, <2>4, RefCases, DerivedFields
    <3>2. PICK j \in DOMAIN query.from :
            TracedTo(ItemOrigin(dialect, from, item), query.from[j].name,
                     <<from[i].alias, query.from[j].alias>>)
      BY <2>1, <2>4, <3>1 DEF TracesAt
    <3>3. query.from[j] \in TablesOver(Names)
      BY <3>2, QueryFields DEF InnerQueries
    <3>4. query.from[j].name \in Names /\ <<from[i].alias, query.from[j].alias>> \in Paths
      BY <2>2, <3>3, TableFields, PathsAre
    <3> QED
      BY <1>2, <3>2, <3>4
  <2> QED
    BY <2>3, <2>4
<1> QED
  BY <1>1, <1>3, ItemOriginIs

LEMMA ItemOriginsType ==
  ASSUME NEW dialect \in Dialects, NEW from \in Seq(Refs(Names)),
         NEW item \in ItemsOver(Names),
         item.kind = "star" => ExpandsWildcard(from, item)
  PROVE  /\ ItemOrigins(dialect, from, item) \in Seq(Origins)
         /\ item.kind # "star" =>
              ItemOrigins(dialect, from, item) = <<ItemOrigin(dialect, from, item)>>
         /\ item.kind = "star" =>
              ItemOrigins(dialect, from, item)
                = ExpandWildcardOrigins(WildcardNames(from, item))
<1>1. CASE item.kind = "star"
  BY <1>1, WildcardTables, ExpandsTo DEF ItemOrigins
<1>2. CASE item.kind # "star"
  BY <1>2, OriginType DEF ItemOrigins
<1> QED
  BY <1>1, <1>2

LEMMA OriginPiecesType ==
  ASSUME NEW k \in Dialects, NEW s \in StatementsOver(Names), NEW shapes,
         Understands(s, shapes)
  PROVE  /\ OriginPieces(k, s) \in Seq(Seq(Origins))
         /\ Len(OriginPieces(k, s)) = Len(s.items)
         /\ DOMAIN OriginPieces(k, s) = DOMAIN s.items
         /\ VisibleOrigins(k, s) = FlattenSeq(OriginPieces(k, s))
         /\ VisibleOrigins(k, s) \in Seq(Origins)
<1>1. /\ s.from \in Seq(Refs(Names)) /\ s.items \in Seq(ItemsOver(Names))
      /\ DOMAIN s.items = 1..Len(s.items) /\ Len(s.items) \in Nat
      /\ \A i \in DOMAIN s.items : s.items[i] \in ItemsOver(Names)
  BY StatementQueries, QueryFields
<1>2. \A i \in DOMAIN s.items : ItemOrigins(k, s.from, s.items[i]) \in Seq(Origins)
  BY <1>1, ItemOriginsType DEF Understands
<1>3. /\ OriginPieces(k, s) \in Seq(Seq(Origins)) /\ Len(OriginPieces(k, s)) = Len(s.items)
      /\ DOMAIN OriginPieces(k, s) = DOMAIN s.items
  BY <1>1, <1>2 DEF OriginPieces
<1>4. VisibleOrigins(k, s) = FlattenSeq(OriginPieces(k, s))
  BY DEF VisibleOrigins, OriginPieces
<1> QED
  BY <1>3, <1>4, FlattenType

----------------------------------------------------------------------------
(* The keys that are needed *)

NeededAt(origins, i) ==
  /\ origins[i].via # << >>
  /\ \A j \in 1..i - 1 : origins[j].via # origins[i].via

NeedPieces(origins) ==
  [i \in DOMAIN origins |-> IF NeededAt(origins, i) THEN <<origins[i]>> ELSE << >>]

LEMMA NeedPiecesType ==
  ASSUME NEW origins \in Seq(Origins)
  PROVE  /\ NeedPieces(origins) \in Seq(Seq(Origins))
         /\ DOMAIN NeedPieces(origins) = DOMAIN origins
         /\ Needed(origins) = FlattenSeq(NeedPieces(origins))
         /\ Needed(origins) \in Seq(Origins)
<1>1. DOMAIN origins = 1..Len(origins) /\ Len(origins) \in Nat
  BY LenProperties
<1>2. \A i \in DOMAIN origins :
        (IF NeededAt(origins, i) THEN <<origins[i]>> ELSE << >>) \in Seq(Origins)
  <2>1. \A i \in DOMAIN origins : origins[i] \in Origins
    BY <1>1, ElementOfSeq
  <2>2. << >> \in Seq(Origins) /\ \A o \in Origins : <<o>> \in Seq(Origins)
    BY EmptySeq
  <2> QED
    BY <2>1, <2>2
<1>3. NeedPieces(origins) \in Seq(Seq(Origins)) /\ DOMAIN NeedPieces(origins) = DOMAIN origins
  BY <1>1, <1>2 DEF NeedPieces
<1>4. Needed(origins) = FlattenSeq(NeedPieces(origins))
  <2>1. \A i \in DOMAIN origins :
          (IF \/ origins[i].via = << >>
              \/ \E j \in 1..i - 1 : origins[j].via = origins[i].via
           THEN << >> ELSE <<origins[i]>>)
            = (IF NeededAt(origins, i) THEN <<origins[i]>> ELSE << >>)
    BY DEF NeededAt
  <2>2. [i \in DOMAIN origins |->
          IF \/ origins[i].via = << >>
             \/ \E j \in 1..i - 1 : origins[j].via = origins[i].via
          THEN << >> ELSE <<origins[i]>>] = NeedPieces(origins)
    BY <2>1 DEF NeedPieces
  <2> QED
    BY <2>2 DEF Needed
<1> QED
  BY <1>3, <1>4, FlattenType

\* Every path of a column has its need, and only one.
LEMMA NeededIs ==
  ASSUME NEW origins \in Seq(Origins)
  PROVE  /\ \A n \in DOMAIN Needed(origins) :
              /\ Needed(origins)[n].via # << >>
              /\ \E i \in DOMAIN origins : Needed(origins)[n] = origins[i]
         /\ \A n, m \in DOMAIN Needed(origins) :
              Needed(origins)[n].via = Needed(origins)[m].via => n = m
         /\ \A i \in DOMAIN origins : origins[i].via # << >> =>
              \E n \in DOMAIN Needed(origins) : Needed(origins)[n].via = origins[i].via
<1>1. PICK pieces \in Seq(Seq(Origins)) :
        /\ pieces = NeedPieces(origins) /\ DOMAIN pieces = DOMAIN origins
        /\ Needed(origins) = FlattenSeq(pieces)
  BY NeedPiecesType
<1>2. LaidOut(pieces) /\ DOMAIN origins = 1..Len(origins) /\ Len(origins) \in Nat
  BY FlattenLaidOut, LenProperties
<1>3. \A i \in DOMAIN origins :
        pieces[i] = IF NeededAt(origins, i) THEN <<origins[i]>> ELSE << >>
  BY <1>1 DEF NeedPieces
<1>4. \A o : DOMAIN <<o>> = {1} /\ <<o>>[1] = o
  OBVIOUS
<1>5. DOMAIN << >> = {}
  OBVIOUS
<1>6. ASSUME NEW n \in DOMAIN FlattenSeq(pieces)
      PROVE  \E i \in DOMAIN origins :
               /\ NeededAt(origins, i) /\ n = Before(pieces, i) + 1
               /\ FlattenSeq(pieces)[n] = origins[i]
  <2>1. PICK i \in DOMAIN pieces : \E j \in DOMAIN pieces[i] : n = Before(pieces, i) + j
    BY <1>2 DEF LaidOut
  <2>2. PICK j \in DOMAIN pieces[i] : n = Before(pieces, i) + j
    BY <2>1
  <2>3. FlattenSeq(pieces)[n] = pieces[i][j]
    BY <1>2, <2>2 DEF LaidOut
  <2>4. NeededAt(origins, i)
    BY <1>1, <1>3, <1>5, <2>2
  <2>5. j = 1 /\ pieces[i][j] = origins[i]
    BY <1>1, <1>3, <1>4, <2>2, <2>4
  <2> QED
    BY <1>1, <2>2, <2>3, <2>4, <2>5
<1>7. ASSUME NEW n \in DOMAIN FlattenSeq(pieces), NEW m \in DOMAIN FlattenSeq(pieces),
             FlattenSeq(pieces)[n].via = FlattenSeq(pieces)[m].via
      PROVE  n = m
  <2>1. PICK i \in DOMAIN origins :
          /\ NeededAt(origins, i) /\ n = Before(pieces, i) + 1
          /\ FlattenSeq(pieces)[n] = origins[i]
    BY <1>6
  <2>2. PICK j \in DOMAIN origins :
          /\ NeededAt(origins, j) /\ m = Before(pieces, j) + 1
          /\ FlattenSeq(pieces)[m] = origins[j]
    BY <1>6
  <2>3. ~(i < j) /\ ~(j < i)
    BY <1>2, <1>7, <2>1, <2>2 DEF NeededAt
  <2>4. i = j
    BY <1>2, <2>3
  <2> QED
    BY <2>1, <2>2, <2>4
<1>8. ASSUME NEW i \in DOMAIN origins, origins[i].via # << >>
      PROVE  \E n \in DOMAIN FlattenSeq(pieces) : FlattenSeq(pieces)[n].via = origins[i].via
  <2> DEFINE I == {j \in DOMAIN origins : origins[j].via = origins[i].via}
  <2>1. I \subseteq Nat /\ I # {}
    BY <1>2
  <2>2. PICK j \in I : \A l \in I : j <= l
    <3> HIDE DEF I
    <3> QED
      BY <2>1, LeastNumber
  <2>3. j \in DOMAIN origins /\ origins[j].via = origins[i].via
    BY <2>2
  <2>4. ASSUME NEW l \in 1..j - 1
        PROVE  origins[l].via # origins[j].via
    BY <1>2, <2>2, <2>3
  <2>5. NeededAt(origins, j)
    BY <1>8, <2>3, <2>4 DEF NeededAt
  <2>6. 1 \in DOMAIN pieces[j] /\ pieces[j][1] = origins[j]
    BY <1>3, <1>4, <2>3, <2>5
  <2>7. /\ Before(pieces, j) + 1 \in DOMAIN FlattenSeq(pieces)
        /\ FlattenSeq(pieces)[Before(pieces, j) + 1] = origins[j]
    BY <1>1, <1>2, <2>3, <2>6 DEF LaidOut
  <2> QED
    BY <2>3, <2>7
<1>9. ASSUME NEW n \in DOMAIN FlattenSeq(pieces)
      PROVE  /\ FlattenSeq(pieces)[n].via # << >>
             /\ \E i \in DOMAIN origins : FlattenSeq(pieces)[n] = origins[i]
  BY <1>6 DEF NeededAt
<1> QED
  BY <1>1, <1>7, <1>8, <1>9

----------------------------------------------------------------------------
(* Hidden columns *)

LEMMA BeginsWith ==
  ASSUME NEW S, NEW a \in S, NEW b \in S, NEW c \in S,
         NEW path \in Seq(S), NEW column \in Seq(S)
  PROVE  /\ <<a, b, c>> \o path \o column \in Seq(S)
         /\ Len(<<a, b, c>> \o path \o column) > 2
         /\ SubSeq(<<a, b, c>> \o path \o column, 1, 3) = <<a, b, c>>
<1>1. PICK mark \in Seq(S) : /\ mark = <<a, b, c>> /\ Len(mark) = 3
  <2>1. <<a, b, c>> \in Seq(S) /\ Len(<<a, b, c>>) = 3
    OBVIOUS
  <2> QED
    BY <2>1
<1>2. PICK tail \in Seq(S) : tail = path \o column
  <2>1. path \o column \in Seq(S)
    OBVIOUS
  <2> QED
    BY <2>1
<1>3. (mark \o path) \o column = mark \o tail
  BY <1>2
<1>4. PICK n \in Nat : n = Len(tail)
  BY LenProperties
<1>5. PICK name \in Seq(S) : name = mark \o tail
  <2>1. mark \o tail \in Seq(S)
    OBVIOUS
  <2> QED
    BY <2>1
<1>6. Len(name) = 3 + n /\ \A i \in 1..3 : name[i] = mark[i]
  BY <1>1, <1>4, <1>5, Joined
<1>7. 3 \in 0..Len(name)
  BY <1>6
<1>8. PICK start \in Seq(S) : start = SubSeq(name, 1, 3)
  BY <1>7, Beginning
<1>9. Len(start) = 3 /\ \A i \in 1..3 : start[i] = name[i]
  BY <1>7, <1>8, Beginning
<1>10. start = mark
  BY <1>1, <1>6, <1>9, LenProperties
<1>11. <<a, b, c>> \o path \o column = name
  BY <1>1, <1>3, <1>5, Zenon
<1>12. Len(name) > 2
  BY <1>4, <1>6
<1>13. SubSeq(name, 1, 3) = <<a, b, c>>
  BY <1>1, <1>8, <1>10, Zenon
<1> QED
  BY <1>5, <1>11, <1>12, <1>13, Zenon

LEMMA HiddenNameIs ==
  ASSUME NEW via \in Seq(Names), NEW column \in Names
  PROVE  HiddenName(via, column) \in Names /\ IsHidden(HiddenName(via, column))
<1> DEFINE W == STRING \cup {"", "pk"}
<1>1. "" \in W /\ "pk" \in W
  OBVIOUS
<1>2. FlattenSeq(via) \in Seq(W) /\ column \in Seq(W)
  BY FlattenType DEF Names
<1> HIDE DEF W
<1>3. /\ <<"", "", "pk">> \o FlattenSeq(via) \o column \in Seq(W)
      /\ Len(<<"", "", "pk">> \o FlattenSeq(via) \o column) > 2
      /\ SubSeq(<<"", "", "pk">> \o FlattenSeq(via) \o column, 1, 3) = <<"", "", "pk">>
  BY <1>1, <1>2, BeginsWith
<1> QED
  BY <1>3 DEF HiddenName, IsHidden, Names, W

Needs == {origin \in Origins : origin.via # << >>}

\* The carrier of a key's column j in the outer list, and that in a derived table.
OuterCarrier(need, j) ==
  Column(need.via[1],
         IF Len(need.via) = 1 THEN need.key[j] ELSE HiddenName(need.via, need.key[j]),
         HiddenName(need.via, need.key[j]))

InnerCarrier(need, j) ==
  Column(need.via[2], need.key[j], HiddenName(need.via, need.key[j]))

LEMMA NeedFields ==
  ASSUME NEW need \in Needs
  PROVE  /\ need.via \in Seq(Names) /\ Len(need.via) \in {1, 2}
         /\ need.via[1] \in Names /\ (Len(need.via) = 2 => need.via[2] \in Names)
         /\ need.key \in Seq(Names) /\ DOMAIN need.key = 1..Len(need.key)
         /\ Len(need.key) \in Nat /\ need.table \in Names
         /\ \A j \in DOMAIN need.key :
              /\ need.key[j] \in Names /\ HiddenName(need.via, need.key[j]) \in Names
              /\ IsHidden(HiddenName(need.via, need.key[j]))
<1>1. need.via \in Seq(Names) /\ need.via # << >> /\ Len(need.via) <= 2
      /\ need.key \in Seq(Names) /\ need.table \in Names
  BY DEF Needs, Origins, Paths
<1>2. Len(need.via) \in {1, 2}
  <2>1. PICK via \in Seq(Names) : via = need.via
    BY <1>1
  <2>2. PICK n \in Nat : n = Len(via)
    BY LenProperties
  <2>3. n # 0
    BY <1>1, <2>1, <2>2, EmptySeq
  <2>4. n <= 2
    BY <1>1, <2>1, <2>2
  <2>5. n \in {1, 2}
    BY <2>2, <2>3, <2>4
  <2> QED
    BY <2>1, <2>2, <2>5
<1>3. need.via[1] \in Names /\ (Len(need.via) = 2 => need.via[2] \in Names)
  BY <1>1, <1>2, ElementOfSeq
<1>4. DOMAIN need.key = 1..Len(need.key) /\ Len(need.key) \in Nat
      /\ \A j \in DOMAIN need.key : need.key[j] \in Names
  BY <1>1, LenProperties, ElementOfSeq
<1> QED
  BY <1>1, <1>2, <1>3, <1>4, HiddenNameIs

LEMMA ColumnItem ==
  ASSUME NEW of \in Names, NEW name \in Names, NEW as \in Names
  PROVE  /\ Column(of, name, as) \in ItemsOver(Names) /\ Column(of, name, as).kind = "column"
         /\ Column(of, name, as).of = of /\ Column(of, name, as).name = name
         /\ Column(of, name, as).as = as
BY DEF Column, ItemsOver

\* One carrier for each column of the key.
CarrierList(list, need) ==
  /\ list \in Seq(ItemsOver(Names)) /\ HiddenItems(list)
  /\ Len(list) = Len(need.key) /\ DOMAIN list = DOMAIN need.key

LEMMA CarriersOf ==
  ASSUME NEW need \in Needs
  PROVE  /\ CarrierList(OuterCarriers(need), need)
         /\ \A j \in DOMAIN need.key : OuterCarriers(need)[j] = OuterCarrier(need, j)
         /\ Len(need.via) = 2 =>
              /\ CarrierList(InnerCarriers(need), need)
              /\ \A j \in DOMAIN need.key : InnerCarriers(need)[j] = InnerCarrier(need, j)
<1>1. \A j \in DOMAIN need.key :
        /\ OuterCarrier(need, j) \in ItemsOver(Names)
        /\ OuterCarrier(need, j).kind = "column" /\ IsHidden(OuterCarrier(need, j).as)
        /\ Len(need.via) = 2 =>
             /\ InnerCarrier(need, j) \in ItemsOver(Names)
             /\ InnerCarrier(need, j).kind = "column" /\ IsHidden(InnerCarrier(need, j).as)
  <2>1. TAKE j \in DOMAIN need.key
  <2>2. PICK hidden \in Names : hidden = HiddenName(need.via, need.key[j]) /\ IsHidden(hidden)
    BY NeedFields
  <2>3. PICK of \in Names : of = need.via[1]
    BY NeedFields
  <2>4. PICK name \in Names :
          name = IF Len(need.via) = 1 THEN need.key[j] ELSE HiddenName(need.via, need.key[j])
    BY <2>2, NeedFields
  <2>5. OuterCarrier(need, j) = Column(of, name, hidden)
    BY <2>2, <2>3, <2>4 DEF OuterCarrier
  <2>6. ASSUME Len(need.via) = 2
        PROVE  \E a, c \in Names : InnerCarrier(need, j) = Column(a, c, hidden)
    BY <2>1, <2>2, <2>6, NeedFields DEF InnerCarrier
  <2> QED
    BY <2>2, <2>5, <2>6, ColumnItem
<1>2. OuterCarriers(need) = [j \in DOMAIN need.key |-> OuterCarrier(need, j)]
  BY DEF OuterCarriers, OuterCarrier
<1>3. InnerCarriers(need) = [j \in DOMAIN need.key |-> InnerCarrier(need, j)]
  BY DEF InnerCarriers, InnerCarrier
<1>4. CarrierList(OuterCarriers(need), need)
  BY <1>1, <1>2, NeedFields DEF CarrierList, HiddenItems
<1>5. Len(need.via) = 2 => CarrierList(InnerCarriers(need), need)
  BY <1>1, <1>3, NeedFields DEF CarrierList, HiddenItems
<1> QED
  BY <1>2, <1>3, <1>4, <1>5

LEMMA HiddenLists ==
  ASSUME NEW lists \in Seq(Seq(ItemsOver(Names))),
         \A k \in DOMAIN lists : HiddenItems(lists[k])
  PROVE  FlattenSeq(lists) \in Seq(ItemsOver(Names)) /\ HiddenItems(FlattenSeq(lists))
<1>1. ASSUME NEW i \in DOMAIN FlattenSeq(lists)
      PROVE  FlattenSeq(lists)[i].kind = "column" /\ IsHidden(FlattenSeq(lists)[i].as)
  <2>1. PICK k \in DOMAIN lists : \E j \in DOMAIN lists[k] : FlattenSeq(lists)[i] = lists[k][j]
    BY FlattenElements
  <2> QED
    BY <2>1 DEF HiddenItems
<1> QED
  BY <1>1, FlattenType DEF HiddenItems

OuterPieces(needs) == [k \in DOMAIN needs |-> OuterCarriers(needs[k])]

KeyPieces(needs) == [k \in DOMAIN needs |-> needs[k].key]

InnerPieces(alias, needs) ==
  [k \in DOMAIN needs |->
     IF Len(needs[k].via) = 2 /\ needs[k].via[1] = alias
     THEN InnerCarriers(needs[k]) ELSE << >>]

LEMMA CarriersAre ==
  ASSUME NEW needs \in Seq(Needs)
  PROVE  /\ Carriers(needs) \in Seq(ItemsOver(Names)) /\ HiddenItems(Carriers(needs))
         /\ OuterPieces(needs) \in Seq(Seq(ItemsOver(Names)))
         /\ KeyPieces(needs) \in Seq(Seq(Names))
         /\ DOMAIN OuterPieces(needs) = DOMAIN needs /\ Len(KeyPieces(needs)) = Len(needs)
         /\ SameLengths(OuterPieces(needs), KeyPieces(needs))
         /\ Carriers(needs) = FlattenSeq(OuterPieces(needs))
<1>1. DOMAIN needs = 1..Len(needs) /\ Len(needs) \in Nat
      /\ \A k \in DOMAIN needs : needs[k] \in Needs
  BY LenProperties, ElementOfSeq
<1>2. \A k \in DOMAIN needs : CarrierList(OuterCarriers(needs[k]), needs[k])
  BY <1>1, CarriersOf
<1>3. \A k \in DOMAIN needs : needs[k].key \in Seq(Names)
  BY <1>1, NeedFields
<1>4. /\ OuterPieces(needs) \in Seq(Seq(ItemsOver(Names)))
      /\ DOMAIN OuterPieces(needs) = DOMAIN needs
      /\ Len(OuterPieces(needs)) = Len(needs)
  BY <1>1, <1>2 DEF OuterPieces, CarrierList
<1>5. KeyPieces(needs) \in Seq(Seq(Names)) /\ Len(KeyPieces(needs)) = Len(needs)
  BY <1>1, <1>3 DEF KeyPieces
<1>6. SameLengths(OuterPieces(needs), KeyPieces(needs))
  BY <1>1, <1>2, <1>4, <1>5 DEF SameLengths, OuterPieces, KeyPieces, CarrierList
<1>7. Carriers(needs) = FlattenSeq(OuterPieces(needs))
  BY DEF Carriers, OuterPieces
<1>8. \A k \in DOMAIN OuterPieces(needs) : HiddenItems(OuterPieces(needs)[k])
  BY <1>2, <1>4 DEF OuterPieces, CarrierList
<1>9. /\ FlattenSeq(OuterPieces(needs)) \in Seq(ItemsOver(Names))
      /\ HiddenItems(FlattenSeq(OuterPieces(needs)))
  BY <1>4, <1>8, HiddenLists
<1> QED
  BY <1>4, <1>5, <1>6, <1>7, <1>9

LEMMA CarriersWithinAre ==
  ASSUME NEW needs \in Seq(Needs), NEW alias
  PROVE  /\ CarriersWithin(alias, needs) \in Seq(ItemsOver(Names))
         /\ HiddenItems(CarriersWithin(alias, needs))
         /\ InnerPieces(alias, needs) \in Seq(Seq(ItemsOver(Names)))
         /\ CarriersWithin(alias, needs) = FlattenSeq(InnerPieces(alias, needs))
         /\ (\A k \in DOMAIN needs : ~(Len(needs[k].via) = 2 /\ needs[k].via[1] = alias))
              => CarriersWithin(alias, needs) = << >>
<1>1. DOMAIN needs = 1..Len(needs) /\ Len(needs) \in Nat
      /\ \A k \in DOMAIN needs : needs[k] \in Needs
  BY LenProperties, ElementOfSeq
<1> DEFINE piece(k) == IF Len(needs[k].via) = 2 /\ needs[k].via[1] = alias
                       THEN InnerCarriers(needs[k]) ELSE << >>
<1>2. \A k \in DOMAIN needs :
        piece(k) \in Seq(ItemsOver(Names)) /\ HiddenItems(piece(k))
  <2>1. << >> \in Seq(ItemsOver(Names)) /\ HiddenItems(<< >>)
    BY EmptySeq DEF HiddenItems
  <2>2. \A k \in DOMAIN needs : Len(needs[k].via) = 2 =>
          CarrierList(InnerCarriers(needs[k]), needs[k])
    BY <1>1, CarriersOf
  <2> QED
    BY <2>1, <2>2 DEF CarrierList
<1>3. InnerPieces(alias, needs) = [k \in 1..Len(needs) |-> piece(k)]
  BY <1>1 DEF InnerPieces
<1> HIDE DEF piece
<1>4. PICK pieces \in Seq(Seq(ItemsOver(Names))) :
        /\ pieces = InnerPieces(alias, needs) /\ DOMAIN pieces = DOMAIN needs
        /\ \A k \in DOMAIN needs : pieces[k] = piece(k)
  <2>1. [k \in 1..Len(needs) |-> piece(k)] \in Seq(Seq(ItemsOver(Names)))
    BY <1>1, <1>2
  <2> QED
    BY <1>1, <1>3, <2>1
<1>5. FlattenSeq(pieces) \in Seq(ItemsOver(Names)) /\ HiddenItems(FlattenSeq(pieces))
  BY <1>2, <1>4, HiddenLists
<1>6. CarriersWithin(alias, needs) = FlattenSeq(pieces)
  BY <1>4 DEF CarriersWithin, InnerPieces
<1>7. ASSUME \A k \in DOMAIN needs : ~(Len(needs[k].via) = 2 /\ needs[k].via[1] = alias)
      PROVE  FlattenSeq(pieces) = << >>
  <2>1. \A k \in DOMAIN pieces : pieces[k] = << >>
    BY <1>4, <1>7 DEF piece
  <2> QED
    BY <2>1, FlattenNone
<1> QED
  BY <1>4, <1>5, <1>6, <1>7

\* The first need of a path.
LEMMA NeedOf ==
  ASSUME NEW needs \in Seq(Needs), NEW via,
         \E n \in DOMAIN needs : needs[n].via = via
  PROVE  LET n == SelectInSeq(needs, LAMBDA need : need.via = via)
         IN  n \in DOMAIN needs /\ needs[n].via = via
<1> DEFINE I == {i \in 1..Len(needs) : needs[i].via = via}
<1>1. Len(needs) \in Nat /\ DOMAIN needs = 1..Len(needs)
  BY LenProperties
<1>2. I # {} /\ I \subseteq Nat
  BY <1>1
<1>3. SelectInSeq(needs, LAMBDA need : need.via = via) = Min(I)
  BY <1>2 DEF SelectInSeq
<1>4. Min(I) \in I
  <2>1. \E x \in I : \A y \in I : x <= y
    <3> HIDE DEF I
    <3> QED
      BY <1>2, LeastNumber
  <2> QED
    BY <2>1 DEF Min
<1> QED
  BY <1>1, <1>3, <1>4

LEMMA KeysBefore ==
  ASSUME NEW needs \in Seq(Needs), NEW n \in DOMAIN needs
  PROVE  /\ Len(FlattenSeq([m \in 1..n - 1 |-> needs[m].key])) = Before(KeyPieces(needs), n)
         /\ Before(KeyPieces(needs), n) \in Nat
<1>1. DOMAIN needs = 1..Len(needs) /\ Len(needs) \in Nat
  BY LenProperties
<1>2. PICK keys \in Seq(Seq(Names)) : keys = KeyPieces(needs) /\ Len(keys) = Len(needs)
  BY CarriersAre
<1>3. \A m \in DOMAIN needs : keys[m] = needs[m].key
  BY <1>2 DEF KeyPieces
<1>4. SubSeq(keys, 1, n - 1) = [m \in 1..n - 1 |-> needs[m].key]
  <2>1. PICK l \in 0..Len(keys) : l = n - 1
    BY <1>1, <1>2
  <2>2. PICK s \in Seq(Seq(Names)) : s = SubSeq(keys, 1, l)
    BY <1>2, <2>1, Beginning
  <2>3. DOMAIN s = 1..l /\ \A m \in 1..l : s[m] = keys[m]
    BY <1>2, <2>1, <2>2, Beginning
  <2>4. \A m \in 1..l : m \in DOMAIN needs
    BY <1>1, <1>2, <2>1
  <2>5. s = [m \in 1..l |-> needs[m].key]
    BY <1>3, <2>2, <2>3, <2>4
  <2> QED
    BY <2>1, <2>2, <2>5
<1>5. Before(keys, n) \in Nat
  <2>1. n \in 1..Len(keys) + 1
    BY <1>1, <1>2
  <2> QED
    BY <2>1, BeforeType
<1> QED
  BY <1>2, <1>4, <1>5 DEF Before

----------------------------------------------------------------------------
(* The statement as the target reads it *)

\* Names that can be read in upper case.
Written == UsersNames \cap Seq(Words)

As(k, name) == IF k = "oracle" THEN Folded(name) ELSE name

LEMMA ThirdIs ==
  ASSUME NEW S, NEW s \in Seq(S), NEW a, NEW b, NEW c,
         Len(s) > 2, SubSeq(s, 1, 3) = <<a, b, c>>
  PROVE  3 \in DOMAIN s /\ s[3] = c
<1>1. PICK n \in Nat : n = Len(s) /\ DOMAIN s = 1..n
  BY LenProperties
<1>2. n > 2
  BY <1>1
<1>3. 3 \in 0..Len(s) /\ 3 \in DOMAIN s
  BY <1>1, <1>2
<1>4. SubSeq(s, 1, 3)[3] = s[3]
  BY <1>3, Beginning
<1>5. <<a, b, c>>[3] = c
  OBVIOUS
<1> QED
  BY <1>3, <1>4, <1>5

LEMMA FoldedIs ==
  ASSUME NEW name \in Written
  PROVE  /\ Folded(name) \in Written /\ Folded(Folded(name)) = Folded(name)
         /\ Folded(name) = Nameless <=> name = Nameless
<1>1. name \in Seq(Words) /\ DOMAIN name = 1..Len(name) /\ Len(name) \in Nat
      /\ \A i \in DOMAIN name : name[i] \in Words
  BY ElementOfSeq, LenProperties DEF Written
<1>2. \A w \in Words : Upper[w] \in Words /\ Upper[w] # "pk" /\ Upper[Upper[w]] = Upper[w]
  BY UpperAssumption
<1>3. Folded(name) \in Seq(Words) /\ DOMAIN Folded(name) = DOMAIN name
      /\ \A i \in DOMAIN name : Folded(name)[i] = Upper[name[i]]
  BY <1>1, <1>2 DEF Folded
<1>4. Words \subseteq STRING \cup {"", "pk"}
  BY UpperAssumption
<1>5. Folded(name) \in Names
  BY <1>3, <1>4, SequencesWiden DEF Names
<1>6. ~IsHidden(Folded(name))
  <2>1. SUFFICES ASSUME IsHidden(Folded(name))
                 PROVE  FALSE
    OBVIOUS
  <2>2. PICK f \in Seq(Words) : f = Folded(name)
    BY <1>3
  <2>3. 3 \in DOMAIN f /\ f[3] = "pk"
    BY <2>1, <2>2, ThirdIs DEF IsHidden
  <2>4. 3 \in DOMAIN name /\ f[3] = Upper[name[3]]
    BY <1>3, <2>2, <2>3
  <2> QED
    BY <1>1, <1>2, <2>3, <2>4
<1>7. Folded(Folded(name)) = Folded(name)
  <2>1. Folded(Folded(name)) = [i \in DOMAIN Folded(name) |-> Upper[Folded(name)[i]]]
    BY DEF Folded
  <2>2. \A i \in DOMAIN Folded(name) : Upper[Folded(name)[i]] = Folded(name)[i]
    BY <1>1, <1>2, <1>3
  <2>3. Folded(name) = [i \in DOMAIN Folded(name) |-> Folded(name)[i]]
    BY DEF Folded
  <2> QED
    BY <2>1, <2>2, <2>3
<1>8. Folded(name) = Nameless <=> name = Nameless
  <2>1. PICK f \in Seq(Words) : f = Folded(name)
    BY <1>3
  <2>2. Len(f) = Len(name)
    <3>1. PICK n \in Nat : n = Len(f) /\ DOMAIN f = 1..n
      BY LenProperties
    <3>2. PICK m \in Nat : m = Len(name) /\ DOMAIN name = 1..m
      BY <1>1
    <3>3. 1..n = 1..m
      BY <1>3, <2>1, <3>1, <3>2
    <3> QED
      BY <3>1, <3>2, <3>3
  <2> QED
    BY <1>1, <2>1, <2>2, EmptySeq DEF Nameless
<1> QED
  BY <1>3, <1>5, <1>6, <1>7, <1>8 DEF Written, UsersNames

LEMMA AsIs ==
  ASSUME NEW k, NEW name \in Written
  PROVE  /\ As(k, name) \in Written /\ As(k, As(k, name)) = As(k, name)
         /\ As(k, name) = Nameless <=> name = Nameless
BY FoldedIs DEF As

SpellsTable(k, ref, other) ==
  /\ other = Table(As(k, ref.alias), ref.schema, As(k, ref.name))
  /\ other.alias = As(k, ref.alias) /\ other.schema = ref.schema
  /\ other.name = As(k, ref.name)
  /\ ~IsDerived(other)

SpellsItem(k, item, other) ==
  /\ other.kind = item.kind /\ other.of = As(k, item.of)
  /\ other.name = As(k, item.name) /\ other.as = As(k, item.as)

\* But for the entries of FROM.
SpellsList(k, query, other) ==
  /\ other.shape = query.shape /\ other.width = query.width
  /\ other.natural = query.natural /\ other.outer = query.outer
  /\ other.where = query.where
  /\ DOMAIN other.items = DOMAIN query.items /\ Len(other.items) = Len(query.items)
  /\ \A i \in DOMAIN query.items : SpellsItem(k, query.items[i], other.items[i])
  /\ DOMAIN other.from = DOMAIN query.from /\ Len(other.from) = Len(query.from)

SpellsInner(k, query, other) ==
  /\ SpellsList(k, query, other)
  /\ \A i \in DOMAIN query.from : SpellsTable(k, query.from[i], other.from[i])

SpellsRef(k, ref, other) ==
  /\ other.alias = As(k, ref.alias)
  /\ IsDerived(other) <=> IsDerived(ref)
  /\ ~IsDerived(ref) => SpellsTable(k, ref, other)
  /\ IsDerived(ref) => SpellsInner(k, ref.query, other.query)

Spells(k, query, other) ==
  /\ SpellsList(k, query, other)
  /\ \A i \in DOMAIN query.from : SpellsRef(k, query.from[i], other.from[i])

LEMMA FoldedTableIs ==
  ASSUME NEW ref \in TablesOver(Written)
  PROVE  /\ FoldedTable(ref) \in TablesOver(Written)
         /\ SpellsTable("oracle", ref, FoldedTable(ref))
<1>1. PICK alias \in Written : alias = Folded(ref.alias) /\ alias # Nameless
  BY TableFields, FoldedIs
<1>6. PICK name \in Written : name = Folded(ref.name)
  BY TableFields, FoldedIs
<1>2. FoldedTable(ref) = Table(alias, ref.schema, name)
  BY <1>1, <1>6 DEF FoldedTable
<1>3. ref.schema \in STRING
  BY TableFields
<1>4. /\ Table(alias, ref.schema, name) \in TablesOver(Written)
      /\ Table(alias, ref.schema, name).alias = alias
      /\ Table(alias, ref.schema, name).schema = ref.schema
      /\ Table(alias, ref.schema, name).name = name
      /\ ~IsDerived(Table(alias, ref.schema, name))
  BY <1>1, <1>3, <1>6 DEF Table, TablesOver, IsDerived
<1>5. As("oracle", ref.alias) = alias /\ As("oracle", ref.name) = name
  BY <1>1, <1>6 DEF As
<1> QED
  BY <1>2, <1>4, <1>5 DEF SpellsTable

LEMMA FoldedItemsAre ==
  ASSUME NEW items \in Seq(ItemsOver(Written))
  PROVE  /\ FoldedItems(items) \in Seq(ItemsOver(Written))
         /\ DOMAIN FoldedItems(items) = DOMAIN items /\ Len(FoldedItems(items)) = Len(items)
         /\ \A i \in DOMAIN items : SpellsItem("oracle", items[i], FoldedItems(items)[i])
<1> DEFINE folded(item) ==
             [item EXCEPT !.of = Folded(@), !.name = Folded(@), !.as = Folded(@)]
<1>1. DOMAIN items = 1..Len(items) /\ Len(items) \in Nat
      /\ \A i \in DOMAIN items : items[i] \in ItemsOver(Written)
  BY ElementOfSeq, LenProperties
<1>2. ASSUME NEW item \in ItemsOver(Written)
      PROVE  folded(item) \in ItemsOver(Written) /\ SpellsItem("oracle", item, folded(item))
  <2>1. /\ item.of \in Written /\ item.name \in Written /\ item.as \in Written
        /\ Folded(item.of) \in Written /\ Folded(item.name) \in Written
        /\ Folded(item.as) \in Written
    BY ItemFields, FoldedIs
  <2>2. folded(item) \in ItemsOver(Written)
    BY <2>1 DEF ItemsOver
  <2>3. /\ folded(item).kind = item.kind /\ folded(item).of = Folded(item.of)
        /\ folded(item).name = Folded(item.name) /\ folded(item).as = Folded(item.as)
    BY DEF ItemsOver
  <2> QED
    BY <2>2, <2>3 DEF SpellsItem, As
<1>3. FoldedItems(items) = [i \in 1..Len(items) |-> folded(items[i])]
  BY <1>1 DEF FoldedItems
<1> HIDE DEF folded
<1> QED
  BY <1>1, <1>2, <1>3

LEMMA FoldedInnerIs ==
  ASSUME NEW query \in InnerQueries(Written)
  PROVE  /\ FoldedInner(query) \in InnerQueries(Written)
         /\ SpellsInner("oracle", query, FoldedInner(query))
<1> DEFINE from == [i \in DOMAIN query.from |-> FoldedTable(query.from[i])]
           items == FoldedItems(query.items)
<1>1. /\ query.from \in Seq(TablesOver(Written)) /\ query.items \in Seq(ItemsOver(Written))
      /\ DOMAIN query.from = 1..Len(query.from) /\ Len(query.from) \in Nat
      /\ \A i \in DOMAIN query.from : query.from[i] \in TablesOver(Written)
  BY QueryFields DEF InnerQueries
<1>2. /\ from \in Seq(TablesOver(Written)) /\ Len(from) = Len(query.from)
      /\ DOMAIN from = DOMAIN query.from
      /\ \A i \in DOMAIN query.from : SpellsTable("oracle", query.from[i], from[i])
  BY <1>1, FoldedTableIs
<1>3. /\ items \in Seq(ItemsOver(Written)) /\ DOMAIN items = DOMAIN query.items
      /\ Len(items) = Len(query.items)
      /\ \A i \in DOMAIN query.items : SpellsItem("oracle", query.items[i], items[i])
  BY <1>1, FoldedItemsAre
<1>4. FoldedInner(query) = [query EXCEPT !.from = from, !.items = items]
  BY DEF FoldedInner, InnerQueries, QueriesOver
<1> HIDE DEF from, items
<1>5. FoldedInner(query) \in InnerQueries(Written)
  BY <1>2, <1>3, <1>4 DEF InnerQueries, QueriesOver
<1>6. /\ FoldedInner(query).shape = query.shape /\ FoldedInner(query).width = query.width
      /\ FoldedInner(query).outer = query.outer /\ FoldedInner(query).where = query.where
      /\ FoldedInner(query).natural = query.natural
      /\ FoldedInner(query).from = from /\ FoldedInner(query).items = items
  BY <1>4 DEF InnerQueries, QueriesOver
<1> QED
  BY <1>2, <1>3, <1>5, <1>6 DEF SpellsInner, SpellsList

LEMMA FoldedRefIs ==
  ASSUME NEW ref \in Refs(Written)
  PROVE  FoldedRef(ref) \in Refs(Written) /\ SpellsRef("oracle", ref, FoldedRef(ref))
<1>1. CASE ~IsDerived(ref)
  <2>1. ref \in TablesOver(Written) /\ FoldedRef(ref) = FoldedTable(ref)
    BY <1>1, RefCases DEF FoldedRef
  <2>2. /\ FoldedTable(ref) \in TablesOver(Written)
        /\ SpellsTable("oracle", ref, FoldedTable(ref))
    BY <2>1, FoldedTableIs
  <2> QED
    BY <1>1, <2>1, <2>2 DEF SpellsRef, SpellsTable, Refs
<1>2. CASE IsDerived(ref)
  <2>1. ref \in DerivedOver(Written)
    BY <1>2, RefCases
  <2>2. PICK query \in InnerQueries(Written) :
          query = FoldedInner(ref.query) /\ SpellsInner("oracle", ref.query, query)
    BY <2>1, DerivedFields, FoldedInnerIs
  <2>3. PICK alias \in Written : alias = Folded(ref.alias) /\ alias # Nameless
    BY <2>1, DerivedFields, FoldedIs
  <2>4. FoldedRef(ref) = Derived(alias, query)
    BY <1>2, <2>2, <2>3 DEF FoldedRef
  <2>5. /\ Derived(alias, query) \in DerivedOver(Written) /\ IsDerived(Derived(alias, query))
        /\ Derived(alias, query).alias = alias /\ Derived(alias, query).query = query
    BY <2>3 DEF Derived, DerivedOver, IsDerived, InnerQueries
  <2> QED
    BY <1>2, <2>2, <2>3, <2>4, <2>5 DEF SpellsRef, Refs, As
<1> QED
  BY <1>1, <1>2

LEMMA FoldedQueryIs ==
  ASSUME NEW query \in StatementsOver(Written)
  PROVE  /\ FoldedQuery(query) \in StatementsOver(Written)
         /\ Spells("oracle", query, FoldedQuery(query))
<1> DEFINE from == [i \in DOMAIN query.from |-> FoldedRef(query.from[i])]
           items == FoldedItems(query.items)
<1>1. /\ query.from \in Seq(Refs(Written)) /\ query.items \in Seq(ItemsOver(Written))
      /\ DOMAIN query.from = 1..Len(query.from) /\ Len(query.from) \in Nat
      /\ \A i \in DOMAIN query.from : query.from[i] \in Refs(Written)
  BY QueryFields, StatementQueries
<1>2. /\ from \in Seq(Refs(Written)) /\ Len(from) = Len(query.from)
      /\ DOMAIN from = DOMAIN query.from
      /\ \A i \in DOMAIN query.from : SpellsRef("oracle", query.from[i], from[i])
  BY <1>1, FoldedRefIs
<1>3. /\ items \in Seq(ItemsOver(Written)) /\ DOMAIN items = DOMAIN query.items
      /\ Len(items) = Len(query.items)
      /\ \A i \in DOMAIN query.items : SpellsItem("oracle", query.items[i], items[i])
  BY <1>1, FoldedItemsAre
<1>4. FoldedQuery(query) = [query EXCEPT !.from = from, !.items = items]
  BY DEF FoldedQuery, StatementsOver, QueriesOver
<1> HIDE DEF from, items
<1>5. FoldedQuery(query) \in QueriesOver(Refs(Written), Written)
  BY <1>2, <1>3, <1>4, StatementQueries DEF QueriesOver
<1>6. /\ FoldedQuery(query).shape = query.shape /\ FoldedQuery(query).width = query.width
      /\ FoldedQuery(query).outer = query.outer /\ FoldedQuery(query).where = query.where
      /\ FoldedQuery(query).natural = query.natural
      /\ FoldedQuery(query).from = from /\ FoldedQuery(query).items = items
  BY <1>4 DEF StatementsOver, QueriesOver
<1> QED
  BY <1>2, <1>3, <1>5, <1>6, StatementQueries DEF Spells, SpellsList

----------------------------------------------------------------------------
(* Oracle's text: lists and statements, token by token *)

Keywords == {",", "(", ")", "SELECT", "FROM", "LEFT JOIN", "JOIN", "WHERE", ";"} \cup Shapes

WordTokens == [kind : {"word"}, is : STRING \cup Keywords]

TokensOver(names) ==
  WordTokens \cup [kind : {"name"}, is : names] \cup [kind : {"item"}, is : ItemsOver(names)]
    \cup [kind : {"quoted"}, is : ItemsOver(Names)]

\* Of the text as it is sent, and as it is read.
Tokens == TokensOver(Written)
ReadTokens == TokensOver(Names)

Texts == Seq(Tokens)

LEMMA TokensAre ==
  /\ \A w \in STRING \cup Keywords : Word(w) \in Tokens /\ Word(w) \in ReadTokens
  /\ \A n \in Written : Identifier(n) \in Tokens /\ Identifier(n) \in ReadTokens
  /\ \A i \in ItemsOver(Written) : Spelled(i) \in Tokens
  /\ \A i \in ItemsOver(Names) : Quoted(i) \in Tokens /\ Spelled(i) \in ReadTokens
  /\ Comma \in Tokens /\ Comma \in ReadTokens
<1>1. \A w \in STRING \cup Keywords : Word(w) \in WordTokens
  BY DEF Word, WordTokens
<1>2. \A names : \A n \in names : Identifier(n) \in [kind : {"name"}, is : names]
  BY DEF Identifier
<1>3. \A items : \A i \in items : Spelled(i) \in [kind : {"item"}, is : items]
  BY DEF Spelled
<1>4. \A items : \A i \in items : Quoted(i) \in [kind : {"quoted"}, is : items]
  BY DEF Quoted
<1>5. Written \subseteq Names
  BY DEF Written, UsersNames
<1>6. Comma \in WordTokens
  <2>1. "," \in Keywords
    BY DEF Keywords
  <2> QED
    BY <1>1, <2>1 DEF Comma
<1>7. \A names : WordTokens \subseteq TokensOver(names)
  BY DEF TokensOver
<1>8. \A names : [kind : {"name"}, is : names] \subseteq TokensOver(names)
  BY DEF TokensOver
<1>9. \A names : [kind : {"item"}, is : ItemsOver(names)] \subseteq TokensOver(names)
  BY DEF TokensOver
<1>10. \A names : [kind : {"quoted"}, is : ItemsOver(Names)] \subseteq TokensOver(names)
  BY DEF TokensOver
<1>11. \A w \in STRING \cup Keywords : Word(w) \in Tokens /\ Word(w) \in ReadTokens
  BY <1>1, <1>7 DEF Tokens, ReadTokens
<1>12. \A n \in Written : Identifier(n) \in Tokens /\ Identifier(n) \in ReadTokens
  BY <1>2, <1>5, <1>8 DEF Tokens, ReadTokens
<1>13. \A i \in ItemsOver(Written) : Spelled(i) \in Tokens
  BY <1>3, <1>9 DEF Tokens
<1>14. \A i \in ItemsOver(Names) : Quoted(i) \in Tokens /\ Spelled(i) \in ReadTokens
  BY <1>3, <1>4, <1>9, <1>10 DEF Tokens, ReadTokens
<1> QED
  BY <1>6, <1>7, <1>11, <1>12, <1>13, <1>14 DEF Tokens, ReadTokens

\* What CommaSeparated flattens.
Parted(texts) ==
  [i \in DOMAIN texts |-> IF i = 1 THEN texts[i] ELSE <<Comma>> \o texts[i]]

LEMMA PartedType ==
  ASSUME NEW T, Comma \in T, NEW texts \in Seq(Seq(T))
  PROVE  Parted(texts) \in Seq(Seq(T)) /\ CommaSeparated(texts) \in Seq(T)
<1>1. DOMAIN texts = 1..Len(texts) /\ Len(texts) \in Nat
      /\ \A i \in DOMAIN texts : texts[i] \in Seq(T)
  BY LenProperties, ElementOfSeq
<1>2. <<Comma>> \in Seq(T)
  OBVIOUS
<1>3. \A i \in DOMAIN texts : <<Comma>> \o texts[i] \in Seq(T)
  BY <1>1, <1>2, ConcatProperties
<1>4. Parted(texts) \in Seq(Seq(T))
  BY <1>1, <1>3 DEF Parted
<1> QED
  BY <1>4, FlattenType DEF CommaSeparated, Parted

LEMMA SeparatedStep ==
  ASSUME NEW T, Comma \in T, NEW texts \in Seq(Seq(T)), NEW x \in Seq(T)
  PROVE  CommaSeparated(Append(texts, x))
           = IF texts = << >> THEN x ELSE CommaSeparated(texts) \o (<<Comma>> \o x)
<1>1. PICK n \in Nat : n = Len(texts)
  BY LenProperties
<1>2. PICK all : all = Append(texts, x)
  OBVIOUS
<1>3. /\ all \in Seq(Seq(T)) /\ DOMAIN all = 1..(n + 1) /\ Len(all) = n + 1
      /\ DOMAIN texts = 1..n /\ all[n + 1] = x /\ \A i \in 1..n : all[i] = texts[i]
  BY <1>1, <1>2, Appended
<1>4. PICK last : last = IF n = 0 THEN x ELSE <<Comma>> \o x
  OBVIOUS
<1>5. last \in Seq(T)
  <2>1. <<Comma>> \in Seq(T)
    OBVIOUS
  <2> QED
    BY <1>4, <2>1, ConcatProperties
<1>6. Parted(texts) \in Seq(Seq(T)) /\ Parted(all) \in Seq(Seq(T))
  BY <1>3, PartedType
<1>7. Len(Parted(texts)) = n /\ DOMAIN Parted(texts) = 1..n
  BY <1>1, <1>3 DEF Parted
<1>8. PICK more : more = Append(Parted(texts), last)
  OBVIOUS
<1>9. /\ more \in Seq(Seq(T)) /\ DOMAIN more = 1..(n + 1) /\ more[n + 1] = last
      /\ Len(more) = n + 1
      /\ \A i \in 1..n : more[i] = Parted(texts)[i]
  BY <1>5, <1>6, <1>7, <1>8, Appended
<1>10. Parted(all) = more
  <2>1. DOMAIN Parted(all) = 1..(n + 1) /\ Len(Parted(all)) = n + 1
    BY <1>3 DEF Parted
  <2>2. \A i \in 1..n : Parted(all)[i] = more[i]
    <3>1. ASSUME NEW i \in 1..n PROVE Parted(all)[i] = Parted(texts)[i]
      <4>1. i \in DOMAIN all /\ i \in DOMAIN texts /\ all[i] = texts[i]
        BY <1>1, <1>3
      <4>2. Parted(all)[i] = IF i = 1 THEN all[i] ELSE <<Comma>> \o all[i]
        BY <4>1 DEF Parted
      <4>3. Parted(texts)[i] = IF i = 1 THEN texts[i] ELSE <<Comma>> \o texts[i]
        BY <4>1 DEF Parted
      <4> QED
        BY <4>1, <4>2, <4>3
    <3> QED
      BY <1>9, <3>1
  <2>3. Parted(all)[n + 1] = last
    BY <1>3, <1>4 DEF Parted
  <2>4. \A i \in 1..(n + 1) : Parted(all)[i] = more[i]
    BY <1>9, <2>2, <2>3
  <2> QED
    BY <1>6, <1>9, <2>1, <2>4, SeqEqual
<1>11. FlattenSeq(more) = FlattenSeq(Parted(texts)) \o last
  BY <1>5, <1>6, <1>8, FlattenAppend
<1>12. CommaSeparated(all) = FlattenSeq(Parted(all))
       /\ CommaSeparated(texts) = FlattenSeq(Parted(texts))
  BY DEF CommaSeparated, Parted
<1>13. CASE texts = << >>
  <2>1. n = 0 /\ last = x
    BY <1>1, <1>4, <1>13, EmptySeq
  <2>2. Parted(texts) = << >>
    BY <1>6, <1>7, <2>1, EmptySeq
  <2>3. FlattenSeq(Parted(texts)) \o last = last
    BY <1>5, <2>2, FlattenEmpty, ConcatEmptySeq
  <2> QED
    BY <1>2, <1>10, <1>11, <1>12, <1>13, <2>1, <2>3
<1>14. CASE texts # << >>
  <2>1. n # 0
    BY <1>1, <1>14, EmptySeq
  <2> QED
    BY <1>2, <1>4, <1>10, <1>11, <1>12, <1>14, <2>1
<1> QED
  BY <1>13, <1>14

----------------------------------------------------------------------------
(* What is read in a text, piece by piece *)

FoldedItem(item) ==
  [item EXCEPT !.of = Folded(@), !.name = Folded(@), !.as = Folded(@)]

LEMMA FoldedItemType ==
  ASSUME NEW item \in ItemsOver(Written)
  PROVE  FoldedItem(item) \in ItemsOver(Written) /\ FoldedItem(item) \in ItemsOver(Names)
<1>1. <<item>> \in Seq(ItemsOver(Written)) /\ DOMAIN <<item>> = {1} /\ <<item>>[1] = item
  OBVIOUS
<1>2. PICK items : items = <<item>>
  OBVIOUS
<1>3. /\ FoldedItems(items) \in Seq(ItemsOver(Written))
      /\ DOMAIN FoldedItems(items) = DOMAIN items
  BY <1>1, <1>2, FoldedItemsAre
<1>4. FoldedItems(items)[1] = FoldedItem(item)
  BY <1>1, <1>2 DEF FoldedItems, FoldedItem
<1>5. FoldedItem(item) \in ItemsOver(Written)
  BY <1>1, <1>2, <1>3, <1>4, ElementOfSeq, LenProperties
<1>6. ItemsOver(Written) \subseteq ItemsOver(Names)
  BY DEF Written, UsersNames, ItemsOver
<1> QED
  BY <1>5, <1>6

LEMMA ReadingIs ==
  /\ \A w : OracleReading(Word(w)) = Word(w)
  /\ \A n : OracleReading(Identifier(n)) = Identifier(Folded(n))
  /\ \A i : OracleReading(Quoted(i)) = Spelled(i)
  /\ \A i : OracleReading(Spelled(i)) = Spelled(FoldedItem(i))
  /\ OracleReading(Comma) = Comma
  BY DEF OracleReading, Word, Identifier, Quoted, Spelled, Comma, FoldedItem

LEMMA ReadingType ==
  ASSUME NEW token \in Tokens
  PROVE  OracleReading(token) \in ReadTokens
<1>1. CASE token \in WordTokens
  <2>1. PICK w \in STRING \cup Keywords : token = Word(w)
    BY <1>1 DEF WordTokens, Word
  <2> QED
    BY <2>1, ReadingIs, TokensAre
<1>2. CASE token \in [kind : {"name"}, is : Written]
  <2>1. PICK n \in Written : token = Identifier(n)
    BY <1>2 DEF Identifier
  <2>2. Folded(n) \in Written
    BY FoldedIs
  <2> QED
    BY <2>1, <2>2, ReadingIs, TokensAre
<1>3. CASE token \in [kind : {"item"}, is : ItemsOver(Written)]
  <2>1. PICK i \in ItemsOver(Written) : token = Spelled(i)
    BY <1>3 DEF Spelled
  <2>2. FoldedItem(i) \in ItemsOver(Names)
    BY FoldedItemType
  <2> QED
    BY <2>1, <2>2, ReadingIs, TokensAre
<1>4. CASE token \in [kind : {"quoted"}, is : ItemsOver(Names)]
  <2>1. PICK i \in ItemsOver(Names) : token = Quoted(i)
    BY <1>4 DEF Quoted
  <2> QED
    BY <2>1, ReadingIs, TokensAre
<1> QED
  BY <1>1, <1>2, <1>3, <1>4 DEF Tokens, TokensOver

LEMMA ReadsType ==
  ASSUME NEW text \in Texts
  PROVE  /\ OracleReads(text) \in Seq(ReadTokens)
         /\ Len(OracleReads(text)) = Len(text) /\ DOMAIN OracleReads(text) = DOMAIN text
         /\ \A i \in DOMAIN text : OracleReads(text)[i] = OracleReading(text[i])
<1>1. DOMAIN text = 1..Len(text) /\ Len(text) \in Nat
      /\ \A i \in DOMAIN text : text[i] \in Tokens
  BY LenProperties, ElementOfSeq DEF Texts
<1>2. \A i \in DOMAIN text : OracleReading(text[i]) \in ReadTokens
  BY <1>1, ReadingType
<1> QED
  BY <1>1, <1>2 DEF OracleReads

LEMMA ReadsJoined ==
  ASSUME NEW s \in Texts, NEW t \in Texts
  PROVE  s \o t \in Texts /\ OracleReads(s \o t) = OracleReads(s) \o OracleReads(t)
<1>1. PICK l \in Nat, m \in Nat : l = Len(s) /\ m = Len(t)
  BY LenProperties DEF Texts
<1>2. PICK all : all = s \o t
  OBVIOUS
<1>3. /\ all \in Texts /\ Len(all) = l + m /\ DOMAIN all = 1..(l + m)
      /\ DOMAIN s = 1..l /\ DOMAIN t = 1..m
      /\ \A i \in 1..l : all[i] = s[i]
      /\ \A i \in 1..m : all[l + i] = t[i]
  BY <1>1, <1>2, Joined DEF Texts
<1>4. PICK a, b, c \in Seq(ReadTokens) :
        a = OracleReads(s) /\ b = OracleReads(t) /\ c = OracleReads(all)
  BY <1>3, ReadsType
<1>5. /\ Len(a) = l /\ Len(b) = m /\ Len(c) = l + m
      /\ \A i \in 1..l : a[i] = OracleReading(s[i])
      /\ \A i \in 1..m : b[i] = OracleReading(t[i])
      /\ \A i \in 1..(l + m) : c[i] = OracleReading(all[i])
  BY <1>1, <1>3, <1>4, ReadsType
<1>6. Agree(a, c, l)
  <2>1. \A i \in 1..l : i \in 1..(l + m)
    BY <1>1
  <2> QED
    BY <1>3, <1>5, <2>1 DEF Agree
<1>7. Behind(b, c, l, m)
  <2>1. \A i \in 1..m : l + i \in 1..(l + m)
    BY <1>1
  <2>2. ASSUME NEW i \in 1..m PROVE b[i] = c[l + i]
    BY <1>3, <1>5, <2>1
  <2> QED
    BY <2>2 DEF Behind
<1>8. c = a \o b
  BY <1>1, <1>4, <1>5, <1>6, <1>7, JoinedIs
<1> QED
  BY <1>2, <1>3, <1>4, <1>8

LEMMA ReadsShort ==
  /\ OracleReads(<< >>) = << >>
  /\ \A x : OracleReads(<<x>>) = <<OracleReading(x)>>
  /\ \A x, y : OracleReads(<<x, y>>) = <<OracleReading(x), OracleReading(y)>>
  /\ \A x, y, z : OracleReads(<<x, y, z>>) = <<OracleReading(x), OracleReading(y), OracleReading(z)>>
  BY DEF OracleReads

ReadAll(texts) == [i \in DOMAIN texts |-> OracleReads(texts[i])]

LEMMA ReadAllType ==
  ASSUME NEW texts \in Seq(Texts)
  PROVE  /\ ReadAll(texts) \in Seq(Seq(ReadTokens))
         /\ Len(ReadAll(texts)) = Len(texts) /\ DOMAIN ReadAll(texts) = DOMAIN texts
<1>1. DOMAIN texts = 1..Len(texts) /\ Len(texts) \in Nat
      /\ \A i \in DOMAIN texts : texts[i] \in Texts
  BY LenProperties, ElementOfSeq
<1>2. \A i \in DOMAIN texts : OracleReads(texts[i]) \in Seq(ReadTokens)
  BY <1>1, ReadsType
<1> QED
  BY <1>1, <1>2 DEF ReadAll

LEMMA ReadsSeparated ==
  ASSUME NEW texts \in Seq(Texts)
  PROVE  OracleReads(CommaSeparated(texts)) = CommaSeparated(ReadAll(texts))
<1> DEFINE P == {t \in Seq(Texts) : OracleReads(CommaSeparated(t)) = CommaSeparated(ReadAll(t))}
<1>1. << >> \in P
  <2>1. << >> \in Seq(Texts)
    BY EmptySeq
  <2>2. CommaSeparated(<< >>) = << >>
    <3>1. Parted(<< >>) = << >>
      BY DEF Parted
    <3> QED
      BY <3>1, FlattenEmpty DEF Parted, CommaSeparated
  <2>3. ReadAll(<< >>) = << >>
    BY DEF ReadAll
  <2> QED
    BY <2>1, <2>2, <2>3, ReadsShort
<1>2. ASSUME NEW t \in Seq(Texts), NEW x \in Texts, t \in P
      PROVE  Append(t, x) \in P
  <2>1. PICK n \in Nat : n = Len(t)
    BY LenProperties
  <2>2. PICK all : all = Append(t, x)
    OBVIOUS
  <2>3. /\ all \in Seq(Texts) /\ DOMAIN all = 1..(n + 1) /\ Len(all) = n + 1
        /\ DOMAIN t = 1..n /\ all[n + 1] = x /\ \A i \in 1..n : all[i] = t[i]
    BY <2>1, <2>2, Appended
  <2>4. PICK r, ra \in Seq(Seq(ReadTokens)) : r = ReadAll(t) /\ ra = ReadAll(all)
    BY <2>3, ReadAllType
  <2>5. PICK y \in Seq(ReadTokens) : y = OracleReads(x)
    BY ReadsType
  <2>6. /\ Len(r) = n /\ Len(ra) = n + 1
        /\ \A i \in 1..n : r[i] = OracleReads(t[i])
        /\ \A i \in 1..(n + 1) : ra[i] = OracleReads(all[i])
    BY <2>1, <2>3, <2>4, ReadAllType DEF ReadAll
  <2>7. PICK more : more = Append(r, y)
    OBVIOUS
  <2>8. /\ more \in Seq(Seq(ReadTokens)) /\ Len(more) = n + 1
        /\ more[n + 1] = y /\ \A i \in 1..n : more[i] = r[i]
    BY <2>1, <2>4, <2>5, <2>6, <2>7, Appended
  <2>9. ra = more
    <3>1. \A i \in 1..n : i \in 1..(n + 1) /\ ra[i] = more[i]
      <4>1. ASSUME NEW i \in 1..n PROVE i \in 1..(n + 1) /\ ra[i] = more[i]
        <5>1. i \in 1..(n + 1) /\ all[i] = t[i]
          BY <2>1, <2>3
        <5>2. ra[i] = OracleReads(all[i]) /\ r[i] = OracleReads(t[i]) /\ more[i] = r[i]
          BY <2>6, <2>8, <5>1
        <5> QED
          BY <5>1, <5>2
      <4> QED
        BY <4>1
    <3>2. n + 1 \in 1..(n + 1) /\ ra[n + 1] = more[n + 1]
      BY <2>1, <2>3, <2>5, <2>6, <2>8
    <3>3. \A i \in 1..(n + 1) : ra[i] = more[i]
      BY <2>1, <3>1, <3>2
    <3> QED
      BY <2>4, <2>6, <2>8, <3>3, SeqEqual
  <2>10. OracleReads(CommaSeparated(t)) = CommaSeparated(r) /\ CommaSeparated(t) \in Texts
    BY <1>2, <2>4, PartedType, TokensAre DEF Texts
  <2>11. CommaSeparated(all) = IF t = << >> THEN x ELSE CommaSeparated(t) \o (<<Comma>> \o x)
    BY <2>2, SeparatedStep, TokensAre DEF Texts
  <2>12. CommaSeparated(more) = IF r = << >> THEN y ELSE CommaSeparated(r) \o (<<Comma>> \o y)
    BY <2>4, <2>5, <2>7, SeparatedStep, TokensAre
  <2>13. t = << >> <=> r = << >>
    <3>1. t = << >> <=> n = 0
      BY <2>1, EmptySeq
    <3>2. r = << >> <=> n = 0
      BY <2>4, <2>6, EmptySeq
    <3> QED
      BY <3>1, <3>2
  <2>14. CASE t = << >>
    BY <2>2, <2>3, <2>4, <2>5, <2>9, <2>11, <2>12, <2>13, <2>14
  <2>15. CASE t # << >>
    <3>1. <<Comma>> \in Texts /\ OracleReads(<<Comma>>) = <<Comma>>
      BY TokensAre, ReadsShort, ReadingIs DEF Texts
    <3>2. <<Comma>> \o x \in Texts /\ OracleReads(<<Comma>> \o x) = <<Comma>> \o y
      BY <2>5, <3>1, ReadsJoined
    <3>3. OracleReads(CommaSeparated(t) \o (<<Comma>> \o x))
            = CommaSeparated(r) \o (<<Comma>> \o y)
      BY <2>10, <3>2, ReadsJoined
    <3> QED
      BY <2>2, <2>3, <2>4, <2>9, <2>11, <2>12, <2>13, <2>15, <3>3
  <2> QED
    BY <2>14, <2>15
<1>3. Seq(Texts) \subseteq P
  <2> HIDE DEF P
  <2> QED
    BY <1>1, <1>2, SequencesInduction
<1> QED
  BY <1>3

----------------------------------------------------------------------------
(* Lists with hidden items spliced in behind them *)

Singly(items) == [i \in DOMAIN items |-> <<Spelled(items[i])>>]

LEMMA SinglyType ==
  ASSUME NEW S, NEW T, Comma \in T, NEW items \in Seq(S), \A i \in S : Spelled(i) \in T
  PROVE  Singly(items) \in Seq(Seq(T)) /\ ListText(items) \in Seq(T)
<1>1. DOMAIN items = 1..Len(items) /\ Len(items) \in Nat
      /\ \A i \in DOMAIN items : items[i] \in S
  BY LenProperties, ElementOfSeq
<1>2. \A x \in T : <<x>> \in Seq(T)
  OBVIOUS
<1>3. Singly(items) \in Seq(Seq(T))
  BY <1>1, <1>2 DEF Singly
<1> QED
  BY <1>3, PartedType DEF ListText, Singly

LEMMA ListTextStep ==
  ASSUME NEW S, NEW items \in Seq(S), NEW e \in S, items # << >>,
         \A i \in S : Spelled(i) \in ReadTokens
  PROVE  ListText(Append(items, e)) = ListText(items) \o (<<Comma>> \o <<Spelled(e)>>)
<1>1. PICK n \in Nat : n = Len(items)
  BY LenProperties
<1>2. PICK all : all = Append(items, e)
  OBVIOUS
<1>3. /\ all \in Seq(S) /\ DOMAIN all = 1..(n + 1) /\ Len(all) = n + 1
      /\ DOMAIN items = 1..n /\ all[n + 1] = e /\ \A i \in 1..n : all[i] = items[i]
  BY <1>1, <1>2, Appended
<1>4. Comma \in ReadTokens
  BY TokensAre
<1>5. PICK s, t \in Seq(Seq(ReadTokens)) : s = Singly(items) /\ t = Singly(all)
  BY <1>3, <1>4, SinglyType
<1>6. PICK x \in Seq(ReadTokens) : x = <<Spelled(e)>>
  <2>1. \A y \in ReadTokens : <<y>> \in Seq(ReadTokens)
    OBVIOUS
  <2> QED
    BY <2>1
<1>7. /\ Len(s) = n /\ Len(t) = n + 1
      /\ \A i \in 1..n : s[i] = <<Spelled(items[i])>>
      /\ \A i \in 1..(n + 1) : t[i] = <<Spelled(all[i])>>
  BY <1>1, <1>3, <1>5 DEF Singly
<1>8. PICK more : more = Append(s, x)
  OBVIOUS
<1>9. /\ more \in Seq(Seq(ReadTokens)) /\ Len(more) = n + 1
      /\ more[n + 1] = x /\ \A i \in 1..n : more[i] = s[i]
  BY <1>1, <1>5, <1>6, <1>7, <1>8, Appended
<1>10. t = more
  <2>1. ASSUME NEW i \in 1..n PROVE t[i] = more[i]
    <3>1. i \in 1..(n + 1) /\ all[i] = items[i]
      BY <1>1, <1>3
    <3>2. t[i] = <<Spelled(all[i])>> /\ s[i] = <<Spelled(items[i])>> /\ more[i] = s[i]
      BY <1>7, <1>9, <3>1
    <3> QED
      BY <3>1, <3>2
  <2>2. n + 1 \in 1..(n + 1) /\ t[n + 1] = more[n + 1]
    <3>1. n + 1 \in 1..(n + 1)
      BY <1>1
    <3>2. t[n + 1] = <<Spelled(all[n + 1])>> /\ all[n + 1] = e /\ more[n + 1] = x
      BY <1>3, <1>7, <1>9, <3>1
    <3> QED
      BY <1>6, <3>1, <3>2
  <2>3. \A i \in 1..(n + 1) : t[i] = more[i]
    BY <1>1, <2>1, <2>2
  <2> QED
    BY <1>5, <1>7, <1>9, <2>3, SeqEqual
<1>11. CommaSeparated(more) = IF s = << >> THEN x ELSE CommaSeparated(s) \o (<<Comma>> \o x)
  BY <1>4, <1>5, <1>6, <1>8, SeparatedStep
<1>12. s # << >>
  <2>1. n # 0
    BY <1>1, EmptySeq
  <2> QED
    BY <1>5, <1>7, <2>1, EmptySeq
<1>13. ListText(items) = CommaSeparated(s) /\ ListText(all) = CommaSeparated(t)
  BY <1>5 DEF ListText, Singly
<1> QED
  BY <1>2, <1>6, <1>10, <1>11, <1>12, <1>13

LEMMA ListReads ==
  ASSUME NEW items \in Seq(ItemsOver(Written))
  PROVE  ListText(items) \in Texts /\ OracleReads(ListText(items)) = ListText(FoldedItems(items))
<1>1. Singly(items) \in Seq(Texts) /\ ListText(items) \in Texts
  BY SinglyType, TokensAre DEF Texts
<1>2. PICK folded : folded = FoldedItems(items)
  OBVIOUS
<1>3. DOMAIN folded = DOMAIN items /\ \A i \in DOMAIN items : folded[i] = FoldedItem(items[i])
  BY <1>2 DEF FoldedItems, FoldedItem
<1>4. \A i \in DOMAIN items : OracleReads(<<Spelled(items[i])>>) = <<Spelled(folded[i])>>
  BY <1>3, ReadsShort, ReadingIs
<1>5. ReadAll(Singly(items)) = Singly(folded)
  <2>1. DOMAIN Singly(items) = DOMAIN items
        /\ \A i \in DOMAIN items : Singly(items)[i] = <<Spelled(items[i])>>
    BY DEF Singly
  <2>2. ReadAll(Singly(items)) = [i \in DOMAIN items |-> OracleReads(<<Spelled(items[i])>>)]
    BY <2>1 DEF ReadAll
  <2>3. Singly(folded) = [i \in DOMAIN items |-> <<Spelled(folded[i])>>]
    BY <1>3 DEF Singly
  <2> QED
    BY <1>4, <2>2, <2>3
<1>6. OracleReads(CommaSeparated(Singly(items))) = CommaSeparated(ReadAll(Singly(items)))
  BY <1>1, ReadsSeparated
<1>7. ListText(items) = CommaSeparated(Singly(items))
      /\ ListText(folded) = CommaSeparated(Singly(folded))
  BY DEF ListText, Singly
<1> QED
  BY <1>1, <1>2, <1>5, <1>6, <1>7

\* What is spliced in for these carriers.
Spliceds(more) == [i \in DOMAIN more |-> <<Comma, Quoted(more[i])>>]
ChunkText(more) == FlattenSeq(Spliceds(more))

LEMMA ChunkTextType ==
  ASSUME NEW more \in Seq(ItemsOver(Names))
  PROVE  /\ Spliceds(more) \in Seq(Texts) /\ ChunkText(more) \in Texts
         /\ \A pos : Chunk(pos, more) = [pos |-> pos, text |-> ChunkText(more)]
<1>1. DOMAIN more = 1..Len(more) /\ Len(more) \in Nat
      /\ \A i \in DOMAIN more : more[i] \in ItemsOver(Names)
  BY LenProperties, ElementOfSeq
<1>2. \A x, y \in Tokens : <<x, y>> \in Seq(Tokens)
  OBVIOUS
<1>3. \A i \in DOMAIN more : <<Comma, Quoted(more[i])>> \in Texts
  BY <1>1, <1>2, TokensAre DEF Texts
<1>4. Spliceds(more) \in Seq(Texts)
  BY <1>1, <1>3 DEF Spliceds
<1>5. ChunkText(more) \in Texts
  BY <1>4, FlattenType DEF ChunkText, Texts
<1>6. \A pos : Chunk(pos, more) = [pos |-> pos, text |-> ChunkText(more)]
  BY DEF Chunk, ChunkText, Spliceds
<1> QED
  BY <1>4, <1>5, <1>6

LEMMA ChunkTextStep ==
  /\ ChunkText(<< >>) = << >>
  /\ \A more \in Seq(ItemsOver(Names)), e \in ItemsOver(Names) :
       ChunkText(Append(more, e)) = ChunkText(more) \o <<Comma, Quoted(e)>>
<1>1. ChunkText(<< >>) = << >>
  <2>1. Spliceds(<< >>) = << >>
    BY DEF Spliceds
  <2> QED
    BY <2>1, FlattenEmpty DEF ChunkText
<1>2. ASSUME NEW more \in Seq(ItemsOver(Names)), NEW e \in ItemsOver(Names)
      PROVE  ChunkText(Append(more, e)) = ChunkText(more) \o <<Comma, Quoted(e)>>
  <2>1. PICK n \in Nat : n = Len(more)
    BY LenProperties
  <2>2. PICK all : all = Append(more, e)
    OBVIOUS
  <2>3. /\ all \in Seq(ItemsOver(Names)) /\ DOMAIN all = 1..(n + 1) /\ Len(all) = n + 1
        /\ DOMAIN more = 1..n /\ all[n + 1] = e /\ \A i \in 1..n : all[i] = more[i]
    BY <2>1, <2>2, Appended
  <2>4. PICK s, t \in Seq(Texts) : s = Spliceds(more) /\ t = Spliceds(all)
    BY <2>3, ChunkTextType
  <2>5. PICK x \in Texts : x = <<Comma, Quoted(e)>>
    <3>1. \A y, z \in Tokens : <<y, z>> \in Seq(Tokens)
      OBVIOUS
    <3> QED
      BY <3>1, TokensAre DEF Texts
  <2>6. /\ Len(s) = n /\ Len(t) = n + 1
        /\ \A i \in 1..n : s[i] = <<Comma, Quoted(more[i])>>
        /\ \A i \in 1..(n + 1) : t[i] = <<Comma, Quoted(all[i])>>
    BY <2>1, <2>3, <2>4 DEF Spliceds
  <2>7. PICK grown : grown = Append(s, x)
    OBVIOUS
  <2>8. /\ grown \in Seq(Texts) /\ Len(grown) = n + 1
        /\ grown[n + 1] = x /\ \A i \in 1..n : grown[i] = s[i]
    BY <2>1, <2>4, <2>5, <2>6, <2>7, Appended
  <2>9. t = grown
    <3>1. ASSUME NEW i \in 1..n PROVE t[i] = grown[i]
      <4>1. i \in 1..(n + 1) /\ all[i] = more[i]
        BY <2>1, <2>3
      <4>2. /\ t[i] = <<Comma, Quoted(all[i])>> /\ s[i] = <<Comma, Quoted(more[i])>>
            /\ grown[i] = s[i]
        BY <2>6, <2>8, <4>1
      <4> QED
        BY <4>1, <4>2
    <3>2. n + 1 \in 1..(n + 1) /\ t[n + 1] = grown[n + 1]
      <4>1. n + 1 \in 1..(n + 1)
        BY <2>1
      <4>2. t[n + 1] = <<Comma, Quoted(all[n + 1])>> /\ all[n + 1] = e /\ grown[n + 1] = x
        BY <2>3, <2>6, <2>8, <4>1
      <4> QED
        BY <2>5, <4>1, <4>2
    <3>3. \A i \in 1..(n + 1) : t[i] = grown[i]
      BY <2>1, <3>1, <3>2
    <3> QED
      BY <2>4, <2>6, <2>8, <3>3, SeqEqual
  <2>10. FlattenSeq(grown) = FlattenSeq(s) \o x
    BY <2>4, <2>5, <2>7, FlattenAppend DEF Texts
  <2> QED
    BY <2>2, <2>4, <2>5, <2>9, <2>10 DEF ChunkText
<1> QED
  BY <1>1, <1>2

\* A list and what is spliced in behind it read as the longer list.
LEMMA GrownListReads ==
  ASSUME NEW items \in Seq(ItemsOver(Written)), items # << >>,
         NEW more \in Seq(ItemsOver(Names))
  PROVE  /\ ListText(items) \o ChunkText(more) \in Texts
         /\ OracleReads(ListText(items) \o ChunkText(more))
              = ListText(FoldedItems(items) \o more)
<1>1. PICK list \in Texts : list = ListText(items)
  BY ListReads
<1>2. PICK folded \in Seq(ItemsOver(Names)) :
        folded = FoldedItems(items) /\ folded # << >> /\ OracleReads(list) = ListText(folded)
  <2>1. /\ FoldedItems(items) \in Seq(ItemsOver(Written))
        /\ Len(FoldedItems(items)) = Len(items)
    BY FoldedItemsAre
  <2>2. FoldedItems(items) \in Seq(ItemsOver(Names))
    <3>1. ItemsOver(Written) \subseteq ItemsOver(Names)
      BY DEF Written, UsersNames, ItemsOver
    <3> QED
      BY <2>1, <3>1, SequencesWiden
  <2>3. FoldedItems(items) # << >>
    BY <2>1, EmptySeq
  <2> QED
    BY <1>1, <2>2, <2>3, ListReads
<1> DEFINE P == {m \in Seq(ItemsOver(Names)) :
                   OracleReads(list \o ChunkText(m)) = ListText(folded \o m)}
<1>3. << >> \in P
  <2>1. << >> \in Seq(ItemsOver(Names))
    BY EmptySeq
  <2>2. list \o << >> = list
    BY ConcatEmptySeq DEF Texts
  <2>3. folded \o << >> = folded
    BY ConcatEmptySeq
  <2> QED
    BY <1>2, <2>1, <2>2, <2>3, ChunkTextStep
<1>4. ASSUME NEW m \in Seq(ItemsOver(Names)), NEW e \in ItemsOver(Names), m \in P
      PROVE  Append(m, e) \in P
  <2>1. Append(m, e) \in Seq(ItemsOver(Names))
    BY AppendProperties
  <2>2. PICK chunk \in Texts : chunk = ChunkText(m)
    BY ChunkTextType
  <2>3. PICK x \in Texts : x = <<Comma, Quoted(e)>>
    <3>1. \A y, z \in Tokens : <<y, z>> \in Seq(Tokens)
      OBVIOUS
    <3> QED
      BY <3>1, TokensAre DEF Texts
  <2>4. ChunkText(Append(m, e)) = chunk \o x
    BY <2>2, <2>3, ChunkTextStep
  <2>5. list \o (chunk \o x) = (list \o chunk) \o x
    <3>1. list \in Seq(Tokens) /\ chunk \in Seq(Tokens) /\ x \in Seq(Tokens)
      BY <1>1, <2>2, <2>3 DEF Texts
    <3> HIDE DEF P
    <3> QED
      BY <3>1, ConcatAssociative
  <2>6. OracleReads((list \o chunk) \o x) = OracleReads(list \o chunk) \o OracleReads(x)
    <3>1. list \o chunk \in Texts
      BY ReadsJoined
    <3> QED
      BY <3>1, ReadsJoined
  <2>7. OracleReads(x) = <<Comma, Spelled(e)>>
    BY <2>3, ReadsShort, ReadingIs
  <2>8. PICK longer \in Seq(ItemsOver(Names)) : longer = folded \o m /\ longer # << >>
    <3>1. folded \o m \in Seq(ItemsOver(Names)) /\ Len(folded \o m) = Len(folded) + Len(m)
      BY ConcatProperties
    <3>2. Len(folded) \in Nat \ {0} /\ Len(m) \in Nat
      BY <1>2, EmptySeq, LenProperties
    <3>3. Len(folded \o m) # 0
      BY <3>1, <3>2
    <3>4. folded \o m # << >>
      BY <3>3
    <3> QED
      BY <3>1, <3>4
  <2>9. folded \o Append(m, e) = Append(longer, e)
    <3>1. Append(m, e) = m \o <<e>> /\ Append(longer, e) = longer \o <<e>>
      BY AppendIsConcat
    <3>2. <<e>> \in Seq(ItemsOver(Names))
      OBVIOUS
    <3>3. (folded \o m) \o <<e>> = folded \o (m \o <<e>>)
      BY <3>2, ConcatAssociative
    <3> QED
      BY <2>8, <3>1, <3>3
  <2>10. ListText(Append(longer, e)) = ListText(longer) \o (<<Comma>> \o <<Spelled(e)>>)
    BY <2>8, ListTextStep, TokensAre
  <2>11. <<Comma>> \o <<Spelled(e)>> = <<Comma, Spelled(e)>>
    <3>1. ASSUME NEW a \in ReadTokens, NEW b \in ReadTokens
          PROVE  <<a>> \o <<b>> = <<a, b>>
      <4>1. /\ <<a>> \in Seq(ReadTokens) /\ <<b>> \in Seq(ReadTokens)
            /\ Len(<<a>>) = 1 /\ Len(<<b>>) = 1 /\ <<a>>[1] = a /\ <<b>>[1] = b
        OBVIOUS
      <4>2. /\ <<a, b>> \in Seq(ReadTokens) /\ Len(<<a, b>>) = 2
            /\ <<a, b>>[1] = a /\ <<a, b>>[2] = b
        OBVIOUS
      <4>3. /\ <<a>> \o <<b>> \in Seq(ReadTokens) /\ Len(<<a>> \o <<b>>) = 2
            /\ (<<a>> \o <<b>>)[1] = a /\ (<<a>> \o <<b>>)[2] = b
        BY <4>1, ConcatProperties
      <4>4. \A i \in 1..2 : i = 1 \/ i = 2
        OBVIOUS
      <4> QED
        BY <4>2, <4>3, <4>4, SeqEqual
    <3> QED
      BY <3>1, TokensAre
  <2>12. OracleReads(list \o chunk) = ListText(longer)
    BY <1>4, <2>2, <2>8
  <2> QED
    BY <2>1, <2>4, <2>5, <2>6, <2>7, <2>9, <2>10, <2>11, <2>12
<1>5. Seq(ItemsOver(Names)) \subseteq P
  <2> HIDE DEF P
  <2> QED
    BY <1>3, <1>4, SequencesInduction
<1>6. list \o ChunkText(more) \in Texts
  BY ChunkTextType, ReadsJoined
<1> QED
  BY <1>1, <1>2, <1>5, <1>6

----------------------------------------------------------------------------
(* Statements with hidden items spliced in *)

\* A statement with this text for its list, and these for the entries of FROM.
Around(query, list, entries) ==
  <<Word("SELECT"), Word(query.shape)>> \o list \o <<Word("FROM")>>
    \o CommaSeparated(entries)
    \o <<Word(IF query.outer THEN "LEFT JOIN" ELSE "JOIN"),
         Word(IF query.where THEN "WHERE" ELSE ";")>>

SplicedInner(query, more) ==
  Around(query, ListText(query.items) \o ChunkText(more),
         [i \in DOMAIN query.from |-> TableText(query.from[i])])

SplicedRef(ref, more) ==
  IF IsDerived(ref)
  THEN <<Word("(")>> \o SplicedInner(ref.query, more)
         \o <<Word(")"), Identifier(ref.alias)>>
  ELSE TableText(ref)

SplicedText(query, inner, more) ==
  Around(query, ListText(query.items) \o ChunkText(more),
         [i \in DOMAIN query.from |-> SplicedRef(query.from[i], inner[i])])

Opening(query) == <<Word("SELECT"), Word(query.shape)>>
Closing(query) ==
  <<Word(IF query.outer THEN "LEFT JOIN" ELSE "JOIN"),
    Word(IF query.where THEN "WHERE" ELSE ";")>>
From == <<Word("FROM")>>

LEMMA FrameAre ==
  ASSUME NEW query, query.shape \in Shapes
  PROVE  /\ Opening(query) \in Texts /\ OracleReads(Opening(query)) = Opening(query)
         /\ Closing(query) \in Texts /\ OracleReads(Closing(query)) = Closing(query)
         /\ From \in Texts /\ OracleReads(From) = From
         /\ Len(Opening(query)) = 2
<1>1. /\ "SELECT" \in Keywords /\ query.shape \in Keywords /\ "FROM" \in Keywords
      /\ (IF query.outer THEN "LEFT JOIN" ELSE "JOIN") \in Keywords
      /\ (IF query.where THEN "WHERE" ELSE ";") \in Keywords
  BY DEF Keywords
<1>2. \A x, y \in Tokens : <<x, y>> \in Seq(Tokens)
  OBVIOUS
<1>3. \A x \in Tokens : <<x>> \in Seq(Tokens)
  OBVIOUS
<1>4. Opening(query) \in Texts /\ Closing(query) \in Texts /\ From \in Texts
  BY <1>1, <1>2, <1>3, TokensAre DEF Opening, Closing, From, Texts
<1>5. \A v, w : OracleReads(<<Word(v), Word(w)>>) = <<Word(v), Word(w)>>
  BY ReadsShort, ReadingIs
<1>6. \A w : OracleReads(<<Word(w)>>) = <<Word(w)>>
  BY ReadsShort, ReadingIs
<1>7. \A x, y : Len(<<x, y>>) = 2
  OBVIOUS
<1> QED
  BY <1>4, <1>5, <1>6, <1>7 DEF Opening, Closing, From

LEMMA AroundIs ==
  ASSUME NEW query, NEW list, NEW entries
  PROVE  Around(query, list, entries)
           = (((Opening(query) \o list) \o From) \o CommaSeparated(entries)) \o Closing(query)
  BY DEF Around, Opening, Closing, From

LEMMA AroundReads ==
  ASSUME NEW query, query.shape \in Shapes, NEW list \in Texts, NEW entries \in Seq(Texts)
  PROVE  /\ Around(query, list, entries) \in Texts
         /\ OracleReads(Around(query, list, entries))
              = Around(query, OracleReads(list), ReadAll(entries))
<1>1. PICK opening \in Texts, closing \in Texts :
        /\ opening = Opening(query) /\ OracleReads(opening) = opening
        /\ closing = Closing(query) /\ OracleReads(closing) = closing
  BY FrameAre
<1>2. From \in Texts /\ OracleReads(From) = From
  BY FrameAre
<1>3. PICK separated \in Texts :
        /\ separated = CommaSeparated(entries)
        /\ OracleReads(separated) = CommaSeparated(ReadAll(entries))
  BY PartedType, ReadsSeparated, TokensAre DEF Texts
<1>4. /\ opening \o list \in Texts
      /\ OracleReads(opening \o list) = opening \o OracleReads(list)
  <2>1. opening \in Texts
    BY <1>1
  <2>2. /\ opening \o list \in Texts
        /\ OracleReads(opening \o list) = OracleReads(opening) \o OracleReads(list)
    BY <2>1, ReadsJoined
  <2> QED
    BY <1>1, <2>2
<1>5. /\ (opening \o list) \o From \in Texts
      /\ OracleReads((opening \o list) \o From) = (opening \o OracleReads(list)) \o From
  BY <1>2, <1>4, ReadsJoined
<1>6. /\ ((opening \o list) \o From) \o separated \in Texts
      /\ OracleReads(((opening \o list) \o From) \o separated)
           = ((opening \o OracleReads(list)) \o From) \o CommaSeparated(ReadAll(entries))
  BY <1>3, <1>5, ReadsJoined
<1>7. /\ (((opening \o list) \o From) \o separated) \o closing \in Texts
      /\ OracleReads((((opening \o list) \o From) \o separated) \o closing)
           = (((opening \o OracleReads(list)) \o From) \o CommaSeparated(ReadAll(entries)))
               \o closing
  BY <1>1, <1>6, ReadsJoined
<1> QED
  BY <1>1, <1>3, <1>7, AroundIs

\* Of a statement, the text takes its shape and what follows FROM.
LEMMA AroundSame ==
  ASSUME NEW query, NEW other, NEW list, NEW entries,
         other.shape = query.shape, other.outer = query.outer, other.where = query.where
  PROVE  Around(other, list, entries) = Around(query, list, entries)
  BY DEF Around

LEMMA TextIs ==
  /\ \A query : Text(query) = Around(query, ListText(query.items),
                                     [i \in DOMAIN query.from |-> RefText(query.from[i])])
  /\ \A query : InnerText(query)
       = Around(query, ListText(query.items),
                [i \in DOMAIN query.from |-> TableText(query.from[i])])
  BY DEF Text, InnerText, QueryText, Around

LEMMA TableReads ==
  ASSUME NEW ref \in TablesOver(Written)
  PROVE  TableText(ref) \in Texts /\ OracleReads(TableText(ref)) = TableText(FoldedTable(ref))
<1>1. ref.schema \in STRING /\ ref.name \in Written /\ ref.alias \in Written
  BY TableFields
<1>2. \A x, y, z \in Tokens : <<x, y, z>> \in Seq(Tokens)
  OBVIOUS
<1>3. /\ Word(ref.schema) \in Tokens /\ Identifier(ref.name) \in Tokens
      /\ Identifier(ref.alias) \in Tokens
  BY <1>1, TokensAre
<1>4. TableText(ref) \in Texts
  BY <1>2, <1>3 DEF TableText, Texts
<1>5. OracleReads(TableText(ref))
        = <<Word(ref.schema), Identifier(Folded(ref.name)), Identifier(Folded(ref.alias))>>
  BY ReadsShort, ReadingIs DEF TableText
<1>6. PICK other : other = FoldedTable(ref)
  OBVIOUS
<1>7. other.schema = ref.schema /\ other.name = Folded(ref.name) /\ other.alias = Folded(ref.alias)
  BY <1>6 DEF FoldedTable, Table
<1> QED
  BY <1>4, <1>5, <1>6, <1>7 DEF TableText

LEMMA InnerReads ==
  ASSUME NEW query \in InnerQueries(Written), query.items # << >>,
         NEW more \in Seq(ItemsOver(Names))
  PROVE  /\ SplicedInner(query, more) \in Texts
         /\ OracleReads(SplicedInner(query, more)) = InnerText(Adding(FoldedInner(query), more))
<1>1. /\ query.shape \in Shapes /\ query.items \in Seq(ItemsOver(Written))
      /\ DOMAIN query.from = 1..Len(query.from) /\ Len(query.from) \in Nat
      /\ \A i \in DOMAIN query.from : query.from[i] \in TablesOver(Written)
  BY QueryFields DEF InnerQueries
<1>2. PICK list \in Texts :
        /\ list = ListText(query.items) \o ChunkText(more)
        /\ OracleReads(list) = ListText(FoldedItems(query.items) \o more)
  BY <1>1, GrownListReads
<1>3. PICK entries : entries = [i \in DOMAIN query.from |-> TableText(query.from[i])]
  OBVIOUS
<1>4. \A i \in DOMAIN query.from :
        /\ TableText(query.from[i]) \in Texts
        /\ OracleReads(TableText(query.from[i])) = TableText(FoldedTable(query.from[i]))
  BY <1>1, TableReads
<1>5. entries \in Seq(Texts)
  BY <1>1, <1>3, <1>4
<1>6. ReadAll(entries) = [i \in DOMAIN query.from |-> TableText(FoldedTable(query.from[i]))]
  <2>1. DOMAIN entries = DOMAIN query.from
        /\ \A i \in DOMAIN query.from : entries[i] = TableText(query.from[i])
    BY <1>3
  <2>2. \A i \in DOMAIN query.from :
          OracleReads(entries[i]) = TableText(FoldedTable(query.from[i]))
    BY <1>4, <2>1
  <2> QED
    BY <2>1, <2>2 DEF ReadAll
<1>7. PICK other : other = Adding(FoldedInner(query), more)
  OBVIOUS
<1>8. /\ other.shape = query.shape /\ other.outer = query.outer /\ other.where = query.where
      /\ other.items = FoldedItems(query.items) \o more
      /\ other.from = [i \in DOMAIN query.from |-> FoldedTable(query.from[i])]
  <2>1. PICK folded \in InnerQueries(Written) : folded = FoldedInner(query)
    BY FoldedInnerIs
  <2>2. /\ folded.shape = query.shape /\ folded.outer = query.outer
        /\ folded.where = query.where /\ folded.items = FoldedItems(query.items)
        /\ folded.from = [i \in DOMAIN query.from |-> FoldedTable(query.from[i])]
    BY <2>1 DEF FoldedInner, InnerQueries, QueriesOver
  <2>3. /\ other.shape = folded.shape /\ other.outer = folded.outer
        /\ other.where = folded.where /\ other.items = folded.items \o more
        /\ other.from = folded.from
    BY <1>7, <2>1 DEF Adding, InnerQueries, QueriesOver
  <2> QED
    BY <2>2, <2>3
<1>9. [i \in DOMAIN other.from |-> TableText(other.from[i])] = ReadAll(entries)
  BY <1>6, <1>8
<1>10. InnerText(other) = Around(query, OracleReads(list), ReadAll(entries))
  <2>1. InnerText(other) = Around(other, ListText(other.items),
                            [i \in DOMAIN other.from |-> TableText(other.from[i])])
    BY TextIs
  <2>2. ListText(other.items) = OracleReads(list)
    BY <1>2, <1>8
  <2>3. Around(other, OracleReads(list), ReadAll(entries))
          = Around(query, OracleReads(list), ReadAll(entries))
    BY <1>8, AroundSame
  <2> QED
    BY <1>9, <2>1, <2>2, <2>3
<1>11. /\ Around(query, list, entries) \in Texts
       /\ OracleReads(Around(query, list, entries))
            = Around(query, OracleReads(list), ReadAll(entries))
  BY <1>1, <1>5, AroundReads
<1> QED
  BY <1>2, <1>3, <1>7, <1>10, <1>11 DEF SplicedInner

LEMMA RefReads ==
  ASSUME NEW ref \in Refs(Written), IsDerived(ref) => ref.query.items # << >>,
         NEW more \in Seq(ItemsOver(Names))
  PROVE  /\ SplicedRef(ref, more) \in Texts
         /\ OracleReads(SplicedRef(ref, more)) = RefText(GrownRef(FoldedRef(ref), more))
<1>1. CASE ~IsDerived(ref)
  <2>1. ref \in TablesOver(Written) /\ SplicedRef(ref, more) = TableText(ref)
    BY <1>1, RefCases DEF SplicedRef
  <2>2. FoldedRef(ref) = FoldedTable(ref)
    BY <1>1 DEF FoldedRef
  <2>3. ~IsDerived(FoldedTable(ref))
    BY <2>1, FoldedTableIs DEF SpellsTable
  <2>4. RefText(GrownRef(FoldedRef(ref), more)) = TableText(FoldedTable(ref))
    BY <2>2, <2>3 DEF GrownRef, RefText
  <2> QED
    BY <2>1, <2>4, TableReads
<1>2. CASE IsDerived(ref)
  <2>1. ref.alias \in Written /\ ref.query \in InnerQueries(Written)
    BY <1>2, RefCases, DerivedFields
  <2>2. PICK inner \in Texts :
          /\ inner = SplicedInner(ref.query, more)
          /\ OracleReads(inner) = InnerText(Adding(FoldedInner(ref.query), more))
    BY <1>2, <2>1, InnerReads
  <2>3. PICK left \in Texts, right \in Texts :
          /\ left = <<Word("(")>> /\ right = <<Word(")"), Identifier(ref.alias)>>
          /\ OracleReads(left) = left
          /\ OracleReads(right) = <<Word(")"), Identifier(Folded(ref.alias))>>
    <3>1. "(" \in Keywords /\ ")" \in Keywords
      BY DEF Keywords
    <3>2. \A x \in Tokens : <<x>> \in Seq(Tokens)
      OBVIOUS
    <3>3. \A x, y \in Tokens : <<x, y>> \in Seq(Tokens)
      OBVIOUS
    <3>4. <<Word("(")>> \in Texts /\ <<Word(")"), Identifier(ref.alias)>> \in Texts
      BY <2>1, <3>1, <3>2, <3>3, TokensAre DEF Texts
    <3> QED
      BY <3>4, ReadsShort, ReadingIs
  <2>4. /\ left \o inner \in Texts
        /\ OracleReads(left \o inner) = left \o OracleReads(inner)
    <3>1. left \in Texts /\ inner \in Texts
      BY <2>2, <2>3
    <3>2. /\ left \o inner \in Texts
          /\ OracleReads(left \o inner) = OracleReads(left) \o OracleReads(inner)
      BY <3>1, ReadsJoined
    <3> QED
      BY <2>3, <3>2
  <2>5. /\ (left \o inner) \o right \in Texts
        /\ OracleReads((left \o inner) \o right) = (left \o OracleReads(inner)) \o OracleReads(right)
    BY <2>3, <2>4, ReadsJoined
  <2>6. SplicedRef(ref, more) = (left \o inner) \o right
    BY <1>2, <2>2, <2>3 DEF SplicedRef
  <2>7. PICK query : query = Adding(FoldedInner(ref.query), more)
    OBVIOUS
  <2>8. PICK other : other = GrownRef(FoldedRef(ref), more)
    OBVIOUS
  <2>9. IsDerived(other) /\ other.alias = Folded(ref.alias) /\ other.query = query
    <3>1. FoldedRef(ref) = Derived(Folded(ref.alias), FoldedInner(ref.query))
      BY <1>2 DEF FoldedRef
    <3>2. \A a, q : IsDerived(Derived(a, q)) /\ Derived(a, q).alias = a /\ Derived(a, q).query = q
      BY DEF Derived, IsDerived
    <3>3. other = Derived(Folded(ref.alias), query)
      BY <2>7, <2>8, <3>1, <3>2 DEF GrownRef
    <3> QED
      BY <3>2, <3>3
  <2>10. RefText(other)
           = (<<Word("(")>> \o InnerText(query)) \o <<Word(")"), Identifier(Folded(ref.alias))>>
    BY <2>9 DEF RefText
  <2> QED
    BY <2>2, <2>3, <2>5, <2>6, <2>7, <2>8, <2>10
<1> QED
  BY <1>1, <1>2

\* The statement with the pieces spliced in reads as the one with the hidden items.
LEMMA SplicedReads ==
  ASSUME NEW query \in StatementsOver(Written), HasLists(query), NEW inner,
         \A i \in DOMAIN query.from : inner[i] \in Seq(ItemsOver(Names)),
         NEW more \in Seq(ItemsOver(Names))
  PROVE  /\ SplicedText(query, inner, more) \in Texts
         /\ OracleReads(SplicedText(query, inner, more))
              = Text(GrownQuery(FoldedQuery(query), inner, more))
<1>1. /\ query.shape \in Shapes /\ query.items \in Seq(ItemsOver(Written))
      /\ DOMAIN query.from = 1..Len(query.from) /\ Len(query.from) \in Nat
      /\ \A i \in DOMAIN query.from : query.from[i] \in Refs(Written)
  BY QueryFields, StatementQueries
<1>2. PICK list \in Texts :
        /\ list = ListText(query.items) \o ChunkText(more)
        /\ OracleReads(list) = ListText(FoldedItems(query.items) \o more)
  BY <1>1, GrownListReads DEF HasLists
<1>3. PICK entries : entries = [i \in DOMAIN query.from |-> SplicedRef(query.from[i], inner[i])]
  OBVIOUS
<1>4. \A i \in DOMAIN query.from :
        /\ SplicedRef(query.from[i], inner[i]) \in Texts
        /\ OracleReads(SplicedRef(query.from[i], inner[i]))
             = RefText(GrownRef(FoldedRef(query.from[i]), inner[i]))
  BY <1>1, RefReads DEF HasLists
<1>5. entries \in Seq(Texts)
  BY <1>1, <1>3, <1>4
<1>6. ReadAll(entries)
        = [i \in DOMAIN query.from |-> RefText(GrownRef(FoldedRef(query.from[i]), inner[i]))]
  <2>1. DOMAIN entries = DOMAIN query.from
        /\ \A i \in DOMAIN query.from : entries[i] = SplicedRef(query.from[i], inner[i])
    BY <1>3
  <2>2. \A i \in DOMAIN query.from :
          OracleReads(entries[i]) = RefText(GrownRef(FoldedRef(query.from[i]), inner[i]))
    BY <1>4, <2>1
  <2> QED
    BY <2>1, <2>2 DEF ReadAll
<1>7. PICK other : other = GrownQuery(FoldedQuery(query), inner, more)
  OBVIOUS
<1>8. /\ other.shape = query.shape /\ other.outer = query.outer /\ other.where = query.where
      /\ other.items = FoldedItems(query.items) \o more
      /\ other.from = [i \in DOMAIN query.from |-> GrownRef(FoldedRef(query.from[i]), inner[i])]
  <2>1. PICK folded \in StatementsOver(Written) : folded = FoldedQuery(query)
    BY FoldedQueryIs
  <2>2. /\ folded.shape = query.shape /\ folded.outer = query.outer
        /\ folded.where = query.where /\ folded.items = FoldedItems(query.items)
        /\ folded.from = [i \in DOMAIN query.from |-> FoldedRef(query.from[i])]
    BY <2>1 DEF FoldedQuery, StatementsOver, QueriesOver
  <2>3. /\ other.shape = folded.shape /\ other.outer = folded.outer
        /\ other.where = folded.where /\ other.items = folded.items \o more
        /\ other.from = [i \in DOMAIN folded.from |-> GrownRef(folded.from[i], inner[i])]
    BY <1>7, <2>1 DEF GrownQuery, StatementsOver, QueriesOver
  <2> QED
    BY <2>2, <2>3
<1>9. [i \in DOMAIN other.from |-> RefText(other.from[i])] = ReadAll(entries)
  BY <1>6, <1>8
<1>10. Text(other) = Around(query, OracleReads(list), ReadAll(entries))
  <2>1. Text(other) = Around(other, ListText(other.items),
                            [i \in DOMAIN other.from |-> RefText(other.from[i])])
    BY TextIs
  <2>2. ListText(other.items) = OracleReads(list)
    BY <1>2, <1>8
  <2>3. Around(other, OracleReads(list), ReadAll(entries))
          = Around(query, OracleReads(list), ReadAll(entries))
    BY <1>8, AroundSame
  <2> QED
    BY <1>9, <2>1, <2>2, <2>3
<1>11. /\ Around(query, list, entries) \in Texts
       /\ OracleReads(Around(query, list, entries))
            = Around(query, OracleReads(list), ReadAll(entries))
  BY <1>1, <1>5, AroundReads
<1> QED
  BY <1>2, <1>3, <1>7, <1>10, <1>11 DEF SplicedText

----------------------------------------------------------------------------
(* Splicing *)

Cuts == [pos : Nat, text : Texts]

\* No piece goes behind the end of a text of n tokens.
WithinText(cuts, n) == \A i \in DOMAIN cuts : cuts[i].pos <= n

LEMMA SubSeqIs ==
  ASSUME NEW T, NEW s \in Seq(T), NEW m \in Nat \ {0}, NEW n \in Nat, n <= Len(s)
  PROVE  /\ SubSeq(s, m, n) \in Seq(T)
         /\ Len(SubSeq(s, m, n)) = IF m <= n THEN n - m + 1 ELSE 0
         /\ \A i \in 1..(n - m + 1) : SubSeq(s, m, n)[i] = s[m + i - 1]
<1>1. Len(s) \in Nat /\ DOMAIN s = 1..Len(s)
  BY LenProperties
<1>2. CASE m <= n
  <2>1. m \in 1..Len(s) /\ n \in m..Len(s)
    BY <1>1, <1>2
  <2>2. SubSeq(s, m, n) = [i \in 1..(n - m + 1) |-> s[i + m - 1]]
    BY <1>1, <1>2
  <2>3. \A i \in 1..(n - m + 1) : i + m - 1 = m + i - 1 /\ m + i - 1 \in 1..Len(s)
    BY <1>1, <1>2
  <2>4. n - m + 1 \in Nat
    BY <1>2
  <2>5. \A i \in 1..(n - m + 1) : s[i + m - 1] \in T
    BY <1>1, <2>3, ElementOfSeq
  <2> QED
    BY <1>2, <2>2, <2>3, <2>4, <2>5
<1>3. CASE ~(m <= n)
  <2>1. SubSeq(s, m, n) = << >>
    BY <1>1, <1>3
  <2>2. \A i : i \notin 1..(n - m + 1)
    BY <1>3
  <2> QED
    BY <1>3, <2>1, <2>2, EmptySeq
<1> QED
  BY <1>2, <1>3

\* What follows a text does not change what is cut out of it.
LEMMA SubSeqWithin ==
  ASSUME NEW T, NEW s \in Seq(T), NEW t \in Seq(T),
         NEW m \in Nat \ {0}, NEW n \in Nat, n <= Len(s)
  PROVE  SubSeq(s \o t, m, n) = SubSeq(s, m, n)
<1>1. PICK all \in Seq(T) : all = s \o t
  BY ConcatProperties
<1>2. /\ Len(s) \in Nat /\ Len(t) \in Nat /\ Len(all) = Len(s) + Len(t)
      /\ \A i \in 1..Len(s) : all[i] = s[i]
  BY <1>1, Joined, LenProperties
<1>3. n <= Len(all)
  BY <1>2
<1>4. PICK a \in Seq(T), b \in Seq(T) : a = SubSeq(all, m, n) /\ b = SubSeq(s, m, n)
  BY <1>1, <1>3, SubSeqIs
<1>5. /\ Len(a) = IF m <= n THEN n - m + 1 ELSE 0
      /\ Len(b) = IF m <= n THEN n - m + 1 ELSE 0
      /\ \A i \in 1..(n - m + 1) : a[i] = all[m + i - 1]
      /\ \A i \in 1..(n - m + 1) : b[i] = s[m + i - 1]
  BY <1>1, <1>3, <1>4, SubSeqIs
<1>6. \A i \in 1..Len(a) : a[i] = b[i]
  <2>1. ASSUME NEW i \in 1..Len(a) PROVE a[i] = b[i]
    <3>1. i \in 1..(n - m + 1) /\ m + i - 1 \in 1..Len(s)
      BY <1>2, <1>5
    <3> QED
      BY <1>2, <1>5, <3>1
  <2> QED
    BY <2>1
<1> QED
  BY <1>1, <1>4, <1>5, <1>6, SeqEqual

LEMMA SubSeqBeyond ==
  ASSUME NEW T, NEW s \in Seq(T), NEW t \in Seq(T), NEW m \in Nat, m <= Len(s)
  PROVE  SubSeq(s \o t, m + 1, Len(s \o t)) = SubSeq(s, m + 1, Len(s)) \o t
<1>1. PICK all \in Seq(T) : all = s \o t
  BY ConcatProperties
<1>2. PICK l \in Nat, n \in Nat : l = Len(s) /\ n = Len(t)
  BY LenProperties
<1>3. /\ Len(all) = l + n
      /\ \A i \in 1..l : all[i] = s[i]
      /\ \A i \in 1..n : all[l + i] = t[i]
  BY <1>1, <1>2, Joined
<1>4. PICK a \in Seq(T), b \in Seq(T) : a = SubSeq(all, m + 1, l + n) /\ b = SubSeq(s, m + 1, l)
  <2>1. /\ m + 1 \in Nat \ {0} /\ l + n \in Nat /\ l + n <= Len(all)
        /\ l \in Nat /\ l <= Len(s)
    BY <1>2, <1>3
  <2>2. SubSeq(all, m + 1, l + n) \in Seq(T)
    BY <1>1, <2>1, SubSeqIs
  <2>3. SubSeq(s, m + 1, l) \in Seq(T)
    BY <2>1, SubSeqIs
  <2> QED
    BY <2>2, <2>3
<1>5. /\ Len(a) = IF m + 1 <= l + n THEN l + n - (m + 1) + 1 ELSE 0
      /\ \A i \in 1..(l + n - (m + 1) + 1) : a[i] = all[m + 1 + i - 1]
  BY <1>1, <1>2, <1>3, <1>4, SubSeqIs
<1>6. /\ Len(b) = IF m + 1 <= l THEN l - (m + 1) + 1 ELSE 0
      /\ \A i \in 1..(l - (m + 1) + 1) : b[i] = s[m + 1 + i - 1]
  BY <1>2, <1>4, SubSeqIs
<1>7. Len(b) = l - m /\ Len(a) = (l - m) + n /\ l - m \in Nat
  BY <1>2, <1>5, <1>6
<1>8. Agree(b, a, l - m)
  <2>1. ASSUME NEW i \in 1..(l - m) PROVE b[i] = a[i]
    <3>1. /\ i \in 1..(l + n - (m + 1) + 1) /\ i \in 1..(l - (m + 1) + 1)
          /\ m + 1 + i - 1 \in 1..l
      BY <1>2
    <3> QED
      BY <1>3, <1>5, <1>6, <3>1
  <2> QED
    BY <2>1 DEF Agree
<1>9. Behind(t, a, l - m, n)
  <2>1. ASSUME NEW i \in 1..n PROVE t[i] = a[(l - m) + i]
    <3>1. /\ (l - m) + i \in 1..(l + n - (m + 1) + 1)
          /\ m + 1 + ((l - m) + i) - 1 = l + i
      BY <1>2
    <3>2. a[(l - m) + i] = all[l + i]
      BY <1>5, <3>1
    <3>3. all[l + i] = t[i]
      BY <1>3
    <3> QED
      BY <3>2, <3>3
  <2> QED
    BY <2>1 DEF Behind
<1>10. a = b \o t
  BY <1>2, <1>4, <1>7, <1>8, <1>9, JoinedIs
<1> QED
  BY <1>1, <1>2, <1>3, <1>4, <1>10

Previous(cuts, k) == IF k = 1 THEN 0 ELSE cuts[k - 1].pos

SplicedPieces(text, cuts) ==
  [k \in DOMAIN cuts |->
     SubSeq(text, Previous(cuts, k) + 1, cuts[k].pos) \o cuts[k].text]

LEMMA CutsAre ==
  ASSUME NEW cuts \in Seq(Cuts)
  PROVE  /\ DOMAIN cuts = 1..Len(cuts) /\ Len(cuts) \in Nat
         /\ \A k \in DOMAIN cuts :
              /\ cuts[k] \in Cuts /\ cuts[k].pos \in Nat /\ cuts[k].text \in Texts
              /\ Previous(cuts, k) \in Nat
<1>1. DOMAIN cuts = 1..Len(cuts) /\ Len(cuts) \in Nat
      /\ \A k \in DOMAIN cuts : cuts[k] \in Cuts
  BY LenProperties, ElementOfSeq
<1>2. \A k \in DOMAIN cuts : cuts[k].pos \in Nat /\ cuts[k].text \in Texts
  BY <1>1 DEF Cuts
<1>3. ASSUME NEW k \in DOMAIN cuts PROVE Previous(cuts, k) \in Nat
  <2>1. k # 1 => k - 1 \in DOMAIN cuts
    BY <1>1
  <2> QED
    BY <1>2, <2>1 DEF Previous
<1> QED
  BY <1>1, <1>2, <1>3

LEMMA SpliceIs ==
  ASSUME NEW text \in Texts, NEW cuts \in Seq(Cuts), cuts # << >>, WithinText(cuts, Len(text))
  PROVE  /\ SplicedPieces(text, cuts) \in Seq(Texts)
         /\ Len(SplicedPieces(text, cuts)) = Len(cuts)
         /\ Len(cuts) \in DOMAIN cuts /\ cuts[Len(cuts)].pos \in 0..Len(text)
         /\ Splice(text, cuts)
              = FlattenSeq(SplicedPieces(text, cuts))
                  \o SubSeq(text, cuts[Len(cuts)].pos + 1, Len(text))
         /\ FlattenSeq(SplicedPieces(text, cuts)) \in Texts
         /\ SubSeq(text, cuts[Len(cuts)].pos + 1, Len(text)) \in Texts
<1>1. /\ DOMAIN cuts = 1..Len(cuts) /\ Len(cuts) \in Nat
      /\ \A k \in DOMAIN cuts :
           cuts[k].pos \in Nat /\ cuts[k].text \in Texts /\ Previous(cuts, k) \in Nat
  BY CutsAre
<1>2. Len(text) \in Nat
  BY LenProperties DEF Texts
<1>3. ASSUME NEW k \in DOMAIN cuts
      PROVE  SubSeq(text, Previous(cuts, k) + 1, cuts[k].pos) \o cuts[k].text \in Texts
  <2>1. SubSeq(text, Previous(cuts, k) + 1, cuts[k].pos) \in Seq(Tokens)
    <3>1. /\ Previous(cuts, k) + 1 \in Nat \ {0} /\ cuts[k].pos \in Nat
          /\ cuts[k].pos <= Len(text) /\ text \in Seq(Tokens)
      BY <1>1 DEF WithinText, Texts
    <3> QED
      BY <3>1, SubSeqIs
  <2>2. cuts[k].text \in Seq(Tokens)
    BY <1>1 DEF Texts
  <2> QED
    BY <2>1, <2>2, ConcatProperties DEF Texts
<1>4. /\ SplicedPieces(text, cuts) \in Seq(Texts)
      /\ Len(SplicedPieces(text, cuts)) = Len(cuts)
  BY <1>1, <1>3 DEF SplicedPieces
<1>5. Len(cuts) \in DOMAIN cuts
  BY <1>1, EmptySeq
<1>6. cuts[Len(cuts)].pos \in 0..Len(text)
  BY <1>1, <1>2, <1>5 DEF WithinText
<1>7. Splice(text, cuts)
        = FlattenSeq(SplicedPieces(text, cuts))
            \o SubSeq(text, cuts[Len(cuts)].pos + 1, Len(text))
  BY DEF Splice, SplicedPieces, Previous
<1>8. FlattenSeq(SplicedPieces(text, cuts)) \in Texts
  BY <1>4, FlattenType DEF Texts
<1>9. SubSeq(text, cuts[Len(cuts)].pos + 1, Len(text)) \in Texts
  <2>1. /\ cuts[Len(cuts)].pos + 1 \in Nat \ {0} /\ Len(text) \in Nat /\ Len(text) <= Len(text)
        /\ text \in Seq(Tokens)
    BY <1>2, <1>6 DEF Texts
  <2>2. SubSeq(text, cuts[Len(cuts)].pos + 1, Len(text)) \in Seq(Tokens)
    BY <2>1, SubSeqIs
  <2> QED
    BY <2>2 DEF Texts
<1> QED
  BY <1>4, <1>5, <1>6, <1>7, <1>8, <1>9

LEMMA JoinedThrice ==
  ASSUME NEW text1 \in Texts, NEW text2 \in Texts, NEW text3 \in Texts
  PROVE  (text1 \o text2) \o text3 = text1 \o (text2 \o text3)
<1>1. text1 \in Seq(Tokens) /\ text2 \in Seq(Tokens) /\ text3 \in Seq(Tokens)
  BY DEF Texts
<1> QED
  BY <1>1, ConcatAssociative

\* A text goes on as it is behind the last piece.
LEMMA SpliceExtended ==
  ASSUME NEW text \in Texts, NEW cuts \in Seq(Cuts), cuts # << >>, WithinText(cuts, Len(text)),
         NEW more \in Texts
  PROVE  Splice(text \o more, cuts) = Splice(text, cuts) \o more
<1>1. PICK all \in Texts : all = text \o more
  BY ConcatProperties DEF Texts
<1>2. /\ Len(text) \in Nat /\ Len(more) \in Nat /\ Len(all) = Len(text) + Len(more)
  BY <1>1, ConcatProperties, LenProperties DEF Texts
<1>3. WithinText(cuts, Len(all))
  <2>1. \A k \in DOMAIN cuts : cuts[k].pos \in Nat
    BY CutsAre
  <2> QED
    BY <1>2, <2>1 DEF WithinText
<1>4. SplicedPieces(all, cuts) = SplicedPieces(text, cuts)
  <2>1. ASSUME NEW k \in DOMAIN cuts
        PROVE  SubSeq(all, Previous(cuts, k) + 1, cuts[k].pos)
                 = SubSeq(text, Previous(cuts, k) + 1, cuts[k].pos)
    <3>1. /\ Previous(cuts, k) + 1 \in Nat \ {0} /\ cuts[k].pos \in Nat
          /\ cuts[k].pos <= Len(text)
      BY CutsAre DEF WithinText
    <3>2. SubSeq(text \o more, Previous(cuts, k) + 1, cuts[k].pos)
            = SubSeq(text, Previous(cuts, k) + 1, cuts[k].pos)
      BY <3>1, SubSeqWithin DEF Texts
    <3> QED
      BY <1>1, <3>2
  <2> QED
    BY <2>1 DEF SplicedPieces
<1>5. PICK l : l = cuts[Len(cuts)].pos
  OBVIOUS
<1>6. l \in Nat /\ l <= Len(text)
  <2>1. cuts[Len(cuts)].pos \in 0..Len(text)
    BY SpliceIs
  <2> QED
    BY <1>2, <1>5, <2>1
<1>7. SubSeq(all, l + 1, Len(all)) = SubSeq(text, l + 1, Len(text)) \o more
  BY <1>1, <1>6, SubSeqBeyond DEF Texts
<1>8. PICK flat \in Texts, rest \in Texts :
        /\ flat = FlattenSeq(SplicedPieces(text, cuts))
        /\ rest = SubSeq(text, l + 1, Len(text))
        /\ Splice(text, cuts) = flat \o rest
  <2>1. /\ FlattenSeq(SplicedPieces(text, cuts)) \in Texts
        /\ SubSeq(text, cuts[Len(cuts)].pos + 1, Len(text)) \in Texts
        /\ Splice(text, cuts)
             = FlattenSeq(SplicedPieces(text, cuts))
                 \o SubSeq(text, cuts[Len(cuts)].pos + 1, Len(text))
    BY SpliceIs
  <2> QED
    BY <1>5, <2>1
<1>9. Splice(all, cuts) = FlattenSeq(SplicedPieces(all, cuts)) \o SubSeq(all, l + 1, Len(all))
  BY <1>3, <1>5, SpliceIs
<1>10. Splice(all, cuts) = flat \o (rest \o more)
  BY <1>4, <1>7, <1>8, <1>9
<1>11. (flat \o rest) \o more = flat \o (rest \o more)
  <2>1. flat \in Seq(Tokens) /\ rest \in Seq(Tokens) /\ more \in Seq(Tokens)
    BY <1>8 DEF Texts
  <2> QED
    BY <2>1, ConcatAssociative
<1> QED
  BY <1>1, <1>8, <1>10, <1>11

\* A piece behind the end of the text follows the others.
LEMMA SpliceAppended ==
  ASSUME NEW text \in Texts, NEW cuts \in Seq(Cuts), cuts # << >>, WithinText(cuts, Len(text)),
         NEW cut \in Cuts, cut.pos = Len(text)
  PROVE  Splice(text, Append(cuts, cut)) = Splice(text, cuts) \o cut.text
<1>1. PICK n \in Nat, len \in Nat : n = Len(cuts) /\ len = Len(text)
  BY LenProperties DEF Texts
<1>2. PICK all : all = Append(cuts, cut)
  OBVIOUS
<1>3. /\ all \in Seq(Cuts) /\ DOMAIN all = 1..(n + 1) /\ Len(all) = n + 1
      /\ DOMAIN cuts = 1..n /\ all[n + 1] = cut /\ \A i \in 1..n : all[i] = cuts[i]
  BY <1>1, <1>2, Appended
<1>4. cut.pos = len /\ cut.text \in Texts
  BY <1>1 DEF Cuts
<1>5. WithinText(all, Len(text)) /\ all # << >>
  <2>1. \A i \in 1..n : all[i].pos <= Len(text)
    BY <1>3 DEF WithinText
  <2>2. \A i \in 1..(n + 1) : i \in 1..n \/ i = n + 1
    BY <1>1
  <2>3. all[n + 1].pos <= Len(text)
    BY <1>1, <1>3, <1>4
  <2>4. n + 1 # 0
    BY <1>1
  <2> QED
    BY <1>3, <2>1, <2>2, <2>3, <2>4, EmptySeq DEF WithinText
<1>6. n # 0
  BY <1>1, EmptySeq
<1>7. PICK l : l = cuts[n].pos
  OBVIOUS
<1>8. l \in Nat /\ l <= len
  BY <1>1, <1>7, SpliceIs
<1>9. PICK flat \in Texts, rest \in Texts :
        /\ flat = FlattenSeq(SplicedPieces(text, cuts))
        /\ rest = SubSeq(text, l + 1, len)
        /\ Splice(text, cuts) = flat \o rest
  BY <1>1, <1>7, SpliceIs
<1>10. PICK s, t \in Seq(Texts) : s = SplicedPieces(text, cuts) /\ t = SplicedPieces(text, all)
  BY <1>3, <1>5, SpliceIs
<1>11. PICK x \in Texts : x = rest \o cut.text
  BY <1>4, <1>9, ConcatProperties DEF Texts
<1>12. PICK grown : grown = Append(s, x)
  OBVIOUS
<1>13. /\ grown \in Seq(Texts) /\ Len(grown) = n + 1 /\ Len(s) = n /\ Len(t) = n + 1
       /\ grown[n + 1] = x /\ \A i \in 1..n : grown[i] = s[i]
  <2>1. Len(s) = n /\ Len(t) = n + 1
    BY <1>1, <1>3, <1>5, <1>10, SpliceIs
  <2> QED
    BY <1>1, <1>10, <1>11, <1>12, <2>1, Appended
<1>14. t = grown
  <2>1. ASSUME NEW i \in 1..n PROVE t[i] = grown[i]
    <3>1. i \in 1..(n + 1) /\ i \in DOMAIN all /\ i \in DOMAIN cuts /\ all[i] = cuts[i]
      BY <1>1, <1>3
    <3>2. Previous(all, i) = Previous(cuts, i)
      <4>1. i # 1 => i - 1 \in 1..n
        BY <1>1
      <4> QED
        BY <1>3, <4>1 DEF Previous
    <3>3. t[i] = SubSeq(text, Previous(all, i) + 1, all[i].pos) \o all[i].text
      BY <1>10, <3>1 DEF SplicedPieces
    <3>4. s[i] = SubSeq(text, Previous(cuts, i) + 1, cuts[i].pos) \o cuts[i].text
      BY <1>10, <3>1 DEF SplicedPieces
    <3> QED
      BY <1>13, <3>1, <3>2, <3>3, <3>4
  <2>2. n + 1 \in 1..(n + 1) /\ t[n + 1] = grown[n + 1]
    <3>1. n + 1 \in 1..(n + 1) /\ n + 1 # 1 /\ (n + 1) - 1 = n /\ n \in 1..n
      BY <1>1, <1>6
    <3>2. Previous(all, n + 1) = l
      BY <1>3, <1>7, <3>1 DEF Previous
    <3>3. t[n + 1] = SubSeq(text, Previous(all, n + 1) + 1, all[n + 1].pos) \o all[n + 1].text
      BY <1>3, <1>10, <3>1 DEF SplicedPieces
    <3>4. t[n + 1] = rest \o cut.text
      BY <1>3, <1>4, <1>9, <3>2, <3>3
    <3> QED
      BY <1>11, <1>13, <3>1, <3>4
  <2>3. \A i \in 1..(n + 1) : t[i] = grown[i]
    BY <1>1, <2>1, <2>2
  <2> QED
    BY <1>10, <1>13, <2>3, SeqEqual
<1>15. FlattenSeq(grown) = flat \o x
  <2>1. FlattenSeq(Append(s, x)) = FlattenSeq(s) \o x
    BY <1>10, <1>11, FlattenAppend DEF Texts
  <2> QED
    BY <1>9, <1>10, <1>12, <2>1
<1>16. SubSeq(text, len + 1, len) = << >>
  <2>1. /\ text \in Seq(Tokens) /\ len + 1 \in Nat \ {0} /\ len <= Len(text)
        /\ ~(len + 1 <= len)
    BY <1>1 DEF Texts
  <2>2. SubSeq(text, len + 1, len) \in Seq(Tokens) /\ Len(SubSeq(text, len + 1, len)) = 0
    BY <1>1, <2>1, SubSeqIs
  <2> QED
    BY <2>2, EmptySeq
<1>17. Splice(text, all) = FlattenSeq(t) \o SubSeq(text, len + 1, len)
  <2>1. Splice(text, all)
          = FlattenSeq(SplicedPieces(text, all))
              \o SubSeq(text, all[Len(all)].pos + 1, Len(text))
    BY <1>3, <1>5, SpliceIs
  <2>2. all[Len(all)].pos = len
    BY <1>3, <1>4
  <2> QED
    BY <1>1, <1>10, <2>1, <2>2
<1>18. Splice(text, all) = flat \o x
  <2>1. flat \o x \in Seq(Tokens)
    BY <1>9, <1>11, ConcatProperties DEF Texts
  <2>2. (flat \o x) \o << >> = flat \o x
    BY <2>1, ConcatEmptySeq
  <2> QED
    BY <1>14, <1>15, <1>16, <1>17, <2>2
<1>19. (flat \o rest) \o cut.text = flat \o (rest \o cut.text)
  <2>1. flat \in Texts /\ rest \in Texts /\ cut.text \in Texts
    BY <1>4, <1>9
  <2> QED
    BY <2>1, JoinedThrice
<1> QED
  BY <1>2, <1>9, <1>11, <1>18, <1>19

LEMMA SpliceFirst ==
  ASSUME NEW text \in Texts, NEW cut \in Cuts, cut.pos = Len(text)
  PROVE  Splice(text, <<cut>>) = text \o cut.text
<1>1. PICK cuts : cuts = <<cut>>
  OBVIOUS
<1>2. cuts \in Seq(Cuts) /\ cuts # << >> /\ Len(cuts) = 1 /\ DOMAIN cuts = {1} /\ cuts[1] = cut
  BY <1>1
<1>3. Len(text) \in Nat /\ cut.text \in Texts
  BY LenProperties DEF Cuts, Texts
<1>4. WithinText(cuts, Len(text))
  BY <1>2, <1>3 DEF WithinText
<1>5. Splice(text, cuts)
        = FlattenSeq(SplicedPieces(text, cuts))
            \o SubSeq(text, cuts[Len(cuts)].pos + 1, Len(text))
  BY <1>2, <1>4, SpliceIs
<1>6. SubSeq(text, 1, Len(text)) = text
  <2>1. text \in Seq(Tokens)
    BY DEF Texts
  <2>2. Len(text) <= Len(text) /\ 1 \in Nat \ {0}
    BY <1>3
  <2>3. /\ SubSeq(text, 1, Len(text)) \in Seq(Tokens)
        /\ Len(SubSeq(text, 1, Len(text))) = IF 1 <= Len(text) THEN Len(text) - 1 + 1 ELSE 0
        /\ \A i \in 1..(Len(text) - 1 + 1) : SubSeq(text, 1, Len(text))[i] = text[1 + i - 1]
    BY <1>3, <2>1, <2>2, SubSeqIs
  <2>4. PICK s \in Seq(Tokens) : s = SubSeq(text, 1, Len(text))
    BY <2>3
  <2>5. Len(s) = Len(text) /\ \A i \in 1..Len(s) : s[i] = text[i]
    BY <1>3, <2>3, <2>4
  <2> QED
    BY <2>1, <2>4, <2>5, SeqEqual
<1>7. SplicedPieces(text, cuts) = <<text \o cut.text>>
  <2>1. Previous(cuts, 1) + 1 = 1
    BY DEF Previous
  <2>2. SubSeq(text, Previous(cuts, 1) + 1, cuts[1].pos) \o cuts[1].text = text \o cut.text
    BY <1>2, <1>6, <2>1
  <2>3. SplicedPieces(text, cuts)
          = [k \in {1} |-> SubSeq(text, Previous(cuts, k) + 1, cuts[k].pos) \o cuts[k].text]
    BY <1>2 DEF SplicedPieces
  <2>4. PICK x \in Texts : x = text \o cut.text
    BY <1>3, ConcatProperties DEF Texts
  <2>5. /\ SplicedPieces(text, cuts) \in Seq(Texts)
        /\ Len(SplicedPieces(text, cuts)) = 1
    BY <1>2, <1>4, SpliceIs
  <2>6. PICK pieces \in Seq(Texts) : pieces = SplicedPieces(text, cuts)
    BY <2>5
  <2>7. pieces[1] = x
    BY <1>2, <2>2, <2>4, <2>6 DEF SplicedPieces
  <2>8. <<x>> \in Seq(Texts) /\ Len(<<x>>) = 1 /\ <<x>>[1] = x
    BY <2>4
  <2>9. PICK single \in Seq(Texts) : single = <<x>>
    BY <2>8
  <2>10. Len(pieces) = Len(single) /\ \A i \in 1..Len(pieces) : pieces[i] = single[i]
    BY <2>5, <2>6, <2>7, <2>8, <2>9
  <2>11. pieces = single
    BY <2>10, SeqEqual
  <2> QED
    BY <2>4, <2>6, <2>9, <2>11
<1>8. text \o cut.text \in Seq(Tokens)
  BY <1>3, ConcatProperties DEF Texts
<1>9. FlattenSeq(<<text \o cut.text>>) = text \o cut.text
  BY <1>8, FlattenFirst
<1>10. SubSeq(text, Len(text) + 1, Len(text)) = << >>
  <2>1. /\ text \in Seq(Tokens) /\ Len(text) + 1 \in Nat \ {0} /\ Len(text) <= Len(text)
        /\ ~(Len(text) + 1 <= Len(text))
    BY <1>3 DEF Texts
  <2>2. /\ SubSeq(text, Len(text) + 1, Len(text)) \in Seq(Tokens)
        /\ Len(SubSeq(text, Len(text) + 1, Len(text))) = 0
    BY <1>3, <2>1, SubSeqIs
  <2> QED
    BY <2>2, EmptySeq
<1>11. (text \o cut.text) \o << >> = text \o cut.text
  BY <1>8, ConcatEmptySeq
<1>12. cuts[Len(cuts)].pos = Len(text)
  BY <1>2
<1> QED
  BY <1>1, <1>5, <1>7, <1>9, <1>10, <1>11, <1>12

----------------------------------------------------------------------------
(* The order of the pieces *)

Ascending(cuts) == \A i, j \in DOMAIN cuts : i < j => cuts[i].pos < cuts[j].pos

\* Where two orders of the same pieces agree so far, the next piece of the one is
\* not behind that of the other.
LEMMA NotBehind ==
  ASSUME NEW n \in Nat, NEW a, NEW b, DOMAIN a = 1..n, DOMAIN b = 1..n,
         \A i \in 1..n : b[i].pos \in Nat,
         Ascending(a), Ascending(b), ToSet(a) = ToSet(b),
         NEW k \in 1..n, \A i \in 1..n : i < k => a[i] = b[i]
  PROVE  b[k].pos <= a[k].pos
<1>1. a[k] \in ToSet(b)
  <2>1. a[k] \in ToSet(a)
    BY DEF ToSet
  <2> QED
    BY <2>1
<1>2. PICK j \in 1..n : b[j] = a[k]
  BY <1>1 DEF ToSet
<1>3. ~(j < k)
  <2>1. SUFFICES ASSUME j < k PROVE FALSE
    OBVIOUS
  <2>2. a[j] = a[k]
    BY <1>2, <2>1
  <2>3. a[j].pos < a[k].pos
    BY <1>2, <2>1 DEF Ascending
  <2>4. a[k].pos \in Nat
    BY <1>2
  <2> QED
    BY <2>2, <2>3, <2>4
<1>4. CASE j = k
  BY <1>2, <1>4
<1>5. CASE k < j
  <2>1. b[k].pos < b[j].pos
    BY <1>2, <1>5 DEF Ascending
  <2> QED
    BY <1>2, <2>1
<1> QED
  BY <1>2, <1>3, <1>4, <1>5

LEMMA SamePosition ==
  ASSUME NEW cuts, Ascending(cuts), NEW n \in Nat, DOMAIN cuts = 1..n,
         \A i \in 1..n : cuts[i].pos \in Nat,
         NEW i \in 1..n, NEW j \in 1..n, cuts[i].pos = cuts[j].pos
  PROVE  i = j
<1>1. ~(i < j) /\ ~(j < i)
  <2>1. i < j => cuts[i].pos < cuts[j].pos
    BY DEF Ascending
  <2>2. j < i => cuts[j].pos < cuts[i].pos
    BY DEF Ascending
  <2> QED
    BY <2>1, <2>2
<1> QED
  BY <1>1

LEMMA CountedCuts ==
  ASSUME NEW cuts \in Seq(Cuts), Ascending(cuts)
  PROVE  Cardinality(ToSet(cuts)) = Len(cuts)
<1>1. /\ DOMAIN cuts = 1..Len(cuts) /\ Len(cuts) \in Nat
      /\ \A i \in 1..Len(cuts) : cuts[i].pos \in Nat
  BY CutsAre
<1>2. cuts \in [1..Len(cuts) -> ToSet(cuts)]
  <2>1. \A i \in DOMAIN cuts : cuts[i] \in ToSet(cuts)
    BY DEF ToSet
  <2>2. cuts = [i \in 1..Len(cuts) |-> cuts[i]]
    BY <1>1
  <2> QED
    BY <1>1, <2>1, <2>2
<1>3. \A i, j \in 1..Len(cuts) : cuts[i] = cuts[j] => i = j
  BY <1>1, SamePosition
<1>4. \A c \in ToSet(cuts) : \E i \in 1..Len(cuts) : cuts[i] = c
  BY <1>1 DEF ToSet
<1>5. cuts \in Injection(1..Len(cuts), ToSet(cuts))
  BY <1>1, <1>2, <1>3 DEF Injection, IsInjective
<1>6. cuts \in Surjection(1..Len(cuts), ToSet(cuts))
  BY <1>2, <1>4 DEF Surjection
<1>7. ExistsBijection(1..Len(cuts), ToSet(cuts))
  BY <1>5, <1>6 DEF ExistsBijection, Bijection
<1> QED
  BY <1>1, <1>7, FS_CountingElements

\* There is one order of the pieces from left to right.
LEMMA InOrderIs ==
  ASSUME NEW cuts \in Seq(Cuts), Ascending(cuts)
  PROVE  InOrder(ToSet(cuts)) = cuts
<1>1. /\ DOMAIN cuts = 1..Len(cuts) /\ Len(cuts) \in Nat
      /\ \A i \in 1..Len(cuts) : cuts[i].pos \in Nat
  BY CutsAre
<1>2. PICK n \in Nat : n = Len(cuts) /\ n = Cardinality(ToSet(cuts))
  BY <1>1, CountedCuts
<1>3. cuts \in Enumerations(ToSet(cuts))
  <2>1. \A i \in DOMAIN cuts : cuts[i] \in ToSet(cuts)
    BY DEF ToSet
  <2>2. cuts = [i \in 1..n |-> cuts[i]]
    BY <1>1, <1>2
  <2>3. cuts \in [1..n -> ToSet(cuts)]
    BY <1>1, <1>2, <2>1, <2>2
  <2> QED
    BY <1>2, <2>3 DEF Enumerations
<1>4. ASSUME NEW seq \in Enumerations(ToSet(cuts)), Ascending(seq)
      PROVE  seq = cuts
  <2>1. seq \in [1..n -> ToSet(cuts)] /\ ToSet(seq) = ToSet(cuts)
    BY <1>2 DEF Enumerations
  <2>2. DOMAIN seq = 1..n /\ DOMAIN cuts = 1..n
    BY <1>1, <1>2, <2>1
  <2>3. \A i \in 1..n : seq[i].pos \in Nat
    <3>1. \A c \in ToSet(cuts) : c.pos \in Nat
      BY <1>1 DEF ToSet
    <3> QED
      BY <2>1, <3>1
  <2> DEFINE D == {i \in 1..n : seq[i] # cuts[i]}
  <2>4. D = {}
    <3>1. SUFFICES ASSUME D # {} PROVE FALSE
      OBVIOUS
    <3>2. D \subseteq Nat
      OBVIOUS
    <3>3. PICK k \in D : \A i \in D : k <= i
      BY <3>1, <3>2, LeastNumber
    <3>4. k \in 1..n /\ seq[k] # cuts[k] /\ \A i \in 1..n : i < k => seq[i] = cuts[i]
      BY <3>3
    <3>5. cuts[k].pos <= seq[k].pos
      BY <1>1, <1>2, <1>4, <2>1, <2>2, <3>4, NotBehind
    <3>6. seq[k].pos <= cuts[k].pos
      BY <1>4, <2>1, <2>2, <2>3, <3>4, NotBehind
    <3>7. cuts[k].pos = seq[k].pos
      BY <1>1, <1>2, <2>3, <3>4, <3>5, <3>6
    <3>8. PICK j \in 1..n : seq[k] = cuts[j]
      <4>1. seq[k] \in ToSet(cuts)
        BY <2>1, <3>4
      <4> QED
        BY <2>2, <4>1 DEF ToSet
    <3>9. cuts[k].pos = cuts[j].pos
      BY <3>7, <3>8
    <3>10. \A i \in 1..n : cuts[i].pos \in Nat
      BY <1>1, <1>2
    <3>11. k = j
      BY <2>2, <3>4, <3>8, <3>9, <3>10, SamePosition
    <3> QED
      BY <3>4, <3>8, <3>11
  <2> QED
    BY <2>1, <2>2, <2>4
<1>5. InOrder(ToSet(cuts)) = CHOOSE seq \in Enumerations(ToSet(cuts)) : Ascending(seq)
  BY DEF InOrder, Ascending
<1> QED
  BY <1>3, <1>4, <1>5

----------------------------------------------------------------------------
(* Growing a text *)

\* These pieces, from left to right, make the one text of the other.
Makes(pieces, base, grown) ==
  \E cuts \in Seq(Cuts) :
    /\ cuts # << >> /\ Ascending(cuts) /\ ToSet(cuts) = pieces
    /\ WithinText(cuts, Len(base)) /\ Splice(base, cuts) = grown

LEMMA MakesInOrder ==
  ASSUME NEW pieces, NEW base, NEW grown, Makes(pieces, base, grown)
  PROVE  Splice(base, InOrder(pieces)) = grown
<1>1. PICK cuts \in Seq(Cuts) :
        Ascending(cuts) /\ ToSet(cuts) = pieces /\ Splice(base, cuts) = grown
  BY DEF Makes
<1>2. InOrder(ToSet(cuts)) = cuts
  BY <1>1, InOrderIs
<1> QED
  BY <1>1, <1>2

LEMMA MakesFirst ==
  ASSUME NEW text \in Texts, NEW piece \in Texts
  PROVE  Makes({[pos |-> Len(text), text |-> piece]}, text, text \o piece)
<1>1. PICK cut : cut = [pos |-> Len(text), text |-> piece]
  OBVIOUS
<1>2. Len(text) \in Nat
  BY LenProperties DEF Texts
<1>3. cut \in Cuts /\ cut.pos = Len(text) /\ cut.text = piece
  BY <1>1, <1>2 DEF Cuts
<1>4. PICK cuts : cuts = <<cut>>
  OBVIOUS
<1>5. cuts \in Seq(Cuts) /\ cuts # << >> /\ DOMAIN cuts = {1} /\ cuts[1] = cut
  BY <1>3, <1>4
<1>6. Splice(text, cuts) = text \o piece
  BY <1>3, <1>4, SpliceFirst
<1>7. Ascending(cuts)
  BY <1>5 DEF Ascending
<1>8. ToSet(cuts) = {cut}
  BY <1>5 DEF ToSet
<1>9. WithinText(cuts, Len(text))
  BY <1>2, <1>3, <1>5 DEF WithinText
<1> QED
  BY <1>1, <1>5, <1>6, <1>7, <1>8, <1>9 DEF Makes

LEMMA MakesOn ==
  ASSUME NEW pieces, NEW base \in Texts, NEW grown, Makes(pieces, base, grown),
         NEW more \in Texts
  PROVE  base \o more \in Texts /\ Makes(pieces, base \o more, grown \o more)
<1>1. PICK cuts \in Seq(Cuts) :
        /\ cuts # << >> /\ Ascending(cuts) /\ ToSet(cuts) = pieces
        /\ WithinText(cuts, Len(base)) /\ Splice(base, cuts) = grown
  BY DEF Makes
<1>2. PICK all \in Texts : all = base \o more
  BY ConcatProperties DEF Texts
<1>3. Splice(base \o more, cuts) = Splice(base, cuts) \o more
  BY <1>1, SpliceExtended
<1>4. Len(base) \in Nat /\ Len(more) \in Nat /\ Len(all) = Len(base) + Len(more)
  BY <1>2, ConcatProperties, LenProperties DEF Texts
<1>5. WithinText(cuts, Len(all))
  <2>1. \A k \in DOMAIN cuts : cuts[k].pos \in Nat
    BY CutsAre
  <2> QED
    BY <1>1, <1>4, <2>1 DEF WithinText
<1> QED
  BY <1>1, <1>2, <1>3, <1>5 DEF Makes

LEMMA MakesNext ==
  ASSUME NEW pieces, NEW base \in Texts, NEW grown, Makes(pieces, base, grown),
         NEW lead \in Texts, lead # << >>, NEW piece \in Texts
  PROVE  /\ base \o lead \in Texts
         /\ Makes(pieces \cup {[pos |-> Len(base \o lead), text |-> piece]},
                  base \o lead, (grown \o lead) \o piece)
<1>1. PICK all \in Texts : all = base \o lead /\ Makes(pieces, all, grown \o lead)
  BY MakesOn
<1>2. PICK cuts \in Seq(Cuts) :
        /\ cuts # << >> /\ Ascending(cuts) /\ ToSet(cuts) = pieces
        /\ WithinText(cuts, Len(base)) /\ Splice(base, cuts) = grown
  BY DEF Makes
<1>3. Splice(all, cuts) = grown \o lead
  BY <1>1, <1>2, SpliceExtended
<1>4. /\ Len(base) \in Nat /\ Len(lead) \in Nat /\ Len(all) = Len(base) + Len(lead)
      /\ Len(lead) # 0
  BY <1>1, ConcatProperties, LenProperties, EmptySeq DEF Texts
<1>5. /\ \A k \in DOMAIN cuts : cuts[k].pos \in Nat /\ cuts[k].pos < Len(all)
      /\ DOMAIN cuts = 1..Len(cuts) /\ Len(cuts) \in Nat
  <2>1. /\ \A k \in DOMAIN cuts : cuts[k].pos \in Nat
        /\ DOMAIN cuts = 1..Len(cuts) /\ Len(cuts) \in Nat
    BY CutsAre
  <2> QED
    BY <1>2, <1>4, <2>1 DEF WithinText
<1>6. PICK cut : cut = [pos |-> Len(all), text |-> piece]
  OBVIOUS
<1>7. cut \in Cuts /\ cut.pos = Len(all) /\ cut.text = piece
  BY <1>4, <1>6 DEF Cuts
<1>8. PICK more : more = Append(cuts, cut)
  OBVIOUS
<1>9. /\ more \in Seq(Cuts) /\ Len(more) = Len(cuts) + 1
      /\ DOMAIN more = 1..(Len(cuts) + 1)
      /\ more[Len(cuts) + 1] = cut /\ \A i \in 1..Len(cuts) : more[i] = cuts[i]
  BY <1>5, <1>7, <1>8, Appended
<1>10. \A i \in DOMAIN more : i \in 1..Len(cuts) \/ i = Len(cuts) + 1
  BY <1>5, <1>9
<1>11. WithinText(cuts, Len(all))
  BY <1>4, <1>5 DEF WithinText
<1>12. Splice(all, more) = Splice(all, cuts) \o piece
  BY <1>2, <1>7, <1>8, <1>11, SpliceAppended
<1>13. WithinText(more, Len(all))
  <2>1. \A i \in 1..Len(cuts) : more[i].pos <= Len(all)
    BY <1>5, <1>9, <1>11 DEF WithinText
  <2>2. more[Len(cuts) + 1].pos <= Len(all)
    BY <1>4, <1>7, <1>9
  <2> QED
    BY <1>10, <2>1, <2>2 DEF WithinText
<1>14. Ascending(more)
  <2>1. ASSUME NEW i \in DOMAIN more, NEW j \in DOMAIN more, i < j
        PROVE  more[i].pos < more[j].pos
    <3>1. i \in 1..Len(cuts)
      BY <1>5, <1>9, <1>10, <2>1
    <3>2. CASE j \in 1..Len(cuts)
      <4>1. cuts[i].pos < cuts[j].pos
        BY <1>2, <1>5, <2>1, <3>1, <3>2 DEF Ascending
      <4> QED
        BY <1>9, <3>1, <3>2, <4>1
    <3>3. CASE j = Len(cuts) + 1
      <4>1. cuts[i].pos < Len(all)
        BY <1>5, <3>1
      <4> QED
        BY <1>7, <1>9, <3>1, <3>3, <4>1
    <3> QED
      BY <1>10, <3>2, <3>3
  <2> QED
    BY <2>1 DEF Ascending
<1>15. ToSet(more) = pieces \cup {cut}
  <2>1. \A i \in 1..Len(cuts) : more[i] \in pieces
    BY <1>2, <1>5, <1>9 DEF ToSet
  <2>2. \A c \in pieces : \E i \in 1..Len(cuts) : more[i] = c
    BY <1>2, <1>5, <1>9 DEF ToSet
  <2>3. Len(cuts) + 1 \in DOMAIN more /\ 1..Len(cuts) \subseteq DOMAIN more
    BY <1>5, <1>9
  <2>4. \A c : c \in ToSet(more) <=> \E i \in DOMAIN more : more[i] = c
    BY DEF ToSet
  <2> QED
    BY <1>9, <1>10, <2>1, <2>2, <2>3, <2>4
<1>16. more # << >>
  BY <1>5, <1>9, EmptySeq
<1>17. Makes(pieces \cup {cut}, all, (grown \o lead) \o piece)
  BY <1>3, <1>9, <1>12, <1>13, <1>14, <1>15, <1>16 DEF Makes
<1> QED
  BY <1>1, <1>6, <1>17

----------------------------------------------------------------------------
(* The entries of FROM, one after the other *)

Leading(texts, k) == [i \in 1..k |-> texts[i]]

Between(k) == IF k = 0 THEN << >> ELSE <<Comma>>

LEMMA LeadingAre ==
  ASSUME NEW texts \in Seq(Texts)
  PROVE  /\ \A k \in 0..Len(texts) :
              Leading(texts, k) \in Seq(Texts) /\ Len(Leading(texts, k)) = k
         /\ Leading(texts, 0) = << >> /\ Leading(texts, Len(texts)) = texts
<1>1. /\ DOMAIN texts = 1..Len(texts) /\ Len(texts) \in Nat
      /\ \A i \in 1..Len(texts) : texts[i] \in Texts
  BY LenProperties, ElementOfSeq
<1>2. ASSUME NEW k \in 0..Len(texts)
      PROVE  Leading(texts, k) \in Seq(Texts) /\ Len(Leading(texts, k)) = k
  <2>1. \A i \in 1..k : texts[i] \in Texts
    BY <1>1
  <2> QED
    BY <1>1, <2>1 DEF Leading
<1>3. Leading(texts, 0) = << >>
  <2>1. 0 \in 0..Len(texts)
    BY <1>1
  <2> QED
    BY <1>2, <2>1, EmptySeq
<1>4. Leading(texts, Len(texts)) = texts
  BY <1>1 DEF Leading
<1> QED
  BY <1>2, <1>3, <1>4

LEMMA LeadingStep ==
  ASSUME NEW texts \in Seq(Texts), NEW k \in Nat, k + 1 \in 1..Len(texts)
  PROVE  /\ CommaSeparated(Leading(texts, k)) \in Texts
         /\ CommaSeparated(Leading(texts, k + 1))
              = CommaSeparated(Leading(texts, k)) \o (Between(k) \o texts[k + 1])
<1>1. Len(texts) \in Nat /\ texts[k + 1] \in Texts /\ k \in 0..Len(texts)
  BY LenProperties, ElementOfSeq
<1>2. PICK so \in Seq(Texts), x \in Texts :
        /\ so = Leading(texts, k) /\ x = texts[k + 1] /\ Len(so) = k
        /\ \A i \in 1..k : so[i] = texts[i]
  BY <1>1, LeadingAre DEF Leading
<1>3. PICK more \in Seq(Texts), next \in Seq(Texts) :
        more = Append(so, x) /\ next = Leading(texts, k + 1)
  <2>1. k + 1 \in 0..Len(texts)
    BY <1>1
  <2>2. Leading(texts, k + 1) \in Seq(Texts)
    BY <2>1, LeadingAre
  <2>3. Append(so, x) \in Seq(Texts)
    BY <1>2, AppendProperties
  <2> QED
    BY <2>2, <2>3
<1>4. /\ Len(more) = k + 1 /\ more[k + 1] = x /\ \A i \in 1..k : more[i] = so[i]
      /\ Len(next) = k + 1 /\ \A i \in 1..(k + 1) : next[i] = texts[i]
  <2>1. Len(more) = k + 1 /\ more[k + 1] = x /\ \A i \in 1..k : more[i] = so[i]
    BY <1>2, <1>3, Appended
  <2>2. k + 1 \in 0..Len(texts)
    BY <1>1
  <2>3. Len(next) = k + 1
    BY <1>3, <2>2, LeadingAre
  <2> QED
    BY <1>3, <2>1, <2>3 DEF Leading
<1>5. more = next
  <2>1. \A i \in 1..(k + 1) : i \in 1..k \/ i = k + 1
    OBVIOUS
  <2>2. \A i \in 1..Len(more) : more[i] = next[i]
    BY <1>2, <1>4, <2>1
  <2> QED
    BY <1>3, <1>4, <2>2, SeqEqual
<1>6. so = << >> <=> k = 0
  BY <1>2, EmptySeq
<1>7. so \in Seq(Seq(Tokens)) /\ x \in Seq(Tokens) /\ Comma \in Tokens
  BY <1>2, TokensAre DEF Texts
<1>8. CommaSeparated(so) \in Seq(Tokens)
  BY <1>7, PartedType
<1>9. CommaSeparated(Append(so, x))
        = IF so = << >> THEN x ELSE CommaSeparated(so) \o (<<Comma>> \o x)
  BY <1>7, SeparatedStep
<1>10. CASE k = 0
  <2>1. CommaSeparated(so) = << >>
    <3>1. CommaSeparated(<< >>) = << >>
      <4>1. Parted(<< >>) = << >>
        BY DEF Parted
      <4>2. FlattenSeq(Parted(<< >>)) = << >>
        BY <4>1, FlattenEmpty
      <4> QED
        BY <4>2 DEF CommaSeparated, Parted
    <3> QED
      BY <1>6, <1>10, <3>1
  <2>2. << >> \o x = x
    BY <1>7, ConcatEmptySeq
  <2> QED
    BY <1>2, <1>3, <1>5, <1>6, <1>8, <1>9, <1>10, <2>1, <2>2 DEF Between, Texts
<1>11. CASE k # 0
  BY <1>2, <1>3, <1>5, <1>6, <1>8, <1>9, <1>11 DEF Between, Texts
<1> QED
  BY <1>10, <1>11

\* One text behind another, for what follows from no more than these laws.
Glued(left, right) == left \o right

LEMMA GluedAre ==
  ASSUME NEW left1 \in Texts, NEW mid1 \in Texts, NEW right1 \in Texts
  PROVE  /\ Glued(left1, mid1) \in Texts
         /\ Glued(Glued(left1, mid1), right1) = Glued(left1, Glued(mid1, right1))
<1>1. left1 \o mid1 \in Texts
  BY ConcatProperties DEF Texts
<1>2. (left1 \o mid1) \o right1 = left1 \o (mid1 \o right1)
  BY JoinedThrice
<1> QED
  BY <1>1, <1>2 DEF Glued

LEMMA Regrouped ==
  ASSUME NEW base \in Texts, NEW sep \in Texts, NEW a \in Texts, NEW b \in Texts
  PROVE  /\ Glued(Glued(base, sep), Glued(a, b)) = Glued(base, Glued(sep, Glued(a, b)))
         /\ Glued(Glued(base, Glued(sep, a)), b) = Glued(base, Glued(sep, Glued(a, b)))
<1>1. Glued(a, b) \in Texts /\ Glued(sep, a) \in Texts
  BY GluedAre
<1>2. Glued(Glued(base, sep), Glued(a, b)) = Glued(base, Glued(sep, Glued(a, b)))
  BY <1>1, GluedAre
<1>3. Glued(Glued(base, Glued(sep, a)), b) = Glued(base, Glued(Glued(sep, a), b))
  BY <1>1, GluedAre
<1>4. Glued(Glued(sep, a), b) = Glued(sep, Glued(a, b))
  BY GluedAre
<1> QED
  BY <1>2, <1>3, <1>4

\* The next entry of FROM, with a piece in it.
LEMMA MakesEntry ==
  ASSUME NEW pieces, NEW base \in Texts, NEW so \in Texts, Makes(pieces, base, so),
         NEW sep \in Texts, NEW a \in Texts, a # << >>, NEW b \in Texts, NEW c \in Texts
  PROVE  Makes(pieces \cup {[pos |-> Len(base) + Len(sep) + Len(a), text |-> c]},
               Glued(base, Glued(sep, Glued(a, b))),
               Glued(so, Glued(sep, Glued(Glued(a, c), b))))
<1>1. PICK x \in Texts : x = Glued(sep, a)
  BY GluedAre
<1>2. x # << >> /\ Len(base \o x) = Len(base) + Len(sep) + Len(a)
  <2>1. /\ Len(sep) \in Nat /\ Len(a) \in Nat /\ Len(x) = Len(sep) + Len(a)
        /\ Len(a) # 0 /\ Len(base) \in Nat /\ Len(base \o x) = Len(base) + Len(x)
    BY <1>1, ConcatProperties, LenProperties, EmptySeq DEF Texts, Glued
  <2> QED
    BY <2>1, EmptySeq
<1>3. PICK cut : cut = [pos |-> Len(base) + Len(sep) + Len(a), text |-> c]
  OBVIOUS
<1>4. PICK under \in Texts : under = Glued(base, x)
  BY <1>1, GluedAre
<1>5. Makes(pieces \cup {cut}, under, (so \o x) \o c)
  <2>1. Makes(pieces \cup {[pos |-> Len(base \o x), text |-> c]}, base \o x, (so \o x) \o c)
    BY <1>1, <1>2, MakesNext
  <2> QED
    BY <1>2, <1>3, <1>4, <2>1 DEF Glued
<1>6. Makes(pieces \cup {cut}, under \o b, ((so \o x) \o c) \o b)
  BY <1>4, <1>5, MakesOn
<1>7. Glued(under, b) = Glued(base, Glued(sep, Glued(a, b)))
  BY <1>1, <1>4, Regrouped
<1>8. Glued(Glued(Glued(so, x), c), b) = Glued(so, Glued(sep, Glued(Glued(a, c), b)))
  <2>1. PICK y \in Texts : y = Glued(a, c)
    BY GluedAre
  <2>2. Glued(Glued(so, Glued(sep, a)), c) = Glued(so, Glued(sep, Glued(a, c)))
    BY Regrouped
  <2>3. Glued(Glued(so, Glued(sep, y)), b) = Glued(so, Glued(sep, Glued(y, b)))
    BY <2>1, Regrouped
  <2> QED
    BY <1>1, <2>1, <2>2, <2>3
<1> QED
  BY <1>3, <1>6, <1>7, <1>8 DEF Glued

\* Where a piece goes that stands within an entry of FROM.
CutAt(front, refs, lead, piece, i) ==
  [pos |-> Len(front) + Len(CommaSeparated(Leading(refs, i - 1))) + Len(Between(i - 1))
             + Len(lead[i]),
   text |-> piece[i]]

CutsOf(front, refs, D, lead, piece) == {CutAt(front, refs, lead, piece, i) : i \in D}

\* The entries in D have a piece behind their lead, and the others none.
Fits(refs, grown, D, lead, piece, rest) ==
  /\ \A i \in 1..Len(refs) : i \notin D => refs[i] = grown[i]
  /\ \A i \in D : /\ i \in 1..Len(refs)
                  /\ lead[i] \in Texts /\ lead[i] # << >>
                  /\ piece[i] \in Texts /\ rest[i] \in Texts
                  /\ refs[i] = lead[i] \o rest[i]
                  /\ grown[i] = (lead[i] \o piece[i]) \o rest[i]

LEMMA Layout ==
  ASSUME NEW outer, NEW front \in Texts, NEW grownFront \in Texts,
         Makes(outer, front, grownFront),
         NEW refs \in Seq(Texts), NEW grown \in Seq(Texts), Len(refs) = Len(grown),
         NEW D, NEW lead, NEW piece, NEW rest,
         Fits(refs, grown, D, lead, piece, rest)
  PROVE  Makes(outer \cup CutsOf(front, refs, D, lead, piece),
               front \o CommaSeparated(refs), grownFront \o CommaSeparated(grown))
<1>1. PICK n \in Nat : n = Len(refs) /\ n = Len(grown)
  BY LenProperties
<1>D. \A i \in D : i \in 1..Len(refs)
  BY DEF Fits
<1> DEFINE Gone(k) ==
      outer \cup {CutAt(front, refs, lead, piece, i) : i \in {j \in D : j <= k}}
    Base(k) == front \o CommaSeparated(Leading(refs, k))
    Become(k) == grownFront \o CommaSeparated(Leading(grown, k))
    K == {k \in Nat : k \in 0..n => Base(k) \in Texts /\ Makes(Gone(k), Base(k), Become(k))}
<1>2. 0 \in K
  <2>1. Leading(refs, 0) = << >> /\ Leading(grown, 0) = << >>
    BY LeadingAre
  <2>2. CommaSeparated(<< >>) = << >>
    <3>1. Parted(<< >>) = << >>
      BY DEF Parted
    <3>2. FlattenSeq(Parted(<< >>)) = << >>
      BY <3>1, FlattenEmpty
    <3> QED
      BY <3>2 DEF CommaSeparated, Parted
  <2>3. front \o << >> = front /\ grownFront \o << >> = grownFront
    BY ConcatEmptySeq DEF Texts
  <2>4. Base(0) = front /\ Become(0) = grownFront
    BY <2>1, <2>2, <2>3
  <2>5. {j \in D : j <= 0} = {}
    <3>1. \A j \in D : j \in 1..Len(refs)
      BY <1>D
    <3>2. \A j \in D : ~(j <= 0)
      BY <1>1, <3>1
    <3> QED
      BY <3>2
  <2>6. Gone(0) = outer
    BY <2>5
  <2> QED
    BY <2>4, <2>6
<1>3. ASSUME NEW k \in Nat, k \in K PROVE k + 1 \in K
  <2>1. SUFFICES ASSUME k + 1 \in 0..n
                 PROVE  /\ Base(k + 1) \in Texts
                        /\ Makes(Gone(k + 1), Base(k + 1), Become(k + 1))
    OBVIOUS
  <2>2. k \in 0..n /\ k + 1 \in 1..Len(refs) /\ k + 1 \in 1..Len(grown)
    BY <1>1, <2>1
  <2>3. PICK base \in Texts, so \in Texts :
          /\ base = Base(k) /\ so = Become(k) /\ Makes(Gone(k), base, so)
    <3>1. Become(k) \in Texts
      <4>1. CommaSeparated(Leading(grown, k)) \in Texts
        BY <2>2, LeadingStep
      <4> QED
        BY <4>1, ConcatProperties DEF Texts
    <3> QED
      BY <1>3, <2>2, <3>1
  <2>4. Between(k) \in Texts /\ refs[k + 1] \in Texts /\ grown[k + 1] \in Texts
    <3>1. refs[k + 1] \in Texts /\ grown[k + 1] \in Texts
      BY <2>2, ElementOfSeq
    <3>2. <<Comma>> \in Texts /\ << >> \in Texts
      BY TokensAre DEF Texts
    <3> QED
      BY <3>1, <3>2 DEF Between
  <2>5. /\ Base(k + 1) = base \o (Between(k) \o refs[k + 1])
        /\ Become(k + 1) = so \o (Between(k) \o grown[k + 1])
    <3>1. PICK a \in Texts, b \in Texts :
            /\ a = CommaSeparated(Leading(refs, k)) /\ b = CommaSeparated(Leading(grown, k))
            /\ CommaSeparated(Leading(refs, k + 1)) = a \o (Between(k) \o refs[k + 1])
            /\ CommaSeparated(Leading(grown, k + 1)) = b \o (Between(k) \o grown[k + 1])
      BY <2>2, LeadingStep
    <3>2. PICK sep \in Texts, x \in Texts, y \in Texts :
            sep = Between(k) /\ x = refs[k + 1] /\ y = grown[k + 1]
      BY <2>4
    <3>3. /\ (front \o a) \o (sep \o x) = front \o (a \o (sep \o x))
          /\ (grownFront \o b) \o (sep \o y) = grownFront \o (b \o (sep \o y))
      <4>1. /\ Glued(Glued(front, a), Glued(sep, x)) = Glued(front, Glued(a, Glued(sep, x)))
            /\ Glued(Glued(grownFront, b), Glued(sep, y))
                 = Glued(grownFront, Glued(b, Glued(sep, y)))
        <5>1. a \in Texts /\ b \in Texts /\ sep \in Texts /\ x \in Texts /\ y \in Texts
          BY <3>1, <3>2
        <5> QED
          BY <5>1, Regrouped
      <4> QED
        BY <4>1 DEF Glued
    <3> QED
      BY <2>3, <3>1, <3>2, <3>3
  <2>6. CASE k + 1 \notin D
    <3>1. PICK x \in Texts : x = Between(k) \o refs[k + 1]
      BY <2>4, ConcatProperties DEF Texts
    <3>2. refs[k + 1] = grown[k + 1]
      BY <2>2, <2>6 DEF Fits
    <3>3. base \o x \in Texts /\ Makes(Gone(k), base \o x, so \o x)
      BY <2>3, MakesOn
    <3>4. {j \in D : j <= k + 1} = {j \in D : j <= k}
      <4>1. \A j \in D : j \in Nat /\ (j <= k + 1 <=> j <= k \/ j = k + 1)
        BY <1>1, <1>D
      <4> QED
        BY <2>6, <4>1
    <3>5. Gone(k + 1) = Gone(k)
      BY <3>4
    <3>6. Base(k + 1) = base \o x /\ Become(k + 1) = so \o x
      <4> HIDE DEF Base, Become
      <4> QED
        BY <2>5, <3>1, <3>2
    <3> HIDE DEF Base, Become, Gone
    <3> QED
      BY <3>3, <3>5, <3>6
  <2>7. CASE k + 1 \in D
    <3>1. PICK a \in Texts, c \in Texts, b \in Texts :
            /\ a = lead[k + 1] /\ c = piece[k + 1] /\ b = rest[k + 1] /\ a # << >>
            /\ refs[k + 1] = a \o b /\ grown[k + 1] = (a \o c) \o b
      BY <2>7 DEF Fits
    <3>2. PICK sep \in Texts : sep = Between(k)
      BY <2>4
    <3>3. PICK cut : cut = [pos |-> Len(base) + Len(sep) + Len(a), text |-> c]
      OBVIOUS
    <3>4. Makes(Gone(k) \cup {cut},
                Glued(base, Glued(sep, Glued(a, b))),
                Glued(so, Glued(sep, Glued(Glued(a, c), b))))
      <4>1. PICK pieces : pieces = Gone(k)
        OBVIOUS
      <4>2. base \in Texts /\ so \in Texts /\ Makes(pieces, base, so)
        BY <2>3, <4>1
      <4>3. sep \in Texts /\ a \in Texts /\ a # << >> /\ b \in Texts /\ c \in Texts
        BY <3>1, <3>2
      <4>4. Makes(pieces \cup {[pos |-> Len(base) + Len(sep) + Len(a), text |-> c]},
                  Glued(base, Glued(sep, Glued(a, b))),
                  Glued(so, Glued(sep, Glued(Glued(a, c), b))))
        BY <4>2, <4>3, MakesEntry, Zenon
      <4> QED
        BY <3>3, <4>1, <4>4
    <3>5. /\ Base(k + 1) = Glued(base, Glued(sep, Glued(a, b)))
          /\ Become(k + 1) = Glued(so, Glued(sep, Glued(Glued(a, c), b)))
      <4> HIDE DEF Base, Become
      <4> QED
        BY <2>5, <3>1, <3>2 DEF Glued
    <3>6. Base(k + 1) \in Texts
      <4>1. refs[k + 1] \in Texts /\ sep \in Texts /\ base \in Texts
        BY <2>3, <2>4, <3>2
      <4>2. sep \o refs[k + 1] \in Texts
        BY <4>1, ConcatProperties DEF Texts
      <4>3. base \o (sep \o refs[k + 1]) \in Texts
        BY <4>1, <4>2, ConcatProperties DEF Texts
      <4> HIDE DEF Base
      <4> QED
        BY <2>5, <3>2, <4>3
    <3>7. CutAt(front, refs, lead, piece, k + 1) = cut
      <4>1. PICK t \in Texts : t = CommaSeparated(Leading(refs, k)) /\ base = front \o t
        BY <2>2, <2>3, LeadingStep
      <4>2. /\ Len(front) \in Nat /\ Len(t) \in Nat
            /\ Len(base) = Len(front) + Len(t)
        BY <4>1, ConcatProperties, LenProperties DEF Texts
      <4>3. (k + 1) - 1 = k
        OBVIOUS
      <4> QED
        BY <3>1, <3>2, <3>3, <4>1, <4>2, <4>3 DEF CutAt
    <3>8. Gone(k + 1) = Gone(k) \cup {cut}
      <4>1. \A j \in D : j \in Nat /\ (j <= k + 1 <=> j <= k \/ j = k + 1)
        BY <1>1, <1>D
      <4>2. {j \in D : j <= k + 1} = {j \in D : j <= k} \cup {k + 1}
        BY <2>7, <4>1
      <4> QED
        BY <3>7, <4>2
    <3> HIDE DEF Base, Become, Gone
    <3> QED
      BY <3>4, <3>5, <3>6, <3>8
  <2> QED
    BY <2>6, <2>7
<1>4. n \in K
  <2> HIDE DEF K
  <2>1. Nat \subseteq K
    BY <1>2, <1>3, NumbersInduction
  <2> QED
    BY <1>1, <2>1
<1>5. Gone(n) = outer \cup CutsOf(front, refs, D, lead, piece)
  <2>1. {j \in D : j <= n} = D
    BY <1>1, <1>D
  <2> QED
    BY <2>1 DEF CutsOf
<1>6. Leading(refs, n) = refs /\ Leading(grown, n) = grown
  BY <1>1, LeadingAre
<1>7. /\ Base(n) = front \o CommaSeparated(refs)
      /\ Become(n) = grownFront \o CommaSeparated(grown)
  BY <1>6
<1>8. Makes(Gone(n), Base(n), Become(n))
  <2>1. n \in 0..n
    BY <1>1
  <2> QED
    BY <1>4, <2>1
<1> HIDE DEF Gone, Base, Become
<1> QED
  BY <1>5, <1>7, <1>8

----------------------------------------------------------------------------
(* Where the pieces go *)

Regroups(p, o, l, f, s, w, r) ==
  Glued(Glued(p, Glued(Glued(Glued(Glued(o, l), f), s), w)), r)
    = Glued(Glued(Glued(p, o), l), Glued(Glued(Glued(f, s), w), r))

LEMMA FrameRegrouped ==
  ASSUME NEW p \in Texts, NEW o \in Texts, NEW l \in Texts, NEW f \in Texts,
         NEW s \in Texts, NEW w \in Texts, NEW r \in Texts
  PROVE  Regroups(p, o, l, f, s, w, r)
<1>1. PICK fs \in Texts, fsw \in Texts, ol \in Texts :
        fs = Glued(f, s) /\ fsw = Glued(fs, w) /\ ol = Glued(o, l)
  <2>1. \A x, y \in Texts : Glued(x, y) \in Texts
    BY GluedAre
  <2> QED
    BY <2>1
<1>2. Glued(Glued(Glued(ol, f), s), w) = Glued(ol, fsw)
  <2>1. Glued(Glued(ol, f), s) = Glued(ol, fs)
    BY <1>1, GluedAre
  <2>2. Glued(Glued(ol, fs), w) = Glued(ol, fsw)
    BY <1>1, GluedAre
  <2> QED
    BY <2>1, <2>2
<1>3. Glued(p, Glued(ol, fsw)) = Glued(Glued(p, ol), fsw)
  BY <1>1, GluedAre
<1>4. Glued(p, ol) = Glued(Glued(p, o), l)
  BY <1>1, GluedAre
<1>5. Glued(Glued(Glued(p, ol), fsw), r) = Glued(Glued(p, ol), Glued(fsw, r))
  <2>1. PICK pol \in Texts : pol = Glued(p, ol)
    BY <1>1, GluedAre
  <2>2. Glued(Glued(pol, fsw), r) = Glued(pol, Glued(fsw, r))
    BY <1>1, <2>1, GluedAre
  <2> QED
    BY <2>1, <2>2
<1> QED
  BY <1>1, <1>2, <1>3, <1>4, <1>5 DEF Regroups

\* A derived table up to the end of its select list, and from there.
Open == <<Word("(")>>
LeadOf(ref) == (Open \o Opening(ref.query)) \o ListText(ref.query.items)

Tables(ref) == [i \in DOMAIN ref.query.from |-> TableText(ref.query.from[i])]
RestOf(ref) ==
  ((From \o CommaSeparated(Tables(ref))) \o Closing(ref.query))
    \o <<Word(")"), Identifier(ref.alias)>>

LEMMA DerivedParts ==
  ASSUME NEW ref \in Refs(Written), IsDerived(ref)
  PROVE  /\ Open \in Texts /\ Len(Open) = 1
         /\ Opening(ref.query) \in Texts /\ Len(Opening(ref.query)) = 2
         /\ ListText(ref.query.items) \in Texts
         /\ From \in Texts /\ CommaSeparated(Tables(ref)) \in Texts
         /\ Closing(ref.query) \in Texts /\ <<Word(")"), Identifier(ref.alias)>> \in Texts
<1>1. /\ ref.alias \in Written /\ ref.query \in InnerQueries(Written)
  BY RefCases, DerivedFields
<1>2. /\ ref.query.shape \in Shapes /\ ref.query.items \in Seq(ItemsOver(Written))
      /\ DOMAIN ref.query.from = 1..Len(ref.query.from) /\ Len(ref.query.from) \in Nat
      /\ \A i \in DOMAIN ref.query.from : ref.query.from[i] \in TablesOver(Written)
  BY <1>1, QueryFields DEF InnerQueries
<1>3. ListText(ref.query.items) \in Texts
  BY <1>2, ListReads
<1>4. \A i \in DOMAIN ref.query.from : TableText(ref.query.from[i]) \in Texts
  BY <1>2, TableReads
<1>5. Tables(ref) \in Seq(Texts)
  BY <1>2, <1>4 DEF Tables
<1>6. CommaSeparated(Tables(ref)) \in Texts
  BY <1>5, PartedType, TokensAre DEF Texts
<1>7. /\ Opening(ref.query) \in Texts /\ Len(Opening(ref.query)) = 2
      /\ From \in Texts /\ Closing(ref.query) \in Texts
  BY <1>2, FrameAre
<1>8. Open \in Texts /\ <<Word(")"), Identifier(ref.alias)>> \in Texts
  <2>1. "(" \in Keywords /\ ")" \in Keywords
    BY DEF Keywords
  <2>2. \A x, y \in Tokens : <<x, y>> \in Seq(Tokens)
    OBVIOUS
  <2>3. \A x \in Tokens : <<x>> \in Seq(Tokens)
    OBVIOUS
  <2> QED
    BY <1>1, <2>1, <2>2, <2>3, TokensAre DEF Open, Texts
<1>9. Len(Open) = 1
  BY DEF Open
<1> QED
  BY <1>3, <1>6, <1>7, <1>8, <1>9

LEMMA DerivedText ==
  ASSUME NEW ref \in Refs(Written), IsDerived(ref), NEW more \in Seq(ItemsOver(Names))
  PROVE  /\ LeadOf(ref) \in Texts /\ LeadOf(ref) # << >>
         /\ Len(LeadOf(ref)) = 3 + Len(ListText(ref.query.items))
         /\ Len(ListText(ref.query.items)) \in Nat
         /\ RestOf(ref) \in Texts /\ ChunkText(more) \in Texts
         /\ RefText(ref) = LeadOf(ref) \o RestOf(ref)
         /\ SplicedRef(ref, more) = (LeadOf(ref) \o ChunkText(more)) \o RestOf(ref)
<1>1. PICK right : right = <<Word(")"), Identifier(ref.alias)>>
  OBVIOUS
<1>2. PICK tables : tables = CommaSeparated(Tables(ref))
  OBVIOUS
<1>3. PICK opening, closing, list :
        /\ opening = Opening(ref.query) /\ closing = Closing(ref.query)
        /\ list = ListText(ref.query.items)
  OBVIOUS
<1>4. /\ Open \in Texts /\ Len(Open) = 1 /\ opening \in Texts /\ Len(opening) = 2
      /\ list \in Texts /\ From \in Texts /\ tables \in Texts /\ closing \in Texts
      /\ right \in Texts
  BY <1>1, <1>2, <1>3, DerivedParts
<1>5. LeadOf(ref) = Glued(Glued(Open, opening), list)
  BY <1>3 DEF LeadOf, Glued
<1>6. RestOf(ref) = Glued(Glued(Glued(From, tables), closing), right)
  BY <1>1, <1>2, <1>3 DEF RestOf, Glued
<1>7. LeadOf(ref) \in Texts /\ RestOf(ref) \in Texts
  <2>1. Glued(Open, opening) \in Texts /\ Glued(From, tables) \in Texts
    BY <1>4, GluedAre
  <2>2. Glued(Glued(From, tables), closing) \in Texts
    BY <1>4, <2>1, GluedAre
  <2>3. Glued(Glued(Open, opening), list) \in Texts
    BY <1>4, <2>1, GluedAre
  <2>4. Glued(Glued(Glued(From, tables), closing), right) \in Texts
    BY <1>4, <2>2, GluedAre
  <2> QED
    BY <1>5, <1>6, <2>3, <2>4
<1>8. Len(LeadOf(ref)) = 3 + Len(list) /\ Len(list) \in Nat /\ LeadOf(ref) # << >>
  <2>1. PICK x \in Seq(Tokens) : x = Open \o opening
    BY <1>4, ConcatProperties DEF Texts
  <2>2. Len(x) = Len(Open) + Len(opening)
    BY <1>4, <2>1, ConcatProperties DEF Texts
  <2>3. Len(x \o list) = Len(x) + Len(list) /\ Len(list) \in Nat
    BY <1>4, <2>1, ConcatProperties, LenProperties DEF Texts
  <2>4. LeadOf(ref) = x \o list
    BY <1>5, <2>1 DEF Glued
  <2>5. Len(LeadOf(ref)) = 3 + Len(list)
    BY <1>4, <2>2, <2>3, <2>4
  <2>6. Len(LeadOf(ref)) # 0
    BY <2>3, <2>5
  <2> QED
    BY <2>3, <2>5, <2>6, EmptySeq
<1>9. PICK ct \in Texts : ct = ChunkText(more)
  BY ChunkTextType
<1>10. \A l \in Texts :
         (<<Word("(")>> \o Around(ref.query, l, Tables(ref))) \o right
           = Glued(Glued(Glued(Open, opening), l), RestOf(ref))
  <2>1. ASSUME NEW l \in Texts
        PROVE  (<<Word("(")>> \o Around(ref.query, l, Tables(ref))) \o right
                 = Glued(Glued(Glued(Open, opening), l), RestOf(ref))
    <3>1. Around(ref.query, l, Tables(ref))
            = Glued(Glued(Glued(Glued(opening, l), From), tables), closing)
      BY <1>2, <1>3, AroundIs DEF Glued
    <3>2. Regroups(Open, opening, l, From, tables, closing, right)
      BY <1>4, FrameRegrouped
    <3> QED
      BY <1>6, <3>1, <3>2 DEF Glued, Open, Regroups
  <2> QED
    BY <2>1
<1>11. RefText(ref) = (<<Word("(")>> \o Around(ref.query, list, Tables(ref))) \o right
  <2>1. InnerText(ref.query) = Around(ref.query, list, Tables(ref))
    BY <1>3, TextIs DEF Tables
  <2> QED
    BY <1>1, <2>1 DEF RefText
<1>12. SplicedRef(ref, more)
         = (<<Word("(")>> \o Around(ref.query, list \o ct, Tables(ref))) \o right
  <2>1. SplicedInner(ref.query, more) = Around(ref.query, list \o ct, Tables(ref))
    BY <1>3, <1>9 DEF SplicedInner, Tables
  <2> QED
    BY <1>1, <2>1 DEF SplicedRef
<1>13. RefText(ref) = LeadOf(ref) \o RestOf(ref)
  BY <1>4, <1>5, <1>10, <1>11 DEF Glued
<1>14. SplicedRef(ref, more) = (LeadOf(ref) \o ct) \o RestOf(ref)
  <2>1. Glued(list, ct) \in Texts
    BY <1>4, <1>9, GluedAre
  <2>2. Glued(Glued(Open, opening), Glued(list, ct)) = Glued(Glued(Glued(Open, opening), list), ct)
    <3>1. PICK x \in Texts : x = Glued(Open, opening)
      BY <1>4, GluedAre
    <3>2. Glued(x, Glued(list, ct)) = Glued(Glued(x, list), ct)
      BY <1>4, <1>9, <3>1, GluedAre
    <3> QED
      BY <3>1, <3>2
  <2>3. SplicedRef(ref, more) = Glued(Glued(Glued(Open, opening), Glued(list, ct)), RestOf(ref))
    BY <1>10, <1>12, <2>1 DEF Glued
  <2>4. SplicedRef(ref, more) = Glued(Glued(LeadOf(ref), ct), RestOf(ref))
    BY <1>5, <2>2, <2>3
  <2> QED
    BY <2>4 DEF Glued
<1> QED
  BY <1>3, <1>7, <1>8, <1>9, <1>13, <1>14

\* Nothing goes into an entry of FROM that has nothing to carry.
LEMMA SameRef ==
  ASSUME NEW ref \in Refs(Written), NEW more \in Seq(ItemsOver(Names)),
         IsDerived(ref) => more = << >>
  PROVE  SplicedRef(ref, more) = RefText(ref) /\ RefText(ref) \in Texts
<1>1. CASE ~IsDerived(ref)
  <2>1. TableText(ref) \in Texts
    BY <1>1, RefCases, TableReads
  <2> QED
    BY <1>1, <2>1 DEF SplicedRef, RefText
<1>2. CASE IsDerived(ref)
  <2>1. ChunkText(more) = << >>
    BY <1>2, ChunkTextStep
  <2>2. PICK a \in Texts, b \in Texts :
          /\ a = LeadOf(ref) /\ b = RestOf(ref) /\ RefText(ref) = a \o b
          /\ SplicedRef(ref, more) = (a \o ChunkText(more)) \o b
    BY <1>2, DerivedText
  <2>3. a \o << >> = a
    BY <2>2, ConcatEmptySeq DEF Texts
  <2>4. a \o b \in Texts
    BY <2>2, ConcatProperties DEF Texts
  <2> QED
    BY <2>1, <2>2, <2>3, <2>4
<1> QED
  BY <1>1, <1>2

\* The code counts a comma behind each entry, and the text has one between two.
Trailing(texts, k) == [j \in 1..k |-> texts[j] \o <<Comma>>]

LEMMA TrailingLength ==
  ASSUME NEW texts \in Seq(Texts), NEW k \in 0..Len(texts)
  PROVE  /\ Trailing(texts, k) \in Seq(Texts)
         /\ Len(FlattenSeq(Trailing(texts, k)))
              = Len(CommaSeparated(Leading(texts, k))) + Len(Between(k))
<1>1. /\ Len(texts) \in Nat /\ \A j \in 1..Len(texts) : texts[j] \in Texts
      /\ <<Comma>> \in Texts /\ Len(<<Comma>>) = 1
  BY LenProperties, ElementOfSeq, TokensAre DEF Texts
<1>2. \A j \in 1..Len(texts) : texts[j] \o <<Comma>> \in Texts
  <2>1. \A x \in Texts : x \o <<Comma>> \in Texts
    BY <1>1, ConcatProperties DEF Texts
  <2> QED
    BY <1>1, <2>1
<1>3. \A n \in 0..Len(texts) :
        /\ Trailing(texts, n) \in Seq(Texts) /\ Len(Trailing(texts, n)) = n
        /\ DOMAIN Trailing(texts, n) = 1..n
  BY <1>1, <1>2 DEF Trailing
<1> DEFINE Same(n) == Len(FlattenSeq(Trailing(texts, n)))
                        = Len(CommaSeparated(Leading(texts, n))) + Len(Between(n))
           K == {n \in Nat : n \in 0..Len(texts) => Same(n)}
<1>4. 0 \in K
  <2>1. Leading(texts, 0) = << >>
    BY LeadingAre
  <2>2. CommaSeparated(<< >>) = << >>
    <3>1. Parted(<< >>) = << >>
      BY DEF Parted
    <3> QED
      BY <3>1, FlattenEmpty DEF CommaSeparated, Parted
  <2>3. 0 \in 0..Len(texts)
    BY <1>1
  <2>4. Trailing(texts, 0) = << >>
    BY <1>3, <2>3, EmptySeq
  <2>5. Len(<< >>) = 0
    OBVIOUS
  <2> QED
    BY <2>1, <2>2, <2>4, <2>5, FlattenEmpty DEF Between
<1>5. ASSUME NEW n \in Nat, n \in K PROVE n + 1 \in K
  <2>1. SUFFICES ASSUME n + 1 \in 0..Len(texts) PROVE Same(n + 1)
    OBVIOUS
  <2>2. n \in 0..Len(texts) /\ n + 1 \in 1..Len(texts)
    BY <1>1, <2>1
  <2>3. Same(n)
    BY <1>5, <2>2
  <2>4. PICK x \in Texts, y \in Texts : x = texts[n + 1] /\ y = x \o <<Comma>>
    BY <1>1, <1>2, <2>2
  <2>5. PICK so \in Seq(Texts), next \in Seq(Texts), more \in Seq(Texts) :
          /\ so = Trailing(texts, n) /\ next = Trailing(texts, n + 1)
          /\ more = Append(so, y) /\ Len(so) = n /\ Len(next) = n + 1
    BY <1>3, <2>1, <2>2, <2>4, AppendProperties
  <2>6. /\ Len(more) = n + 1 /\ more[n + 1] = y /\ \A j \in 1..n : more[j] = so[j]
    BY <2>4, <2>5, Appended
  <2>7. /\ \A j \in 1..n : so[j] = texts[j] \o <<Comma>>
        /\ \A j \in 1..(n + 1) : next[j] = texts[j] \o <<Comma>>
    BY <2>5 DEF Trailing
  <2>8. next = more
    <3>1. \A j \in 1..(n + 1) : j \in 1..n \/ j = n + 1
      OBVIOUS
    <3>2. ASSUME NEW j \in 1..n PROVE more[j] = next[j]
      <4>1. j \in 1..(n + 1)
        OBVIOUS
      <4>2. so[j] = texts[j] \o <<Comma>> /\ next[j] = texts[j] \o <<Comma>>
        BY <2>7, <4>1
      <4>3. more[j] = so[j]
        BY <2>6
      <4> QED
        BY <4>2, <4>3
    <3>3. more[n + 1] = next[n + 1]
      <4>1. n + 1 \in 1..(n + 1)
        OBVIOUS
      <4>2. next[n + 1] = texts[n + 1] \o <<Comma>>
        BY <2>7, <4>1
      <4> QED
        BY <2>4, <2>6, <4>2
    <3>4. \A j \in 1..Len(more) : more[j] = next[j]
      BY <2>6, <3>1, <3>2, <3>3
    <3> QED
      BY <2>5, <2>6, <3>4, SeqEqual
  <2>9. FlattenSeq(next) = FlattenSeq(so) \o y
    <3>1. so \in Seq(Seq(Tokens)) /\ y \in Seq(Tokens)
      BY <2>4, <2>5 DEF Texts
    <3> QED
      BY <2>5, <2>8, <3>1, FlattenAppend
  <2>10. PICK all \in Texts : all = FlattenSeq(so)
    <3>1. so \in Seq(Seq(Tokens))
      BY <2>5 DEF Texts
    <3> QED
      BY <3>1, FlattenType DEF Texts
  <2>11. /\ Len(all \o y) = Len(all) + Len(y) /\ Len(y) = Len(x) + 1
         /\ Len(all) \in Nat /\ Len(x) \in Nat /\ Len(y) \in Nat
    BY <1>1, <2>4, <2>10, ConcatProperties, LenProperties DEF Texts
  <2>12. PICK list \in Texts, sep \in Texts :
           list = CommaSeparated(Leading(texts, n)) /\ sep = Between(n)
    <3>1. Between(n) \in Texts
      BY <1>1 DEF Between, Texts
    <3> QED
      BY <2>2, <3>1, LeadingStep
  <2>13. CommaSeparated(Leading(texts, n + 1)) = list \o (sep \o x)
    BY <2>2, <2>4, <2>12, LeadingStep
  <2>14. /\ Len(list \o (sep \o x)) = Len(list) + Len(sep) + Len(x)
         /\ Len(list) \in Nat /\ Len(sep) \in Nat
    <3>1. PICK z \in Texts : z = sep \o x
      BY <2>4, <2>12, ConcatProperties DEF Texts
    <3>2. Len(z) = Len(sep) + Len(x) /\ Len(list) \in Nat /\ Len(sep) \in Nat
      BY <2>4, <2>12, <3>1, ConcatProperties, LenProperties DEF Texts
    <3>3. Len(list \o z) = Len(list) + Len(z)
      BY <2>12, <3>1, ConcatProperties DEF Texts
    <3> QED
      BY <2>11, <3>1, <3>2, <3>3
  <2>15. Len(Between(n + 1)) = 1
    BY <1>1 DEF Between
  <2>16. Len(all) = Len(list) + Len(sep)
    BY <2>3, <2>5, <2>10, <2>12
  <2>17. Len(FlattenSeq(Trailing(texts, n + 1))) = Len(all \o y)
    BY <2>5, <2>9, <2>10
  <2>18. Len(CommaSeparated(Leading(texts, n + 1))) = Len(list) + Len(sep) + Len(x)
    BY <2>13, <2>14
  <2>19. Len(all \o y) = Len(list) + Len(sep) + Len(x) + 1
    BY <2>11, <2>14, <2>16
  <2> QED
    BY <2>15, <2>17, <2>18, <2>19
<1>6. Same(k)
  <2> HIDE DEF Same
  <2>1. Nat \subseteq K
    <3> HIDE DEF K
    <3> QED
      BY <1>4, <1>5, NumbersInduction
  <2> QED
    BY <1>1, <2>1
<1> QED
  BY <1>3, <1>6

----------------------------------------------------------------------------
(* The statement with all its pieces *)

OwnCarriers(s, needs, i) == CarriersWithin(s.from[i].alias, needs)
Carrying(s, needs) ==
  {j \in DOMAIN s.from : IsDerived(s.from[j]) /\ OwnCarriers(s, needs, j) # << >>}

DerivedChunk(s, needs, i) ==
  Chunk(BeforeDerived(s, i) + ListStop(s.from[i].query), OwnCarriers(s, needs, i))

LEMMA ChunksAre ==
  ASSUME NEW s, NEW needs
  PROVE  Chunks(s, needs)
           = {Chunk(ListStop(s), Carriers(needs))}
               \cup {DerivedChunk(s, needs, i) : i \in Carrying(s, needs)}
BY DEF Chunks, DerivedChunk, Carrying, OwnCarriers

RefTexts(s) == [i \in DOMAIN s.from |-> RefText(s.from[i])]
SplicedRefs(s, needs) ==
  [i \in DOMAIN s.from |-> SplicedRef(s.from[i], OwnCarriers(s, needs, i))]

LEMMA RefTextsAre ==
  ASSUME NEW s \in StatementsOver(Written), HasLists(s), NEW needs,
         \A i \in DOMAIN s.from : OwnCarriers(s, needs, i) \in Seq(ItemsOver(Names))
  PROVE  /\ RefTexts(s) \in Seq(Texts) /\ SplicedRefs(s, needs) \in Seq(Texts)
         /\ DOMAIN s.from = 1..Len(s.from) /\ Len(s.from) \in Nat
         /\ Len(RefTexts(s)) = Len(s.from) /\ Len(SplicedRefs(s, needs)) = Len(s.from)
         /\ \A i \in DOMAIN s.from :
              /\ RefTexts(s)[i] = RefText(s.from[i])
              /\ SplicedRefs(s, needs)[i] = SplicedRef(s.from[i], OwnCarriers(s, needs, i))
              /\ s.from[i] \in Refs(Written)
<1>1. /\ DOMAIN s.from = 1..Len(s.from) /\ Len(s.from) \in Nat
      /\ \A i \in DOMAIN s.from : s.from[i] \in Refs(Written)
  BY QueryFields, StatementQueries
<1>2. ASSUME NEW i \in DOMAIN s.from
      PROVE  /\ RefText(s.from[i]) \in Texts
             /\ SplicedRef(s.from[i], OwnCarriers(s, needs, i)) \in Texts
  <2>1. PICK ref \in Refs(Written), more \in Seq(ItemsOver(Names)) :
          ref = s.from[i] /\ more = OwnCarriers(s, needs, i)
    BY <1>1
  <2>2. IsDerived(ref) => ref.query.items # << >>
    BY <2>1 DEF HasLists
  <2>3. SplicedRef(ref, more) \in Texts
    BY <2>1, <2>2, RefReads
  <2>4. RefText(ref) \in Texts
    <3>1. << >> \in Seq(ItemsOver(Names))
      OBVIOUS
    <3> QED
      BY <2>1, <3>1, SameRef
  <2> QED
    BY <2>1, <2>3, <2>4
<1> QED
  BY <1>1, <1>2 DEF RefTexts, SplicedRefs

UpToFrom(s) == (Opening(s) \o ListText(s.items)) \o From

LEMMA FrontIs ==
  ASSUME NEW s \in StatementsOver(Written), NEW more \in Seq(ItemsOver(Names))
  PROVE  /\ UpToFrom(s) \in Texts /\ Len(UpToFrom(s)) = ListStop(s) + 1 /\ ListStop(s) \in Nat
         /\ ((Opening(s) \o ListText(s.items)) \o ChunkText(more)) \o From \in Texts
         /\ Makes({Chunk(ListStop(s), more)}, UpToFrom(s),
                  ((Opening(s) \o ListText(s.items)) \o ChunkText(more)) \o From)
<1>1. s.shape \in Shapes /\ s.items \in Seq(ItemsOver(Written))
  BY QueryFields, StatementQueries
<1>2. /\ Opening(s) \in Texts /\ Len(Opening(s)) = 2
      /\ From \in Texts /\ ListText(s.items) \in Texts
  BY <1>1, FrameAre, ListReads
<1>3. PICK ct \in Texts : ct = ChunkText(more)
  BY ChunkTextType
<1>4. PICK head \in Texts : head = Opening(s) \o ListText(s.items)
  BY <1>2, ConcatProperties DEF Texts
<1>5. Len(head) = ListStop(s) /\ Len(head) \in Nat
  <2>1. Len(head) = Len(Opening(s)) + Len(ListText(s.items)) /\ Len(head) \in Nat
    BY <1>2, <1>4, ConcatProperties, LenProperties DEF Texts
  <2> QED
    BY <1>2, <2>1 DEF ListStop
<1>6. Makes({[pos |-> Len(head), text |-> ct]}, head, head \o ct)
  BY MakesFirst
<1>7. Chunk(ListStop(s), more) = [pos |-> Len(head), text |-> ct]
  BY <1>3, <1>5, ChunkTextType
<1>8. Makes({Chunk(ListStop(s), more)}, head \o From, (head \o ct) \o From)
  BY <1>2, <1>6, <1>7, MakesOn
<1>9. head \o From \in Texts /\ (head \o ct) \o From \in Texts
  <2>1. head \o ct \in Texts
    BY ConcatProperties DEF Texts
  <2> QED
    BY <1>2, <2>1, ConcatProperties DEF Texts
<1>10. Len(head \o From) = Len(head) + 1
  <2>1. Len(From) = 1
    BY DEF From
  <2>2. Len(head \o From) = Len(head) + Len(From)
    BY <1>2, ConcatProperties DEF Texts
  <2> QED
    BY <2>1, <2>2
<1> QED
  BY <1>3, <1>4, <1>5, <1>8, <1>9, <1>10 DEF UpToFrom

\* Where the piece of an entry goes, as the code counts it and as the text lies.
LEMMA DerivedChunkAt ==
  ASSUME NEW s \in StatementsOver(Written), HasLists(s), NEW needs,
         \A i \in DOMAIN s.from : OwnCarriers(s, needs, i) \in Seq(ItemsOver(Names)),
         NEW i \in Carrying(s, needs), NEW lead, NEW piece,
         lead[i] = LeadOf(s.from[i]), piece[i] = ChunkText(OwnCarriers(s, needs, i))
  PROVE  DerivedChunk(s, needs, i) = CutAt(UpToFrom(s), RefTexts(s), lead, piece, i)
<1>1. i \in DOMAIN s.from /\ IsDerived(s.from[i])
  BY DEF Carrying
<1>2. PICK ref \in Refs(Written), more \in Seq(ItemsOver(Names)) :
        /\ ref = s.from[i] /\ more = OwnCarriers(s, needs, i) /\ IsDerived(ref)
  BY <1>1, RefTextsAre
<1>3. PICK texts \in Seq(Texts), n \in Nat :
        /\ texts = RefTexts(s) /\ n = i - 1 /\ n \in 0..Len(texts)
        /\ \A j \in 1..n : texts[j] = RefText(s.from[j])
  <2>1. /\ RefTexts(s) \in Seq(Texts) /\ i \in 1..Len(s.from) /\ Len(s.from) \in Nat
        /\ Len(RefTexts(s)) = Len(s.from)
        /\ \A j \in 1..Len(s.from) : RefTexts(s)[j] = RefText(s.from[j])
    BY <1>1, RefTextsAre
  <2> QED
    BY <2>1
<1>4. /\ Len(LeadOf(ref)) = 3 + Len(ListText(ref.query.items))
      /\ Len(ListText(ref.query.items)) \in Nat
  BY <1>2, DerivedText
<1>5. Trailing(texts, n) = [j \in 1..i - 1 |-> RefText(s.from[j]) \o <<Comma>>]
  BY <1>3 DEF Trailing
<1>6. Len(FlattenSeq(Trailing(texts, n)))
        = Len(CommaSeparated(Leading(texts, n))) + Len(Between(n))
  BY <1>3, TrailingLength
<1>7. /\ Len(CommaSeparated(Leading(texts, n))) \in Nat /\ Len(Between(n)) \in Nat
  <2>1. Leading(texts, n) \in Seq(Seq(Tokens))
    BY <1>3, LeadingAre DEF Texts
  <2>2. CommaSeparated(Leading(texts, n)) \in Seq(Tokens)
    BY <2>1, PartedType, TokensAre
  <2>3. Len(Between(n)) \in Nat
    BY DEF Between
  <2> QED
    BY <2>2, <2>3, LenProperties
<1>8. PICK a \in Nat, b \in Nat, c \in Nat, d \in Nat :
        /\ a = Len(CommaSeparated(Leading(texts, n))) /\ b = Len(Between(n))
        /\ c = Len(ListText(ref.query.items)) /\ d = ListStop(s)
  <2>1. ListStop(s) \in Nat
    BY <1>2, FrontIs
  <2> QED
    BY <1>4, <1>7, <2>1
<1>9. BeforeDerived(s, i) = d + 1 + (a + b) + 1
  <2>1. BeforeDerived(s, i) = ListStop(s) + 1 + Len(FlattenSeq(Trailing(texts, n))) + 1
    BY <1>5 DEF BeforeDerived
  <2> QED
    BY <1>6, <1>8, <2>1
<1>10. ListStop(ref.query) = 2 + c
  BY <1>8 DEF ListStop
<1>11. Len(UpToFrom(s)) = d + 1
  BY <1>2, <1>8, FrontIs
<1>12. BeforeDerived(s, i) + ListStop(ref.query) = (d + 1) + a + b + (3 + c)
  BY <1>9, <1>10
<1>13. CutAt(UpToFrom(s), RefTexts(s), lead, piece, i)
         = [pos |-> (d + 1) + a + b + (3 + c), text |-> ChunkText(more)]
  <2>1. CutAt(UpToFrom(s), texts, lead, piece, i)
          = [pos |-> Len(UpToFrom(s)) + Len(CommaSeparated(Leading(texts, n))) + Len(Between(n))
                       + Len(lead[i]),
             text |-> piece[i]]
    BY <1>3 DEF CutAt
  <2>2. Len(lead[i]) = 3 + c /\ piece[i] = ChunkText(more)
    BY <1>2, <1>4, <1>8
  <2> QED
    BY <1>3, <1>8, <1>11, <2>1, <2>2
<1>14. Chunk(BeforeDerived(s, i) + ListStop(ref.query), more)
         = [pos |-> (d + 1) + a + b + (3 + c), text |-> ChunkText(more)]
  BY <1>12, ChunkTextType
<1> QED
  BY <1>2, <1>13, <1>14 DEF DerivedChunk

\* Spliced together, the pieces make the statement with the hidden items.
LEMMA SplicedIs ==
  ASSUME NEW s \in StatementsOver(Written), HasLists(s), NEW needs,
         Carriers(needs) \in Seq(ItemsOver(Names)),
         \A i \in DOMAIN s.from : OwnCarriers(s, needs, i) \in Seq(ItemsOver(Names)),
         NEW inner, inner = [i \in DOMAIN s.from |-> OwnCarriers(s, needs, i)]
  PROVE  Splice(Text(s), InOrder(Chunks(s, needs))) = SplicedText(s, inner, Carriers(needs))
<1>1. PICK more \in Seq(ItemsOver(Names)) : more = Carriers(needs)
  OBVIOUS
<1>2. PICK refs \in Seq(Texts), grown \in Seq(Texts) :
        /\ refs = RefTexts(s) /\ grown = SplicedRefs(s, needs) /\ Len(refs) = Len(grown)
        /\ DOMAIN s.from = 1..Len(refs) /\ Len(refs) \in Nat
  BY RefTextsAre
<1>3. \A i \in DOMAIN s.from :
        /\ refs[i] = RefText(s.from[i])
        /\ grown[i] = SplicedRef(s.from[i], OwnCarriers(s, needs, i))
        /\ s.from[i] \in Refs(Written)
  BY <1>2, RefTextsAre
<1>4. PICK lead, piece, rest :
        /\ lead = [i \in DOMAIN s.from |-> LeadOf(s.from[i])]
        /\ piece = [i \in DOMAIN s.from |-> ChunkText(OwnCarriers(s, needs, i))]
        /\ rest = [i \in DOMAIN s.from |-> RestOf(s.from[i])]
  OBVIOUS
<1>5. PICK D : D = Carrying(s, needs)
  OBVIOUS
<1>6. ASSUME NEW i \in 1..Len(refs), i \notin D PROVE refs[i] = grown[i]
  <2>1. i \in DOMAIN s.from
    BY <1>2
  <2>2. IsDerived(s.from[i]) => OwnCarriers(s, needs, i) = << >>
    BY <1>5, <1>6, <2>1 DEF Carrying
  <2>3. SplicedRef(s.from[i], OwnCarriers(s, needs, i)) = RefText(s.from[i])
    BY <1>3, <2>1, <2>2, SameRef
  <2> QED
    BY <1>3, <2>1, <2>3
<1>7. ASSUME NEW i \in D
      PROVE  /\ i \in 1..Len(refs)
             /\ lead[i] \in Texts /\ lead[i] # << >>
             /\ piece[i] \in Texts /\ rest[i] \in Texts
             /\ refs[i] = lead[i] \o rest[i]
             /\ grown[i] = (lead[i] \o piece[i]) \o rest[i]
  <2>1. i \in DOMAIN s.from /\ IsDerived(s.from[i])
    BY <1>5 DEF Carrying
  <2>2. /\ lead[i] = LeadOf(s.from[i]) /\ rest[i] = RestOf(s.from[i])
        /\ piece[i] = ChunkText(OwnCarriers(s, needs, i))
    BY <1>4, <2>1
  <2>3. /\ LeadOf(s.from[i]) \in Texts /\ LeadOf(s.from[i]) # << >>
        /\ RestOf(s.from[i]) \in Texts /\ ChunkText(OwnCarriers(s, needs, i)) \in Texts
        /\ RefText(s.from[i]) = LeadOf(s.from[i]) \o RestOf(s.from[i])
        /\ SplicedRef(s.from[i], OwnCarriers(s, needs, i))
             = (LeadOf(s.from[i]) \o ChunkText(OwnCarriers(s, needs, i))) \o RestOf(s.from[i])
    BY <1>3, <2>1, DerivedText
  <2> QED
    BY <1>2, <1>3, <2>1, <2>2, <2>3
<1>8. PICK outer : outer = {Chunk(ListStop(s), more)}
  OBVIOUS
<1>9. PICK front \in Texts, grownFront \in Texts :
        /\ front = UpToFrom(s)
        /\ grownFront = ((Opening(s) \o ListText(s.items)) \o ChunkText(more)) \o From
        /\ Makes(outer, front, grownFront)
  BY <1>8, FrontIs
<1>10. Makes(outer \cup CutsOf(front, refs, D, lead, piece),
            front \o CommaSeparated(refs), grownFront \o CommaSeparated(grown))
  <2>1. Fits(refs, grown, D, lead, piece, rest)
    BY <1>6, <1>7 DEF Fits
  <2> QED
    BY <1>2, <1>9, <2>1, Layout
<1>11. outer \cup CutsOf(front, refs, D, lead, piece) = Chunks(s, needs)
  <2>1. ASSUME NEW i \in D
        PROVE  DerivedChunk(s, needs, i) = CutAt(front, refs, lead, piece, i)
    <3>1. i \in DOMAIN s.from /\ i \in Carrying(s, needs)
      BY <1>5 DEF Carrying
    <3>2. lead[i] = LeadOf(s.from[i]) /\ piece[i] = ChunkText(OwnCarriers(s, needs, i))
      BY <1>4, <3>1
    <3>3. DerivedChunk(s, needs, i) = CutAt(UpToFrom(s), RefTexts(s), lead, piece, i)
      BY <3>1, <3>2, DerivedChunkAt
    <3> QED
      BY <1>2, <1>9, <3>3
  <2>2. {DerivedChunk(s, needs, i) : i \in D} = {CutAt(front, refs, lead, piece, i) : i \in D}
    BY <2>1
  <2> QED
    BY <1>1, <1>5, <1>8, <2>2, ChunksAre DEF CutsOf
<1>12. PICK closing \in Texts : closing = Closing(s)
  <2>1. s.shape \in Shapes
    BY QueryFields, StatementQueries
  <2> QED
    BY <2>1, FrameAre
<1>13. PICK base \in Texts : base = front \o CommaSeparated(refs)
  <2>1. CommaSeparated(refs) \in Texts
    BY <1>2, PartedType, TokensAre DEF Texts
  <2> QED
    BY <2>1, <1>9, ConcatProperties DEF Texts
<1>14. Makes(Chunks(s, needs), base \o closing,
             (grownFront \o CommaSeparated(grown)) \o closing)
  <2>1. Makes(Chunks(s, needs), base, grownFront \o CommaSeparated(grown))
    BY <1>10, <1>11, <1>13
  <2> QED
    BY <1>12, <1>13, <2>1, MakesOn
<1>15. Text(s) = base \o closing
  BY <1>2, <1>9, <1>12, <1>13, TextIs, AroundIs DEF RefTexts, UpToFrom
<1>16. SplicedText(s, inner, more) = (grownFront \o CommaSeparated(grown)) \o closing
  <2>1. [i \in DOMAIN s.from |-> SplicedRef(s.from[i], inner[i])] = grown
    BY <1>2 DEF SplicedRefs
  <2>2. SplicedText(s, inner, more) = Around(s, ListText(s.items) \o ChunkText(more), grown)
    BY <2>1 DEF SplicedText
  <2>3. SplicedText(s, inner, more)
          = (((Opening(s) \o (ListText(s.items) \o ChunkText(more))) \o From)
               \o CommaSeparated(grown)) \o closing
    BY <1>12, <2>2, AroundIs
  <2>4. Opening(s) \o (ListText(s.items) \o ChunkText(more))
          = (Opening(s) \o ListText(s.items)) \o ChunkText(more)
    <3>1. s.shape \in Shapes /\ s.items \in Seq(ItemsOver(Written))
      BY QueryFields, StatementQueries
    <3>2. Opening(s) \in Texts /\ ListText(s.items) \in Texts /\ ChunkText(more) \in Texts
      BY <1>1, <3>1, FrameAre, ListReads, ChunkTextType
    <3>3. PICK opening \in Texts, list \in Texts, ct \in Texts :
            opening = Opening(s) /\ list = ListText(s.items) /\ ct = ChunkText(more)
      BY <3>2
    <3>4. Glued(Glued(opening, list), ct) = Glued(opening, Glued(list, ct))
      BY <3>3, GluedAre
    <3> QED
      BY <3>3, <3>4 DEF Glued
  <2> QED
    BY <1>9, <2>3, <2>4
<1> QED
  BY <1>1, <1>14, <1>15, <1>16, MakesInOrder

=============================================================================
