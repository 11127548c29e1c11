--------------------------- MODULE Client_proofs ---------------------------
(***************************************************************************)
(* The client: proofs that an answer a page waits for is to one of its own *)
(* requests, that live sessions end only for a known reason, and that      *)
(* pages are opened and forms emptied on purpose.                          *)
(***************************************************************************)
EXTENDS Client, TLAPS, NaturalsInduction, WellFoundedInduction,
        FiniteSetTheorems, SequenceTheorems

----------------------------------------------------------------------------
(* What requests and views look like, and lemmas about the operators that   *)
(* steps are built from: requests are sent, answered, left behind and       *)
(* dropped, and a view's fields are changed.                                *)

Whats ==
  {"login", "list", "kind", "catalogs", "schema", "run", "cell", "users",
   "connections", "perms", "set", "rows", "save", "remove"}

\* A record with these fields.
HasFields(r, fields) == r = [f \in fields |-> r[f]]

CallFields ==
  {"tab", "what", "arg", "token", "mounted", "latest", "answer", "value"}

\* What a request asks with, where it is to be stored.
ArgFits(what, arg) ==
  /\ what = "set" => arg \in ToSet(Levels)
  /\ what = "save" => arg.name \in Names

\* What the server makes of a request.
ServerAnswers == {"found", "stored", "ok", "failed", "refused", "lost"}

IsCall(c) ==
  /\ HasFields(c, CallFields)
  /\ c.tab \in Tabs /\ c.what \in Whats
  /\ c.token \in Tokens \cup {NoToken}
  /\ c.mounted \in BOOLEAN /\ c.latest \in BOOLEAN
  /\ c.answer \in ServerAnswers \cup {"none"}
  /\ ArgFits(c.what, c.arg)
  /\ c.answer = "ok" =>
       /\ c.what = "login" => c.value \in Tokens
       /\ c.what = "perms" => c.value \in ToSet(Levels)

IsOutcome(o) ==
  /\ HasFields(o, {"answered", "catalog", "latest"})
  /\ o.answered \in BOOLEAN /\ o.latest \in BOOLEAN

ViewFields(page) == DOMAIN Opened(page, NoCatalog)

IsView(v) ==
  /\ v.page \in Pages \cup {"closed"}
  /\ HasFields(v, ViewFields(v.page))
  /\ v.page = "login" => v.submitting \in BOOLEAN
  /\ v.page = "query" =>
       /\ v.loaded \in BOOLEAN /\ v.running \in BOOLEAN
       /\ v.moved \in BOOLEAN /\ v.overlapped \in BOOLEAN
       /\ IsOutcome(v.schema) /\ IsOutcome(v.result) /\ IsOutcome(v.error)
  /\ v.page = "permissions" =>
       /\ v.loaded \in SUBSET {"users", "connections"}
       /\ v.level \in ToSet(Levels)
       /\ v.latest \in BOOLEAN /\ v.doubt \in BOOLEAN
  /\ v.page = "connectionsAdmin" =>
       v.latest \in BOOLEAN /\ v.doubt \in BOOLEAN

\* The requests that are out: of one kind, a page has at most one latest.
GoodCalls(cs) ==
  /\ cs \in Seq(ToSet(cs))
  /\ \A i \in DOMAIN cs : IsCall(cs[i]) /\ (cs[i].latest => cs[i].mounted)
  /\ \A i, j \in DOMAIN cs :
       (/\ cs[i].tab = cs[j].tab /\ cs[i].what = cs[j].what
        /\ cs[i].latest /\ cs[j].latest) => i = j


\* RemoveAt leaves one element out, and the order as it is.
LEMMA RemoveAtProperties ==
  ASSUME NEW S, NEW cs \in Seq(S), NEW i \in DOMAIN cs
  PROVE  /\ RemoveAt(cs, i) \in Seq(S)
         /\ Len(RemoveAt(cs, i)) = Len(cs) - 1
         /\ \A k \in DOMAIN RemoveAt(cs, i) :
              RemoveAt(cs, i)[k] = IF k < i THEN cs[k] ELSE cs[k + 1]
<1> DEFINE before == SubSeq(cs, 1, i - 1)
           after == SubSeq(cs, i + 1, Len(cs))
<1>1. i \in 1 .. Len(cs) /\ Len(cs) \in Nat
  OBVIOUS
<1>2. /\ before \in Seq(S) /\ Len(before) = i - 1
      /\ \A k \in 1 .. (i - 1) : before[k] = cs[k]
  BY <1>1
<1>3. /\ after \in Seq(S) /\ Len(after) = Len(cs) - i
      /\ \A k \in 1 .. (Len(cs) - i) : after[k] = cs[i + k]
  BY <1>1
<1>4. RemoveAt(cs, i) = before \o after
  BY Zenon DEF RemoveAt
<1> HIDE DEF before, after
<1>5. /\ before \o after \in Seq(S)
      /\ Len(before \o after) = Len(before) + Len(after)
      /\ \A k \in 1 .. Len(before) + Len(after) : (before \o after)[k] =
           IF k <= Len(before) THEN before[k] ELSE after[k - Len(before)]
  BY <1>2, <1>3, ConcatProperties
<1>6. Len(before \o after) = Len(cs) - 1
  BY <1>1, <1>2, <1>3, <1>5
<1>7. ASSUME NEW k \in 1 .. (Len(cs) - 1)
      PROVE  (before \o after)[k] = IF k < i THEN cs[k] ELSE cs[k + 1]
  <2>1. k \in 1 .. Len(before) + Len(after)
    BY <1>5, <1>6
  <2>2. CASE k < i
    BY <1>1, <1>2, <1>5, <2>1, <2>2
  <2>3. CASE ~(k < i)
    <3>1. k - (i - 1) \in 1 .. (Len(cs) - i) /\ i + (k - (i - 1)) = k + 1
      BY <1>1, <2>3
    <3>2. (before \o after)[k] = after[k - (i - 1)]
      BY <1>1, <1>2, <1>5, <2>1, <2>3
    <3> QED
      BY <1>3, <2>3, <3>1, <3>2
  <2> QED
    BY <2>2, <2>3
<1>8. DOMAIN (before \o after) = 1 .. (Len(cs) - 1)
  BY <1>5, <1>6
<1> QED
  BY <1>4, <1>5, <1>6, <1>7, <1>8

\* Numbers have a least one.
LEMMA LeastNumber ==
  ASSUME NEW T \in SUBSET Nat, T # {}
  PROVE  \E n \in T : \A m \in T : n <= m
<1>1. IsWellFoundedOn(OpToRel(<, Nat), Nat)
  BY NatLessThanWellFounded
<1>2. PICK n \in T : \A m \in T : ~(<<m, n>> \in OpToRel(<, Nat))
  BY <1>1, WFMin
<1>3. \A m \in T : ~(m < n)
  BY <1>2 DEF OpToRel
<1> QED
  BY <1>3

\* Numbers up to a bound can be counted in their order.
Enumerates(f, S) ==
  /\ f \in [1 .. Cardinality(S) -> S]
  /\ \A m, n \in DOMAIN f : m < n => f[m] < f[n]

\* What OfOthers chooses exists: a set of numbers in their order.
LEMMA InOrderExists ==
  ASSUME NEW n \in Nat, NEW S \in SUBSET (1 .. n)
  PROVE  \E f : Enumerates(f, S)
<1> DEFINE UpTo(m) == S \cap 1 .. m
           T == {m \in Nat : ~ \E f : Enumerates(f, UpTo(m))}
<1>1. SUFFICES ASSUME T # {} PROVE FALSE
  <2>1. UpTo(n) = S
    OBVIOUS
  <2> QED
    BY <2>1
<1>2. PICK m \in T : \A k \in T : m <= k
  <2> HIDE DEF T
  <2>1. T \in SUBSET Nat
    BY DEF T
  <2> QED
    BY <1>1, <2>1, LeastNumber
<1>3. m # 0
  <2>1. UpTo(0) = {} /\ Cardinality({}) = 0
    BY FS_EmptySet
  <2>2. Enumerates(<< >>, UpTo(0))
    BY <2>1 DEF Enumerates
  <2> QED
    BY <2>2
<1>4. m - 1 \in Nat /\ m - 1 \notin T
  BY <1>2, <1>3
<1>5. PICK f : Enumerates(f, UpTo(m - 1))
  BY <1>4
<1>6. IsFiniteSet(UpTo(m - 1)) /\ Cardinality(UpTo(m - 1)) \in Nat
  <2>1. IsFiniteSet(1 .. (m - 1))
    BY <1>4, FS_Interval
  <2>2. IsFiniteSet(UpTo(m - 1))
    BY <2>1, FS_Subset
  <2> QED
    BY <2>2, FS_CardinalityType
<1>7. CASE m \notin S
  <2>1. UpTo(m) = UpTo(m - 1)
    BY <1>3, <1>4, <1>7
  <2> QED
    BY <1>5, <2>1
<1>8. CASE m \in S
  <2> DEFINE c == Cardinality(UpTo(m - 1))
             g == [k \in 1 .. (c + 1) |-> IF k <= c THEN f[k] ELSE m]
  <2>1. UpTo(m) = UpTo(m - 1) \cup {m} /\ m \notin UpTo(m - 1)
    BY <1>3, <1>4, <1>8
  <2>2. Cardinality(UpTo(m)) = c + 1
    BY <1>6, <2>1, FS_AddElement
  <2>3. f \in [1 .. c -> UpTo(m - 1)]
        /\ \A j, k \in 1 .. c : j < k => f[j] < f[k]
    BY <1>5 DEF Enumerates
  <2>4. \A k \in 1 .. c : f[k] \in UpTo(m) /\ f[k] < m
    <3>1. \A k \in 1 .. c : f[k] \in UpTo(m - 1)
      BY <2>3
    <3>2. UpTo(m - 1) \subseteq 1 .. (m - 1)
      OBVIOUS
    <3> QED
      BY <2>1, <3>1, <3>2, <1>3, <1>4
  <2> HIDE DEF UpTo
  <2>5. Enumerates(g, UpTo(m))
    <3>0. c \in Nat
      BY <1>6
    <3> HIDE DEF c
    <3>1. m \in UpTo(m)
      BY <2>1
    <3>2. g \in [1 .. (c + 1) -> UpTo(m)]
      BY <3>0, <3>1, <2>4
    <3>3. \A j, k \in 1 .. (c + 1) : j < k => g[j] < g[k]
      BY <3>0, <2>3, <2>4
    <3> QED
      BY <2>2, <3>2, <3>3 DEF Enumerates
  <2> QED
    BY <2>5
<1> QED
  BY <1>7, <1>8

----------------------------------------------------------------------------
(* The requests that are out. *)

\* ds are some of cs, each in one place.
PartOf(ds, cs) ==
  /\ GoodCalls(ds)
  /\ \A k \in DOMAIN ds : \E j \in DOMAIN cs : ds[k] = cs[j]

Places(f, ds, cs) ==
  /\ f \in [DOMAIN ds -> DOMAIN cs]
  /\ \A m, n \in DOMAIN ds : f[m] = f[n] => m = n
  /\ \A k \in DOMAIN ds : ds[k] = cs[f[k]]

\* A function on 1 .. n is a sequence of its own values.
LEMMA OwnElements ==
  ASSUME NEW n \in Nat, NEW ds, DOMAIN ds = 1 .. n,
         ds = [k \in 1 .. n |-> ds[k]]
  PROVE  ds \in Seq(ToSet(ds)) /\ Len(ds) = n
BY DEF ToSet

\* A sequence is one of its own elements.
LEMMA OwnSeq ==
  ASSUME NEW S, NEW ds \in Seq(S)
  PROVE  ds \in Seq(ToSet(ds))
BY DEF ToSet

\* Requests picked from good ones, each at most once, are good.
LEMMA PlacedGood ==
  ASSUME NEW ds, NEW cs, NEW f, GoodCalls(cs), ds \in Seq(ToSet(ds)),
         Places(f, ds, cs)
  PROVE  PartOf(ds, cs)
<1> USE DEF Places
<1>1. \A k \in DOMAIN ds : IsCall(ds[k]) /\ (ds[k].latest => ds[k].mounted)
  BY DEF GoodCalls
<1>2. ASSUME NEW m \in DOMAIN ds, NEW n \in DOMAIN ds,
             ds[m].tab = ds[n].tab, ds[m].what = ds[n].what,
             ds[m].latest, ds[n].latest
      PROVE  m = n
  <2>1. f[m] \in DOMAIN cs /\ f[n] \in DOMAIN cs
        /\ ds[m] = cs[f[m]] /\ ds[n] = cs[f[n]]
    OBVIOUS
  <2>2. f[m] = f[n]
    BY <1>2, <2>1 DEF GoodCalls
  <2> QED
    BY <2>2
<1>3. GoodCalls(ds)
  BY <1>1, <1>2 DEF GoodCalls
<1> QED
  BY <1>3 DEF PartOf

\* All requests are a part of them.
LEMMA AllPart ==
  ASSUME NEW cs, GoodCalls(cs)
  PROVE  PartOf(cs, cs)
BY DEF PartOf

\* An answer takes its request away, and no other.
LEMMA RemovedPart ==
  ASSUME NEW cs, GoodCalls(cs), NEW i \in DOMAIN cs
  PROVE  /\ PartOf(RemoveAt(cs, i), cs)
         /\ \A k \in DOMAIN RemoveAt(cs, i) :
              \E j \in DOMAIN cs \ {i} : RemoveAt(cs, i)[k] = cs[j]
         /\ \A j \in DOMAIN cs \ {i} :
              \E k \in DOMAIN RemoveAt(cs, i) : RemoveAt(cs, i)[k] = cs[j]
<1> DEFINE ds == RemoveAt(cs, i)
           f == [k \in DOMAIN ds |-> IF k < i THEN k ELSE k + 1]
<1>1. cs \in Seq(ToSet(cs))
  BY DEF GoodCalls
<1>2. /\ ds \in Seq(ToSet(cs)) /\ Len(ds) = Len(cs) - 1
      /\ \A k \in DOMAIN ds : ds[k] = IF k < i THEN cs[k] ELSE cs[k + 1]
  BY <1>1, RemoveAtProperties
<1> HIDE DEF ds
<1>3. DOMAIN ds = 1 .. (Len(cs) - 1) /\ DOMAIN cs = 1 .. Len(cs)
      /\ Len(cs) \in Nat /\ i \in 1 .. Len(cs)
  BY <1>1, <1>2
<1>4. \A k \in DOMAIN ds : f[k] \in DOMAIN cs \ {i} /\ ds[k] = cs[f[k]]
  BY <1>2, <1>3
<1>5. \A m, n \in DOMAIN ds : f[m] = f[n] => m = n
  BY <1>3
<1>6. ASSUME NEW j \in DOMAIN cs \ {i}
      PROVE  \E k \in DOMAIN ds : ds[k] = cs[j]
  <2>1. CASE j < i
    <3>1. j \in DOMAIN ds
      BY <1>3, <2>1
    <3> QED
      BY <1>2, <2>1, <3>1
  <2>2. CASE ~(j < i)
    <3>1. j - 1 \in DOMAIN ds /\ ~(j - 1 < i) /\ (j - 1) + 1 = j
      BY <1>3, <2>2
    <3> QED
      BY <1>2, <3>1
  <2> QED
    BY <2>1, <2>2
<1>7. f \in [DOMAIN ds -> DOMAIN cs]
  BY <1>4
<1> HIDE DEF f
<1>8. Places(f, ds, cs)
  BY <1>4, <1>5, <1>7 DEF Places
<1>9. PartOf(ds, cs)
  BY <1>2, <1>8, OwnSeq, PlacedGood
<1> QED
  BY <1>4, <1>9, <1>6 DEF ds

\* What a reload leaves are the requests of the other tabs, all of them.
LEMMA OthersPart ==
  ASSUME NEW cs, GoodCalls(cs), NEW t
  PROVE  /\ PartOf(OfOthers(cs, t), cs)
         /\ \A k \in DOMAIN OfOthers(cs, t) : OfOthers(cs, t)[k].tab # t
         /\ \A j \in DOMAIN cs :
              cs[j].tab # t =>
                \E k \in DOMAIN OfOthers(cs, t) : OfOthers(cs, t)[k] = cs[j]
<1> DEFINE kept == {i \in DOMAIN cs : cs[i].tab # t}
           nth == CHOOSE f \in [1 .. Cardinality(kept) -> kept] :
                    \A m, n \in DOMAIN f : m < n => f[m] < f[n]
           ds == OfOthers(cs, t)
<1>1. cs \in Seq(ToSet(cs)) /\ DOMAIN cs = 1 .. Len(cs) /\ Len(cs) \in Nat
  BY DEF GoodCalls
<1>2. \E f : Enumerates(f, kept)
  BY <1>1, InOrderExists
<1>3. IsFiniteSet(kept) /\ Cardinality(kept) \in Nat
  <2>1. IsFiniteSet(1 .. Len(cs))
    BY <1>1, FS_Interval
  <2> QED
    BY <1>1, <2>1, FS_Subset, FS_CardinalityType
<1>4. ds = [n \in 1 .. Cardinality(kept) |-> cs[nth[n]]]
  BY Zenon DEF OfOthers
<1>5. /\ nth \in [1 .. Cardinality(kept) -> kept]
      /\ \A m, n \in DOMAIN nth : m < n => nth[m] < nth[n]
  BY <1>2 DEF Enumerates
<1>6. kept \subseteq DOMAIN cs /\ \A i \in kept : cs[i].tab # t
  OBVIOUS
<1> HIDE DEF kept, nth, ds
<1>7. DOMAIN ds = 1 .. Cardinality(kept) /\ DOMAIN nth = DOMAIN ds
  BY <1>4, <1>5
<1>8. \A k \in DOMAIN ds : nth[k] \in kept /\ ds[k] = cs[nth[k]]
  BY <1>4, <1>5, <1>7
<1>9. \A m, n \in DOMAIN ds : nth[m] = nth[n] => m = n
  <2> SUFFICES ASSUME NEW m \in DOMAIN ds, NEW n \in DOMAIN ds, m < n
               PROVE  nth[m] # nth[n]
    BY <1>3, <1>7
  <2>1. nth[m] < nth[n] /\ nth[m] \in Nat /\ nth[n] \in Nat
    BY <1>1, <1>5, <1>6, <1>7, <1>8
  <2> QED
    BY <2>1
<1>10. \A j \in kept : \E k \in DOMAIN ds : nth[k] = j
  <2>1. nth \in Injection(1 .. Cardinality(kept), kept)
    BY <1>5, <1>7, <1>9 DEF Injection, IsInjective
  <2>2. Cardinality(1 .. Cardinality(kept)) = Cardinality(kept)
    BY <1>3, FS_Interval
  <2>3. nth \in Surjection(1 .. Cardinality(kept), kept)
    BY <1>3, <2>1, <2>2, FS_Injection
  <2> QED
    BY <1>7, <2>3 DEF Surjection
<1>11. Places(nth, ds, cs)
  BY <1>5, <1>6, <1>7, <1>8, <1>9 DEF Places
<1>12. ds \in Seq(ToSet(ds))
  BY <1>3, <1>4, OwnElements
<1>13. PartOf(ds, cs)
  BY <1>11, <1>12, PlacedGood
<1>14. \A k \in DOMAIN ds : ds[k].tab # t
  BY <1>6, <1>8
<1>15. \A j \in DOMAIN cs :
         cs[j].tab # t => \E k \in DOMAIN ds : ds[k] = cs[j]
  BY <1>8, <1>10 DEF kept
<1> QED
  BY <1>13, <1>14, <1>15 DEF ds


\* What a request looks like as a page sends it.
LEMMA NewCall ==
  ASSUME NEW t \in Tabs, NEW what \in Whats, NEW arg, NEW token,
         token \in Tokens \cup {NoToken}, ArgFits(what, arg)
  PROVE  LET c == Call(t, what, arg, token)
         IN  /\ IsCall(c)
             /\ c.tab = t /\ c.what = what /\ c.arg = arg /\ c.token = token
             /\ c.mounted /\ c.latest /\ c.answer = "none"
<1> DEFINE c == Call(t, what, arg, token)
<1>1. /\ HasFields(c, CallFields)
      /\ c.tab = t /\ c.what = what /\ c.arg = arg /\ c.token = token
      /\ c.mounted = TRUE /\ c.latest = TRUE /\ c.answer = "none"
  BY DEF Call, HasFields, CallFields
<1> HIDE DEF c
<1>2. IsCall(c)
  BY <1>1 DEF IsCall
<1> QED
  BY <1>1, <1>2 DEF c

\* What one looks like that the code after an awaited answer sends.
LEMMA NewCallAfter ==
  ASSUME stored \in Tokens \cup {NoToken}, NEW what \in Whats \ {"set", "save"},
         NEW c, IsCall(c)
  PROVE  LET d == CallAfter(c, what)
         IN  /\ IsCall(d)
             /\ d.tab = c.tab /\ d.what = what /\ d.arg = NoCatalog
             /\ d.token = stored /\ d.mounted = c.mounted
             /\ d.latest = c.mounted /\ d.answer = "none"
<1> DEFINE d == CallAfter(c, what)
<1>1. /\ HasFields(d, CallFields)
      /\ d.tab = c.tab /\ d.what = what /\ d.arg = NoCatalog
      /\ d.token = stored /\ d.mounted = c.mounted
      /\ d.latest = c.mounted /\ d.answer = "none"
  BY DEF CallAfter, Call, HasFields, CallFields, IsCall
<1> HIDE DEF d
<1>2. c.tab \in Tabs /\ c.mounted \in BOOLEAN
  BY DEF IsCall
<1>3. IsCall(d)
  BY <1>1, <1>2 DEF IsCall, ArgFits
<1> QED
  BY <1>1, <1>3 DEF d

\* What a request may become as its page sends another, or is left.
Weakened(d, c) ==
  /\ d.tab = c.tab /\ d.what = c.what /\ d.arg = c.arg /\ d.token = c.token
  /\ d.answer = c.answer /\ d.value = c.value
  /\ d.mounted => c.mounted
  /\ d.latest => c.latest

\* A request of which there is a later one.
LEMMA OutdatedCall ==
  ASSUME NEW c, IsCall(c)
  PROVE  LET d == [c EXCEPT !.latest = FALSE]
         IN  /\ IsCall(d) /\ Weakened(d, c)
             /\ d.mounted = c.mounted /\ ~d.latest
<1> DEFINE d == [c EXCEPT !.latest = FALSE]
<1>1. /\ HasFields(d, CallFields)
      /\ d.tab = c.tab /\ d.what = c.what /\ d.arg = c.arg
      /\ d.token = c.token /\ d.answer = c.answer /\ d.value = c.value
      /\ d.mounted = c.mounted /\ ~d.latest /\ d.latest \in BOOLEAN
  BY DEF IsCall, HasFields, CallFields
<1> HIDE DEF d
<1>2. IsCall(d)
  BY <1>1 DEF IsCall
<1>3. Weakened(d, c)
  BY <1>1 DEF Weakened
<1> QED
  BY <1>1, <1>2, <1>3 DEF d

\* A request whose page is left.
LEMMA LeftCall ==
  ASSUME NEW c, IsCall(c)
  PROVE  LET d == [c EXCEPT !.mounted = FALSE, !.latest = FALSE]
         IN  IsCall(d) /\ Weakened(d, c) /\ ~d.mounted /\ ~d.latest
<1> DEFINE d == [c EXCEPT !.mounted = FALSE, !.latest = FALSE]
<1>1. /\ HasFields(d, CallFields)
      /\ d.tab = c.tab /\ d.what = c.what /\ d.arg = c.arg
      /\ d.token = c.token /\ d.answer = c.answer /\ d.value = c.value
      /\ ~d.mounted /\ d.mounted \in BOOLEAN
      /\ ~d.latest /\ d.latest \in BOOLEAN
  BY DEF IsCall, HasFields, CallFields
<1> HIDE DEF d
<1>2. IsCall(d)
  BY <1>1 DEF IsCall
<1>3. Weakened(d, c)
  BY <1>1 DEF Weakened
<1> QED
  BY <1>1, <1>2, <1>3 DEF d

\* A request is added, and those of its kind are no longer the latest.
LEMMA SentProperties ==
  ASSUME NEW cs, GoodCalls(cs), NEW call, IsCall(call),
         call.latest = call.mounted
  PROVE  LET ds == Sent(cs, call)
             renewed(c) == c.tab = call.tab /\ c.what = call.what
                             /\ call.mounted
         IN  /\ GoodCalls(ds)
             /\ DOMAIN cs = 1 .. Len(cs) /\ Len(cs) \in Nat
             /\ DOMAIN ds = 1 .. (Len(cs) + 1)
             /\ ds[Len(cs) + 1] = call /\ Last(ds) = call
             /\ \A k \in DOMAIN cs :
                  /\ Weakened(ds[k], cs[k])
                  /\ ds[k].mounted = cs[k].mounted
                  /\ renewed(cs[k]) => ~ds[k].latest
                  /\ ~renewed(cs[k]) => ds[k] = cs[k]
<1> DEFINE renewed(c) == c.tab = call.tab /\ c.what = call.what
                           /\ call.mounted
           es == [i \in DOMAIN cs |->
                    IF renewed(cs[i]) THEN [cs[i] EXCEPT !.latest = FALSE]
                    ELSE cs[i]]
           ds == Sent(cs, call)
<1>1. /\ cs \in Seq(ToSet(cs)) /\ DOMAIN cs = 1 .. Len(cs) /\ Len(cs) \in Nat
      /\ \A i \in DOMAIN cs : IsCall(cs[i])
  BY DEF GoodCalls
<1>2. ds = Append(es, call)
  BY Zenon DEF Sent
<1>3. \A k \in DOMAIN cs : 
        /\ renewed(cs[k]) => es[k] = [cs[k] EXCEPT !.latest = FALSE]
        /\ ~renewed(cs[k]) => es[k] = cs[k]
  OBVIOUS
<1>4. es \in Seq(ToSet(es)) /\ Len(es) = Len(cs)
  <2>1. es = [k \in 1 .. Len(cs) |-> es[k]] /\ DOMAIN es = 1 .. Len(cs)
    BY <1>1
  <2> HIDE DEF es
  <2> QED
    BY <1>1, <2>1, OwnElements
<1> HIDE DEF ds, es
<1>5. /\ ds \in Seq(ToSet(ds)) /\ Len(ds) = Len(cs) + 1
      /\ DOMAIN ds = 1 .. (Len(cs) + 1)
      /\ ds[Len(cs) + 1] = call
      /\ \A k \in DOMAIN cs : ds[k] = es[k]
  <2>1. es \in Seq(ToSet(es) \cup {call})
    BY <1>4
  <2>2. ds \in Seq(ToSet(es) \cup {call}) /\ Len(ds) = Len(cs) + 1
    BY <1>2, <1>4, <2>1
  <2>3. DOMAIN ds = 1 .. (Len(cs) + 1)
    BY <1>1, <2>2
  <2>4. ds[Len(cs) + 1] = call /\ \A k \in DOMAIN cs : ds[k] = es[k]
    BY <1>1, <1>2, <1>4, <2>1, AppendProperties
  <2> QED
    BY <2>2, <2>3, <2>4, OwnSeq
<1>6. Last(ds) = call
  BY <1>5 DEF Last
<1>7. ASSUME NEW k \in DOMAIN cs
      PROVE  /\ IsCall(ds[k]) /\ Weakened(ds[k], cs[k])
             /\ ds[k].mounted = cs[k].mounted
             /\ renewed(cs[k]) => ~ds[k].latest
             /\ ~renewed(cs[k]) => ds[k] = cs[k]
  <2>1. CASE renewed(cs[k])
    <3>1. ds[k] = [cs[k] EXCEPT !.latest = FALSE]
      BY <1>3, <1>5, <2>1
    <3>2. IsCall(cs[k])
      BY <1>1
    <3>3. /\ IsCall(ds[k]) /\ Weakened(ds[k], cs[k])
          /\ ds[k].mounted = cs[k].mounted /\ ~ds[k].latest
      BY Zenon, <3>1, <3>2, OutdatedCall
    <3> QED
      BY <2>1, <3>3
  <2>2. CASE ~renewed(cs[k])
    <3>1. ds[k] = cs[k]
      BY <1>3, <1>5, <2>2
    <3> QED
      BY <1>1, <2>2, <3>1 DEF Weakened
  <2> QED
    BY <2>1, <2>2
<1> HIDE DEF renewed
<1>8. GoodCalls(ds)
  <2>1. \A i \in DOMAIN ds : IsCall(ds[i]) /\ (ds[i].latest => ds[i].mounted)
    <3> TAKE i \in DOMAIN ds
    <3>1. CASE i = Len(cs) + 1
      BY <1>5, <3>1
    <3>2. CASE i \in DOMAIN cs
      BY <1>7, <3>2 DEF GoodCalls, Weakened
    <3> QED
      BY <1>1, <1>5, <3>1, <3>2
  <2>2. ASSUME NEW i \in DOMAIN ds, NEW j \in DOMAIN ds,
               ds[i].tab = ds[j].tab, ds[i].what = ds[j].what,
               ds[i].latest, ds[j].latest
        PROVE  i = j
    <3>1. ASSUME NEW k \in DOMAIN cs, ds[k].tab = call.tab,
                 ds[k].what = call.what, ds[k].latest, call.latest
          PROVE  FALSE
      <4>1. renewed(cs[k])
        BY <1>7, <3>1 DEF Weakened, renewed
      <4> QED
        BY <1>7, <3>1, <4>1
    <3>2. CASE i \in DOMAIN cs /\ j \in DOMAIN cs
      <4>1. Weakened(ds[i], cs[i]) /\ Weakened(ds[j], cs[j])
        BY <1>7, <3>2
      <4> QED
        BY <2>2, <3>2, <4>1 DEF GoodCalls, Weakened
    <3>3. CASE i \in DOMAIN cs /\ j = Len(cs) + 1
      BY <1>5, <2>2, <3>1, <3>3
    <3>4. CASE i = Len(cs) + 1 /\ j \in DOMAIN cs
      BY <1>5, <2>2, <3>1, <3>4
    <3>5. CASE i = Len(cs) + 1 /\ j = Len(cs) + 1
      BY <3>5
    <3> QED
      BY <1>1, <1>5, <3>2, <3>3, <3>4, <3>5
  <2> QED
    BY <1>5, <2>1, <2>2 DEF GoodCalls
<1> QED
  BY <1>1, <1>5, <1>6, <1>7, <1>8 DEF ds, renewed

\* An answer is noted in its request, and nowhere else.
LEMMA ServedProperties ==
  ASSUME GoodCalls(calls), NEW i \in DOMAIN calls, NEW answer, NEW value,
         answer \in ServerAnswers,
         answer = "ok" =>
           /\ calls[i].what = "login" => value \in Tokens
           /\ calls[i].what = "perms" => value \in ToSet(Levels),
         Answers(i, answer, value)
  PROVE  /\ GoodCalls(calls') /\ DOMAIN calls' = DOMAIN calls
         /\ \A k \in DOMAIN calls \ {i} : calls'[k] = calls[k]
         /\ LET d == calls'[i]
                c == calls[i]
            IN  /\ d.tab = c.tab /\ d.what = c.what /\ d.arg = c.arg
                /\ d.token = c.token /\ d.mounted = c.mounted
                /\ d.latest = c.latest
                /\ d.answer = answer /\ d.value = value
<1> DEFINE c == calls[i]
           d == [[c EXCEPT !.answer = answer] EXCEPT !.value = value]
<1>1. /\ calls \in Seq(ToSet(calls)) /\ DOMAIN calls = 1 .. Len(calls)
      /\ Len(calls) \in Nat /\ IsCall(c)
  BY DEF GoodCalls
<1>2. calls' = [calls EXCEPT ![i] = d]
  BY <1>1 DEF Answers, HasFields, IsCall, CallFields
<1>3. /\ IsCall(d)
      /\ d.tab = c.tab /\ d.what = c.what /\ d.arg = c.arg
      /\ d.token = c.token /\ d.mounted = c.mounted
      /\ d.latest = c.latest
      /\ d.answer = answer /\ d.value = value
  <2> HIDE DEF c
  <2>1. answer = "ok" =>
          /\ c.what = "login" => value \in Tokens
          /\ c.what = "perms" => value \in ToSet(Levels)
    BY DEF c
  <2>2. /\ HasFields(d, CallFields)
        /\ d.tab = c.tab /\ d.what = c.what /\ d.arg = c.arg
        /\ d.token = c.token /\ d.mounted = c.mounted
        /\ d.latest = c.latest /\ d.answer = answer /\ d.value = value
    BY <1>1 DEF IsCall, HasFields, CallFields
  <2> HIDE DEF d
  <2>3. IsCall(d)
    BY <1>1, <2>1, <2>2 DEF IsCall
  <2> QED
    BY <2>2, <2>3
<1> HIDE DEF c, d
<1>4. /\ DOMAIN calls' = DOMAIN calls /\ calls'[i] = d
      /\ \A k \in DOMAIN calls \ {i} : calls'[k] = calls[k]
      /\ calls' = [k \in 1 .. Len(calls) |-> calls'[k]]
  BY <1>1, <1>2
<1>5. calls' \in Seq(ToSet(calls'))
  BY <1>1, <1>4, OwnElements
<1>6. \A k \in DOMAIN calls :
        /\ calls'[k].tab = calls[k].tab /\ calls'[k].what = calls[k].what
        /\ calls'[k].latest = calls[k].latest
        /\ calls'[k].mounted = calls[k].mounted
  BY <1>3, <1>4 DEF c
<1>7. \A k \in DOMAIN calls : IsCall(calls'[k])
  BY <1>3, <1>4 DEF GoodCalls
<1>8. GoodCalls(calls')
  BY <1>4, <1>5, <1>6, <1>7 DEF GoodCalls
<1> QED
  BY <1>3, <1>4, <1>8 DEF c

\* As it is opened, a page asks once for each thing it shows.
LEMMA MountRequestsDiffer ==
  ASSUME NEW page \in Pages
  PROVE  LET whats == MountRequests(page)
         IN  /\ whats \in Seq(Whats) /\ Len(whats) \in 0 .. 3
             /\ \A m, n \in DOMAIN whats : whats[m] = whats[n] => m = n
             /\ \A n \in DOMAIN whats :
                  /\ whats[n] \in RequestsOf(page)
                  /\ whats[n] \in {"list", "kind", "catalogs", "users",
                                   "connections", "perms", "rows"}
<1>1. CASE page = "login"
  BY <1>1 DEF MountRequests
<1>2. CASE page = "connections"
  BY <1>2 DEF MountRequests, RequestsOf, Whats
<1>3. CASE page = "query"
  BY <1>3 DEF MountRequests, RequestsOf, Whats
<1>4. CASE page = "permissions"
  BY <1>4 DEF MountRequests, RequestsOf, Whats
<1>5. CASE page = "connectionsAdmin"
  BY <1>5 DEF MountRequests, RequestsOf, Whats
<1> QED
  BY <1>1, <1>2, <1>3, <1>4, <1>5 DEF Pages

\* What is out once tab t has mounted a page.
Remounted(cs, t, page, catalog, token) ==
  LET whats == MountRequests(page)
  IN  LeftBehind(cs, t) \o
        [n \in DOMAIN whats |-> Call(t, whats[n], catalog, token)]

\* A page that opens outlives the tab's requests, and sends its own.
LEMMA MountProperties ==
  ASSUME NEW cs, GoodCalls(cs), NEW t \in Tabs, NEW page \in Pages,
         NEW catalog, NEW token, token \in Tokens \cup {NoToken}
  PROVE  LET ds == Remounted(cs, t, page, catalog, token)
         IN  /\ GoodCalls(ds)
             /\ \A k \in DOMAIN ds :
                  \/ /\ k \in DOMAIN cs
                     /\ Weakened(ds[k], cs[k])
                     /\ cs[k].tab = t => ~ds[k].mounted
                     /\ cs[k].tab # t => ds[k] = cs[k]
                  \/ \E n \in DOMAIN MountRequests(page) :
                       ds[k] = Call(t, MountRequests(page)[n], catalog, token)
             /\ \A k \in DOMAIN cs :
                  k \in DOMAIN ds /\ (cs[k].tab # t => ds[k] = cs[k])
<1> DEFINE whats == MountRequests(page)
           es == LeftBehind(cs, t)
           new == [n \in DOMAIN whats |->
                     Call(t, whats[n], catalog, token)]
           ds == Remounted(cs, t, page, catalog, token)
<1>1. /\ whats \in Seq(Whats) /\ Len(whats) \in Nat
      /\ DOMAIN whats = 1 .. Len(whats)
      /\ \A m, n \in DOMAIN whats : whats[m] = whats[n] => m = n
      /\ \A n \in DOMAIN whats :
           whats[n] \notin {"set", "save"} /\ whats[n] \in Whats
  BY MountRequestsDiffer
<1>2. /\ cs \in Seq(ToSet(cs)) /\ DOMAIN cs = 1 .. Len(cs) /\ Len(cs) \in Nat
      /\ \A i \in DOMAIN cs : IsCall(cs[i])
  BY DEF GoodCalls
<1>3. ds = es \o new
  BY Zenon DEF Remounted
<1>4. /\ DOMAIN es = 1 .. Len(cs) /\ es = [k \in 1 .. Len(cs) |-> es[k]]
      /\ \A k \in DOMAIN cs :
           /\ cs[k].tab = t =>
                es[k] = [cs[k] EXCEPT !.mounted = FALSE, !.latest = FALSE]
           /\ cs[k].tab # t => es[k] = cs[k]
  BY <1>2 DEF LeftBehind
<1>5. /\ DOMAIN new = 1 .. Len(whats)
      /\ new = [k \in 1 .. Len(whats) |-> new[k]]
      /\ \A n \in DOMAIN whats :
           new[n] = Call(t, whats[n], catalog, token)
  <2> HIDE DEF whats
  <2> QED
    BY <1>1
<1> HIDE DEF whats, es, new, ds
<1>6. /\ es \in Seq(ToSet(es)) /\ Len(es) = Len(cs)
      /\ new \in Seq(ToSet(new)) /\ Len(new) = Len(whats)
  BY <1>1, <1>2, <1>4, <1>5, OwnElements
<1>7. /\ ds \in Seq(ToSet(ds)) /\ DOMAIN ds = 1 .. (Len(cs) + Len(whats))
      /\ \A k \in DOMAIN cs : ds[k] = es[k]
      /\ \A k \in DOMAIN ds \ DOMAIN cs :
           k - Len(cs) \in DOMAIN whats /\ ds[k] = new[k - Len(cs)]
  <2> DEFINE S == ToSet(es) \cup ToSet(new)
  <2>1. es \in Seq(S) /\ new \in Seq(S)
    BY <1>6
  <2> HIDE DEF S
  <2>2. /\ ds \in Seq(S) /\ Len(ds) = Len(es) + Len(new)
        /\ \A k \in 1 .. Len(es) + Len(new) : ds[k] =
             IF k <= Len(es) THEN es[k] ELSE new[k - Len(es)]
    BY <1>3, <2>1, ConcatProperties
  <2>3. DOMAIN ds = 1 .. (Len(cs) + Len(whats))
    BY <1>6, <2>2
  <2>4. \A k \in DOMAIN cs : ds[k] = es[k]
    BY <1>1, <1>2, <1>6, <2>2
  <2>5. \A k \in DOMAIN ds \ DOMAIN cs :
          k - Len(cs) \in DOMAIN whats /\ ds[k] = new[k - Len(cs)]
    BY <1>1, <1>2, <1>6, <2>2, <2>3
  <2> QED
    BY <2>2, <2>3, <2>4, <2>5, OwnSeq
<1>8. ASSUME NEW k \in DOMAIN cs
      PROVE  /\ IsCall(ds[k]) /\ Weakened(ds[k], cs[k])
             /\ cs[k].tab = t => ~ds[k].mounted /\ ~ds[k].latest
             /\ cs[k].tab # t => ds[k] = cs[k]
  <2>1. CASE cs[k].tab = t
    <3>1. ds[k] = [cs[k] EXCEPT !.mounted = FALSE, !.latest = FALSE]
      BY <1>4, <1>7, <2>1
    <3>2. /\ IsCall(ds[k]) /\ Weakened(ds[k], cs[k])
          /\ ~ds[k].mounted /\ ~ds[k].latest
      BY Zenon, <1>2, <3>1, LeftCall
    <3> QED
      BY <2>1, <3>2
  <2>2. CASE cs[k].tab # t
    BY <1>2, <1>4, <1>7, <2>2 DEF Weakened
  <2> QED
    BY <2>1, <2>2
<1>9. ASSUME NEW k \in DOMAIN ds \ DOMAIN cs
      PROVE  /\ k - Len(cs) \in DOMAIN whats
             /\ ds[k] = Call(t, whats[k - Len(cs)], catalog, token)
             /\ IsCall(ds[k])
             /\ ds[k].tab = t /\ ds[k].what = whats[k - Len(cs)]
             /\ ds[k].mounted
  <2> DEFINE n == k - Len(cs)
  <2>1. n \in DOMAIN whats /\ ds[k] = Call(t, whats[n], catalog, token)
    BY <1>5, <1>7
  <2> HIDE DEF n
  <2>2. whats[n] \in Whats /\ whats[n] \notin {"set", "save"}
    BY <1>1, <2>1
  <2>3. ArgFits(whats[n], catalog) /\ token \in Tokens \cup {NoToken}
    BY <2>2 DEF ArgFits
  <2>4. IsCall(ds[k]) /\ ds[k].tab = t /\ ds[k].what = whats[n]
        /\ ds[k].mounted
    BY <2>1, <2>2, <2>3, NewCall
  <2> QED
    BY <2>1, <2>4 DEF n
<1>10. GoodCalls(ds)
  <2>1. \A i \in DOMAIN ds : IsCall(ds[i]) /\ (ds[i].latest => ds[i].mounted)
    BY <1>8, <1>9 DEF GoodCalls, Weakened
  <2>2. ASSUME NEW i \in DOMAIN ds, NEW j \in DOMAIN ds,
               ds[i].tab = ds[j].tab, ds[i].what = ds[j].what,
               ds[i].latest, ds[j].latest
        PROVE  i = j
    <3>1. CASE i \in DOMAIN cs /\ j \in DOMAIN cs
      <4>1. Weakened(ds[i], cs[i]) /\ Weakened(ds[j], cs[j])
        BY <1>8, <3>1
      <4> QED
        BY <2>2, <3>1, <4>1 DEF GoodCalls, Weakened
    <3>2. CASE i \notin DOMAIN cs /\ j \notin DOMAIN cs
      <4>1. /\ i - Len(cs) \in DOMAIN whats /\ j - Len(cs) \in DOMAIN whats
            /\ whats[i - Len(cs)] = whats[j - Len(cs)]
        BY <1>9, <2>2, <3>2
      <4>2. i - Len(cs) = j - Len(cs)
        BY <1>1, <4>1
      <4> QED
        BY <1>1, <1>2, <1>7, <4>2
    <3>3. CASE i \in DOMAIN cs /\ j \notin DOMAIN cs
      BY <1>8, <1>9, <2>2, <3>3 DEF Weakened
    <3>4. CASE i \notin DOMAIN cs /\ j \in DOMAIN cs
      <4>1. ds[i].tab = t
        BY <1>9, <3>4
      <4>2. cs[j].tab = t /\ ~ds[j].latest
        BY <1>8, <2>2, <3>4, <4>1 DEF Weakened
      <4> QED
        BY <2>2, <4>2
    <3> QED
      BY <3>1, <3>2, <3>3, <3>4
  <2> QED
    BY <1>7, <2>1, <2>2 DEF GoodCalls
<1>11. \A k \in DOMAIN cs :
         k \in DOMAIN ds /\ (cs[k].tab # t => ds[k] = cs[k])
  BY <1>1, <1>2, <1>7, <1>8
<1> QED
  BY <1>8, <1>9, <1>10, <1>11 DEF ds, whats

----------------------------------------------------------------------------
(* The pages. *)

\* The fields of each page.
LEMMA FieldsOfViews ==
  /\ ViewFields("closed") = {"page"}
  /\ ViewFields("login") = {"page", "submitting"}
  /\ ViewFields("connections") = {"page", "list"}
  /\ ViewFields("query") =
       {"page", "catalog", "catalogs", "loaded", "schema", "running",
        "result", "error", "moved", "overlapped"}
  /\ ViewFields("permissions") =
       {"page", "loaded", "level", "latest", "doubt"}
  /\ ViewFields("connectionsAdmin") =
       {"page", "rows", "editing", "latest", "doubt"}
BY DEF ViewFields, Opened, ClosedView, LoginView, ConnectionsView, QueryView,
       PermissionsView, ConnectionsAdminView

\* The levels of a permission.
LEMMA LevelsAre == ToSet(Levels) = {"none", "read", "write"}
<1>1. DOMAIN Levels = {1, 2, 3}
  BY DEF Levels
<1> QED
  BY <1>1 DEF ToSet, Levels

\* What a page shows before any answer.
LEMMA NothingAnswered ==
  /\ IsOutcome(Unanswered)
  /\ ~Unanswered.answered /\ ~Unanswered.latest
<1>1. /\ HasFields(Unanswered, {"answered", "catalog", "latest"})
      /\ Unanswered.answered = FALSE /\ Unanswered.latest = FALSE
  BY DEF Unanswered, HasFields
<1> QED
  BY <1>1 DEF IsOutcome

\* What an answer makes of the part of the page that it fills.
LEMMA NewOutcome ==
  ASSUME NEW catalog, NEW c, c.latest \in BOOLEAN
  PROVE  LET o == [answered |-> TRUE, catalog |-> catalog,
                   latest |-> c.latest]
         IN  /\ IsOutcome(o) /\ o.answered /\ o.catalog = catalog
             /\ o.latest = c.latest
BY DEF IsOutcome, HasFields

\* A query page that has just been opened.
LEMMA QueryViewIsView ==
  ASSUME NEW catalog
  PROVE  LET v == QueryView(catalog)
         IN  /\ IsView(v) /\ v.page = "query"
             /\ v.catalog = catalog /\ v.catalogs = << >>
             /\ ~v.loaded /\ ~v.running /\ ~v.moved /\ ~v.overlapped
             /\ v.schema = Unanswered /\ v.result = Unanswered
             /\ v.error = Unanswered
<1> DEFINE v == QueryView(catalog)
<1>1. /\ HasFields(v, ViewFields("query")) /\ v.page = "query"
      /\ v.catalog = catalog /\ v.catalogs = << >>
      /\ v.loaded = FALSE /\ v.running = FALSE /\ v.moved = FALSE
      /\ v.overlapped = FALSE
      /\ v.schema = Unanswered /\ v.result = Unanswered
      /\ v.error = Unanswered
  BY FieldsOfViews DEF QueryView, HasFields
<1> HIDE DEF v
<1> QED
  BY <1>1, NothingAnswered DEF IsView, Pages, v

\* A page that has just been opened.
LEMMA OpenedIsView ==
  ASSUME NEW page \in Pages, NEW catalog
  PROVE  /\ IsView(Opened(page, catalog))
         /\ Opened(page, catalog).page = page
         /\ page = "query" => Opened(page, catalog) = QueryView(catalog)
         /\ page \in {"permissions", "connectionsAdmin"} =>
              ~Opened(page, catalog).latest /\ ~Opened(page, catalog).doubt
<1>1. CASE page = "login"
  BY <1>1, FieldsOfViews DEF Opened, LoginView, IsView, HasFields
<1>2. CASE page = "connections"
  BY <1>2, FieldsOfViews DEF Opened, ConnectionsView, IsView, HasFields
<1>3. CASE page = "query"
  <2>1. Opened(page, catalog) = QueryView(catalog)
    BY <1>3 DEF Opened
  <2> QED
    BY <1>3, <2>1, QueryViewIsView
<1>4. CASE page = "permissions"
  <2> DEFINE v == Opened(page, catalog)
  <2>1. /\ HasFields(v, ViewFields("permissions")) /\ v.page = "permissions"
        /\ v.loaded = {} /\ v.level = "none"
        /\ v.latest = FALSE /\ v.doubt = FALSE
    BY <1>4, FieldsOfViews DEF Opened, PermissionsView, HasFields
  <2> HIDE DEF v
  <2>2. IsView(v)
    BY <2>1, LevelsAre DEF IsView, Pages
  <2> QED
    BY <1>4, <2>1, <2>2 DEF v
<1>5. CASE page = "connectionsAdmin"
  BY <1>5, FieldsOfViews DEF Opened, ConnectionsAdminView, IsView, HasFields
<1> QED
  BY <1>1, <1>2, <1>3, <1>4, <1>5 DEF Pages

\* What loadSchema and the effect before it make of a page.
LEMMA LoadingView ==
  ASSUME NEW v, IsView(v), v.page = "query"
  PROVE  LET w == [v EXCEPT !.schema.latest = FALSE]
         IN  /\ IsView(w) /\ w.page = "query"
             /\ w.catalog = v.catalog /\ w.catalogs = v.catalogs
             /\ w.loaded = v.loaded /\ w.running = v.running
             /\ w.result = v.result /\ w.error = v.error
             /\ w.moved = v.moved /\ w.overlapped = v.overlapped
             /\ ~w.schema.latest
<1> DEFINE w == [v EXCEPT !.schema.latest = FALSE]
           o == [v.schema EXCEPT !.latest = FALSE]
<1>1. IsOutcome(v.schema)
  BY DEF IsView
<1>2. /\ HasFields(o, {"answered", "catalog", "latest"})
      /\ o.answered = v.schema.answered /\ o.latest = FALSE
  BY <1>1 DEF IsOutcome, HasFields
<1>3. w = [v EXCEPT !.schema = o]
  BY FieldsOfViews DEF IsView, HasFields
<1> HIDE DEF o
<1>4. IsOutcome(o)
  BY <1>1, <1>2 DEF IsOutcome
<1>5. /\ HasFields(w, ViewFields("query")) /\ w.page = "query"
      /\ w.catalog = v.catalog /\ w.catalogs = v.catalogs
      /\ w.loaded = v.loaded /\ w.running = v.running
      /\ w.result = v.result /\ w.error = v.error
      /\ w.moved = v.moved /\ w.overlapped = v.overlapped
      /\ w.schema = o
  <2> HIDE DEF w
  <2> QED
    BY <1>3, FieldsOfViews DEF IsView, HasFields
<1> HIDE DEF w
<1> QED
  BY <1>2, <1>4, <1>5 DEF IsView, w

\* A query page at another catalog.
LEMMA MovedView ==
  ASSUME NEW v, IsView(v), v.page = "query", NEW catalog
  PROVE  LET w == AtCatalog(v, catalog)
         IN  /\ IsView(w) /\ w.page = "query"
             /\ w.catalog = catalog /\ w.catalogs = v.catalogs
             /\ w.loaded = v.loaded /\ w.running = v.running
             /\ w.schema = v.schema
             /\ w.result = v.result /\ w.error = v.error
             /\ w.overlapped = v.overlapped
             /\ ~w.moved =>
                  ~v.moved /\ Database(v.catalog) = Database(catalog)
<1> DEFINE w == AtCatalog(v, catalog)
           moved == v.moved \/ Database(v.catalog) # Database(catalog)
<1>1. w = [v EXCEPT !.catalog = catalog, !.moved = moved]
  BY FieldsOfViews DEF AtCatalog, IsView, HasFields
<1>2. moved \in BOOLEAN
  OBVIOUS
<1> HIDE DEF w, moved
<1>3. /\ HasFields(w, ViewFields("query")) /\ w.page = "query"
      /\ w.catalog = catalog /\ w.catalogs = v.catalogs
      /\ w.loaded = v.loaded /\ w.running = v.running
      /\ w.schema = v.schema
      /\ w.result = v.result /\ w.error = v.error
      /\ w.overlapped = v.overlapped
      /\ w.moved = moved
  BY <1>1, FieldsOfViews DEF IsView, HasFields
<1>4. IsView(w)
  BY <1>2, <1>3 DEF IsView
<1> QED
  BY <1>3, <1>4 DEF w, moved

\* A page to which its catalogs have come.
WithCatalogs(v, catalogs) == [v EXCEPT !.catalogs = catalogs, !.loaded = TRUE]

\* A query page to which the catalogs have come.
LEMMA CatalogsView ==
  ASSUME NEW v, IsView(v), v.page = "query", NEW catalogs
  PROVE  LET w == WithCatalogs(v, catalogs)
         IN  /\ IsView(w) /\ w.page = "query"
             /\ w.catalog = v.catalog /\ w.catalogs = catalogs
             /\ w.loaded /\ w.running = v.running /\ w.schema = v.schema
             /\ w.result = v.result /\ w.error = v.error
             /\ w.moved = v.moved /\ w.overlapped = v.overlapped
<1> DEFINE w == WithCatalogs(v, catalogs)
<1>1. /\ HasFields(w, ViewFields("query")) /\ w.page = "query"
      /\ w.catalog = v.catalog /\ w.catalogs = catalogs
      /\ w.loaded = TRUE /\ w.running = v.running /\ w.schema = v.schema
      /\ w.result = v.result /\ w.error = v.error
      /\ w.moved = v.moved /\ w.overlapped = v.overlapped
  BY FieldsOfViews DEF WithCatalogs, IsView, HasFields
<1> HIDE DEF w
<1> QED
  BY <1>1 DEF IsView, w

\* A page whose statement is run.
Rerun(v, overlapped) ==
  [v EXCEPT !.running = TRUE, !.result = Unanswered, !.error = Unanswered,
            !.moved = FALSE, !.overlapped = overlapped]

\* A query page from which a statement is run.
LEMMA RunningView ==
  ASSUME NEW v, IsView(v), v.page = "query", NEW overlapped,
         overlapped \in BOOLEAN
  PROVE  LET w == Rerun(v, overlapped)
         IN  /\ IsView(w) /\ w.page = "query"
             /\ w.catalog = v.catalog /\ w.catalogs = v.catalogs
             /\ w.loaded = v.loaded /\ w.schema = v.schema
             /\ w.running /\ ~w.moved
             /\ w.overlapped = overlapped
             /\ w.result = Unanswered /\ w.error = Unanswered
<1> DEFINE w == Rerun(v, overlapped)
<1>1. /\ HasFields(w, ViewFields("query")) /\ w.page = "query"
      /\ w.catalog = v.catalog /\ w.catalogs = v.catalogs
      /\ w.loaded = v.loaded /\ w.schema = v.schema
      /\ w.running = TRUE /\ w.moved = FALSE
      /\ w.overlapped = overlapped
      /\ w.result = Unanswered /\ w.error = Unanswered
  BY FieldsOfViews DEF Rerun, IsView, HasFields
<1> HIDE DEF w
<1> QED
  BY <1>1, NothingAnswered DEF IsView, w

\* A query page to which a schema has come.
LEMMA SchemaView ==
  ASSUME NEW v, IsView(v), v.page = "query", NEW o, IsOutcome(o)
  PROVE  LET w == [v EXCEPT !.schema = o]
         IN  /\ IsView(w) /\ w.page = "query"
             /\ w.catalog = v.catalog /\ w.catalogs = v.catalogs
             /\ w.loaded = v.loaded /\ w.running = v.running
             /\ w.result = v.result /\ w.error = v.error
             /\ w.moved = v.moved /\ w.overlapped = v.overlapped
             /\ w.schema = o
<1> DEFINE w == [v EXCEPT !.schema = o]
<1>1. /\ HasFields(w, ViewFields("query")) /\ w.page = "query"
      /\ w.catalog = v.catalog /\ w.catalogs = v.catalogs
      /\ w.loaded = v.loaded /\ w.running = v.running
      /\ w.result = v.result /\ w.error = v.error
      /\ w.moved = v.moved /\ w.overlapped = v.overlapped
      /\ w.schema = o
  BY FieldsOfViews DEF IsView, HasFields
<1> HIDE DEF w
<1> QED
  BY <1>1 DEF IsView, w

\* A page to which the outcome of its statement has come.
RanWith(v, o) ==
  {[v EXCEPT !.result = o, !.running = FALSE],
   [v EXCEPT !.error = o, !.running = FALSE]}

\* A query page to which the outcome of a run has come.
LEMMA RanView ==
  ASSUME NEW v, IsView(v), v.page = "query", NEW o, IsOutcome(o),
         NEW w \in RanWith(v, o)
  PROVE  /\ IsView(w) /\ w.page = "query"
         /\ w.catalog = v.catalog /\ w.catalogs = v.catalogs
         /\ w.loaded = v.loaded /\ w.schema = v.schema
         /\ w.moved = v.moved /\ w.overlapped = v.overlapped
         /\ ~w.running
         /\ \/ w.result = o /\ w.error = v.error
            \/ w.error = o /\ w.result = v.result
<1>1. /\ HasFields(w, ViewFields("query")) /\ w.page = "query"
      /\ w.catalog = v.catalog /\ w.catalogs = v.catalogs
      /\ w.loaded = v.loaded /\ w.schema = v.schema
      /\ w.moved = v.moved /\ w.overlapped = v.overlapped
      /\ w.running = FALSE
      /\ \/ w.result = o /\ w.error = v.error
         \/ w.error = o /\ w.result = v.result
  <2>1. CASE w = [v EXCEPT !.result = o, !.running = FALSE]
    BY <2>1, FieldsOfViews DEF IsView, HasFields
  <2>2. CASE w = [v EXCEPT !.error = o, !.running = FALSE]
    BY <2>2, FieldsOfViews DEF IsView, HasFields
  <2> QED
    BY <2>1, <2>2 DEF RanWith
<1> QED
  BY <1>1 DEF IsView


\* A matrix to which the answer c has come.
WithLevel(v, c) == [v EXCEPT !.level = c.value, !.latest = c.latest]

\* The list of permissions comes to the matrix.
LEMMA LevelsView ==
  ASSUME NEW v, IsView(v), v.page = "permissions", NEW c,
         c.value \in ToSet(Levels), c.latest \in BOOLEAN
  PROVE  LET w == WithLevel(v, c)
         IN  /\ IsView(w) /\ w.page = "permissions"
             /\ w.level = c.value /\ w.latest = c.latest /\ w.doubt = v.doubt
<1> DEFINE w == WithLevel(v, c)
<1>1. /\ HasFields(w, ViewFields("permissions")) /\ w.page = "permissions"
      /\ w.loaded = v.loaded
      /\ w.level = c.value /\ w.latest = c.latest /\ w.doubt = v.doubt
  BY FieldsOfViews DEF WithLevel, IsView, HasFields
<1> HIDE DEF w
<1> QED
  BY <1>1 DEF IsView, w

\* The users come to the matrix, or the connections.
LEMMA AxisView ==
  ASSUME NEW v, IsView(v), v.page = "permissions",
         NEW what \in {"users", "connections"}
  PROVE  LET w == [v EXCEPT !.loaded = @ \cup {what}]
         IN  /\ IsView(w) /\ w.page = "permissions"
             /\ w.level = v.level /\ w.latest = v.latest /\ w.doubt = v.doubt
<1> DEFINE w == [v EXCEPT !.loaded = @ \cup {what}]
<1>1. /\ HasFields(w, ViewFields("permissions")) /\ w.page = "permissions"
      /\ w.loaded = v.loaded \cup {what}
      /\ w.level = v.level /\ w.latest = v.latest /\ w.doubt = v.doubt
  BY FieldsOfViews DEF IsView, HasFields
<1> HIDE DEF w
<1> QED
  BY <1>1 DEF IsView, w

\* A matrix to which the answer to a change has come.
SetAnswered(v) == [v EXCEPT !.latest = FALSE, !.doubt = FALSE]

\* The answer to a change comes to the matrix.
LEMMA SetView ==
  ASSUME NEW v, IsView(v), v.page = "permissions"
  PROVE  LET w == SetAnswered(v)
         IN  IsView(w) /\ w.page = "permissions" /\ ~w.latest /\ ~w.doubt
<1> DEFINE w == SetAnswered(v)
<1>1. /\ HasFields(w, ViewFields("permissions")) /\ w.page = "permissions"
      /\ w.loaded = v.loaded /\ w.level = v.level
      /\ w.latest = FALSE /\ w.doubt = FALSE
  BY FieldsOfViews DEF SetAnswered, IsView, HasFields
<1> HIDE DEF w
<1> QED
  BY <1>1 DEF IsView, w

\* A change, or a list, comes to nothing: only the matrix is in doubt.
LEMMA DoubtedView ==
  ASSUME NEW v, IsView(v)
  PROVE  /\ IsView(Doubted(v)) /\ Doubted(v).page = v.page
         /\ v.page = "permissions" =>
              Doubted(v) = [v EXCEPT !.doubt = TRUE] /\ Doubted(v).doubt
         /\ v.page # "permissions" => Doubted(v) = v
<1>1. CASE v.page = "permissions"
  <2> DEFINE w == [v EXCEPT !.doubt = TRUE]
  <2>1. /\ HasFields(w, ViewFields("permissions")) /\ w.page = "permissions"
        /\ w.loaded = v.loaded /\ w.level = v.level
        /\ w.latest = v.latest /\ w.doubt = TRUE
    BY <1>1, FieldsOfViews DEF IsView, HasFields
  <2>2. Doubted(v) = w
    BY <1>1 DEF Doubted
  <2> HIDE DEF w
  <2>3. IsView(w)
    BY <1>1, <2>1 DEF IsView
  <2> QED
    BY <1>1, <2>1, <2>2, <2>3 DEF w
<1>2. CASE v.page # "permissions"
  BY <1>2 DEF Doubted
<1> QED
  BY <1>1, <1>2

\* The form is filled, or emptied.
LEMMA EditingView ==
  ASSUME NEW v, IsView(v), v.page = "connectionsAdmin", NEW editing
  PROVE  LET w == [v EXCEPT !.editing = editing]
         IN  /\ IsView(w) /\ w.page = "connectionsAdmin"
             /\ w.editing = editing /\ w.rows = v.rows
             /\ w.latest = v.latest /\ w.doubt = v.doubt
<1> DEFINE w == [v EXCEPT !.editing = editing]
<1>1. /\ HasFields(w, ViewFields("connectionsAdmin"))
      /\ w.page = "connectionsAdmin"
      /\ w.editing = editing /\ w.rows = v.rows
      /\ w.latest = v.latest /\ w.doubt = v.doubt
  BY FieldsOfViews DEF IsView, HasFields
<1> HIDE DEF w
<1> QED
  BY <1>1 DEF IsView, w

\* A list to which the answer c has come.
WithRows(v, c) == [v EXCEPT !.rows = c.value, !.latest = c.latest]

\* The list of connections comes.
LEMMA RowsView ==
  ASSUME NEW v, IsView(v), v.page = "connectionsAdmin", NEW c, IsCall(c)
  PROVE  LET w == WithRows(v, c)
         IN  /\ IsView(w) /\ w.page = "connectionsAdmin"
             /\ w.editing = v.editing /\ w.rows = c.value
             /\ w.latest = c.latest /\ w.doubt = v.doubt
<1> DEFINE w == WithRows(v, c)
<1>0. c.latest \in BOOLEAN
  BY DEF IsCall
<1>1. /\ HasFields(w, ViewFields("connectionsAdmin"))
      /\ w.page = "connectionsAdmin"
      /\ w.editing = v.editing /\ w.rows = c.value
      /\ w.latest = c.latest /\ w.doubt = v.doubt
  BY FieldsOfViews DEF WithRows, IsView, HasFields
<1> HIDE DEF w
<1> QED
  BY <1>0, <1>1 DEF IsView, w

\* A list to which the answer to a change has come.
ChangeAnswered(v, empties) ==
  [v EXCEPT !.latest = FALSE, !.doubt = FALSE,
            !.editing = IF empties THEN Adding ELSE @]

\* The answer to a change comes to the list, and may empty the form.
LEMMA ChangedView ==
  ASSUME NEW v, IsView(v), v.page = "connectionsAdmin", NEW empties \in BOOLEAN
  PROVE  LET w == ChangeAnswered(v, empties)
         IN  /\ IsView(w) /\ w.page = "connectionsAdmin"
             /\ w.editing = IF empties THEN Adding ELSE v.editing
             /\ ~w.latest /\ ~w.doubt
<1> DEFINE w == ChangeAnswered(v, empties)
<1>1. /\ HasFields(w, ViewFields("connectionsAdmin"))
      /\ w.page = "connectionsAdmin"
      /\ w.editing = IF empties THEN Adding ELSE v.editing
      /\ w.latest = FALSE /\ w.doubt = FALSE
  BY FieldsOfViews DEF ChangeAnswered, IsView, HasFields
<1> HIDE DEF w
<1> QED
  BY <1>1 DEF IsView, w

\* A change may have been made without the list being asked for again.
LEMMA ListDoubtedView ==
  ASSUME NEW v, IsView(v), NEW doubt \in BOOLEAN
  PROVE  LET w == ListDoubted(v, doubt)
         IN  /\ IsView(w) /\ w.page = v.page
             /\ v.page # "connectionsAdmin" => w = v
             /\ v.page = "connectionsAdmin" =>
                  /\ w.doubt = (v.doubt \/ doubt)
                  /\ w.editing = v.editing /\ w.rows = v.rows
                  /\ w.latest = v.latest
<1>1. CASE v.page = "connectionsAdmin"
  <2> DEFINE d == v.doubt \/ doubt
             w == [v EXCEPT !.doubt = d]
  <2>1. ListDoubted(v, doubt) = w
    BY <1>1, FieldsOfViews DEF ListDoubted, IsView, HasFields
  <2>2. d \in BOOLEAN
    OBVIOUS
  <2> HIDE DEF d
  <2>3. /\ HasFields(w, ViewFields("connectionsAdmin"))
        /\ w.page = "connectionsAdmin" /\ w.doubt = d
        /\ w.editing = v.editing /\ w.rows = v.rows /\ w.latest = v.latest
    BY <1>1, FieldsOfViews DEF IsView, HasFields
  <2> HIDE DEF w
  <2>4. IsView(w)
    BY <1>1, <2>2, <2>3 DEF IsView
  <2> QED
    BY <1>1, <2>1, <2>3, <2>4 DEF d
<1>2. CASE v.page # "connectionsAdmin"
  BY <1>2 DEF ListDoubted
<1> QED
  BY <1>1, <1>2

\* A list that does not come to know of a change.
Unknowing(v) == ListDoubted(v, TRUE)

\* A change was made, and the list is not asked for again.
LEMMA UnknowingView ==
  ASSUME NEW v, IsView(v)
  PROVE  LET w == Unknowing(v)
         IN  /\ IsView(w) /\ w.page = v.page
             /\ v.page # "connectionsAdmin" => w = v
             /\ v.page = "connectionsAdmin" =>
                  w.doubt /\ w.editing = v.editing
<1>1. CASE v.page = "connectionsAdmin"
  <2> DEFINE d == v.doubt \/ TRUE
             w == [v EXCEPT !.doubt = d]
  <2>1. Unknowing(v) = w
    BY <1>1, FieldsOfViews DEF Unknowing, ListDoubted, IsView, HasFields
  <2>2. d \in BOOLEAN /\ d
    OBVIOUS
  <2> HIDE DEF d
  <2>3. /\ HasFields(w, ViewFields("connectionsAdmin"))
        /\ w.page = "connectionsAdmin" /\ w.doubt = d
        /\ w.editing = v.editing /\ w.rows = v.rows /\ w.latest = v.latest
    BY <1>1, FieldsOfViews DEF IsView, HasFields
  <2> HIDE DEF w
  <2>4. IsView(w)
    BY <1>1, <2>2, <2>3 DEF IsView
  <2> QED
    BY <1>1, <2>1, <2>2, <2>3, <2>4
<1>2. CASE v.page # "connectionsAdmin"
  BY <1>2 DEF Unknowing, ListDoubted
<1> QED
  BY <1>1, <1>2

\* The fields of the other pages.
LEMMA SimpleViews ==
  /\ LET w == [LoginView EXCEPT !.submitting = TRUE]
     IN  IsView(w) /\ w.page = "login"
  /\ IsView(LoginView) /\ LoginView.page = "login"
  /\ \A v, list : (IsView(v) /\ v.page = "connections") =>
       LET w == [v EXCEPT !.list = list]
       IN  IsView(w) /\ w.page = "connections"
<1>1. LET w == [LoginView EXCEPT !.submitting = TRUE]
      IN  IsView(w) /\ w.page = "login"
  <2> DEFINE w == [LoginView EXCEPT !.submitting = TRUE]
  <2>1. /\ HasFields(w, ViewFields("login")) /\ w.page = "login"
        /\ w.submitting = TRUE
    BY FieldsOfViews DEF LoginView, HasFields
  <2> HIDE DEF w
  <2> QED
    BY <2>1 DEF IsView, Pages, w
<1>2. IsView(LoginView) /\ LoginView.page = "login"
  BY FieldsOfViews DEF LoginView, HasFields, IsView, Pages
<1>3. ASSUME NEW v, NEW list, IsView(v), v.page = "connections"
      PROVE  LET w == [v EXCEPT !.list = list]
             IN  IsView(w) /\ w.page = "connections"
  <2> DEFINE w == [v EXCEPT !.list = list]
  <2>1. HasFields(w, ViewFields("connections")) /\ w.page = "connections"
    BY <1>3, FieldsOfViews DEF IsView, HasFields
  <2> HIDE DEF w
  <2> QED
    BY <2>1 DEF IsView, Pages, w
<1> QED
  BY <1>1, <1>2, <1>3

----------------------------------------------------------------------------
(* The state of all tabs, and every step. *)

SessionTyped ==
  /\ scene \in Scenes
  /\ stored \in Tokens \cup {NoToken}
  /\ claims \in [Tabs -> Tokens \cup {NoToken}]
  /\ level \in ToSet(Levels)

ViewsTyped ==
  /\ view = [t \in Tabs |-> view[t]]
  /\ \A t \in Tabs : IsView(view[t])

Fits(c, v) ==
  c.mounted => v.page \in Pages /\ c.what \in RequestsOf(v.page)

CallsTyped ==
  /\ GoodCalls(calls)
  /\ \A i \in DOMAIN calls : Fits(calls[i], view[calls[i].tab])

Typing == SessionTyped /\ ViewsTyped /\ CallsTyped

----------------------------------------------------------------------------
(* Steps of one tab. *)

\* Requests that change what is stored.
Changes == {"set", "save", "remove"}

\* Nothing that is tab u's changes.
Untouched(u) ==
  /\ view'[u] = view[u]
  /\ \A k \in DOMAIN calls' :
       calls'[k].tab = u => \E j \in DOMAIN calls : calls'[k] = calls[j]
  /\ \A j \in DOMAIN calls :
       calls[j].tab = u => \E k \in DOMAIN calls' : calls'[k] = calls[j]

\* The requests that are out were out before, or are sent now.
SentNow(c) ==
  /\ c.answer = "none" /\ c.token = stored'
  /\ c.what \in Changes => c.mounted

OldOrSentNow ==
  \A k \in DOMAIN calls' :
    \/ \E j \in DOMAIN calls : Weakened(calls'[k], calls[j])
    \/ SentNow(calls'[k])

\* If tab t shows this page, it goes on to show it, and what it waits for stays.
Remains(t, page) ==
  /\ view'[t].page = view[t].page
  /\ view[t].page = page =>
       /\ view'[t] = view[t]
       /\ \A k \in DOMAIN calls' :
            (calls'[k].tab = t /\ calls'[k].what \in RequestsOf(page)) =>
              \E j \in DOMAIN calls : calls'[k] = calls[j]
       /\ \A j \in DOMAIN calls :
            (calls[j].tab = t /\ calls[j].what \in RequestsOf(page) \cap Changes) =>
              \E k \in DOMAIN calls' : calls'[k] = calls[j]

\* Where a tab may get to.
Reachable(t) ==
  {"login", "connections", "query", view[t].page, scene.start[t]}
    \cup scene.visits[t]

\* Tab t shows a new page, which waits for its first requests only.
Remounts(t) ==
  \E page \in Pages \cap Reachable(t) : \E catalog :
    /\ view'[t] = Opened(page, catalog)
    /\ \A k \in DOMAIN calls' :
         (calls'[k].tab = t /\ calls'[k].mounted) =>
           /\ calls'[k].answer = "none" /\ calls'[k].arg = catalog
           /\ calls'[k].what \notin Changes \cup {"schema", "run", "cell"}

\* A step of tab t: an action of this page's, or one that leaves it or is none
\* of its business.
StepOf(t, page) ==
  /\ SessionTyped' /\ ViewsTyped' /\ CallsTyped'
  /\ UNCHANGED <<server, scene>>
  /\ \A u \in Tabs \ {t} : Untouched(u)
  /\ OldOrSentNow
  /\ Remounts(t) \/ \A p \in Pages \ {page} : Remains(t, p)

\* A step that does not lead from the page.
StayOf(t, page) ==
  /\ StepOf(t, page)
  /\ view'[t].page = view[t].page
  /\ \A p \in Pages \ {page} : Remains(t, p)

\* cs is what tab t leaves of its requests, and of those of others.
Rest(t, page, cs) ==
  /\ PartOf(cs, calls)
  /\ \A j \in DOMAIN calls :
       \/ \E k \in DOMAIN cs : cs[k] = calls[j]
       \/ /\ calls[j].tab = t
          /\ \/ calls[j].what \notin Changes \/ view[t].page = page
             \/ calls[j].what \in RequestsOf(page)

\* A kind of request is of one page.
LEMMA RequestsDiffer ==
  ASSUME NEW p \in Pages, NEW q \in Pages, p # q
  PROVE  RequestsOf(p) \cap RequestsOf(q) = {}
BY DEF Pages, RequestsOf

\* A view that changes is typed, and those of the other tabs stay.
LEMMA OneViewChanges ==
  ASSUME ViewsTyped, NEW t \in Tabs, NEW v, IsView(v), Becomes(t, v)
  PROVE  ViewsTyped' /\ view'[t] = v /\ \A u \in Tabs \ {t} : view'[u] = view[u]
BY DEF ViewsTyped, Becomes

\* A view may change to itself.
LEMMA SameView ==
  ASSUME ViewsTyped, NEW t \in Tabs, UNCHANGED view
  PROVE  Becomes(t, view[t]) /\ IsView(view[t])
BY DEF ViewsTyped, Becomes

\* A tab may leave all requests as they are.
LEMMA RestAll ==
  ASSUME Typing, NEW t \in Tabs, NEW page \in Pages
  PROVE  Rest(t, page, calls)
BY AllPart DEF Typing, CallsTyped, Rest

\* It may take away the one that is answered.
LEMMA RestAnswered ==
  ASSUME Typing, NEW i \in DOMAIN calls, NEW t \in Tabs, t = calls[i].tab,
         NEW page \in Pages,
         \/ calls[i].what \notin Changes \/ view[t].page = page
         \/ calls[i].what \in RequestsOf(page)
  PROVE  Rest(t, page, RemoveAt(calls, i))
<1> DEFINE cs == RemoveAt(calls, i)
<1>1. /\ PartOf(cs, calls)
      /\ \A j \in DOMAIN calls \ {i} : \E k \in DOMAIN cs : cs[k] = calls[j]
  BY RemovedPart DEF Typing, CallsTyped
<1> HIDE DEF cs
<1> QED
  BY <1>1 DEF Rest, cs

\* The page of a tab stays what it is, and sends nothing.
LEMMA Stays ==
  ASSUME Typing, NEW t \in Tabs, NEW page \in Pages, NEW v, IsView(v),
         v.page = view[t].page, v # view[t] => v.page = page, Becomes(t, v),
         Rest(t, page, calls'), SessionTyped', UNCHANGED <<server, scene>>
  PROVE  StayOf(t, page)
<1>1. ViewsTyped' /\ view'[t] = v /\ \A u \in Tabs \ {t} : view'[u] = view[u]
  BY OneViewChanges DEF Typing
<1>2. /\ GoodCalls(calls')
      /\ \A k \in DOMAIN calls' : \E j \in DOMAIN calls : calls'[k] = calls[j]
  BY DEF Rest, PartOf
<1>3. \A u \in Tabs : view'[u].page = view[u].page
  BY <1>1
<1>4. ASSUME NEW k \in DOMAIN calls'
      PROVE  Fits(calls'[k], view'[calls'[k].tab])
  <2>1. PICK j \in DOMAIN calls : calls'[k] = calls[j]
    BY <1>2
  <2>2. Fits(calls[j], view[calls[j].tab]) /\ calls[j].tab \in Tabs
    BY DEF Typing, CallsTyped, GoodCalls, IsCall
  <2> QED
    BY <1>3, <2>1, <2>2 DEF Fits
<1>5. CallsTyped'
  BY <1>2, <1>4 DEF CallsTyped
<1>6. OldOrSentNow
  BY <1>2 DEF OldOrSentNow, Weakened
<1>7. \A u \in Tabs \ {t} : Untouched(u)
  BY <1>1, <1>2 DEF Untouched, Rest
<1>8. ASSUME NEW p \in Pages \ {page} PROVE Remains(t, p)
  <2>1. RequestsOf(p) \cap RequestsOf(page) = {}
    BY RequestsDiffer
  <2>2. ASSUME view[t].page = p, NEW j \in DOMAIN calls,
               calls[j].tab = t, calls[j].what \in RequestsOf(p) \cap Changes
        PROVE  \E k \in DOMAIN calls' : calls'[k] = calls[j]
    BY <2>1, <2>2 DEF Rest
  <2> QED
    BY <1>1, <1>2, <1>3, <2>2 DEF Remains
<1> QED
  BY <1>1, <1>5, <1>6, <1>7, <1>8 DEF StepOf, StayOf

\* It stays what it is, and sends a request.
LEMMA Sends ==
  ASSUME Typing, NEW t \in Tabs, NEW page \in Pages, NEW v, IsView(v),
         v.page = view[t].page, v # view[t] => v.page = page, Becomes(t, v),
         SessionTyped', UNCHANGED <<server, scene>>,
         NEW cs, Rest(t, page, cs),
         NEW call, IsCall(call), call.latest = call.mounted, call.tab = t,
         Fits(call, v), call.what \in RequestsOf(page), SentNow(call),
         calls' = Sent(cs, call)
  PROVE  StayOf(t, page)
<1>1. ViewsTyped' /\ view'[t] = v /\ \A u \in Tabs \ {t} : view'[u] = view[u]
  BY OneViewChanges DEF Typing
<1>2. \A u \in Tabs : view'[u].page = view[u].page
  BY <1>1
<1>3. /\ GoodCalls(cs)
      /\ \A k \in DOMAIN cs : \E j \in DOMAIN calls : cs[k] = calls[j]
  BY DEF Rest, PartOf
<1>4. /\ GoodCalls(calls') /\ DOMAIN cs = 1 .. Len(cs) /\ Len(cs) \in Nat
      /\ DOMAIN calls' = 1 .. (Len(cs) + 1)
      /\ calls'[Len(cs) + 1] = call
      /\ \A k \in DOMAIN cs :
           /\ Weakened(calls'[k], cs[k])
           /\ (cs[k].tab # t \/ cs[k].what # call.what) => calls'[k] = cs[k]
  BY <1>3, SentProperties
<1>5. /\ \A k \in DOMAIN calls' : k = Len(cs) + 1 \/ k \in DOMAIN cs
      /\ DOMAIN cs \subseteq DOMAIN calls'
  BY <1>4
<1>6. ASSUME NEW k \in DOMAIN cs
      PROVE  /\ Fits(calls'[k], view'[calls'[k].tab])
             /\ \E j \in DOMAIN calls : Weakened(calls'[k], calls[j])
  <2>1. PICK j \in DOMAIN calls : cs[k] = calls[j]
    BY <1>3
  <2>2. Fits(calls[j], view[calls[j].tab]) /\ calls[j].tab \in Tabs
    BY DEF Typing, CallsTyped, GoodCalls, IsCall
  <2>3. Weakened(calls'[k], calls[j])
    BY <1>4, <2>1
  <2> QED
    BY <1>2, <2>2, <2>3 DEF Fits, Weakened
<1>7. Fits(call, view'[call.tab])
  BY <1>1
<1>8. CallsTyped'
  BY <1>4, <1>5, <1>6, <1>7 DEF CallsTyped
<1>9. OldOrSentNow
  BY <1>4, <1>5, <1>6 DEF OldOrSentNow
<1>10. ASSUME NEW k \in DOMAIN calls', k \in DOMAIN cs => calls'[k] = cs[k],
              calls'[k].tab # t \/ calls'[k].what # call.what
       PROVE  \E j \in DOMAIN calls : calls'[k] = calls[j]
  BY <1>3, <1>4, <1>5, <1>10
<1>11. ASSUME NEW j \in DOMAIN calls, NEW k \in DOMAIN cs, cs[k] = calls[j],
              calls[j].tab # t \/ calls[j].what # call.what
       PROVE  \E l \in DOMAIN calls' : calls'[l] = calls[j]
  BY <1>4, <1>5, <1>11
<1>12. ASSUME NEW u \in Tabs \ {t} PROVE Untouched(u)
  <2>1. \A k \in DOMAIN calls' :
          calls'[k].tab = u => \E j \in DOMAIN calls : calls'[k] = calls[j]
    BY <1>4, <1>5, <1>10 DEF Weakened
  <2>2. \A j \in DOMAIN calls :
          calls[j].tab = u => \E k \in DOMAIN calls' : calls'[k] = calls[j]
    BY <1>11 DEF Rest
  <2> QED
    BY <1>1, <2>1, <2>2 DEF Untouched
<1>13. ASSUME NEW p \in Pages \ {page} PROVE Remains(t, p)
  <2>1. RequestsOf(p) \cap RequestsOf(page) = {}
    BY RequestsDiffer
  <2>2. ASSUME NEW k \in DOMAIN calls', calls'[k].tab = t,
               calls'[k].what \in RequestsOf(p)
        PROVE  \E j \in DOMAIN calls : calls'[k] = calls[j]
    <3>1. calls'[k].what # call.what
      BY <2>1, <2>2
    <3>2. k \in DOMAIN cs => calls'[k] = cs[k]
      BY <1>4, <3>1 DEF Weakened
    <3> QED
      BY <1>10, <3>1, <3>2
  <2>3. ASSUME view[t].page = p, NEW j \in DOMAIN calls,
               calls[j].tab = t, calls[j].what \in RequestsOf(p) \cap Changes
        PROVE  \E k \in DOMAIN calls' : calls'[k] = calls[j]
    <3>1. PICK k \in DOMAIN cs : cs[k] = calls[j]
      BY <2>1, <2>3 DEF Rest
    <3>2. calls[j].what # call.what
      BY <2>1, <2>3
    <3> QED
      BY <1>11, <3>1, <3>2
  <2> QED
    BY <1>1, <1>2, <2>2, <2>3 DEF Remains
<1> QED
  BY <1>1, <1>8, <1>9, <1>12, <1>13 DEF StepOf, StayOf

\* It is left for another.
LEMMA Mounts ==
  ASSUME Typing, NEW t \in Tabs, NEW from \in Pages, NEW page \in Pages,
         page \in Reachable(t), NEW catalog, SessionTyped',
         UNCHANGED <<server, scene>>,
         NEW cs, PartOf(cs, calls),
         \A j \in DOMAIN calls :
           calls[j].tab # t => \E k \in DOMAIN cs : cs[k] = calls[j],
         NEW token, token = stored', Mount(t, page, catalog, cs, token)
  PROVE  /\ StepOf(t, from) /\ view'[t] = Opened(page, catalog)
         /\ Remounts(t)
<1>0. token \in Tokens \cup {NoToken}
  BY DEF SessionTyped
<1>1. calls' = Remounted(cs, t, page, catalog, token)
  BY Zenon DEF Mount, Remounted
<1>2. IsView(Opened(page, catalog)) /\ Opened(page, catalog).page = page
  BY OpenedIsView
<1>3. /\ ViewsTyped' /\ view'[t] = Opened(page, catalog)
      /\ \A u \in Tabs \ {t} : view'[u] = view[u]
  <2>1. Becomes(t, Opened(page, catalog))
    BY Zenon DEF Mount, Becomes
  <2> QED
    BY <1>2, <2>1, OneViewChanges DEF Typing
<1>4. /\ GoodCalls(cs)
      /\ \A k \in DOMAIN cs : \E j \in DOMAIN calls : cs[k] = calls[j]
  BY DEF PartOf
<1>5. /\ GoodCalls(calls')
      /\ \A k \in DOMAIN calls' :
           \/ /\ k \in DOMAIN cs /\ Weakened(calls'[k], cs[k])
              /\ cs[k].tab = t => ~calls'[k].mounted
              /\ cs[k].tab # t => calls'[k] = cs[k]
           \/ \E n \in DOMAIN MountRequests(page) :
                calls'[k] = Call(t, MountRequests(page)[n], catalog, token)
      /\ \A k \in DOMAIN cs :
           k \in DOMAIN calls' /\ (cs[k].tab # t => calls'[k] = cs[k])
  BY <1>0, <1>1, <1>4, MountProperties
<1>6. ASSUME NEW k \in DOMAIN calls', NEW n \in DOMAIN MountRequests(page),
             calls'[k] = Call(t, MountRequests(page)[n], catalog, token)
      PROVE  /\ calls'[k].tab = t /\ calls'[k].what \in RequestsOf(page)
             /\ SentNow(calls'[k]) /\ calls'[k].arg = catalog
             /\ calls'[k].what \notin Changes \cup {"schema", "run", "cell"}
  <2> DEFINE what == MountRequests(page)[n]
             c == Call(t, what, catalog, token)
  <2>1. /\ what \in RequestsOf(page) /\ what \in Whats /\ ArgFits(what, catalog)
        /\ what \notin Changes \cup {"schema", "run", "cell"}
    BY MountRequestsDiffer DEF Whats, Changes, ArgFits
  <2>2. calls'[k] = c
    BY <1>6
  <2> HIDE DEF what
  <2>3. /\ c.tab = t /\ c.what = what /\ c.arg = catalog /\ c.token = token
        /\ c.answer = "none"
    BY <1>0, <2>1, NewCall
  <2> HIDE DEF c
  <2> QED
    BY <2>1, <2>2, <2>3 DEF SentNow
<1>7. ASSUME NEW k \in DOMAIN calls'
      PROVE  /\ Fits(calls'[k], view'[calls'[k].tab])
             /\ calls'[k].tab # t =>
                  \E j \in DOMAIN calls : calls'[k] = calls[j]
             /\ \/ \E j \in DOMAIN calls : Weakened(calls'[k], calls[j])
                \/ SentNow(calls'[k])
             /\ (calls'[k].tab = t /\ calls'[k].mounted) =>
                  /\ calls'[k].answer = "none" /\ calls'[k].arg = catalog
                  /\ calls'[k].what \notin Changes \cup {"schema", "run", "cell"}
  <2>1. CASE \E n \in DOMAIN MountRequests(page) :
               calls'[k] = Call(t, MountRequests(page)[n], catalog, token)
    BY <1>2, <1>3, <1>6, <2>1 DEF Fits, SentNow
  <2>2. CASE /\ k \in DOMAIN cs /\ Weakened(calls'[k], cs[k])
             /\ cs[k].tab = t => ~calls'[k].mounted
             /\ cs[k].tab # t => calls'[k] = cs[k]
    <3>1. PICK j \in DOMAIN calls : cs[k] = calls[j]
      BY <1>4, <2>2
    <3>2. Fits(calls[j], view[calls[j].tab]) /\ calls[j].tab \in Tabs
      BY DEF Typing, CallsTyped, GoodCalls, IsCall
    <3>3. CASE calls[j].tab = t
      BY <2>2, <3>1, <3>3 DEF Fits, Weakened
    <3>4. CASE calls[j].tab # t
      BY <1>3, <2>2, <3>1, <3>2, <3>4
    <3> QED
      BY <3>3, <3>4
  <2> QED
    BY <1>5, <2>1, <2>2
<1>8. CallsTyped'
  BY <1>5, <1>7 DEF CallsTyped
<1>9. \A u \in Tabs \ {t} : Untouched(u)
  BY <1>3, <1>5, <1>7 DEF Untouched
<1>10. OldOrSentNow
  BY <1>7 DEF OldOrSentNow
<1>11. Remounts(t)
  BY <1>3, <1>7 DEF Remounts
<1> QED
  BY <1>3, <1>8, <1>9, <1>10, <1>11 DEF StepOf

----------------------------------------------------------------------------
(* What users do. *)

\* What a scene may be.
LEMMA SceneFacts ==
  ASSUME scene \in Scenes
  PROVE  /\ scene.token \in Tokens \cup {NoToken}
         /\ scene.logins \subseteq Tokens /\ scene.token \notin scene.logins
         /\ scene.level \in ToSet(Levels)
         /\ scene.catalogs \in Seq(STRING)
         /\ NoCatalog \notin ToSet(scene.catalogs)
         /\ \A t \in Tabs : /\ scene.start[t] \in Pages \cup {"closed"}
                            /\ scene.visits[t] \subseteq Pages
BY ClientAssumption DEF Scene, NoToken, NoCatalog

\* A tab that is not closed is at a page.
LEMMA PageIsAPage ==
  ASSUME Typing, NEW t \in Tabs, view[t] # ClosedView
  PROVE  view[t].page \in Pages
<1>1. IsView(view[t])
  BY DEF Typing, ViewsTyped
<1>2. view[t].page # "closed"
  <2> SUFFICES ASSUME view[t].page = "closed" PROVE view[t] = ClosedView
    OBVIOUS
  <2>1. view[t] = [f \in {"page"} |-> view[t][f]]
    BY <1>1, FieldsOfViews DEF IsView, HasFields
  <2> QED
    BY <2>1 DEF ClosedView
<1> QED
  BY <1>1, <1>2 DEF IsView

\* A click on a cell goes from level to level.
LEMMA NextLevelIsLevel ==
  ASSUME NEW l \in ToSet(Levels)
  PROVE  NextLevel(l) \in ToSet(Levels)
<1> DEFINE I == {n \in 1 .. Len(Levels) : Levels[n] = l}
           n == SelectInSeq(Levels, LAMBDA m : m = l)
<1>1. Len(Levels) = 3 /\ DOMAIN Levels = 1 .. 3
  BY DEF Levels
<1>2. I # {}
  BY <1>1 DEF ToSet
<1>3. n = Min(I)
  BY <1>2 DEF SelectInSeq
<1>4. \A a, b \in I : a = b
  BY <1>1 DEF Levels
<1>5. n \in I
  <2>1. PICK a \in I : TRUE
    BY <1>2
  <2>2. a \in Nat
    BY <1>1, <2>1
  <2>3. \A b \in I : a <= b
    BY <1>4, <2>1, <2>2
  <2> HIDE DEF I
  <2>4. (CHOOSE x \in I : \A b \in I : x <= b) \in I
    BY <2>1, <2>3
  <2> QED
    BY <1>3, <2>4 DEF Min
<1>6. n \in 1 .. 3
  BY <1>1, <1>5
<1> HIDE DEF n
<1>7. (n % 3) + 1 \in 1 .. 3
  BY <1>6
<1>8. NextLevel(l) = Levels[(n % 3) + 1]
  BY <1>1 DEF NextLevel, n
<1> QED
  BY <1>1, <1>7, <1>8 DEF ToSet

\* Nothing of the session changes.
LEMMA SessionStays ==
  ASSUME Typing, SessionKept
  PROVE  SessionTyped' /\ UNCHANGED <<server, scene>> /\ stored' = stored
BY DEF Typing, SessionTyped, SessionKept, server

\* A tab loads a page, or the login page without a token.
LEMMA Loads ==
  ASSUME Typing, NEW t \in Tabs, NEW page \in Pages, page \in Reachable(t),
         NEW catalog, Load(t, page, catalog)
  PROVE  /\ StepOf(t, "login")
         /\ view'[t] = Opened(PageFor(stored, page), catalog)
<1> DEFINE to == PageFor(stored, page)
           cs == OfOthers(calls, t)
<1>1. to \in Pages /\ to \in Reachable(t)
  BY DEF PageFor, Pages, Reachable
<1>2. /\ PartOf(cs, calls)
      /\ \A j \in DOMAIN calls :
           calls[j].tab # t => \E k \in DOMAIN cs : cs[k] = calls[j]
  BY OthersPart DEF Typing, CallsTyped
<1>3. SessionTyped' /\ UNCHANGED <<server, scene>> /\ stored = stored'
  BY DEF Load, Typing, SessionTyped, server
<1>4. Mount(t, to, catalog, cs, stored)
  BY Zenon DEF Load
<1> HIDE DEF to, cs
<1>5. StepOf(t, "login") /\ view'[t] = Opened(to, catalog)
  <2>1. "login" \in Pages
    BY DEF Pages
  <2> QED
    BY <1>1, <1>2, <1>3, <1>4, <2>1, Mounts
<1> QED
  BY <1>5 DEF to

\* What a page sends when its user acts.
LEMMA SendsByHand ==
  ASSUME Typing, NEW t \in Tabs, NEW page \in Pages, view[t].page = page,
         NEW v, IsView(v), v.page = page, Becomes(t, v),
         SessionKept, NEW what \in RequestsOf(page) \cap Whats, NEW arg,
         ArgFits(what, arg),
         NEW cs, Rest(t, page, cs),
         calls' = Sent(cs, Call(t, what, arg, stored))
  PROVE  StayOf(t, page)
<1> DEFINE call == Call(t, what, arg, stored)
<1>1. SessionTyped' /\ UNCHANGED <<server, scene>> /\ stored' = stored
  BY SessionStays
<1>2. /\ IsCall(call) /\ call.tab = t /\ call.what = what
      /\ call.token = stored /\ call.mounted /\ call.latest
      /\ call.answer = "none"
  BY NewCall DEF Typing, SessionTyped
<1>3. calls' = Sent(cs, call)
  OBVIOUS
<1> HIDE DEF call
<1>4. call.latest = call.mounted
  BY <1>2 DEF IsCall
<1>5. Fits(call, v) /\ SentNow(call)
  BY <1>1, <1>2 DEF Fits, SentNow
<1> QED
  BY <1>1, <1>2, <1>3, <1>4, <1>5, Sends

\* The names of the pages.
LEMMA PagesAre ==
  {"login", "connections", "query", "permissions", "connectionsAdmin"}
    \subseteq Pages
BY DEF Pages

\* The actions of every page's user, and of the pages without one of their own.
LEMMA SessionActions ==
  ASSUME Typing, NEW t \in Tabs,
         \/ Open(t) \/ Reload(t) \/ Submit(t) \/ Logout(t)
         \/ \E page \in Pages : Goto(t, page)
  PROVE  /\ StepOf(t, "login")
         /\ \/ StayOf(t, "login") \/ Open(t)
            \/ Reload(t) /\ view'[t].page \in {view[t].page, "login"}
            \/ view'[t].page = "login"
            \/ \E page \in Pages : Goto(t, page) /\ view'[t].page = page
<1>1. CASE Open(t)
  <2>1. scene.start[t] \in Pages \cap Reachable(t)
    BY <1>1, SceneFacts DEF Typing, SessionTyped, Open, Reachable
  <2> QED
    BY <1>1, <2>1, Loads DEF Open
<1>2. CASE Reload(t)
  <2>1. PICK catalog : Load(t, view[t].page, catalog)
    BY <1>2 DEF Reload
  <2>2. view[t].page \in Pages \cap Reachable(t)
    BY <1>2, PageIsAPage DEF Reload, Reachable
  <2>3. PageFor(stored, view[t].page) \in Pages \cap {view[t].page, "login"}
    BY <2>2 DEF PageFor, Pages
  <2> QED
    BY <1>2, <2>1, <2>2, <2>3, Loads, OpenedIsView DEF Reload
<1>3. CASE Submit(t)
  <2> DEFINE v == [LoginView EXCEPT !.submitting = TRUE]
  <2>1. /\ view[t] = LoginView /\ Becomes(t, v) /\ SessionKept
        /\ calls' = Sent(calls, Call(t, "login", "", stored))
    BY <1>3 DEF Submit
  <2>2. IsView(v) /\ v.page = "login" /\ view[t].page = "login"
    BY <2>1, SimpleViews
  <2>3. /\ "login" \in RequestsOf("login") \cap Whats /\ "login" \in Pages
        /\ ArgFits("login", "")
    BY DEF RequestsOf, Whats, Pages, ArgFits
  <2> HIDE DEF v
  <2> QED
    BY <2>1, <2>2, <2>3, RestAll, SendsByHand DEF StayOf
<1>4. CASE Logout(t)
  <2>1. SessionTyped' /\ UNCHANGED <<server, scene>> /\ NoToken = stored'
    BY <1>4 DEF Logout, Typing, SessionTyped, server
  <2>2. "login" \in Pages \cap Reachable(t)
    BY DEF Pages, Reachable
  <2>3. Mount(t, "login", NoCatalog, calls, NoToken)
    BY <1>4 DEF Logout
  <2>4. PartOf(calls, calls)
    BY AllPart DEF Typing, CallsTyped
  <2> QED
    BY <2>1, <2>2, <2>3, <2>4, Mounts, OpenedIsView
<1>5. ASSUME NEW page \in Pages, Goto(t, page)
      PROVE  StepOf(t, "login") /\ view'[t].page = page
  <2>1. SessionTyped' /\ UNCHANGED <<server, scene>> /\ stored = stored'
    BY <1>5, SessionStays DEF Goto
  <2>2. page \in Reachable(t)
    BY <1>5 DEF Goto, Reachable
  <2>3. Mount(t, page, NoCatalog, calls, stored)
    BY <1>5 DEF Goto
  <2>4. PartOf(calls, calls)
    BY AllPart DEF Typing, CallsTyped
  <2> QED
    BY <2>1, <2>2, <2>3, <2>4, Mounts, PagesAre, OpenedIsView
<1> QED
  BY <1>1, <1>2, <1>3, <1>4, <1>5

\* A query page asks for a schema.
LEMMA LoadSchemaSteps ==
  ASSUME Typing, NEW t \in Tabs, OnQueryPage(t), NEW v, IsView(v),
         v.page = "query", SessionKept, NEW cs, Rest(t, "query", cs),
         LoadSchema(t, v, cs)
  PROVE  StayOf(t, "query")
<1> DEFINE w == [v EXCEPT !.schema.latest = FALSE]
<1>1. IsView(w) /\ w.page = "query"
  BY LoadingView
<1>2. /\ Becomes(t, w)
      /\ calls' = Sent(cs, Call(t, "schema", v.catalog, stored))
  BY DEF LoadSchema
<1>3. /\ "schema" \in RequestsOf("query") \cap Whats /\ view[t].page = "query"
      /\ ArgFits("schema", v.catalog)
  BY DEF RequestsOf, Whats, OnQueryPage, ArgFits
<1> HIDE DEF w
<1> QED
  BY <1>1, <1>2, <1>3, PagesAre, SendsByHand

\* A query page changes, and its effect asks for the schema.
LEMMA SettlesSteps ==
  ASSUME Typing, NEW t \in Tabs, OnQueryPage(t), NEW v, IsView(v),
         v.page = "query", SessionKept, NEW cs, Rest(t, "query", cs),
         Settles(t, v, cs)
  PROVE  StayOf(t, "query")
<1>1. CASE LoadSchema(t, v, cs)
  BY <1>1, LoadSchemaSteps
<1>2. CASE Becomes(t, v) /\ calls' = cs
  BY <1>2, PagesAre, SessionStays, Stays DEF OnQueryPage
<1> QED
  BY <1>1, <1>2 DEF Settles

\* The view of a tab.
LEMMA TabViews ==
  ASSUME Typing, NEW t \in Tabs
  PROVE  IsView(view[t])
BY DEF Typing, ViewsTyped

\* The actions on the query page.
LEMMA QueryActions ==
  ASSUME Typing, NEW t \in Tabs,
         \/ \E c \in ToSet(scene.catalogs) : Select(t, c)
         \/ Refresh(t) \/ RunByButton(t) \/ RunByKey(t) \/ Download(t)
  PROVE  StayOf(t, "query")
<1>0. OnQueryPage(t) /\ IsView(view[t]) /\ view[t].page = "query"
  BY TabViews DEF Select, Refresh, RunByButton, RunByKey, Download, OnQueryPage
<1>a. Rest(t, "query", calls)
  BY RestAll, PagesAre
<1>1. ASSUME NEW c, Select(t, c)
      PROVE  StayOf(t, "query")
  <2> DEFINE v == AtCatalog(view[t], c)
  <2>1. IsView(v) /\ v.page = "query"
    BY <1>0, MovedView
  <2>2. Settles(t, v, calls) /\ SessionKept
    BY <1>1 DEF Select
  <2> HIDE DEF v
  <2> QED
    BY <1>0, <1>a, <2>1, <2>2, SettlesSteps
<1>2. CASE Refresh(t)
  BY <1>0, <1>2, <1>a, LoadSchemaSteps DEF Refresh
<1>3. ASSUME NEW overlapped, overlapped \in BOOLEAN, Run(t, overlapped)
      PROVE  StayOf(t, "query")
  <2> DEFINE v == Rerun(view[t], overlapped)
  <2>1. IsView(v) /\ v.page = "query"
    BY <1>0, <1>3, RunningView
  <2>2. /\ Becomes(t, v) /\ SessionKept
        /\ calls' = Sent(calls, Call(t, "run", view[t].catalog, stored))
    BY <1>3 DEF Run, RunIn, Rerun
  <2> HIDE DEF v
  <2>3. "run" \in RequestsOf("query") \cap Whats /\ ArgFits("run", view[t].catalog)
    BY DEF RequestsOf, Whats, ArgFits
  <2> QED
    BY <1>0, <1>a, <2>1, <2>2, <2>3, PagesAre, SendsByHand
<1>4. CASE RunByButton(t)
  <2> DEFINE o == view[t].overlapped /\ Out(t, {"run"})
  <2>1. o \in BOOLEAN /\ Run(t, o)
    BY <1>4 DEF RunByButton
  <2> QED
    BY <1>3, <2>1
<1>5. CASE RunByKey(t)
  <2> DEFINE o == Out(t, {"run"})
  <2>1. o \in BOOLEAN /\ Run(t, o)
    BY <1>5 DEF RunByKey, Out
  <2> QED
    BY <1>3, <2>1
<1>6. CASE Download(t)
  <2>1. /\ UNCHANGED view /\ SessionKept
        /\ calls' = Sent(calls, Call(t, "cell", view[t].catalog, stored))
    BY <1>6 DEF Download
  <2>2. "cell" \in RequestsOf("query") \cap Whats /\ ArgFits("cell", view[t].catalog)
    BY DEF RequestsOf, Whats, ArgFits
  <2>3. Becomes(t, view[t])
    BY <2>1, SameView DEF Typing
  <2> QED
    BY <1>0, <1>a, <2>1, <2>2, <2>3, PagesAre, SendsByHand
<1> QED
  BY <1>1, <1>2, <1>4, <1>5, <1>6

\* The action on the matrix.
LEMMA MatrixActions ==
  ASSUME Typing, NEW t \in Tabs, Click(t)
  PROVE  StayOf(t, "permissions")
<1>0. view[t].page = "permissions" /\ IsView(view[t])
  BY TabViews DEF Click
<1>1. /\ UNCHANGED view /\ SessionKept
      /\ calls' = Sent(calls, Call(t, "set", NextLevel(view[t].level), stored))
  BY DEF Click
<1>2. "set" \in RequestsOf("permissions") \cap Whats
  BY DEF RequestsOf, Whats
<1>3. Becomes(t, view[t])
  BY <1>1, SameView DEF Typing
<1>4. view[t].level \in ToSet(Levels)
  BY <1>0 DEF IsView
<1>5. ArgFits("set", NextLevel(view[t].level))
  BY <1>4, NextLevelIsLevel DEF ArgFits
<1> QED
  BY <1>0, <1>1, <1>2, <1>3, <1>5, PagesAre, RestAll, SendsByHand

\* What the form and its buttons ask with.
LEMMA ArgsFit ==
  ASSUME Typing, NEW id
  PROVE  /\ \A editing : ArgFits("remove", [id |-> id, editing |-> editing])
         /\ \A name \in scene.names : ArgFits("save", [id |-> id, name |-> name])
BY ClientAssumption DEF Typing, SessionTyped, Scene, ArgFits

\* The actions on the list of connections.
LEMMA AdminActions ==
  ASSUME Typing, NEW t \in Tabs,
         \/ \E c \in DOMAIN connections : StartEdit(t, c) \/ HandleDelete(t, c)
         \/ Cancel(t)
         \/ \E name \in scene.names : HandleSubmit(t, name)
  PROVE  StayOf(t, "connectionsAdmin")
<1> DEFINE page == "connectionsAdmin"
<1>0. /\ view[t].page = "connectionsAdmin" /\ IsView(view[t])
      /\ Rest(t, "connectionsAdmin", calls)
  BY TabViews, RestAll, PagesAre
    DEF StartEdit, HandleDelete, Cancel, HandleSubmit, OnConnectionsAdmin
<1>1. ASSUME NEW c, StartEdit(t, c) \/ Cancel(t)
      PROVE  StayOf(t, "connectionsAdmin")
  <2>1. PICK editing : Becomes(t, [view[t] EXCEPT !.editing = editing])
    BY <1>1 DEF StartEdit, Cancel
  <2>2. UNCHANGED calls /\ SessionKept
    BY <1>1 DEF StartEdit, Cancel
  <2> DEFINE v == [view[t] EXCEPT !.editing = editing]
  <2>3. IsView(v) /\ v.page = "connectionsAdmin" /\ Becomes(t, v)
    BY <1>0, <2>1, EditingView
  <2> HIDE DEF v
  <2>4. Rest(t, "connectionsAdmin", calls')
    BY <1>0, <2>2
  <2> QED
    BY <1>0, <2>2, <2>3, <2>4, PagesAre, SessionStays, Stays
<1>2. ASSUME NEW what \in {"save", "remove"}, NEW arg, UNCHANGED view,
             ArgFits(what, arg),
             SessionKept, calls' = Sent(calls, Call(t, what, arg, stored))
      PROVE  StayOf(t, "connectionsAdmin")
  <2>1. what \in RequestsOf("connectionsAdmin") \cap Whats
    BY DEF RequestsOf, Whats
  <2>2. Becomes(t, view[t])
    BY <1>2, SameView DEF Typing
  <2> QED
    BY <1>0, <1>2, <2>1, <2>2, PagesAre, SendsByHand
<1>3. ASSUME NEW c, HandleDelete(t, c)
      PROVE  StayOf(t, "connectionsAdmin")
  BY <1>2, <1>3, ArgsFit DEF HandleDelete
<1>4. ASSUME NEW name \in scene.names, HandleSubmit(t, name)
      PROVE  StayOf(t, "connectionsAdmin")
  BY <1>2, <1>4, ArgsFit DEF HandleSubmit
<1> QED
  BY <1>1, <1>3, <1>4

----------------------------------------------------------------------------
(* What answers do. *)

\* A request that is out.
LEMMA CallFacts ==
  ASSUME Typing, NEW i \in DOMAIN calls
  PROVE  /\ calls[i].tab \in Tabs /\ IsCall(calls[i])
         /\ Fits(calls[i], view[calls[i].tab])
BY DEF Typing, CallsTyped, GoodCalls, IsCall

\* An answer to a request that asks for nothing else.
LEMMA Answers1 ==
  ASSUME Typing, NEW i \in DOMAIN calls, NEW t, t = calls[i].tab,
         NEW page \in Pages, NEW v, IsView(v), v.page = view[t].page,
         v # view[t] => v.page = page, Becomes(t, v),
         \/ calls[i].what \notin Changes \/ view[t].page = page
         \/ calls[i].what \in RequestsOf(page),
         Answered(i), SessionTyped', UNCHANGED <<server, scene>>
  PROVE  StayOf(t, page)
<1>1. t \in Tabs
  BY CallFacts
<1>2. Rest(t, page, calls')
  BY <1>1, RestAnswered DEF Answered
<1> QED
  BY <1>1, <1>2, Stays

\* An answer opens a page.
LEMMA MountsAnswered ==
  ASSUME Typing, NEW i \in DOMAIN calls, NEW t, t = calls[i].tab,
         NEW from \in Pages, NEW page \in Pages, page \in Reachable(t),
         NEW catalog, NEW token, token = stored', SessionTyped',
         UNCHANGED <<server, scene>>,
         Mount(t, page, catalog, RemoveAt(calls, i), token)
  PROVE  /\ StepOf(t, from) /\ view'[t] = Opened(page, catalog)
         /\ Remounts(t)
<1>1. t \in Tabs
  BY CallFacts
<1>2. /\ PartOf(RemoveAt(calls, i), calls)
      /\ \A j \in DOMAIN calls :
           calls[j].tab # t =>
             \E k \in DOMAIN RemoveAt(calls, i) : RemoveAt(calls, i)[k] = calls[j]
  BY RemovedPart DEF Typing, CallsTyped
<1> QED
  BY <1>1, <1>2, Mounts

\* A failed login gives the button back.
LEMMA SubmitEndsView ==
  ASSUME Typing, NEW i \in DOMAIN calls, NEW t, t = calls[i].tab
  PROVE  /\ IsView(SubmitEnds(i)) /\ SubmitEnds(i).page = view[t].page
         /\ SubmitEnds(i) # view[t] => view[t].page = "login"
<1>1. IsView(view[t]) /\ Fits(calls[i], view[t])
  BY CallFacts, TabViews
<1>2. CASE calls[i].what = "login" /\ calls[i].mounted
  <2>1. view[t].page = "login"
    BY <1>1, <1>2 DEF Fits, Pages, RequestsOf
  <2> QED
    BY <1>2, <2>1, SimpleViews DEF SubmitEnds
<1>3. CASE ~(calls[i].what = "login" /\ calls[i].mounted)
  BY <1>1, <1>3 DEF SubmitEnds
<1> QED
  BY <1>2, <1>3

\* A request a page waits for tells the page.
LEMMA WaitingPage ==
  ASSUME Typing, NEW i \in DOMAIN calls, calls[i].mounted,
         NEW page \in Pages, calls[i].what \in RequestsOf(page)
  PROVE  view[calls[i].tab].page = page
BY CallFacts, RequestsDiffer DEF Fits

\* The answers that are the session's own.
SessionAnswers(i) ==
  SessionEnds(i) \/ LoggedIn(i) \/ LoginFailed(i) \/ ListShown(i) \/ NobodyWaits(i)

\* The answers that are for the session, or the list of connections.
LEMMA SessionAnswersSteps ==
  ASSUME Typing, NEW i \in DOMAIN calls, SessionAnswers(i)
  PROVE  \E page \in {"login", "connections"} :
           /\ StepOf(calls[i].tab, page)
           /\ StayOf(calls[i].tab, page) \/ view'[calls[i].tab].page = page
<1> DEFINE t == calls[i].tab
<1>0. /\ t \in Tabs /\ IsView(view[t]) /\ IsCall(calls[i])
  BY CallFacts, TabViews
<1>1. "login" \in Pages \cap Reachable(t) /\ "connections" \in Pages \cap Reachable(t)
  BY DEF Pages, Reachable
<1>2. CASE SessionEnds(i)
  <2>1. SessionTyped' /\ UNCHANGED <<server, scene>> /\ NoToken = stored'
    BY <1>2 DEF SessionEnds, Typing, SessionTyped, server
  <2>2. CASE view[t].page = "login" /\ Becomes(t, SubmitEnds(i)) /\ Answered(i)
    <3>1. /\ IsView(SubmitEnds(i)) /\ SubmitEnds(i).page = view[t].page
          /\ SubmitEnds(i) # view[t] => view[t].page = "login"
      BY SubmitEndsView
    <3> HIDE DEF t
    <3>2. StayOf(t, "login")
      BY <1>1, <2>1, <2>2, <3>1, Answers1 DEF t
    <3> QED
      BY <3>2 DEF StayOf, t
  <2>3. CASE Mount(t, "login", NoCatalog, RemoveAt(calls, i), NoToken)
    BY <1>1, <2>1, <2>3, MountsAnswered, OpenedIsView
  <2> QED
    BY <1>2, <2>2, <2>3 DEF SessionEnds
<1>3. CASE LoggedIn(i)
  <2> DEFINE token == calls[i].value
  <2>1. token \in Tokens
    BY <1>0, <1>3 DEF LoggedIn, Ok, IsCall
  <2>2. SessionTyped' /\ UNCHANGED <<server, scene>> /\ token = stored'
    BY <1>3, <2>1 DEF LoggedIn, Typing, SessionTyped, server
  <2>3. CASE Answered(i) /\ UNCHANGED view
    <3>1. Becomes(t, view[t])
      BY <1>0, <2>3, SameView DEF Typing
    <3>2. calls[i].what \notin Changes
      BY <1>3 DEF LoggedIn, Changes
    <3> QED
      BY <1>0, <1>1, <2>2, <2>3, <3>1, <3>2, Answers1 DEF StayOf
  <2>4. CASE Mount(t, "connections", NoCatalog, RemoveAt(calls, i), token)
    BY <1>1, <2>2, <2>4, MountsAnswered, OpenedIsView
  <2> QED
    BY <1>3, <2>3, <2>4 DEF LoggedIn
<1>4. CASE LoginFailed(i)
  <2>1. /\ IsView(SubmitEnds(i)) /\ SubmitEnds(i).page = view[t].page
        /\ SubmitEnds(i) # view[t] => view[t].page = "login"
    BY SubmitEndsView
  <2>2. /\ Becomes(t, SubmitEnds(i)) /\ Answered(i) /\ SessionKept
        /\ calls[i].what \notin Changes
    BY <1>4 DEF LoginFailed, Changes
  <2> QED
    BY <1>1, <2>1, <2>2, SessionStays, Answers1 DEF StayOf
<1>5. CASE ListShown(i)
  <2>1. PICK list : Becomes(t, [view[t] EXCEPT !.list = list])
    BY <1>5 DEF ListShown
  <2>2. Answered(i) /\ SessionKept /\ calls[i].what \notin Changes
    BY <1>5 DEF ListShown, Changes
  <2>3. view[t].page = "connections"
    BY <1>1, <1>5, WaitingPage DEF ListShown, RequestsOf
  <2> DEFINE v == [view[t] EXCEPT !.list = list]
  <2>4. IsView(v) /\ v.page = "connections" /\ Becomes(t, v)
    BY <1>0, <2>1, <2>3, SimpleViews
  <2> HIDE DEF v
  <2> QED
    BY <1>1, <2>2, <2>3, <2>4, SessionStays, Answers1 DEF StayOf
<1>6. CASE NobodyWaits(i)
  <2>1. Answered(i) /\ UNCHANGED view /\ SessionKept /\ calls[i].what \notin Changes
    BY <1>6 DEF NobodyWaits, Changes
  <2>2. Becomes(t, view[t])
    BY <1>0, <2>1, SameView DEF Typing
  <2> QED
    BY <1>0, <1>1, <2>1, <2>2, SessionStays, Answers1 DEF StayOf
<1> QED
  BY <1>2, <1>3, <1>4, <1>5, <1>6 DEF SessionAnswers

\* The answers that are the query page's.
QueryAnswers(i) ==
  SchemaAnswered(i) \/ CatalogsListed(i) \/ CatalogsFailed(i) \/ PulledBack(i)
    \/ RunAnswered(i) \/ KindAnswered(i) \/ CellAnswered(i)

\* The answers that are for the query page; a late one opens it.
LEMMA QueryAnswersSteps ==
  ASSUME Typing, NEW i \in DOMAIN calls, QueryAnswers(i)
  PROVE  \/ StayOf(calls[i].tab, "query")
         \/ /\ StepOf(calls[i].tab, "query") /\ PulledBack(i)
            /\ view'[calls[i].tab].page \in {"login", "query"}
            /\ view[calls[i].tab].page # "query" /\ Remounts(calls[i].tab)
<1> DEFINE t == calls[i].tab
<1>0. t \in Tabs /\ IsView(view[t]) /\ IsCall(calls[i]) /\ "query" \in Pages
  BY CallFacts, TabViews, PagesAre
<1>1. SessionKept /\ calls[i].what \notin Changes
  BY DEF QueryAnswers, SchemaAnswered, CatalogsListed, CatalogsFailed,
         PulledBack, RunAnswered, KindAnswered, CellAnswered, Unshown, Changes
<1>2. SessionTyped' /\ UNCHANGED <<server, scene>> /\ stored' = stored
  BY <1>1, SessionStays
<1>3. calls[i].mounted /\ calls[i].what \in RequestsOf("query")
         => view[t].page = "query"
  BY <1>0, WaitingPage
<1>4. Rest(t, "query", RemoveAt(calls, i))
  BY <1>0, <1>1, RestAnswered
<1>5. CASE SchemaAnswered(i)
  <2> DEFINE o == [answered |-> TRUE, catalog |-> calls[i].arg,
                   latest |-> calls[i].latest]
             v == [view[t] EXCEPT !.schema = o]
  <2>1. Becomes(t, v) /\ Answered(i) /\ view[t].page = "query"
    BY <1>3, <1>5 DEF SchemaAnswered, RequestsOf
  <2>2. IsOutcome(o)
    BY <1>0, NewOutcome DEF IsCall
  <2> HIDE DEF o
  <2>3. IsView(v) /\ v.page = "query"
    BY <1>0, <2>1, <2>2, SchemaView
  <2> HIDE DEF v
  <2> QED
    BY <1>0, <1>1, <1>2, <2>1, <2>3, Answers1
<1>6. CASE CatalogsListed(i)
  <2> DEFINE v == WithCatalogs(view[t], scene.catalogs)
             w == IF Defaults(i) THEN AtCatalog(v, scene.catalogs[1]) ELSE v
  <2>1. view[t].page = "query"
    BY <1>3, <1>6 DEF CatalogsListed, RequestsOf
  <2>2. Settles(t, w, RemoveAt(calls, i))
    BY <1>6 DEF CatalogsListed, WithCatalogs
  <2>3. IsView(v) /\ v.page = "query"
    BY <1>0, <2>1, CatalogsView
  <2> HIDE DEF v
  <2>4. IsView(w) /\ w.page = "query"
    BY <2>3, MovedView
  <2> HIDE DEF w
  <2> QED
    BY <1>0, <1>1, <1>4, <2>1, <2>2, <2>4, SettlesSteps DEF OnQueryPage
<1>7. CASE CatalogsFailed(i)
  <2> DEFINE v == WithCatalogs(view[t], << >>)
  <2>1. view[t].page = "query"
    BY <1>3, <1>7 DEF CatalogsFailed, RequestsOf
  <2>2. Settles(t, v, RemoveAt(calls, i))
    BY <1>7 DEF CatalogsFailed, WithCatalogs
  <2>3. IsView(v) /\ v.page = "query"
    BY <1>0, <2>1, CatalogsView
  <2> HIDE DEF v
  <2> QED
    BY <1>0, <1>1, <1>4, <2>1, <2>2, <2>3, SettlesSteps DEF OnQueryPage
<1>8. CASE PulledBack(i)
  <2>1. CASE OnQueryPage(t)
    <3> DEFINE v == AtCatalog(view[t], scene.catalogs[1])
    <3>1. IsView(v) /\ v.page = "query"
      BY <1>0, <2>1, MovedView DEF OnQueryPage
    <3>2. Settles(t, v, RemoveAt(calls, i))
      BY <1>8, <2>1 DEF PulledBack
    <3> HIDE DEF v
    <3> QED
      BY <1>0, <1>1, <1>4, <2>1, <3>1, <3>2, SettlesSteps
  <2>2. CASE ~OnQueryPage(t)
    <3> DEFINE page == PageFor(claims[t], "query")
    <3>1. page \in Pages \cap Reachable(t) \cap {"login", "query"}
      BY DEF PageFor, Pages, Reachable
    <3>2. Mount(t, page, scene.catalogs[1], RemoveAt(calls, i), stored)
      BY <1>8, <2>2 DEF PulledBack
    <3> HIDE DEF page
    <3> QED
      BY <1>0, <1>2, <1>8, <2>2, <3>1, <3>2, MountsAnswered, OpenedIsView
         DEF OnQueryPage
  <2> QED
    BY <2>1, <2>2
<1>9. CASE RunAnswered(i)
  <2> DEFINE o == [answered |-> TRUE, catalog |-> calls[i].arg,
                   latest |-> calls[i].latest]
  <2>1. Answered(i) /\ view[t].page = "query"
    BY <1>3, <1>9 DEF RunAnswered, RequestsOf
  <2>2. IsOutcome(o)
    BY <1>0, NewOutcome DEF IsCall
  <2>3. \E v \in RanWith(view[t], o) : Becomes(t, v)
    BY <1>9 DEF RunAnswered, RanWith
  <2> HIDE DEF o
  <2>4. PICK v \in RanWith(view[t], o) : Becomes(t, v)
    BY <2>3
  <2>5. IsView(v) /\ v.page = "query"
    BY <1>0, <2>1, <2>2, <2>4, RanView
  <2> QED
    BY <1>0, <1>1, <1>2, <2>1, <2>4, <2>5, Answers1
<1>10. CASE KindAnswered(i) \/ CellAnswered(i)
  <2>1. Answered(i) /\ UNCHANGED view
    BY <1>10 DEF KindAnswered, CellAnswered, Unshown
  <2>2. Becomes(t, view[t])
    BY <1>0, <2>1, SameView DEF Typing
  <2> QED
    BY <1>0, <1>1, <1>2, <2>1, <2>2, Answers1
<1> QED
  BY <1>5, <1>6, <1>7, <1>8, <1>9, <1>10 DEF QueryAnswers

\* The answers that are the matrix's.
MatrixAnswers(i) ==
  AxisListed(i) \/ LevelsListed(i) \/ LevelSet(i) \/ LevelNotSet(i)

\* The answers that are for the matrix.
LEMMA MatrixAnswersSteps ==
  ASSUME Typing, NEW i \in DOMAIN calls, MatrixAnswers(i)
  PROVE  StayOf(calls[i].tab, "permissions")
<1> DEFINE t == calls[i].tab
<1>0. t \in Tabs /\ IsView(view[t]) /\ IsCall(calls[i]) /\ "permissions" \in Pages
  BY CallFacts, TabViews, PagesAre
<1>1. SessionKept /\ calls[i].what \in RequestsOf("permissions")
  BY DEF MatrixAnswers, AxisListed, LevelsListed, LevelSet, LevelNotSet,
         RequestsOf
<1>2. SessionTyped' /\ UNCHANGED <<server, scene>> /\ stored' = stored
  BY <1>1, SessionStays
<1>3. calls[i].mounted => view[t].page = "permissions"
  BY <1>0, <1>1, WaitingPage
<1>4. CASE AxisListed(i)
  <2>1. Answered(i) /\ calls[i].what \in {"users", "connections"}
        /\ view[t].page = "permissions"
    BY <1>3, <1>4 DEF AxisListed
  <2>2. CASE UNCHANGED view
    <3>1. Becomes(t, view[t])
      BY <1>0, <2>2, SameView DEF Typing
    <3> QED
      BY <1>0, <1>1, <1>2, <2>1, <3>1, Answers1
  <2>3. CASE Becomes(t, [view[t] EXCEPT !.loaded = @ \cup {calls[i].what}])
    <3> DEFINE v == [view[t] EXCEPT !.loaded = @ \cup {calls[i].what}]
    <3>1. IsView(v) /\ v.page = "permissions"
      BY <1>0, <2>1, AxisView
    <3>2. Becomes(t, v)
      BY <2>3
    <3> HIDE DEF v
    <3> QED
      BY <1>0, <1>1, <1>2, <2>1, <3>1, <3>2, Answers1
  <2> QED
    BY <1>4, <2>2, <2>3 DEF AxisListed
<1>5. CASE LevelsListed(i)
  <2>1. Answered(i) /\ calls[i].what = "perms" /\ view[t].page = "permissions"
    BY <1>3, <1>5 DEF LevelsListed
  <2>2. CASE Fails(i) /\ Becomes(t, [view[t] EXCEPT !.doubt = TRUE])
    <3> DEFINE v == Doubted(view[t])
    <3>1. IsView(v) /\ v.page = "permissions"
      BY <1>0, <2>1, DoubtedView
    <3>2. Becomes(t, v)
      BY <2>1, <2>2 DEF Doubted
    <3> HIDE DEF v
    <3> QED
      BY <1>0, <1>1, <1>2, <2>1, <3>1, <3>2, Answers1
  <2>3. CASE Ok(i) /\ Becomes(t, [view[t] EXCEPT !.level = calls[i].value,
                                                 !.latest = calls[i].latest])
    <3> DEFINE v == WithLevel(view[t], calls[i])
    <3>0. calls[i].value \in ToSet(Levels) /\ calls[i].latest \in BOOLEAN
      BY <1>0, <2>1, <2>3 DEF IsCall, Ok
    <3>1. IsView(v) /\ v.page = "permissions"
      BY <1>0, <2>1, <3>0, LevelsView
    <3>2. Becomes(t, v)
      BY <2>3 DEF WithLevel
    <3> HIDE DEF v
    <3> QED
      BY <1>0, <1>1, <1>2, <2>1, <3>1, <3>2, Answers1
  <2> QED
    BY <1>5, <2>2, <2>3 DEF LevelsListed
<1>6. CASE LevelSet(i)
  <2> DEFINE v == IF calls[i].mounted THEN SetAnswered(view[t])
                  ELSE Doubted(view[t])
             cs == RemoveAt(calls, i)
             call == CallAfter(calls[i], "perms")
  <2>1. Becomes(t, v) /\ calls' = Sent(cs, call)
    BY <1>6 DEF LevelSet, SetAnswered
  <2>2. IsView(v) /\ v.page = view[t].page
        /\ (v # view[t] => v.page = "permissions")
    BY <1>0, <1>3, SetView, DoubtedView
  <2>3. Rest(t, "permissions", cs)
    BY <1>0, <1>1, RestAnswered
  <2>4. /\ IsCall(call) /\ call.tab = t /\ call.what = "perms"
        /\ call.token = stored /\ call.mounted = calls[i].mounted
        /\ call.latest = calls[i].mounted /\ call.answer = "none"
    BY <1>0, NewCallAfter DEF Typing, SessionTyped, Whats
  <2> HIDE DEF v, cs, call
  <2>5. /\ call.latest = call.mounted /\ Fits(call, v) /\ SentNow(call)
        /\ call.what \in RequestsOf("permissions")
    BY <1>0, <1>2, <1>3, <2>2, <2>4 DEF Fits, SentNow, Changes, RequestsOf
  <2> QED
    BY <1>0, <1>2, <2>1, <2>2, <2>3, <2>4, <2>5, Sends
<1>7. CASE LevelNotSet(i)
  <2> DEFINE v == Doubted(view[t])
  <2>1. Becomes(t, v) /\ Answered(i)
    BY <1>7 DEF LevelNotSet
  <2>2. IsView(v) /\ v.page = view[t].page
        /\ (v # view[t] => v.page = "permissions")
    BY <1>0, DoubtedView
  <2> HIDE DEF v
  <2> QED
    BY <1>0, <1>1, <1>2, <2>1, <2>2, Answers1
<1> QED
  BY <1>4, <1>5, <1>6, <1>7 DEF MatrixAnswers

\* The answers that are the connections' list's.
AdminAnswers(i) == RowsListed(i) \/ Changed(i) \/ NotChanged(i)

\* The answers that are for the list of connections.
LEMMA AdminAnswersSteps ==
  ASSUME Typing, NEW i \in DOMAIN calls, AdminAnswers(i)
  PROVE  StayOf(calls[i].tab, "connectionsAdmin")
<1> DEFINE t == calls[i].tab
<1>0. /\ t \in Tabs /\ IsView(view[t]) /\ IsCall(calls[i])
      /\ "connectionsAdmin" \in Pages
  BY CallFacts, TabViews, PagesAre
<1>1. SessionKept /\ calls[i].what \in RequestsOf("connectionsAdmin")
  BY DEF AdminAnswers, RowsListed, Changed, NotChanged, RequestsOf
<1>2. SessionTyped' /\ UNCHANGED <<server, scene>> /\ stored' = stored
  BY <1>1, SessionStays
<1>3. calls[i].mounted => view[t].page = "connectionsAdmin"
  BY <1>0, <1>1, WaitingPage
<1>4. CASE RowsListed(i)
  <2>1. Answered(i) /\ view[t].page = "connectionsAdmin"
    BY <1>3, <1>4 DEF RowsListed
  <2>2. CASE UNCHANGED view
    <3>1. Becomes(t, view[t])
      BY <1>0, <2>2, SameView DEF Typing
    <3> QED
      BY <1>0, <1>1, <1>2, <2>1, <3>1, Answers1
  <2>3. CASE Becomes(t, [view[t] EXCEPT !.rows = calls[i].value,
                                        !.latest = calls[i].latest])
    <3> DEFINE v == WithRows(view[t], calls[i])
    <3>1. IsView(v) /\ v.page = "connectionsAdmin"
      BY <1>0, <2>1, RowsView
    <3>2. Becomes(t, v)
      BY <2>3 DEF WithRows
    <3> HIDE DEF v
    <3> QED
      BY <1>0, <1>1, <1>2, <2>1, <3>1, <3>2, Answers1
  <2> QED
    BY <1>4, <2>2, <2>3 DEF RowsListed
<1>5. CASE Changed(i)
  <2> DEFINE v == IF calls[i].mounted
                  THEN ChangeAnswered(view[t], EmptiesForm(i))
                  ELSE Unknowing(view[t])
             cs == RemoveAt(calls, i)
             call == CallAfter(calls[i], "rows")
  <2>1. Becomes(t, v) /\ calls' = Sent(cs, call)
    BY <1>5 DEF Changed, ChangeAnswered, Unknowing
  <2>2. IsView(v) /\ v.page = view[t].page
        /\ (v # view[t] => v.page = "connectionsAdmin")
    <3>1. CASE calls[i].mounted
      <4>1. EmptiesForm(i) \in BOOLEAN
        BY DEF EmptiesForm
      <4> QED
        BY <1>0, <1>3, <3>1, <4>1, ChangedView
    <3>2. CASE ~calls[i].mounted
      BY <1>0, <3>2, UnknowingView
    <3> QED
      BY <3>1, <3>2
  <2>3. Rest(t, "connectionsAdmin", cs)
    BY <1>0, <1>1, RestAnswered
  <2>4. /\ IsCall(call) /\ call.tab = t /\ call.what = "rows"
        /\ call.token = stored /\ call.mounted = calls[i].mounted
        /\ call.latest = calls[i].mounted /\ call.answer = "none"
    BY <1>0, NewCallAfter DEF Typing, SessionTyped, Whats
  <2> HIDE DEF v, cs, call
  <2>5. /\ call.latest = call.mounted /\ Fits(call, v) /\ SentNow(call)
        /\ call.what \in RequestsOf("connectionsAdmin")
    BY <1>0, <1>2, <1>3, <2>2, <2>4 DEF Fits, SentNow, Changes, RequestsOf
  <2> QED
    BY <1>0, <1>2, <2>1, <2>2, <2>3, <2>4, <2>5, Sends
<1>6. CASE NotChanged(i)
  <2> DEFINE v == ListDoubted(view[t], Made(i))
  <2>1. Becomes(t, v) /\ Answered(i)
    BY <1>6 DEF NotChanged
  <2>2. IsView(v) /\ v.page = view[t].page
        /\ (v # view[t] => v.page = "connectionsAdmin")
    <3>1. Made(i) \in BOOLEAN
      BY DEF Made
    <3> QED
      BY <1>0, <3>1, ListDoubtedView
  <2> HIDE DEF v
  <2> QED
    BY <1>0, <1>1, <1>2, <2>1, <2>2, Answers1
<1> QED
  BY <1>4, <1>5, <1>6 DEF AdminAnswers

----------------------------------------------------------------------------
(* What the server does. *)

\* The request i is answered, and nothing else about requests changes.
Served(i) ==
  /\ DOMAIN calls' = DOMAIN calls
  /\ \A k \in DOMAIN calls \ {i} : calls'[k] = calls[k]
  /\ calls'[i].tab = calls[i].tab /\ calls'[i].what = calls[i].what
  /\ calls'[i].arg = calls[i].arg /\ calls'[i].token = calls[i].token
  /\ calls'[i].mounted = calls[i].mounted
  /\ calls'[i].latest = calls[i].latest

\* Answering one request keeps everything typed.
LEMMA ServedTyped ==
  ASSUME Typing, UNCHANGED view, NEW i \in DOMAIN calls,
         NEW answer, NEW value, answer \in ServerAnswers,
         answer = "ok" =>
           /\ calls[i].what = "login" => value \in Tokens
           /\ calls[i].what = "perms" => value \in ToSet(Levels),
         Answers(i, answer, value)
  PROVE  /\ ViewsTyped' /\ CallsTyped' /\ Served(i)
         /\ calls'[i].answer = answer /\ calls'[i].value = value
<1>1. /\ GoodCalls(calls') /\ Served(i)
      /\ calls'[i].answer = answer /\ calls'[i].value = value
  BY ServedProperties DEF Typing, CallsTyped, Served
<1>2. \A k \in DOMAIN calls : Fits(calls'[k], view[calls'[k].tab])
  <2> TAKE k \in DOMAIN calls
  <2>1. /\ calls'[k].tab = calls[k].tab /\ calls'[k].what = calls[k].what
        /\ calls'[k].mounted = calls[k].mounted
    BY <1>1 DEF Served
  <2> QED
    BY <2>1 DEF Typing, CallsTyped, Fits
<1>3. CallsTyped'
  BY <1>1, <1>2 DEF CallsTyped, Served
<1> QED
  BY <1>1, <1>3 DEF Typing, ViewsTyped

\* The requests that were given up ask for changes.
LateTyped ==
  /\ late \in Seq(ToSet(late))
  /\ \A n \in DOMAIN late : IsCall(late[n]) /\ late[n].what \in Changes

\* What the server has issued or accepts, and what it stores and has to serve.
ServerTyped ==
  /\ issuable \subseteq Tokens /\ accepted \subseteq Tokens
  /\ connections \in Seq(Names \cup {Gone})
  /\ LateTyped

\* A statement of a save stores the name it was sent with, or nothing.
LEMMA SavesStore ==
  ASSUME connections \in Seq(Names \cup {Gone}), NEW c, IsCall(c), NEW answer,
         SaveStep(c, answer)
  PROVE  /\ connections' \in Seq(Names \cup {Gone})
         /\ c.what = "save" /\ level' = level /\ answer \in SaveAnswers
<1>1. c.what = "save" /\ c.arg.name \in Names \cup {Gone} /\ level' = level
  BY DEF SaveStep, IsCall, ArgFits
<1>2. CASE InsertRow(c, answer)
  BY <1>1, <1>2 DEF InsertRow, SaveAnswers
<1>3. CASE ReadRow(c, answer)
  BY <1>1, <1>3 DEF ReadRow, SaveAnswers
<1>4. CASE UpdateRow(c, answer)
  BY <1>1, <1>4 DEF UpdateRow, SaveAnswers
<1>5. CASE ReadBack(c, answer)
  BY <1>1, <1>5 DEF ReadBack, SaveAnswers
<1> QED
  BY <1>1, <1>2, <1>3, <1>4, <1>5 DEF SaveStep

\* A row that goes is Gone.
LEMMA RowGoes ==
  ASSUME connections \in Seq(Names \cup {Gone}), NEW c, DeleteRow(c)
  PROVE  /\ connections' \in Seq(Names \cup {Gone})
         /\ c.what = "remove" /\ level' = level
<1> DEFINE S == Names \cup {Gone}
<1>1. connections' = [connections EXCEPT ![c.arg.id] = Gone] /\ Gone \in S
  BY DEF DeleteRow
<1>2. connections \in [1 .. Len(connections) -> S] /\ Len(connections) \in Nat
  OBVIOUS
<1> HIDE DEF S
<1>3. connections' \in [1 .. Len(connections) -> S]
  BY <1>1, <1>2
<1>4. connections' \in Seq(S)
  BY <1>2, <1>3
<1> QED
  BY <1>4 DEF S, DeleteRow

\* The server answers one request; nothing that is shown changes.
LEMMA ServeSteps ==
  ASSUME Typing, ServerTyped, NEW i \in DOMAIN calls, Serve(i)
  PROVE  Typing' /\ ServerTyped' /\ Served(i)
<1>0. /\ UNCHANGED <<stored, claims, view, scene>>
      /\ IsCall(calls[i]) /\ connections \in Seq(Names \cup {Gone})
  BY CallFacts DEF Serve, ClientKept, ServerTyped
<1>a. ASSUME level' \in ToSet(Levels) PROVE SessionTyped'
  BY <1>0, <1>a DEF Typing, SessionTyped
<1>b. level \in ToSet(Levels)
  BY DEF Typing, SessionTyped
<1>c. ASSUME UNCHANGED <<issuable, accepted, late>>,
             connections' \in Seq(Names \cup {Gone})
      PROVE  ServerTyped'
  BY <1>c DEF ServerTyped, LateTyped
<1>1. CASE ServeLogin(i)
  <2>1. /\ calls[i].what = "login" /\ level' = level
        /\ UNCHANGED <<connections, late>>
    BY <1>1 DEF ServeLogin
  <2>2. CASE Answers(i, "refused", "") /\ UNCHANGED <<issuable, accepted>>
    <3>1. PICK answer, value : answer = "refused" /\ Answers(i, answer, value)
      BY <2>2
    <3>2. ViewsTyped' /\ CallsTyped' /\ Served(i)
      BY <1>0, <3>1, ServedTyped DEF ServerAnswers
    <3>3. ServerTyped'
      BY <1>0, <1>c, <2>1, <2>2
    <3> QED
      BY <1>a, <1>b, <2>1, <3>2, <3>3 DEF Typing
  <2>3. CASE ~UNCHANGED <<issuable, accepted>>
    <3>1. PICK token \in issuable :
            /\ Answers(i, "ok", token)
            /\ issuable' = issuable \ {token}
            /\ accepted' = accepted \cup {token}
      BY <1>1, <2>3 DEF ServeLogin
    <3>2. ServerTyped' /\ token \in Tokens
      BY <2>1, <3>1 DEF ServerTyped, LateTyped
    <3>3. ViewsTyped' /\ CallsTyped' /\ Served(i)
      BY <1>0, <2>1, <3>1, <3>2, ServedTyped DEF ServerAnswers
    <3> QED
      BY <1>a, <1>b, <2>1, <3>2, <3>3 DEF Typing
  <2> QED
    BY <1>1, <2>2, <2>3 DEF ServeLogin
<1>2. ASSUME NEW answer, NEW value, Answers(i, answer, value),
             answer \in ServerAnswers, calls[i].what # "login",
             calls[i].what = "perms" /\ answer = "ok" => value \in ToSet(Levels),
             level' \in ToSet(Levels), UNCHANGED <<issuable, accepted, late>>,
             connections' \in Seq(Names \cup {Gone})
      PROVE  Typing' /\ ServerTyped' /\ Served(i)
  <2>1. ViewsTyped' /\ CallsTyped' /\ Served(i)
    BY <1>0, <1>2, ServedTyped
  <2>2. ServerTyped'
    BY <1>2, <1>c
  <2> QED
    BY <1>2, <1>a, <2>1, <2>2 DEF Typing
<1>d. {"ok", "failed", "refused"} \subseteq ServerAnswers
  BY DEF ServerAnswers
<1>3. CASE ServeSet(i)
  <2>1. /\ calls[i].what = "set" /\ level' = calls[i].arg /\ connections' = connections
        /\ Answers(i, "ok", "") /\ UNCHANGED <<issuable, accepted, late>>
    BY <1>3 DEF ServeSet, SetLevel
  <2>2. level' \in ToSet(Levels)
    BY <1>0, <2>1 DEF IsCall, ArgFits
  <2> QED
    BY <1>0, <1>2, <1>d, <2>1, <2>2
<1>4. CASE ServeLevels(i)
  BY <1>0, <1>2, <1>4, <1>b, <1>d DEF ServeLevels, server
<1>5. CASE ServeRows(i)
  <2>1. /\ calls[i].what \in {"rows", "connections"} /\ UNCHANGED server
        /\ \E value : Answers(i, "ok", value)
    BY <1>5 DEF ServeRows
  <2> QED
    BY <1>0, <1>2, <1>b, <1>d, <2>1 DEF server
<1>6. CASE ServeSave(i)
  <2>1. PICK answer, value : Answers(i, answer, value) /\ SaveStep(calls[i], answer)
    BY <1>6 DEF ServeSave
  <2>2. /\ connections' \in Seq(Names \cup {Gone})
        /\ calls[i].what = "save" /\ level' = level /\ answer \in ServerAnswers
    BY <1>0, <2>1, SavesStore DEF SaveAnswers, ServerAnswers
  <2>3. UNCHANGED <<issuable, accepted, late>>
    BY <1>6 DEF ServeSave
  <2> QED
    BY <1>2, <1>b, <2>1, <2>2, <2>3
<1>7. CASE ServeRemove(i)
  <2>1. /\ DeleteRow(calls[i]) /\ Answers(i, "ok", "")
        /\ UNCHANGED <<issuable, accepted, late>>
    BY <1>7 DEF ServeRemove
  <2>2. /\ connections' \in Seq(Names \cup {Gone})
        /\ calls[i].what = "remove" /\ level' = level
    BY <1>0, <2>1, RowGoes
  <2> QED
    BY <1>2, <1>b, <1>d, <2>1, <2>2
<1>8. CASE ServeUsers(i) \/ ServeList(i) \/ ServeTarget(i)
  <2>1. /\ calls[i].what \notin {"login", "perms"} /\ UNCHANGED server
        /\ \E answer \in {"ok", "failed"} : Answers(i, answer, "")
    BY <1>8 DEF ServeUsers, ServeList, ServeTarget
  <2> QED
    BY <1>0, <1>2, <1>b, <1>d, <2>1 DEF server
<1>9. CASE Refuse(i)
  BY <1>0, <1>2, <1>9, <1>b, <1>d DEF Refuse, Refused, server
<1> QED
  BY <1>1, <1>3, <1>4, <1>5, <1>6, <1>7, <1>8, <1>9 DEF Serve

\* Requests that are served late are some that were given up.
LateKept ==
  \A m \in DOMAIN late' : \E n \in DOMAIN late :
    late'[m].tab = late[n].tab /\ late'[m].what = late[n].what

\* A connection breaks: its request waits to be served for nobody.
LEMMA BreakSteps ==
  ASSUME Typing, ServerTyped, NEW i \in DOMAIN calls, Break(i)
  PROVE  /\ Typing' /\ ServerTyped' /\ Served(i)
         /\ UNCHANGED <<stored, claims, view, scene, issuable, accepted, level,
                        connections>>
         /\ calls[i].what \in Changes /\ calls[i].answer \in {"none", "found"}
         /\ calls'[i].answer = "lost"
         /\ \A m \in DOMAIN late' :
              \/ \E n \in DOMAIN late : late'[m] = late[n]
              \/ /\ late'[m].tab = calls[i].tab
                 /\ late'[m].what = calls[i].what
<1> DEFINE c == [calls[i] EXCEPT !.mounted = FALSE, !.latest = FALSE]
<1>1. UNCHANGED <<stored, claims, view, scene, issuable, accepted, level, connections>>
  BY DEF Break, ClientKept
<1>2. /\ calls[i].what \in Changes /\ calls[i].answer \in {"none", "found"}
      /\ late' = Append(late, c)
  BY DEF Break, Changes
<1>3. IsCall(calls[i])
  BY CallFacts
<1>4. PICK answer, value : answer = "lost" /\ Answers(i, answer, value)
  BY DEF Break
<1>5. ViewsTyped' /\ CallsTyped' /\ Served(i) /\ calls'[i].answer = "lost"
  BY <1>1, <1>4, ServedTyped DEF ServerAnswers
<1>6. IsCall(c) /\ c.what = calls[i].what /\ c.tab = calls[i].tab
  BY <1>3, LeftCall DEF Weakened
<1> HIDE DEF c
<1>7. late \in Seq(ToSet(late))
  BY DEF ServerTyped, LateTyped
<1>8. /\ DOMAIN late = 1 .. Len(late) /\ Len(late) \in Nat
      /\ DOMAIN late' = 1 .. (Len(late) + 1)
      /\ \A m \in DOMAIN late : late'[m] = late[m]
      /\ late'[Len(late) + 1] = c
      /\ late' \in Seq(ToSet(late) \cup {c})
  BY <1>2, <1>7
<1>9. ASSUME NEW m \in DOMAIN late'
      PROVE  (m \in DOMAIN late /\ late'[m] = late[m]) \/ late'[m] = c
  BY <1>8
<1>10. LateTyped'
  <2>1. late' \in Seq(ToSet(late'))
    BY <1>8, OwnSeq
  <2>2. \A m \in DOMAIN late' : IsCall(late'[m]) /\ late'[m].what \in Changes
    BY <1>2, <1>6, <1>9 DEF ServerTyped, LateTyped
  <2> QED
    BY <2>1, <2>2 DEF LateTyped
<1>11. ServerTyped'
  BY <1>1, <1>10 DEF ServerTyped
<1>12. SessionTyped'
  BY <1>1 DEF Typing, SessionTyped
<1> QED
  BY <1>1, <1>2, <1>5, <1>6, <1>9, <1>11, <1>12 DEF Typing

\* A page that is in doubt remains the page it is.
LEMMA UnawareView ==
  ASSUME NEW v, IsView(v), NEW c, IsCall(c), c.what \in Changes
  PROVE  LET w == UnawareOf(v, c)
         IN  /\ IsView(w) /\ w.page = v.page
             /\ v.page \notin {"permissions", "connectionsAdmin"} => w = v
             /\ v.page = "permissions" /\ c.what = "set" => w.doubt
             /\ v.page = "permissions" /\ c.what # "set" => w = v
             /\ v.page = "connectionsAdmin" /\ c.what # "set" => w.doubt
             /\ v.page = "connectionsAdmin" /\ c.what = "set" => w = v
             /\ v.page = "connectionsAdmin" => w.editing = v.editing
<1>1. CASE c.what = "set"
  <2>1. UnawareOf(v, c) = Doubted(v)
    BY <1>1 DEF UnawareOf
  <2> QED
    BY <1>1, <2>1, DoubtedView
<1>2. CASE c.what # "set"
  <2>1. UnawareOf(v, c) = Unknowing(v)
    BY <1>2 DEF UnawareOf, Unknowing
  <2> QED
    BY <1>2, <2>1, UnknowingView
<1> QED
  BY <1>1, <1>2

\* The server serves a request that was given up; only the page its change is
\* about comes to be in doubt.
LEMMA LateSteps ==
  ASSUME Typing, ServerTyped, NEW n \in DOMAIN late, ServeLate(n)
  PROVE  /\ Typing' /\ ServerTyped' /\ LateKept
         /\ UNCHANGED <<stored, claims, calls, reloads, scene, issuable, accepted>>
         /\ IsCall(late[n]) /\ late[n].what \in Changes
         /\ \A t \in Tabs \ {late[n].tab} : view'[t] = view[t]
         /\ \/ UNCHANGED <<view, level, connections>>
            \/ /\ view'[late[n].tab] = UnawareOf(view[late[n].tab], late[n])
               /\ late[n].what = "set" => connections' = connections
               /\ late[n].what # "set" => level' = level
<1> DEFINE c == late[n]
<1>1. /\ late \in Seq(ToSet(late)) /\ IsCall(c) /\ c.what \in Changes
      /\ connections \in Seq(Names \cup {Gone})
  BY DEF ServerTyped, LateTyped
<1>2. UNCHANGED <<stored, claims, calls, reloads, scene, issuable, accepted>>
  BY DEF ServeLate
<1>3. c.tab \in Tabs
  BY <1>1 DEF IsCall
<1>4. \/ late' = RemoveAt(late, n)
      \/ late' = [late EXCEPT ![n].answer = "found"]
  BY DEF ServeLate
<1>5. LateTyped' /\ LateKept
  <2>1. CASE late' = RemoveAt(late, n)
    <3>1. /\ late' \in Seq(ToSet(late)) /\ Len(late') = Len(late) - 1
          /\ \A k \in DOMAIN late' :
               late'[k] = IF k < n THEN late[k] ELSE late[k + 1]
      BY <1>1, <2>1, RemoveAtProperties
    <3>2. \A k \in DOMAIN late' : \E m \in DOMAIN late : late'[k] = late[m]
      BY <1>1, <3>1
    <3>3. late' \in Seq(ToSet(late'))
      BY <3>1, OwnSeq
    <3> QED
      BY <3>2, <3>3 DEF LateTyped, ServerTyped, LateKept
  <2>2. CASE late' = [late EXCEPT ![n].answer = "found"]
    <3> DEFINE d == [c EXCEPT !.answer = "found"]
    <3>1. /\ HasFields(d, CallFields)
          /\ d.tab = c.tab /\ d.what = c.what /\ d.arg = c.arg
          /\ d.token = c.token /\ d.mounted = c.mounted /\ d.latest = c.latest
          /\ d.answer = "found"
      BY <1>1 DEF IsCall, HasFields, CallFields
    <3>2. late' = [late EXCEPT ![n] = d]
      BY <1>1, <2>2
    <3> HIDE DEF d
    <3>3. IsCall(d)
      BY <1>1, <3>1 DEF IsCall, ServerAnswers
    <3>4. /\ DOMAIN late' = DOMAIN late /\ late'[n] = d
          /\ \A k \in DOMAIN late \ {n} : late'[k] = late[k]
          /\ late' = [k \in 1 .. Len(late) |-> late'[k]]
          /\ DOMAIN late' = 1 .. Len(late) /\ Len(late) \in Nat
      <4>1. DOMAIN late = 1 .. Len(late) /\ Len(late) \in Nat
        BY <1>1
      <4> QED
        BY <3>2, <4>1
    <3>5. late' \in Seq(ToSet(late'))
      BY <3>4, OwnElements
    <3>6. ASSUME NEW k \in DOMAIN late'
          PROVE  /\ late'[k].tab = late[k].tab /\ late'[k].what = late[k].what
                 /\ IsCall(late'[k])
      BY <3>1, <3>3, <3>4 DEF ServerTyped, LateTyped
    <3> QED
      BY <3>4, <3>5, <3>6 DEF LateTyped, ServerTyped, LateKept
  <2> QED
    BY <1>4, <2>1, <2>2
<1>6. \/ UNCHANGED <<level, connections, view>>
      \/ /\ view' = [view EXCEPT ![c.tab] = UnawareOf(@, c)]
         /\ \/ SetLevel(c) \/ DeleteRow(c)
            \/ \E answer \in SaveAnswers : SaveStep(c, answer)
  BY DEF ServeLate
<1> HIDE DEF c
<1>7. CASE UNCHANGED <<level, connections, view>>
  <2>1. Typing'
    BY <1>2, <1>7 DEF Typing, SessionTyped, ViewsTyped, CallsTyped
  <2>2. ServerTyped'
    BY <1>2, <1>5, <1>7 DEF ServerTyped
  <2> QED
    BY <1>1, <1>2, <1>5, <1>7, <2>1, <2>2 DEF c
<1>8. CASE /\ view' = [view EXCEPT ![c.tab] = UnawareOf(@, c)]
           /\ \/ SetLevel(c) \/ DeleteRow(c)
              \/ \E answer \in SaveAnswers : SaveStep(c, answer)
  <2> DEFINE v == UnawareOf(view[c.tab], c)
  <2>1. IsView(view[c.tab])
    BY <1>3, TabViews
  <2>2. IsView(v) /\ v.page = view[c.tab].page
    BY <1>1, <2>1, UnawareView
  <2>3. Becomes(c.tab, v)
    BY <1>3, <1>8 DEF Becomes
  <2> HIDE DEF v
  <2>4. ViewsTyped' /\ view'[c.tab] = v
        /\ \A u \in Tabs \ {c.tab} : view'[u] = view[u]
    BY <1>3, <2>2, <2>3, OneViewChanges DEF Typing
  <2>5. CallsTyped'
    <3>1. \A u \in Tabs : view'[u].page = view[u].page
      BY <2>2, <2>4
    <3>2. \A i \in DOMAIN calls : Fits(calls[i], view'[calls[i].tab])
      BY <3>1, CallFacts DEF Fits
    <3> QED
      BY <1>2, <3>2 DEF Typing, CallsTyped
  <2>6. /\ level' \in ToSet(Levels) /\ connections' \in Seq(Names \cup {Gone})
        /\ c.what = "set" => connections' = connections
        /\ c.what # "set" => level' = level
    <3>0. level \in ToSet(Levels)
      BY DEF Typing, SessionTyped
    <3>1. CASE SetLevel(c)
      BY <1>1, <3>1 DEF SetLevel, IsCall, ArgFits
    <3>2. CASE DeleteRow(c)
      BY <1>1, <3>0, <3>2, RowGoes
    <3>3. CASE \E answer \in SaveAnswers : SaveStep(c, answer)
      BY <1>1, <3>0, <3>3, SavesStore
    <3> QED
      BY <1>8, <3>1, <3>2, <3>3
  <2>7. Typing'
    BY <1>2, <2>4, <2>5, <2>6 DEF Typing, SessionTyped
  <2>8. ServerTyped'
    BY <1>2, <1>5, <2>6 DEF ServerTyped
  <2> QED
    BY <1>1, <1>2, <1>5, <2>4, <2>6, <2>7, <2>8 DEF c, v
<1> QED
  BY <1>6, <1>7, <1>8

\* A token expires; nothing that is shown changes.
LEMMA ExpireSteps ==
  ASSUME Typing, ServerTyped, Expire
  PROVE  Typing' /\ ServerTyped' /\ UNCHANGED <<view, calls, level, connections>>
<1>1. UNCHANGED <<stored, claims, view, calls, level, connections, late, scene,
                  issuable>>
  BY DEF Expire, ClientKept
<1>2. accepted' \subseteq accepted
  BY DEF Expire
<1> QED
  BY <1>1, <1>2 DEF Typing, SessionTyped, ViewsTyped, CallsTyped, ServerTyped,
                    LateTyped

----------------------------------------------------------------------------
(* Every step. *)

\* What a user does is a step of the tab's.
LEMMA UserSteps ==
  ASSUME Typing, NEW t \in Tabs, User(t)
  PROVE  \E page \in Pages : StepOf(t, page)
<1> USE PagesAre
<1>1. CASE \/ Open(t) \/ Reload(t) \/ Submit(t) \/ Logout(t)
           \/ \E page \in Pages : Goto(t, page)
  BY <1>1, SessionActions
<1>2. CASE \/ \E c \in ToSet(scene.catalogs) : Select(t, c)
           \/ Refresh(t) \/ RunByButton(t) \/ RunByKey(t) \/ Download(t)
  BY <1>2, QueryActions DEF StayOf
<1>3. CASE Click(t)
  BY <1>3, MatrixActions DEF StayOf
<1>4. CASE \/ \E c \in DOMAIN connections : StartEdit(t, c) \/ HandleDelete(t, c)
           \/ Cancel(t)
           \/ \E name \in scene.names : HandleSubmit(t, name)
  BY <1>4, AdminActions DEF StayOf
<1> QED
  BY <1>1, <1>2, <1>3, <1>4 DEF User

\* What an answer does is a step of the tab's whose request it was.
LEMMA DeliverSteps ==
  ASSUME Typing, NEW i \in DOMAIN calls, Deliver(i)
  PROVE  \E page \in Pages : StepOf(calls[i].tab, page)
<1> USE PagesAre
<1>1. SessionAnswers(i) \/ QueryAnswers(i) \/ MatrixAnswers(i) \/ AdminAnswers(i)
  BY DEF Deliver, SessionAnswers, QueryAnswers, MatrixAnswers, AdminAnswers
<1>2. CASE SessionAnswers(i)
  BY <1>2, SessionAnswersSteps
<1>3. CASE QueryAnswers(i)
  BY <1>3, QueryAnswersSteps DEF StayOf
<1>4. CASE MatrixAnswers(i)
  BY <1>4, MatrixAnswersSteps DEF StayOf
<1>5. CASE AdminAnswers(i)
  BY <1>5, AdminAnswersSteps DEF StayOf
<1> QED
  BY <1>1, <1>2, <1>3, <1>4, <1>5

\* Every scene begins typed.
LEMMA InitTyped ==
  ASSUME Init
  PROVE  Typing /\ ServerTyped
<1>1. scene \in Scenes
  BY DEF Init
<1>2. SessionTyped /\ ServerTyped
  <2>0. scene.connections \in Seq(Names)
    BY <1>1, ClientAssumption DEF Scene
  <2>1. connections \in Seq(Names \cup {Gone}) /\ late = << >>
    BY <2>0 DEF Init
  <2>2. LateTyped
    BY <2>1 DEF LateTyped
  <2> QED
    BY <1>1, <2>1, <2>2, SceneFacts DEF Init, SessionTyped, ServerTyped, NoToken
<1>3. IsView(ClosedView)
  BY FieldsOfViews DEF ClosedView, IsView, HasFields
<1>4. ViewsTyped
  BY <1>3 DEF Init, ViewsTyped
<1>5. calls = << >>
  BY DEF Init
<1>6. GoodCalls(<< >>)
  BY DEF GoodCalls
<1>7. CallsTyped
  BY <1>5, <1>6 DEF CallsTyped
<1> QED
  BY <1>2, <1>4, <1>7 DEF Typing

\* Every step keeps everything typed.
LEMMA NextTyped ==
  ASSUME Typing, ServerTyped, [Next]_vars
  PROVE  Typing' /\ ServerTyped'
<1>1. ASSUME NEW t, NEW page, StepOf(t, page)
      PROVE  Typing' /\ ServerTyped'
  BY <1>1 DEF StepOf, Typing, ServerTyped, LateTyped, server
<1>2. ASSUME NEW t \in Tabs, User(t)
      PROVE  Typing' /\ ServerTyped'
  BY <1>1, <1>2, UserSteps
<1>3. ASSUME NEW i \in DOMAIN calls, Serve(i)
      PROVE  Typing' /\ ServerTyped'
  BY <1>3, ServeSteps
<1>4. ASSUME NEW i \in DOMAIN calls, Deliver(i)
      PROVE  Typing' /\ ServerTyped'
  BY <1>1, <1>4, DeliverSteps
<1>5. CASE Expire
  BY <1>5, ExpireSteps
<1>6. CASE UNCHANGED vars
  BY <1>6 DEF vars, server, Typing, SessionTyped, ViewsTyped, CallsTyped,
              ServerTyped, LateTyped
<1>7. ASSUME NEW i \in DOMAIN calls, Break(i)
      PROVE  Typing' /\ ServerTyped'
  BY <1>7, BreakSteps
<1>8. ASSUME NEW n \in DOMAIN late, ServeLate(n)
      PROVE  Typing' /\ ServerTyped'
  BY <1>8, LateSteps
<1> QED
  BY <1>2, <1>3, <1>4, <1>5, <1>6, <1>7, <1>8 DEF Next

\* The type invariant is part of the typing.
LEMMA TypingImplies ==
  ASSUME Typing
  PROVE  TypeOK
<1>1. \A t \in Tabs : DOMAIN view[t] = DOMAIN Opened(view[t].page, NoCatalog)
  <2> TAKE t \in Tabs
  <2>1. view[t] = [f \in ViewFields(view[t].page) |-> view[t][f]]
    BY TabViews DEF IsView, HasFields
  <2>2. DOMAIN view[t] = ViewFields(view[t].page)
    BY <2>1
  <2> QED
    BY <2>2 DEF ViewFields
<1>2. \A i \in DOMAIN calls :
        calls[i].mounted => calls[i].what \in RequestsOf(view[calls[i].tab].page)
  BY CallFacts DEF Fits
<1> QED
  BY <1>1, <1>2 DEF Typing, SessionTyped, TypeOK

\* Everything is typed, always.
LEMMA TypingHolds == Spec => [](Typing /\ ServerTyped)
<1>1. Init => Typing /\ ServerTyped
  BY InitTyped
<1>2. Typing /\ ServerTyped /\ [Next]_vars => (Typing /\ ServerTyped)'
  BY NextTyped
<1> QED
  BY <1>1, <1>2, PTL DEF Spec

\* What the client holds has the shape its pages count on, and an answer a page
\* waits for is to one of that page's own requests.
THEOREM ClientTypeOK == Spec => []TypeOK
<1>1. Typing => TypeOK
  BY TypingImplies
<1> QED
  BY <1>1, TypingHolds, PTL

----------------------------------------------------------------------------
(* Sessions. *)

\* What was not issued yet nobody has; a request that was refused had no token
\* that is accepted.
TokensInv ==
  /\ issuable \cap (accepted \cup {stored}) = {}
  /\ \A i \in DOMAIN calls :
       /\ calls[i].token \notin issuable
       /\ (calls[i].what = "login" /\ calls[i].answer = "ok") =>
            calls[i].value \notin issuable
       /\ (calls[i].what # "login" /\ calls[i].answer = "refused") =>
            calls[i].token \notin accepted

\* Of what users do, only a logout changes the token in storage.
LEMMA StoredByUser ==
  ASSUME NEW t \in Tabs, User(t)
  PROVE  stored' = stored \/ Logout(t)
BY DEF User, Open, Reload, Load, Submit, Goto, Select, Refresh, RunByButton,
       RunByKey, Run, RunIn, Download, Click, StartEdit, HandleDelete, Cancel,
       HandleSubmit, SessionKept

\* Of the answers, a 401 and a login change it.
LEMMA StoredByAnswer ==
  ASSUME NEW i \in DOMAIN calls, Deliver(i)
  PROVE  stored' = stored \/ SessionEnds(i) \/ LoggedIn(i)
BY DEF Deliver, LoginFailed, ListShown, SchemaAnswered, CatalogsListed,
       CatalogsFailed, PulledBack, RunAnswered, KindAnswered, CellAnswered,
       Unshown, AxisListed, LevelsListed, LevelSet, LevelNotSet, RowsListed, Changed, NotChanged,
       NobodyWaits, SessionKept

\* A step of a tab that stores no new token keeps where tokens are.
LEMMA TabStepTokens ==
  ASSUME Typing, ServerTyped, TokensInv, NEW t, NEW page, StepOf(t, page),
         stored' \notin issuable
  PROVE  TokensInv'
<1>1. UNCHANGED <<issuable, accepted>>
  BY DEF StepOf, server
<1>2. ASSUME NEW k \in DOMAIN calls', NEW j \in DOMAIN calls,
             Weakened(calls'[k], calls[j])
      PROVE  /\ calls'[k].token \notin issuable
             /\ (calls'[k].what = "login" /\ calls'[k].answer = "ok") =>
                  calls'[k].value \notin issuable
             /\ (calls'[k].what # "login" /\ calls'[k].answer = "refused") =>
                  calls'[k].token \notin accepted
  BY <1>2 DEF Weakened, TokensInv
<1>3. ASSUME NEW k \in DOMAIN calls', SentNow(calls'[k])
      PROVE  calls'[k].token \notin issuable /\ calls'[k].answer = "none"
  BY <1>3 DEF SentNow
<1>4. issuable \cap (accepted \cup {stored'}) = {}
  BY DEF TokensInv
<1> QED
  BY <1>1, <1>2, <1>3, <1>4 DEF TokensInv, StepOf, OldOrSentNow

\* A token that is issued is new to every tab.
LEMMA ServeTokens ==
  ASSUME Typing, ServerTyped, TokensInv, NEW i \in DOMAIN calls, Serve(i)
  PROVE  TokensInv'
<1>0. Served(i) /\ UNCHANGED stored
  BY ServeSteps DEF Serve, ClientKept
<1>1. ASSUME NEW k \in DOMAIN calls \ {i}
      PROVE  calls'[k] = calls[k]
  BY <1>0 DEF Served
<1>2. CASE \E token \in issuable :
             /\ Answers(i, "ok", token) /\ calls[i].what = "login"
             /\ issuable' = issuable \ {token}
             /\ accepted' = accepted \cup {token}
  <2>1. PICK token \in issuable :
          /\ Answers(i, "ok", token) /\ calls[i].what = "login"
          /\ issuable' = issuable \ {token}
          /\ accepted' = accepted \cup {token}
    BY <1>2
  <2>2. calls'[i].answer = "ok" /\ calls'[i].value = token
    <3>1. PICK answer : answer = "ok" /\ Answers(i, answer, token)
      BY <2>1
    <3>2. token \in Tokens
      BY DEF ServerTyped
    <3> QED
      BY <2>1, <3>1, <3>2, ServedProperties DEF Typing, CallsTyped, ServerAnswers
  <2>3. ASSUME NEW k \in DOMAIN calls'
        PROVE  /\ calls'[k].token \notin issuable'
               /\ (calls'[k].what = "login" /\ calls'[k].answer = "ok") =>
                    calls'[k].value \notin issuable'
               /\ (calls'[k].what # "login" /\ calls'[k].answer = "refused") =>
                    calls'[k].token \notin accepted'
    <3>1. CASE k = i
      BY <1>0, <2>1, <2>2, <3>1 DEF Served, TokensInv
    <3>2. CASE k # i
      <4>1. k \in DOMAIN calls /\ calls'[k] = calls[k]
        BY <1>0, <3>2 DEF Served
      <4> QED
        BY <2>1, <4>1 DEF TokensInv
    <3> QED
      BY <3>1, <3>2
  <2>4. issuable' \cap (accepted' \cup {stored'}) = {}
    BY <1>0, <2>1 DEF TokensInv
  <2> QED
    BY <2>3, <2>4 DEF TokensInv
<1>3. CASE /\ UNCHANGED <<issuable, accepted>>
           /\ calls[i].what = "login" => calls'[i].answer # "ok"
           /\ (calls[i].what # "login" /\ calls'[i].answer = "refused") =>
                calls[i].token \notin accepted
  BY <1>0, <1>3 DEF Served, TokensInv
<1>4. ASSUME NEW answer, NEW value, Answers(i, answer, value),
             answer \in ServerAnswers, calls[i].what # "login",
             calls[i].what = "perms" /\ answer = "ok" => value \in ToSet(Levels)
      PROVE  calls'[i].answer = answer
  BY <1>4, ServedProperties DEF Typing, CallsTyped
<1>5. CASE ServeLogin(i)
  <2>1. CASE Answers(i, "refused", "") /\ UNCHANGED <<issuable, accepted>>
    <3>1. PICK answer, value : answer = "refused" /\ Answers(i, answer, value)
      BY <2>1
    <3>2. calls'[i].answer = "refused"
      BY <3>1, ServedProperties DEF Typing, CallsTyped, ServerAnswers
    <3> QED
      BY <1>3, <1>5, <2>1, <3>2 DEF ServeLogin
  <2> QED
    BY <1>2, <1>5, <2>1 DEF ServeLogin
<1>6. CASE Refuse(i)
  BY <1>3, <1>6 DEF Refuse, Refused, server
<1>7. ASSUME UNCHANGED <<issuable, accepted>>, calls[i].what # "login",
             NEW answer \in ServerAnswers \ {"refused"}, NEW value,
             Answers(i, answer, value),
             calls[i].what = "perms" /\ answer = "ok" => value \in ToSet(Levels)
      PROVE  TokensInv'
  <2>1. calls'[i].answer = answer
    BY <1>4, <1>7
  <2> QED
    BY <1>3, <1>7, <2>1
<1>8. CASE ServeLevels(i)
  <2>1. level \in ToSet(Levels) /\ "ok" \in ServerAnswers \ {"refused"}
    BY DEF Typing, SessionTyped, ServerAnswers
  <2> QED
    BY <1>7, <1>8, <2>1 DEF ServeLevels, server
<1>9. CASE \/ ServeSet(i) \/ ServeRemove(i) \/ ServeRows(i) \/ ServeUsers(i)
           \/ ServeList(i) \/ ServeTarget(i)
  <2>1. /\ calls[i].what \notin {"login", "perms"}
        /\ UNCHANGED <<issuable, accepted>>
        /\ \E answer \in {"ok", "failed"} : \E value : Answers(i, answer, value)
    BY <1>9 DEF ServeSet, SetLevel, ServeRemove, DeleteRow, ServeRows, ServeUsers,
                ServeList, ServeTarget, server
  <2> QED
    BY <1>7, <2>1 DEF ServerAnswers
<1>10. CASE ServeSave(i)
  <2>1. /\ calls[i].what = "save" /\ UNCHANGED <<issuable, accepted>>
        /\ \E answer \in SaveAnswers : \E value : Answers(i, answer, value)
    BY <1>10 DEF ServeSave, SaveStep
  <2> QED
    BY <1>7, <2>1 DEF ServerAnswers, SaveAnswers
<1> QED
  BY <1>5, <1>6, <1>8, <1>9, <1>10 DEF Serve

\* Every step keeps where tokens are.
LEMMA NextTokens ==
  ASSUME Typing, ServerTyped, TokensInv, [Next]_vars
  PROVE  TokensInv'
<1>0. NoToken \notin issuable /\ stored \notin issuable
  BY ClientAssumption DEF NoToken, ServerTyped, TokensInv
<1>1. ASSUME NEW t \in Tabs, User(t)
      PROVE  TokensInv'
  <2>1. stored' \notin issuable
    BY <1>0, <1>1, StoredByUser DEF Logout
  <2> QED
    BY <1>1, <2>1, UserSteps, TabStepTokens
<1>2. ASSUME NEW i \in DOMAIN calls, Deliver(i)
      PROVE  TokensInv'
  <2>1. stored' \notin issuable
    BY <1>0, <1>2, StoredByAnswer DEF SessionEnds, LoggedIn, Ok, TokensInv
  <2> QED
    BY <1>2, <2>1, DeliverSteps, TabStepTokens
<1>3. ASSUME NEW i \in DOMAIN calls, Serve(i)
      PROVE  TokensInv'
  BY <1>3, ServeTokens
<1>4. CASE Expire
  <2>1. UNCHANGED <<stored, calls, issuable>> /\ accepted' \subseteq accepted
    BY <1>4 DEF Expire, ClientKept
  <2> QED
    BY <2>1 DEF TokensInv
<1>5. CASE UNCHANGED vars
  BY <1>5 DEF vars, server, TokensInv
<1>6. ASSUME NEW i \in DOMAIN calls, Break(i)
      PROVE  TokensInv'
  <2>1. /\ Served(i) /\ UNCHANGED <<stored, issuable, accepted>>
        /\ calls'[i].answer = "lost"
    BY <1>6, BreakSteps
  <2> QED
    BY <2>1 DEF Served, TokensInv
<1>7. ASSUME NEW n \in DOMAIN late, ServeLate(n)
      PROVE  TokensInv'
  BY <1>7 DEF ServeLate, TokensInv
<1> QED
  BY <1>1, <1>2, <1>3, <1>4, <1>5, <1>6, <1>7 DEF Next

\* A session the server would go on to accept is thrown away only on purpose,
\* or by an answer that is about another token, or about a password.
THEOREM SessionsEndKnowingly == Spec => LiveSessionsEndKnowingly
<1>1. Init => TokensInv
  <2> SUFFICES ASSUME Init PROVE TokensInv
    OBVIOUS
  <2>1. /\ scene.logins \subseteq Tokens /\ stored \notin scene.logins
        /\ issuable = scene.logins /\ accepted \subseteq {stored}
        /\ DOMAIN calls = {}
    BY SceneFacts DEF Init
  <2> QED
    BY <2>1 DEF TokensInv
<1>2. /\ Typing /\ ServerTyped /\ TokensInv /\ [Next]_vars
      => TokensInv'
  BY NextTokens
<1> DEFINE Known ==
      (stored \in accepted /\ stored' = NoToken) =>
        \/ \E t \in Tabs : Logout(t)
        \/ \E i \in DOMAIN calls :
             /\ calls[i].answer = "refused"
             /\ calls[i].token \notin {NoToken, stored}
                  \/ (calls[i].what = "login" /\ calls[i].token = stored)
<1>3. ASSUME Typing, ServerTyped, TokensInv, [Next]_vars
      PROVE  Known
  <2> SUFFICES ASSUME stored \in accepted, stored' = NoToken,
                      \A t \in Tabs : ~Logout(t)
               PROVE  \E i \in DOMAIN calls :
                        /\ calls[i].answer = "refused"
                        /\ calls[i].token \notin {NoToken, stored}
                             \/ (calls[i].what = "login"
                                   /\ calls[i].token = stored)
    OBVIOUS
  <2>1. stored' # stored /\ NoToken \notin Tokens
    BY <1>3, ClientAssumption DEF NoToken, ServerTyped
  <2>2. PICK i \in DOMAIN calls : Deliver(i)
    BY <1>3, <2>1, StoredByUser
      DEF Next, vars, Serve, Break, ServeLate, Expire, ClientKept
  <2>3. ~LoggedIn(i)
    BY <1>3, <2>1, CallFacts DEF LoggedIn, Ok, IsCall
  <2>4. SessionEnds(i)
    BY <2>1, <2>2, <2>3, StoredByAnswer
  <2>5. calls[i].answer = "refused" /\ calls[i].token # NoToken
    BY <2>4 DEF SessionEnds, EndsSession
  <2> QED
    BY <1>3, <2>5 DEF TokensInv
<1>4. Typing /\ ServerTyped /\ TokensInv /\ [Next]_vars => [Known]_vars
  BY <1>3
<1> HIDE DEF Known
<1>5. Spec => [][Known]_vars
  BY <1>1, <1>2, <1>4, TypingHolds, PTL DEF Spec
<1> QED
  BY <1>5 DEF LiveSessionsEndKnowingly, Known

----------------------------------------------------------------------------
(* Pages and forms. *)

AdminAction(t) ==
  \/ \E c \in DOMAIN connections : StartEdit(t, c) \/ HandleDelete(t, c)
  \/ Cancel(t)
  \/ \E name \in scene.names : HandleSubmit(t, name)

\* The page that PulledBack opens was asked for without a catalog.
LEMMA PulledBackFrom ==
  ASSUME NEW i \in DOMAIN calls, PulledBack(i)
  PROVE  /\ calls[i].what = "catalogs" /\ ~calls[i].mounted
         /\ calls[i].arg = NoCatalog
BY DEF PulledBack, Defaults

\* What users do on a page leaves the tab at it.
LEMMA OtherActions ==
  ASSUME Typing, NEW t \in Tabs, User(t),
         ~(\/ Open(t) \/ Reload(t) \/ Submit(t) \/ Logout(t)
           \/ \E page \in Pages : Goto(t, page))
  PROVE  \/ StayOf(t, "query") \/ StayOf(t, "permissions")
         \/ AdminAction(t) /\ StayOf(t, "connectionsAdmin")
BY QueryActions, MatrixActions, AdminActions DEF User, AdminAction

\* A request that is served late leaves every tab at its page, and its form.
LEMMA LateKeepsPages ==
  ASSUME Typing, ServerTyped, NEW n \in DOMAIN late, ServeLate(n), NEW t \in Tabs
  PROVE  /\ view'[t].page = view[t].page
         /\ view[t].page = "connectionsAdmin" =>
              view'[t].editing = view[t].editing
<1> DEFINE v == UnawareOf(view[t], late[n])
<1>1. view'[t] = view[t] \/ (t = late[n].tab /\ view'[t] = v)
  BY LateSteps
<1>2. v.page = view[t].page
      /\ (view[t].page = "connectionsAdmin" => v.editing = view[t].editing)
  BY LateSteps, TabViews, UnawareView
<1> HIDE DEF v
<1> QED
  BY <1>1, <1>2

\* How a tab comes to the query page.
LEMMA QueryPageOpens ==
  ASSUME Typing, ServerTyped, [Next]_vars,
         NEW t \in Tabs, ~OnQueryPage(t), view'[t].page = "query"
  PROVE  \/ Open(t) \/ Goto(t, "query")
         \/ \E i \in DOMAIN calls :
              /\ calls[i].tab = t /\ calls[i].what = "catalogs"
              /\ ~calls[i].mounted /\ calls[i].arg = NoCatalog
<1>0. view'[t].page # view[t].page
  BY DEF OnQueryPage
<1>1. ASSUME NEW u, NEW page, StepOf(u, page)
      PROVE  t = u
  BY <1>0, <1>1 DEF StepOf, Untouched
<1>2. ASSUME NEW u \in Tabs, User(u)
      PROVE  Open(t) \/ Goto(t, "query")
  <2>1. CASE \/ Open(u) \/ Reload(u) \/ Submit(u) \/ Logout(u)
             \/ \E page \in Pages : Goto(u, page)
    BY <1>0, <1>1, <2>1, SessionActions DEF StayOf
  <2>2. CASE ~(\/ Open(u) \/ Reload(u) \/ Submit(u) \/ Logout(u)
               \/ \E page \in Pages : Goto(u, page))
    <3>1. \E page : StayOf(u, page)
      BY <1>2, <2>2, OtherActions
    <3> QED
      BY <1>0, <1>1, <3>1 DEF StayOf
  <2> QED
    BY <2>1, <2>2
<1>3. ASSUME NEW i \in DOMAIN calls, Deliver(i)
      PROVE  PulledBack(i) /\ calls[i].tab = t
  <2>1. SessionAnswers(i) \/ QueryAnswers(i) \/ MatrixAnswers(i) \/ AdminAnswers(i)
    BY <1>3 DEF Deliver, SessionAnswers, QueryAnswers, MatrixAnswers,
                AdminAnswers
  <2>2. ~SessionAnswers(i)
    BY <1>0, <1>1, SessionAnswersSteps DEF StayOf
  <2>3. ~MatrixAnswers(i) /\ ~AdminAnswers(i)
    BY <1>0, <1>1, MatrixAnswersSteps, AdminAnswersSteps DEF StayOf
  <2> QED
    BY <1>0, <1>1, <2>1, <2>2, <2>3, QueryAnswersSteps DEF StayOf
<1>4. /\ ~(\E i \in DOMAIN calls : Serve(i) \/ Break(i))
      /\ ~Expire /\ ~UNCHANGED vars
  BY <1>0 DEF Serve, Break, Expire, ClientKept, vars
<1>5. ~(\E n \in DOMAIN late : ServeLate(n))
  BY <1>0, LateKeepsPages
<1> QED
  BY <1>2, <1>3, <1>4, <1>5, PulledBackFrom DEF Next

\* The query page is opened by its user, or for the catalogs of an earlier visit
\* that named none.
THEOREM QueryPageOpensOnPurpose == Spec => PagesOpenOnPurpose
<1> DEFINE OnPurpose ==
      \A t \in Tabs :
        (~OnQueryPage(t) /\ view'[t].page = "query") =>
          \/ Open(t) \/ Goto(t, "query")
          \/ \E i \in DOMAIN calls :
               /\ calls[i].tab = t /\ calls[i].what = "catalogs"
               /\ ~calls[i].mounted /\ calls[i].arg = NoCatalog
<1>1. Typing /\ ServerTyped /\ [Next]_vars => [OnPurpose]_vars
  BY QueryPageOpens
<1> HIDE DEF OnPurpose
<1>2. Spec => [][OnPurpose]_vars
  BY <1>1, TypingHolds, PTL DEF Spec
<1> QED
  BY <1>2 DEF PagesOpenOnPurpose, OnPurpose

\* Who may empty the form of tab t.
Empties(t) ==
  \/ \E c \in DOMAIN connections : StartEdit(t, c)
  \/ Cancel(t) \/ Reload(t)
  \/ \E i \in DOMAIN calls :
       /\ calls[i].tab = t /\ Ok(i)
       /\ calls[i].what = "save" \/
            (calls[i].what = "remove"
               /\ calls[i].arg.id = calls[i].arg.editing)

\* An answer that changes the form empties it.
LEMMA AdminAnswersEmpty ==
  ASSUME Typing, NEW i \in DOMAIN calls, AdminAnswers(i), NEW t,
         t = calls[i].tab, view[t].page = "connectionsAdmin",
         view'[t].editing # view[t].editing
  PROVE  Empties(t)
<1>0. t \in Tabs /\ IsView(view[t]) /\ IsCall(calls[i])
  BY CallFacts, TabViews
<1>a. ASSUME NEW v, IsView(v), Becomes(t, v)
      PROVE  view'[t] = v
  BY <1>0, <1>a, OneViewChanges DEF Typing
<1>1. CASE RowsListed(i)
  <2>1. \/ UNCHANGED view \/ Becomes(t, WithRows(view[t], calls[i]))
    BY <1>1 DEF RowsListed, WithRows
  <2> DEFINE v == WithRows(view[t], calls[i])
  <2>2. IsView(v) /\ v.editing = view[t].editing
    BY <1>0, RowsView
  <2> HIDE DEF v
  <2> QED
    BY <1>a, <2>1, <2>2 DEF v
<1>2. CASE NotChanged(i)
  <2>1. Becomes(t, ListDoubted(view[t], Made(i))) /\ Made(i) \in BOOLEAN
    BY <1>2 DEF NotChanged, Made
  <2>2. /\ IsView(ListDoubted(view[t], Made(i)))
        /\ ListDoubted(view[t], Made(i)).editing = view[t].editing
    BY <1>0, <2>1, ListDoubtedView
  <2> QED
    BY <1>a, <2>1, <2>2
<1>3. CASE Changed(i) /\ ~calls[i].mounted
  <2>1. Becomes(t, Unknowing(view[t]))
    BY <1>3 DEF Changed, Unknowing
  <2>2. /\ IsView(Unknowing(view[t]))
        /\ Unknowing(view[t]).editing = view[t].editing
    BY <1>0, UnknowingView
  <2> QED
    BY <1>a, <2>1, <2>2
<1>4. CASE Changed(i) /\ calls[i].mounted
  <2> DEFINE empties == EmptiesForm(i)
             v == ChangeAnswered(view[t], empties)
  <2>1. Becomes(t, v) /\ Ok(i) /\ empties \in BOOLEAN
    BY <1>4 DEF Changed, ChangeAnswered, EmptiesForm
  <2>2. ~EmptiesForm(i) => ~empties
    OBVIOUS
  <2> HIDE DEF empties
  <2>3. IsView(v) /\ v.editing = IF empties THEN Adding ELSE view[t].editing
    BY <1>0, <2>1, ChangedView
  <2> HIDE DEF v
  <2>4. EmptiesForm(i)
    BY <1>a, <2>1, <2>2, <2>3
  <2> QED
    BY <2>1, <2>4 DEF EmptiesForm, Empties
<1> QED
  BY <1>1, <1>2, <1>3, <1>4 DEF AdminAnswers

\* The form changes as its user edits, cancels, or an answer empties it.
LEMMA FormStays ==
  ASSUME Typing, ServerTyped, [Next]_vars, NEW t \in Tabs,
         OnConnectionsAdmin(t), view'[t].page = "connectionsAdmin",
         view'[t].editing # view[t].editing
  PROVE  Empties(t)
<1>0. /\ view'[t] # view[t] /\ view[t].page = "connectionsAdmin"
      /\ "connectionsAdmin" \in Pages
  BY PagesAre DEF OnConnectionsAdmin
<1>1. ASSUME NEW u, NEW page, StepOf(u, page)
      PROVE  t = u
  BY <1>0, <1>1 DEF StepOf, Untouched
<1>2. ASSUME NEW page, StayOf(t, page)
      PROVE  page = "connectionsAdmin"
  BY <1>0, <1>2 DEF StayOf, Remains
<1>3. ASSUME NEW u \in Tabs, User(u)
      PROVE  Empties(t)
  <2>1. CASE \/ Open(u) \/ Reload(u) \/ Submit(u) \/ Logout(u)
             \/ \E page \in Pages : Goto(u, page)
    <3>1. u = t
      BY <1>1, <2>1, SessionActions
    <3>2. ~Open(t) /\ \A page \in Pages : Goto(t, page) => page # view[t].page
      BY <1>0 DEF Open, ClosedView, Goto
    <3>3. Reload(t)
      BY <1>0, <1>2, <2>1, <3>1, <3>2, SessionActions
    <3> QED
      BY <3>3 DEF Empties
  <2>2. CASE ~(\/ Open(u) \/ Reload(u) \/ Submit(u) \/ Logout(u)
               \/ \E page \in Pages : Goto(u, page))
    <3>1. u = t /\ AdminAction(t)
      BY <1>1, <1>2, <1>3, <2>2, OtherActions DEF StayOf
    <3>2. ASSUME view' = view PROVE FALSE
      BY <1>0, <3>2
    <3> QED
      BY <3>1, <3>2 DEF AdminAction, HandleDelete, HandleSubmit, Empties
  <2> QED
    BY <2>1, <2>2
<1>4. ASSUME NEW i \in DOMAIN calls, Deliver(i)
      PROVE  Empties(t)
  <2>1. SessionAnswers(i) \/ QueryAnswers(i) \/ MatrixAnswers(i) \/ AdminAnswers(i)
    BY <1>4 DEF Deliver, SessionAnswers, QueryAnswers, MatrixAnswers,
                AdminAnswers
  <2>2. ~SessionAnswers(i)
    BY <1>0, <1>1, <1>2, SessionAnswersSteps
  <2>3. ~QueryAnswers(i)
    BY <1>0, <1>1, <1>2, QueryAnswersSteps DEF StayOf
  <2>4. ~MatrixAnswers(i)
    BY <1>1, <1>2, MatrixAnswersSteps DEF StayOf
  <2>5. t = calls[i].tab
    BY <1>1, <2>1, <2>2, <2>3, <2>4, AdminAnswersSteps DEF StayOf
  <2> QED
    BY <1>0, <2>1, <2>2, <2>3, <2>4, <2>5, AdminAnswersEmpty
<1>5. /\ ~(\E i \in DOMAIN calls : Serve(i) \/ Break(i))
      /\ ~Expire /\ ~UNCHANGED vars
  BY <1>0 DEF Serve, Break, Expire, ClientKept, vars
<1>6. ~(\E n \in DOMAIN late : ServeLate(n))
  BY <1>0, LateKeepsPages
<1> QED
  BY <1>3, <1>4, <1>5, <1>6 DEF Next

\* An edit that is begun stays in the form until its user leaves it or the
\* answer comes to a save or to a deletion of what was edited.
THEOREM EditsStay == Spec => EditsStayInForm
<1> DEFINE Stay ==
      \A t \in Tabs :
        (/\ OnConnectionsAdmin(t) /\ view[t].editing # Adding
         /\ view'[t].page = "connectionsAdmin"
         /\ view'[t].editing # view[t].editing) =>
          \/ \E c \in DOMAIN connections : StartEdit(t, c)
          \/ Cancel(t) \/ Reload(t)
          \/ \E i \in DOMAIN calls :
               /\ calls[i].tab = t /\ Ok(i)
               /\ calls[i].what = "save" \/
                    (calls[i].what = "remove"
                       /\ calls[i].arg.id = calls[i].arg.editing)
<1>1. Typing /\ ServerTyped /\ [Next]_vars => [Stay]_vars
  BY FormStays DEF Empties
<1> HIDE DEF Stay
<1>2. Spec => [][Stay]_vars
  BY <1>1, TypingHolds, PTL DEF Spec
<1> QED
  BY <1>2 DEF EditsStayInForm, Stay


=============================================================================
