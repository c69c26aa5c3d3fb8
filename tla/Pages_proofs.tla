----------------------------- MODULE Pages_proofs -----------------------------
(* Proofs about cursor and offset pages, for any collection of documents that  *)
(* is finite, any page size, lifetime of a cursor and writes under way.        *)
EXTENDS CursorPages, FiniteSetTheorems, SequenceTheorems,
        WellFoundedInduction, TLAPS

(* The smallest of some naturals.                                              *)
LEMMA Smallest ==
  ASSUME NEW T, T \subseteq Nat, T # {}
  PROVE  \E n \in T : \A k \in T : n <= k
<1>1. PICK n \in T : \A k \in T : ~ (<<k, n>> \in OpToRel(<, Nat))
  BY NatLessThanWellFounded, WFMin
<1>2. \A k \in T : ~ (k < n)
  BY <1>1 DEF OpToRel
<1> QED
  BY <1>2

--------------------------------------------------------------------------------
(* The order of the documents.  Keys with all their fields are Dated.          *)
Directions == {"next", "prev"}

LEMMA KeysAreNaturals ==
  ASSUME NEW a \in Keys
  PROVE  a[1] \in Nat /\ a[2] \in Nat \ {0} /\ a = <<a[1], a[2]>> /\ (Dated(a) <=> a[1] # 0)
<1>1. a[1] \in Times /\ a[2] \in Ids /\ a = <<a[1], a[2]>>
  BY DEF Keys
<1>2. a[1] \in Nat /\ a[2] \in Nat \ {0}
  BY <1>1, PagesAssumption
<1>3. Dated(a) <=> a[1] # 0 /\ a[2] # 0
  BY DEF Dated, Fields
<1> QED
  BY <1>1, <1>2, <1>3

LEMMA SortsNext ==
  ASSUME NEW a, NEW b
  PROVE  Sorts("next", a, b) <=> b[1] < a[1] \/ (a[1] = b[1] /\ b[2] < a[2])
BY DEF Sorts, Beyond, Fields

LEMMA SortsPrev ==
  ASSUME NEW a \in Keys, NEW b \in Keys
  PROVE  Sorts("prev", a, b) <=> Sorts("next", b, a)
BY KeysAreNaturals, SortsNext DEF Sorts, Beyond, Fields

LEMMA Irreflexive ==
  ASSUME NEW dir \in Directions, NEW a \in Keys
  PROVE  ~ Sorts(dir, a, a)
BY KeysAreNaturals, SortsNext, SortsPrev DEF Directions

LEMMA Transitive ==
  ASSUME NEW dir \in Directions, NEW a \in Keys, NEW b \in Keys, NEW c \in Keys,
         Sorts(dir, a, b), Sorts(dir, b, c)
  PROVE  Sorts(dir, a, c)
BY KeysAreNaturals, SortsNext, SortsPrev DEF Directions

LEMMA Total ==
  ASSUME NEW dir \in Directions, NEW a \in Keys, NEW b \in Keys
  PROVE  a = b \/ Sorts(dir, a, b) \/ Sorts(dir, b, a)
BY KeysAreNaturals, SortsNext, SortsPrev DEF Directions

(* Documents without a date come last on the way on.                           *)
LEMMA DatedFirst ==
  ASSUME NEW a \in Keys, NEW b \in Keys, Dated(b), ~ Sorts("next", b, a)
  PROVE  Dated(a)
BY KeysAreNaturals, SortsNext, Total

(* What a dated cursor finds are the dated documents beyond it.                *)
LEMMA MatchesBeyond ==
  ASSUME NEW d \in Keys, NEW c, c.from \in Keys, Dated(c.from), c.direction \in Directions
  PROVE  Matches(c, d) <=> Dated(d) /\ Sorts(c.direction, c.from, d)
<1>1. c # NoCursor
  BY KeysAreNaturals DEF NoCursor
<1>2. Matches(c, d) <=> Clause(c, d, 1) \/ Clause(c, d, 2)
  BY <1>1 DEF Matches, Fields
<1>3. /\ Clause(c, d, 1) <=> Beyond(c.direction, d[1], c.from[1]) /\ d[1] # 0
      /\ Clause(c, d, 2) <=> d[1] = c.from[1] /\ Beyond(c.direction, d[2], c.from[2]) /\ d[2] # 0
  BY DEF Clause
<1>4. d[1] \in Nat /\ d[2] \in Nat \ {0} /\ (Dated(d) <=> d[1] # 0)
  BY KeysAreNaturals
<1>5. c.from[1] \in Nat \ {0} /\ c.from[2] \in Nat \ {0}
  BY KeysAreNaturals
<1>6. CASE c.direction = "next"
  BY <1>2, <1>3, <1>4, <1>5, <1>6, SortsNext DEF Beyond
<1>7. CASE c.direction = "prev"
  BY <1>2, <1>3, <1>4, <1>5, <1>7, SortsNext, SortsPrev DEF Beyond
<1> QED
  BY <1>6, <1>7 DEF Directions

--------------------------------------------------------------------------------
(* The sort.  The rank of a document is the number of those before it.         *)
Rank(dir, S, d) == Cardinality({e \in S : Sorts(dir, e, d)})

LEMMA RankGrows ==
  ASSUME NEW dir \in Directions, NEW S, S \subseteq Keys, IsFiniteSet(S), NEW d \in S
  PROVE  /\ Rank(dir, S, d) \in Nat /\ Rank(dir, S, d) < Cardinality(S)
         /\ \A e \in S : Sorts(dir, d, e) => Rank(dir, S, d) < Rank(dir, S, e)
<1> DEFINE before(x) == {e \in S : Sorts(dir, e, x)}
<1>1. \A x : IsFiniteSet(before(x)) /\ Cardinality(before(x)) \in Nat /\ Rank(dir, S, x) = Cardinality(before(x))
  BY FS_Subset, FS_CardinalityType DEF Rank
<1>2. d \notin before(d) /\ before(d) \subseteq S
  BY Irreflexive
<1>3. Cardinality(before(d)) < Cardinality(S)
  <2>1. before(d) \in SUBSET S /\ S # before(d)
    BY <1>2
  <2>2. Cardinality(before(d)) <= Cardinality(S) /\ Cardinality(S) # Cardinality(before(d))
    BY <2>1, FS_Subset
  <2> QED
    BY <1>1, <2>2, FS_CardinalityType
<1>4. ASSUME NEW e \in S, Sorts(dir, d, e)
      PROVE  Cardinality(before(d)) < Cardinality(before(e))
  <2>1. before(d) \subseteq before(e)
    BY <1>4, Transitive
  <2>2. d \in before(e)
    BY <1>4
  <2> QED
    <3>1. before(d) \in SUBSET before(e) /\ before(e) # before(d) /\ IsFiniteSet(before(e))
      BY <1>1, <1>2, <2>1, <2>2
    <3> HIDE DEF before
    <3>2. /\ Cardinality(before(d)) <= Cardinality(before(e))
          /\ Cardinality(before(e)) # Cardinality(before(d))
      BY <3>1, FS_Subset
    <3> QED
      BY <1>1, <3>2
<1> HIDE DEF before
<1> QED
  BY <1>1, <1>3, <1>4

LEMMA EveryRank ==
  ASSUME NEW dir \in Directions, NEW S, S \subseteq Keys, IsFiniteSet(S), NEW i \in 1..Cardinality(S)
  PROVE  \E d \in S : Rank(dir, S, d) = i - 1
<1> DEFINE n == Cardinality(S)
           r == [d \in S |-> Rank(dir, S, d) + 1]
<1>1. n \in Nat /\ IsFiniteSet(1..n) /\ Cardinality(1..n) = n
  BY FS_CardinalityType, FS_Interval
<1>2. r \in [S -> 1..n]
  BY <1>1, RankGrows
<1>3. \A d, e \in S : r[d] = r[e] => d = e
  <2> SUFFICES ASSUME NEW d \in S, NEW e \in S, r[d] = r[e], d # e PROVE FALSE
    OBVIOUS
  <2>1. Sorts(dir, d, e) \/ Sorts(dir, e, d)
    BY Total
  <2>2. Rank(dir, S, d) \in Nat /\ Rank(dir, S, e) \in Nat /\ Rank(dir, S, d) # Rank(dir, S, e)
    BY <2>1, RankGrows
  <2> QED
    BY <2>2
<1> HIDE DEF r
<1>4. r \in Injection(S, 1..n)
  BY <1>2, <1>3 DEF Injection, IsInjective
<1>5. r \in Surjection(S, 1..n)
  BY <1>1, <1>4, FS_Injection
<1>6. PICK d \in S : r[d] = i
  BY <1>5 DEF Surjection
<1>7. Rank(dir, S, d) + 1 = i /\ Rank(dir, S, d) \in Nat
  BY <1>6, RankGrows DEF r
<1> QED
  BY <1>7

LEMMA InOrderSorts ==
  ASSUME NEW dir \in Directions, NEW S, S \subseteq Keys, IsFiniteSet(S)
  PROVE  /\ Cardinality(S) \in Nat
         /\ InOrder(dir, S) \in [1..Cardinality(S) -> S]
         /\ \A i, j \in 1..Cardinality(S) : i < j => Sorts(dir, InOrder(dir, S)[i], InOrder(dir, S)[j])
         /\ \A d \in S : \E i \in 1..Cardinality(S) : InOrder(dir, S)[i] = d
<1> DEFINE n == Cardinality(S)
           f == InOrder(dir, S)
<1>1. n \in Nat
  BY FS_CardinalityType
<1> DEFINE at(i) == CHOOSE d \in S : Rank(dir, S, d) = i - 1
<1>2. f = [i \in 1..n |-> at(i)]
  BY DEF InOrder, Rank
<1> HIDE DEF f
<1>3. \A i \in 1..n : f[i] = at(i) /\ at(i) \in S /\ Rank(dir, S, at(i)) = i - 1
  BY <1>2, EveryRank
<1> HIDE DEF at
<1>4. \A i \in 1..n : f[i] \in S /\ Rank(dir, S, f[i]) = i - 1
  BY <1>3
<1>5. f \in [1..n -> S]
  BY <1>2, <1>3
<1>6. \A d, e \in S : Rank(dir, S, d) < Rank(dir, S, e) => Sorts(dir, d, e)
  <2> SUFFICES ASSUME NEW d \in S, NEW e \in S, Rank(dir, S, d) < Rank(dir, S, e), ~ Sorts(dir, d, e)
               PROVE  FALSE
    OBVIOUS
  <2>1. d = e \/ Sorts(dir, e, d)
    BY Total
  <2>2. Rank(dir, S, d) \in Nat /\ Rank(dir, S, e) \in Nat
    BY RankGrows
  <2>3. d # e
    BY <2>2
  <2> QED
    BY <2>1, <2>2, <2>3, RankGrows
<1>7. \A i, j \in 1..n : i < j => Sorts(dir, f[i], f[j])
  BY <1>1, <1>4, <1>6
<1>8. ASSUME NEW d \in S
      PROVE  \E i \in 1..n : f[i] = d
  <2>1. Rank(dir, S, d) \in Nat /\ Rank(dir, S, d) < n
    BY RankGrows
  <2>2. PICK i \in 1..n : i = Rank(dir, S, d) + 1
    BY <1>1, <2>1
  <2>3. Rank(dir, S, f[i]) = Rank(dir, S, d) /\ f[i] \in S
    BY <1>4, <2>1, <2>2
  <2>4. f[i] = d
    BY <2>1, <2>3, Total, RankGrows
  <2> QED
    BY <2>4
<1> QED
  BY <1>1, <1>5, <1>7, <1>8 DEF f

--------------------------------------------------------------------------------
LEMMA FirstOnes ==
  ASSUME NEW S, NEW s \in Seq(S), NEW m \in 0..Len(s)
  PROVE  /\ SubSeq(s, 1, m) \in Seq(S) /\ Len(SubSeq(s, 1, m)) = m
         /\ \A i \in 1..m : SubSeq(s, 1, m)[i] = s[i]
<1>1. m \in Nat /\ m <= Len(s) /\ Len(s) \in Nat
  OBVIOUS
<1>2. \A i \in 1..m : s[i] \in S
  BY <1>1
<1> QED
  BY <1>1, <1>2, SubSeqProperties

LEMMA Turned ==
  ASSUME NEW S, NEW s \in Seq(S)
  PROVE  /\ Reverse(s) \in Seq(S) /\ Len(Reverse(s)) = Len(s)
         /\ \A i \in 1..Len(s) : Reverse(s)[i] = s[Len(s) - i + 1] /\ Len(s) - i + 1 \in 1..Len(s)
<1>1. Len(s) \in Nat /\ \A i \in 1..Len(s) : s[i] \in S
  OBVIOUS
<1>2. \A i \in 1..Len(s) : Len(s) - i + 1 \in 1..Len(s)
  BY <1>1
<1>3. Reverse(s) = [i \in 1..Len(s) |-> s[Len(s) - i + 1]]
  BY DEF Reverse
<1>4. Reverse(s) \in [1..Len(s) -> S]
  BY <1>1, <1>2, <1>3
<1>5. Reverse(s) \in Seq(S) /\ Len(Reverse(s)) = Len(s)
  BY <1>1, <1>4, IsASeq, LenProperties
<1> QED
  BY <1>2, <1>3, <1>5

(* A page.  Its items are the first of what was found, in the direction of the *)
(* cursor, and are shown in descending order.                                  *)
IsPage(items, dir, found, more) ==
  /\ items \in Seq(found) /\ Len(items) <= PageSize
  /\ \A i, j \in 1..Len(items) : i < j => Sorts("next", items[i], items[j])
  /\ more => Len(items) = PageSize
  /\ ~ more => found \subseteq ToSet(items)
  /\ \A e \in ToSet(items), d \in found \ ToSet(items) : Sorts(dir, e, d)

Fetched(cursor) == {d \in docs : Matches(cursor, d)}

Collection == docs \subseteq Keys /\ IsFiniteSet(docs)

LEMMA ProcessedIsPage ==
  ASSUME NEW dir \in Directions, NEW S, S \subseteq Keys, IsFiniteSet(S),
         NEW f, f = InOrder(dir, S), NEW raw,
         raw = SubSeq(f, 1, IF Len(f) > PageSize THEN PageSize + 1 ELSE Len(f))
  PROVE  IsPage(Processed(raw, dir), dir, S, HasExtra(raw)) /\ HasExtra(raw) \in BOOLEAN
<1> DEFINE n == Cardinality(S)
           m == IF n > PageSize THEN PageSize ELSE n
           cut == SubSeq(raw, 1, IF HasExtra(raw) THEN PageSize ELSE Len(raw))
           items == Processed(raw, dir)
<1>1. /\ n \in Nat /\ f \in Seq(S) /\ Len(f) = n
      /\ \A i, j \in 1..n : i < j => Sorts(dir, f[i], f[j])
      /\ \A d \in S : \E i \in 1..n : f[i] = d
      /\ PageSize \in Nat \ {0}
  <2>1. /\ n \in Nat /\ f \in [1..n -> S]
        /\ \A i, j \in 1..n : i < j => Sorts(dir, f[i], f[j])
        /\ \A d \in S : \E i \in 1..n : f[i] = d
    BY InOrderSorts
  <2>2. f \in Seq(S) /\ Len(f) = n
    BY <2>1, IsASeq, LenProperties
  <2> QED
    BY <2>1, <2>2, PagesAssumption
<1>2. /\ raw \in Seq(S) /\ Len(raw) = (IF n > PageSize THEN PageSize + 1 ELSE n)
      /\ \A i \in 1..Len(raw) : raw[i] = f[i]
  <2> DEFINE k == IF n > PageSize THEN PageSize + 1 ELSE n
  <2>1. raw = SubSeq(f, 1, k) /\ k \in 0..Len(f)
    BY <1>1
  <2> HIDE DEF k
  <2>2. raw \in Seq(S) /\ Len(raw) = k /\ \A i \in 1..k : raw[i] = f[i]
    BY <1>1, <2>1, FirstOnes
  <2> QED
    BY <2>2 DEF k
<1>3. HasExtra(raw) <=> n > PageSize
  BY <1>1, <1>2 DEF HasExtra
<1>4. cut \in Seq(S) /\ Len(cut) = m /\ m \in 0..n /\ m <= PageSize /\ \A i \in 1..m : cut[i] = f[i]
  <2>1. m \in 0..Len(raw) /\ m \in 0..n /\ m <= PageSize /\ Len(raw) <= n
    <3>1. Len(raw) = IF n > PageSize THEN PageSize + 1 ELSE n
      BY <1>2
    <3>2. n \in Nat /\ PageSize \in Nat
      BY <1>1
    <3> QED
      BY ONLY <3>1, <3>2
  <2>2. cut = SubSeq(raw, 1, m)
    BY <1>2, <1>3
  <2> HIDE DEF cut, m
  <2>3. cut \in Seq(S) /\ Len(cut) = m /\ \A i \in 1..m : cut[i] = raw[i]
    BY <1>2, <2>1, <2>2, FirstOnes
  <2>4. \A i \in 1..m : raw[i] = f[i]
    BY <1>2, <2>1
  <2> QED
    BY <2>1, <2>3, <2>4
<1>5. items = IF dir = "next" THEN cut ELSE Reverse(cut)
  BY DEF Processed
<1> HIDE DEF cut, items
<1>m. m \in Nat /\ m <= n /\ (n <= PageSize => m = n) /\ (n > PageSize => m = PageSize)
  BY <1>1, <1>4
<1> HIDE DEF m
<1>6. /\ items \in Seq(S) /\ Len(items) = m
      /\ dir # "next" => \A i \in 1..m : items[i] = f[m - i + 1] /\ m - i + 1 \in 1..m
  BY <1>4, <1>5, Turned
<1>7. ToSet(items) = {f[i] : i \in 1..m}
  <2>1. CASE dir = "next"
    BY <1>4, <1>5, <2>1 DEF ToSet
  <2>2. CASE dir # "next"
    <3>1. \A i \in 1..m : items[i] = f[m - i + 1]
      BY <1>6, <2>2
    <3>2. \A i \in 1..m : m - i + 1 \in 1..m /\ m - (m - i + 1) + 1 = i
      BY <1>m
    <3>3. DOMAIN items = 1..m
      BY <1>6
    <3> QED
      BY <3>1, <3>2, <3>3 DEF ToSet
  <2> QED
    BY <2>1, <2>2
<1>8. \A i, j \in 1..m : i < j => Sorts("next", items[i], items[j])
  <2>1. CASE dir = "next"
    <3>1. \A i \in 1..m : items[i] = f[i] /\ i \in 1..n
      BY <1>1, <1>4, <1>5, <1>m, <2>1
    <3>2. \A i, j \in 1..n : i < j => Sorts("next", f[i], f[j])
      BY <1>1, <2>1
    <3> QED
      BY <3>1, <3>2
  <2>2. CASE dir = "prev"
    <3> SUFFICES ASSUME NEW i \in 1..m, NEW j \in 1..m, i < j
                 PROVE  Sorts("next", items[i], items[j])
      OBVIOUS
    <3>1. items[i] = f[m - i + 1] /\ items[j] = f[m - j + 1]
      BY <1>6, <2>2
    <3>2. m - i + 1 \in 1..n /\ m - j + 1 \in 1..n /\ m - j + 1 < m - i + 1
      BY <1>1, <1>m
    <3>3. Sorts("prev", f[m - j + 1], f[m - i + 1])
      BY <1>1, <2>2, <3>2
    <3>4. f[m - j + 1] \in Keys /\ f[m - i + 1] \in Keys
      BY <1>1, <3>2
    <3> QED
      BY <3>1, <3>3, <3>4, SortsPrev
  <2> QED
    BY <2>1, <2>2 DEF Directions
<1>9. \A e \in ToSet(items), d \in S \ ToSet(items) : Sorts(dir, e, d)
  <2> SUFFICES ASSUME NEW e \in ToSet(items), NEW d \in S \ ToSet(items)
               PROVE  Sorts(dir, e, d)
    OBVIOUS
  <2>1. PICK i \in 1..m : e = f[i]
    BY <1>7
  <2>2. PICK j \in 1..n : d = f[j]
    BY <1>1
  <2>3. j \notin 1..m
    BY <1>7, <2>2
  <2>4. i \in 1..n /\ i < j
    BY <1>1, <1>4, <2>3
  <2> QED
    BY <1>1, <2>1, <2>2, <2>4
<1>10. n <= PageSize => S \subseteq ToSet(items)
  BY <1>1, <1>7, <1>m
<1>11. IsPage(items, dir, S, HasExtra(raw))
  BY <1>1, <1>3, <1>4, <1>6, <1>8, <1>9, <1>10, <1>m DEF IsPage
<1>12. HasExtra(raw) \in BOOLEAN
  BY DEF HasExtra
<1> QED
  BY <1>11, <1>12 DEF items

LEMMA PageOf ==
  ASSUME Collection, NEW cursor, cursor.direction \in Directions, NEW genuine,
         DecodeError(cursor, genuine) = "none"
  PROVE  LET p == Paginate(cursor, genuine)
         IN  /\ p.error = "none" /\ p.made = seconds /\ p.asOf = writes
             /\ \E more \in BOOLEAN :
                  /\ IsPage(p.items, cursor.direction, Fetched(cursor), more)
                  /\ p.next = NextOf(cursor, p.items, more)
                  /\ p.prev = PrevOf(cursor, p.items, more)
<1> DEFINE dir == cursor.direction
           f == InOrder(dir, Fetched(cursor))
           raw == SubSeq(f, 1, IF Len(f) > PageSize THEN PageSize + 1 ELSE Len(f))
           items == Processed(raw, dir)
           p == Paginate(cursor, genuine)
<1>1. Fetched(cursor) \subseteq Keys /\ IsFiniteSet(Fetched(cursor))
  BY FS_Subset DEF Fetched, Collection
<1>2. IsPage(items, dir, Fetched(cursor), HasExtra(raw)) /\ HasExtra(raw) \in BOOLEAN
  BY <1>1, ProcessedIsPage
<1>3. p = [items |-> items, error |-> "none", made |-> seconds, asOf |-> writes,
           next |-> NextOf(cursor, items, HasExtra(raw)),
           prev |-> PrevOf(cursor, items, HasExtra(raw))]
  BY DEF Paginate, Fetched
<1> HIDE DEF p, items, raw
<1> QED
  BY <1>2, <1>3 DEF p

LEMMA RefusedPage ==
  ASSUME NEW cursor, NEW genuine, DecodeError(cursor, genuine) # "none"
  PROVE  Paginate(cursor, genuine) =
           [items |-> << >>, next |-> NoCursor, prev |-> NoCursor,
            error |-> DecodeError(cursor, genuine), made |-> seconds, asOf |-> writes]
BY DEF Paginate, NoPage

--------------------------------------------------------------------------------
(* Descending sequences of documents.                                          *)
Descending(s) == \A i, j \in 1..Len(s) : i < j => Sorts("next", s[i], s[j])

LEMMA Ends ==
  ASSUME NEW s \in Seq(Keys), s # << >>, Descending(s)
  PROVE  /\ Len(s) \in Nat \ {0} /\ Head(s) = s[1] /\ Last(s) = s[Len(s)]
         /\ Head(s) \in ToSet(s) /\ Last(s) \in ToSet(s) /\ ToSet(s) \subseteq Keys
         /\ \A d \in ToSet(s) : ~ Sorts("next", d, Head(s)) /\ ~ Sorts("next", Last(s), d)
<1>1. Len(s) \in Nat \ {0} /\ DOMAIN s = 1..Len(s) /\ \A i \in 1..Len(s) : s[i] \in Keys
  BY EmptySeq, LenProperties, ElementOfSeq
<1>2. Head(s) = s[1] /\ Last(s) = s[Len(s)]
  BY <1>1 DEF Last
<1>3. 1 \in 1..Len(s) /\ Len(s) \in 1..Len(s)
  BY <1>1
<1>4. ASSUME NEW i \in 1..Len(s)
      PROVE  ~ Sorts("next", s[i], s[1]) /\ ~ Sorts("next", s[Len(s)], s[i])
  <2>1. i = 1 \/ Sorts("next", s[1], s[i])
    BY <1>1, <1>3 DEF Descending
  <2>2. i = Len(s) \/ Sorts("next", s[i], s[Len(s)])
    <3>1. \A k, l \in Nat : k \in 1..l => k = l \/ k < l
      OBVIOUS
    <3>2. i \in 1..Len(s) /\ i \in Nat
      BY <1>1
    <3>3. i = Len(s) \/ i < Len(s)
      BY <1>1, <3>1, <3>2
    <3> QED
      BY <1>3, <3>3 DEF Descending
  <2>3. "next" \in Directions /\ s[i] \in Keys /\ s[1] \in Keys /\ s[Len(s)] \in Keys
    BY <1>1, <1>3 DEF Directions
  <2> QED
    BY <2>1, <2>2, <2>3, Transitive, Irreflexive
<1> QED
  BY <1>1, <1>2, <1>3, <1>4 DEF ToSet

LEMMA AsManyAsItems ==
  ASSUME NEW s \in Seq(Keys), Descending(s)
  PROVE  IsFiniteSet(ToSet(s)) /\ Cardinality(ToSet(s)) = Len(s) /\ Len(s) \in Nat
<1>1. Len(s) \in Nat /\ DOMAIN s = 1..Len(s) /\ s \in [1..Len(s) -> Keys]
  BY LenProperties
<1>2. IsFiniteSet(1..Len(s)) /\ Cardinality(1..Len(s)) = Len(s)
  <2>1. 1 \in Int /\ Len(s) \in Int
    BY ONLY <1>1
  <2>2. /\ IsFiniteSet(1..Len(s))
        /\ Cardinality(1..Len(s)) = IF 1 > Len(s) THEN 0 ELSE Len(s) - 1 + 1
    BY ONLY <2>1, FS_Interval, ZenonT(60)
  <2> QED
    BY ONLY <1>1, <2>2
<1>3. s \in Surjection(1..Len(s), ToSet(s))
  <2>1. s \in [1..Len(s) -> ToSet(s)]
    BY <1>1 DEF ToSet
  <2> QED
    BY <1>1, <2>1 DEF Surjection, ToSet
<1>4. \A i, j \in 1..Len(s) : s[i] = s[j] => i = j
  <2> SUFFICES ASSUME NEW i \in 1..Len(s), NEW j \in 1..Len(s), i < j, s[i] = s[j] PROVE FALSE
    BY <1>1
  <2>1. Sorts("next", s[i], s[i]) /\ s[i] \in Keys
    BY <1>1 DEF Descending
  <2> QED
    BY <2>1, Irreflexive DEF Directions
<1>5. s \in Injection(1..Len(s), ToSet(s))
  BY <1>1, <1>3, <1>4 DEF Surjection, Injection, IsInjective
<1> QED
  BY <1>1, <1>2, <1>3, <1>5, FS_Surjection

LEMMA OnlyOneDescends ==
  ASSUME NEW s \in Seq(Keys), Descending(s), NEW t \in Seq(Keys), Descending(t), ToSet(s) = ToSet(t)
  PROVE  s = t
<1>1. /\ Len(s) = Len(t) /\ Len(s) \in Nat
      /\ \A i \in 1..Len(s) : s[i] \in Keys /\ t[i] \in Keys
      /\ DOMAIN s = 1..Len(s) /\ DOMAIN t = 1..Len(s)
  BY AsManyAsItems, ElementOfSeq, LenProperties
<1> DEFINE differ == {i \in 1..Len(s) : s[i] # t[i]}
<1>2. SUFFICES ASSUME differ # {} PROVE FALSE
  BY <1>1, SeqEqual
<1>3. PICK i \in differ : \A j \in differ : i <= j
  <2>1. differ \subseteq Nat
    BY <1>1
  <2> HIDE DEF differ
  <2> QED
    BY <1>2, <2>1, Smallest
<1>4. PICK k \in 1..Len(s) : s[i] = t[k]
  BY <1>1 DEF ToSet
<1>5. PICK l \in 1..Len(s) : t[i] = s[l]
  BY <1>1 DEF ToSet
<1>6. i < k /\ i < l
  <2>1. \A j \in 1..Len(s) : j < i => s[j] = t[j]
    BY <1>1, <1>3
  <2>2. \A a, b \in 1..Len(s) : a < b => s[a] # s[b] /\ t[a] # t[b]
    BY <1>1, Irreflexive DEF Descending, Directions
  <2>3. i # k /\ i # l
    BY <1>3, <1>4, <1>5
  <2> QED
    BY <1>1, <1>3, <1>4, <1>5, <2>1, <2>2, <2>3
<1>7. Sorts("next", t[i], t[k]) /\ Sorts("next", s[i], s[l])
  BY <1>1, <1>3, <1>6 DEF Descending
<1>8. Sorts("next", t[i], s[i]) /\ Sorts("next", s[i], t[i]) /\ s[i] \in Keys /\ t[i] \in Keys
  BY <1>1, <1>3, <1>4, <1>5, <1>7
<1> QED
  BY <1>8, Transitive, Irreflexive DEF Directions

--------------------------------------------------------------------------------
(* The set of a sequence of keys grows by what is put behind it.               *)
LEMMA PutBehind ==
  ASSUME NEW s \in Seq(Keys), Descending(s), s # << >>, NEW t \in Seq(Keys), Descending(t),
         \A d \in ToSet(t) : Sorts("next", Last(s), d)
  PROVE  /\ s \o t \in Seq(Keys) /\ Descending(s \o t) /\ s \o t # << >>
         /\ ToSet(s \o t) = ToSet(s) \union ToSet(t)
         /\ Last(s \o t) = IF t = << >> THEN Last(s) ELSE Last(t)
<1> DEFINE m == Len(s)
           n == Len(t)
           u == s \o t
<1>1. /\ m \in Nat \ {0} /\ n \in Nat /\ DOMAIN s = 1..m /\ DOMAIN t = 1..n
      /\ \A i \in 1..m : s[i] \in Keys
      /\ \A i \in 1..n : t[i] \in Keys /\ t[i] \in ToSet(t)
      /\ t = << >> <=> n = 0
  BY EmptySeq, LenProperties, ElementOfSeq DEF ToSet
<1>2. /\ u \in Seq(Keys) /\ Len(u) = m + n /\ DOMAIN u = 1..(m + n)
      /\ \A i \in 1..m : u[i] = s[i]
      /\ \A i \in 1..n : u[m + i] = t[i]
      /\ \A i \in (m + 1)..(m + n) : u[i] = t[i - m]
  BY <1>1, ConcatProperties, LenProperties
<1>3. u # << >>
  BY <1>1, <1>2
<1>4. \A i \in 1..(m + n) : i \in 1..m \/ (i \in (m + 1)..(m + n) /\ i - m \in 1..n)
  BY <1>1
<1>5. ToSet(u) = ToSet(s) \union ToSet(t)
  <2>1. \A i \in 1..n : m + i \in 1..(m + n)
    BY <1>1
  <2>2. \A i \in 1..m : i \in 1..(m + n)
    BY <1>1
  <2>3. ToSet(u) = {u[i] : i \in 1..(m + n)} /\ ToSet(s) = {s[i] : i \in 1..m} /\ ToSet(t) = {t[i] : i \in 1..n}
    BY <1>1, <1>2 DEF ToSet
  <2> HIDE DEF u, m, n
  <2>4. {u[i] : i \in 1..(m + n)} = {s[i] : i \in 1..m} \union {t[i] : i \in 1..n}
    <3>1. \A i \in 1..m : i \in 1..(m + n) /\ u[i] = s[i]
      BY <1>2, <2>2
    <3>2. \A i \in 1..n : m + i \in 1..(m + n) /\ u[m + i] = t[i]
      BY <1>2, <2>1
    <3>3. \A i \in 1..(m + n) : (i \in 1..m /\ u[i] = s[i]) \/ (i - m \in 1..n /\ u[i] = t[i - m])
      BY <1>2, <1>4
    <3> QED
      BY ONLY <3>1, <3>2, <3>3
  <2> QED
    BY <2>3, <2>4
<1>6. Last(u) = IF t = << >> THEN Last(s) ELSE Last(t)
  <2>1. Last(u) = u[m + n] /\ Last(s) = s[m] /\ Last(t) = t[n]
    BY <1>2 DEF Last
  <2>2. CASE n = 0
    BY <1>1, <1>2, <2>1, <2>2
  <2>3. CASE n # 0
    <3>1. n \in 1..n
      BY <1>1, <2>3
    <3> QED
      BY <1>1, <1>2, <2>1, <2>3, <3>1
  <2> QED
    BY <2>2, <2>3
<1>7. ASSUME NEW i \in 1..(m + n), NEW j \in 1..(m + n), i < j
      PROVE  Sorts("next", u[i], u[j])
  <2>1. CASE j \in 1..m
    <3>1. i \in 1..m
      BY <1>1, <1>7, <2>1
    <3> QED
      BY <1>2, <1>7, <2>1, <3>1 DEF Descending
  <2>2. CASE j \notin 1..m
    <3>1. u[j] = t[j - m] /\ j - m \in 1..n
      BY <1>2, <1>4, <2>2
    <3>2. CASE i \notin 1..m
      <4>1. u[i] = t[i - m] /\ i - m \in 1..n /\ i - m < j - m
        BY <1>1, <1>2, <1>4, <1>7, <3>2
      <4> QED
        BY <3>1, <4>1 DEF Descending
    <3>3. CASE i \in 1..m
      <4>1. u[i] = s[i] /\ s[i] \in Keys /\ s[i] \in ToSet(s) /\ t[j - m] \in ToSet(t) /\ t[j - m] \in Keys
        BY <1>1, <1>2, <3>1, <3>3 DEF ToSet
      <4>2. Sorts("next", Last(s), t[j - m])
        BY <4>1
      <4>3. Last(s) \in Keys /\ ~ Sorts("next", Last(s), s[i])
        BY <4>1, Ends
      <4>4. s[i] = Last(s) \/ Sorts("next", s[i], Last(s))
        BY <4>1, <4>3, Total DEF Directions
      <4>5. Sorts("next", s[i], t[j - m])
        BY <4>1, <4>2, <4>3, <4>4, Transitive DEF Directions
      <4> QED
        BY <3>1, <4>1, <4>5
    <3> QED
      BY <3>2, <3>3
  <2> QED
    BY <2>1, <2>2
<1>8. Descending(u)
  BY <1>2, <1>7 DEF Descending
<1> QED
  BY <1>2, <1>3, <1>5, <1>6, <1>8

--------------------------------------------------------------------------------
(* A page that answers a cursor, or the lack of one.                           *)
Link(doc, direction, made) ==
  [from |-> doc, direction |-> direction, until |-> IF CursorLife = 0 THEN 0 ELSE made + CursorLife]

Cursors == [from : Keys, direction : Directions, until : Nat] \union {NoCursor}

Reaches(cursor, d) == cursor = NoCursor \/ (Dated(d) /\ Sorts(cursor.direction, cursor.from, d))

Answers(p, cursor) ==
  /\ p.error = "none" /\ p.made = seconds /\ p.asOf = writes
  /\ p.items \in Seq(Keys) /\ Len(p.items) <= PageSize /\ Descending(p.items)
  /\ \A d \in ToSet(p.items) : d \in docs /\ Reaches(cursor, d)
  /\ \A d \in docs \ ToSet(p.items) : Reaches(cursor, d) =>
       /\ Len(p.items) = PageSize /\ p[cursor.direction] # NoCursor
       /\ \A e \in ToSet(p.items) : Sorts(cursor.direction, e, d)
  /\ cursor.direction = "next" /\ p.next # NoCursor => Len(p.items) = PageSize
  /\ cursor # NoCursor /\ p.items # << >> =>
       /\ Dated(cursor.from)
       /\ cursor.direction = "next" => p.prev # NoCursor
       /\ cursor.direction = "prev" => p.next # NoCursor
  /\ p.next # NoCursor => p.items # << >> /\ p.next = Link(Last(p.items), "next", seconds)
  /\ p.prev # NoCursor => p.items # << >> /\ p.prev = Link(Head(p.items), "prev", seconds)

LEMMA NoLinkIsNoCursor ==
  ASSUME NEW doc \in Keys, NEW direction, NEW made
  PROVE  Link(doc, direction, made) # NoCursor /\ Link(doc, direction, made).from = doc
         /\ Link(doc, direction, made).direction = direction
<1>1. doc[2] # 0
  BY KeysAreNaturals
<1>2. NoCursor.from[2] = 0
  BY DEF NoCursor
<1>3. Link(doc, direction, made).from = doc /\ Link(doc, direction, made).direction = direction
  BY DEF Link
<1> QED
  BY <1>1, <1>2, <1>3

LEMMA PageAnswers ==
  ASSUME Collection, NEW cursor \in Cursors, NEW genuine, DecodeError(cursor, genuine) = "none"
  PROVE  Answers(Paginate(cursor, genuine), cursor)
<1> DEFINE p == Paginate(cursor, genuine)
           dir == cursor.direction
<1>1. dir \in Directions /\ (cursor = NoCursor => dir = "next")
  BY DEF Cursors, NoCursor, Directions
<1>2. cursor # NoCursor => cursor.from \in Keys /\ Dated(cursor.from)
  <2> SUFFICES ASSUME cursor # NoCursor PROVE cursor.from \in Keys /\ Dated(cursor.from)
    OBVIOUS
  <2>1. cursor.from \in Keys
    BY DEF Cursors
  <2>2. ~ \E f \in Fields : cursor.from[f] = 0
    BY DEF DecodeError
  <2> QED
    BY <2>1, <2>2 DEF Dated
<1>3. \A d \in docs : d \in Keys /\ (Matches(cursor, d) <=> Reaches(cursor, d))
  <2>1. docs \subseteq Keys
    BY DEF Collection
  <2>2. CASE cursor = NoCursor
    BY <2>1, <2>2 DEF Matches, Reaches
  <2>3. CASE cursor # NoCursor
    BY <1>1, <1>2, <2>1, <2>3, MatchesBeyond DEF Reaches
  <2> QED
    BY <2>2, <2>3
<1>4. PICK more \in BOOLEAN :
        /\ IsPage(p.items, dir, Fetched(cursor), more)
        /\ p.next = NextOf(cursor, p.items, more)
        /\ p.prev = PrevOf(cursor, p.items, more)
  BY <1>1, PageOf
<1>5. p.error = "none" /\ p.made = seconds /\ p.asOf = writes
  BY <1>1, PageOf
<1> HIDE DEF p
<1>6. Fetched(cursor) = {d \in docs : Reaches(cursor, d)} /\ Fetched(cursor) \subseteq Keys
  BY <1>3 DEF Fetched
<1>7. /\ p.items \in Seq(Keys) /\ Len(p.items) <= PageSize /\ Descending(p.items)
      /\ more => Len(p.items) = PageSize
      /\ ~ more => Fetched(cursor) \subseteq ToSet(p.items)
      /\ \A e \in ToSet(p.items), d \in Fetched(cursor) \ ToSet(p.items) : Sorts(dir, e, d)
      /\ \A d \in ToSet(p.items) : d \in Fetched(cursor)
  <2>1. p.items \in Seq(Fetched(cursor))
    BY <1>4 DEF IsPage
  <2>2. p.items \in Seq(Keys)
    <3>1. p.items \in [1..Len(p.items) -> Fetched(cursor)] /\ Len(p.items) \in Nat
      BY <2>1, LenProperties
    <3>2. p.items \in [1..Len(p.items) -> Keys]
      BY <1>6, <3>1
    <3> QED
      BY <3>1, <3>2, IsASeq
  <2>3. \A d \in ToSet(p.items) : d \in Fetched(cursor)
    BY <2>1, ElementOfSeq, LenProperties DEF ToSet
  <2> QED
    BY <1>4, <2>2, <2>3 DEF IsPage, Descending
<1>8. p.items # << >> => Head(p.items) \in Keys /\ Last(p.items) \in Keys
  BY <1>7, Ends
<1>9. /\ p.next # NoCursor => p.items # << >> /\ (dir = "prev" \/ more) /\ p.next = Link(Last(p.items), "next", seconds)
      /\ p.items # << >> /\ (dir = "prev" \/ more) => p.next # NoCursor
  <2>1. p.next = IF p.items # << >> /\ (dir = "prev" \/ more)
                 THEN Link(Last(p.items), "next", seconds) ELSE NoCursor
    BY <1>4 DEF NextOf, Encode, Link
  <2>2. p.items # << >> => Link(Last(p.items), "next", seconds) # NoCursor
    BY <1>8, NoLinkIsNoCursor
  <2> QED
    BY ONLY <2>1, <2>2
<1>10. /\ p.prev # NoCursor => p.items # << >> /\ p.prev = Link(Head(p.items), "prev", seconds)
       /\ p.items # << >> /\ cursor # NoCursor /\ (dir = "next" \/ more) => p.prev # NoCursor
  <2>1. p.prev = IF p.items # << >> /\ cursor # NoCursor /\ (dir = "next" \/ more)
                 THEN Link(Head(p.items), "prev", seconds) ELSE NoCursor
    BY <1>4 DEF PrevOf, Encode, Link
  <2>2. p.items # << >> => Link(Head(p.items), "prev", seconds) # NoCursor
    BY <1>8, NoLinkIsNoCursor
  <2> QED
    BY ONLY <2>1, <2>2
<1>11. ASSUME NEW d \in docs \ ToSet(p.items), Reaches(cursor, d)
       PROVE  /\ Len(p.items) = PageSize /\ p[dir] # NoCursor
              /\ \A e \in ToSet(p.items) : Sorts(dir, e, d)
  <2>1. d \in Fetched(cursor)
    BY <1>6, <1>11
  <2>2. more /\ Len(p.items) = PageSize
    BY <1>7, <2>1
  <2>3. p.items # << >>
    BY <1>7, <2>2, EmptySeq, PagesAssumption
  <2>4. p[dir] # NoCursor
    BY <1>1, <1>9, <1>10, <2>2, <2>3 DEF Directions
  <2> QED
    BY <1>7, <2>1, <2>2, <2>4
<1>12. \A d \in ToSet(p.items) : d \in docs /\ Reaches(cursor, d)
  BY <1>6, <1>7
<1>13. dir = "next" /\ p.next # NoCursor => Len(p.items) = PageSize
  BY <1>7, <1>9
<1>14. cursor # NoCursor /\ p.items # << >> =>
         Dated(cursor.from) /\ (dir = "next" => p.prev # NoCursor) /\ (dir = "prev" => p.next # NoCursor)
  BY <1>2, <1>9, <1>10
<1> QED
  BY <1>5, <1>7, <1>9, <1>10, <1>11, <1>12, <1>13, <1>14 DEF Answers, p

--------------------------------------------------------------------------------
(* The inductive invariant: the parts of the state one by one, what a page and *)
(* its links say of it, what the walk still has before it, and what lies       *)
(* before the page that the way back leads to.                                 *)
InRange ==
  /\ seconds \in 0..MaxSeconds /\ writes \in 0..MaxWrites
  /\ Collection /\ steady \subseteq docs
  /\ walk \in Seq(Keys) /\ back \in Seq(Keys)

Sound(p) ==
  /\ p.error \in {"none", "invalid", "expired", "key"}
  /\ p.items \in Seq(Keys) /\ Len(p.items) <= PageSize /\ Descending(p.items)
  /\ p.made \in 0..seconds /\ p.asOf \in 0..writes
  /\ p.error # "none" => p.items = << >>
  /\ p.next # NoCursor => p.items # << >> /\ p.next = Link(Last(p.items), "next", p.made)
  /\ p.prev # NoCursor => p.items # << >> /\ p.prev = Link(Head(p.items), "prev", p.made)

OnTheWalk ==
  walk # << >> =>
    /\ page.error = "none" /\ Descending(walk)
    /\ page.next # NoCursor => page.next.from = Last(walk)
    /\ \A d \in steady \ ToSet(walk) :
         Dated(d) => page.next # NoCursor /\ Sorts("next", Last(walk), d)

(* Between its ends a page of this collection leaves out nothing, and only a   *)
(* full one has something before it.                                           *)
Settled(items) ==
  /\ items # << >> /\ Len(items) <= PageSize /\ Descending(items) /\ ToSet(items) \subseteq docs
  /\ \A d \in docs : Dated(d) /\ ~ Sorts("next", Last(items), d) =>
       d \in ToSet(items) \/ (Len(items) = PageSize /\ Sorts("next", d, Head(items)))

WayBack ==
  /\ page.asOf = writes /\ page.next # NoCursor => Settled(page.items)
  /\ back # << >> =>
       /\ page.asOf = writes /\ Settled(back) /\ Dated(Last(back))
       /\ page.prev # NoCursor =>
            \A d \in docs : Dated(d) => (Sorts("next", d, Head(page.items)) <=> ~ Sorts("next", Last(back), d))

SheetSound ==
  /\ sheet \in [offset : Nat, total : Nat, seen : SUBSET Nat]
  /\ sheet.offset < sheet.total \/ sheet.offset = 0
  /\ \E m \in 0..sheet.total :
       sheet.seen = 0..(m - 1) /\ (m = sheet.total \/ sheet.offset + PageSize <= m)

PagesInv == InRange /\ Sound(page) /\ OnTheWalk /\ WayBack /\ SheetSound

LEMMA LinksAreCursors ==
  ASSUME InRange, Sound(page)
  PROVE  page.next \in Cursors /\ page.prev \in Cursors /\ NoCursor \in Cursors
         /\ (page.next # NoCursor => page.next.direction = "next" /\ page.next.from = Last(page.items))
         /\ (page.prev # NoCursor => page.prev.direction = "prev" /\ page.prev.from = Head(page.items))
<1>1. page.items # << >> => Last(page.items) \in Keys /\ Head(page.items) \in Keys
  BY Ends DEF Sound
<1>2. page.made \in Nat /\ CursorLife \in Nat
  BY PagesAssumption DEF Sound, InRange
<1>3. \A doc \in Keys, dir \in Directions :
        /\ Link(doc, dir, page.made) \in [from : Keys, direction : Directions, until : Nat]
        /\ Link(doc, dir, page.made).direction = dir /\ Link(doc, dir, page.made).from = doc
  BY <1>2 DEF Link
<1>4. page.next # NoCursor => page.items # << >> /\ page.next = Link(Last(page.items), "next", page.made)
  BY DEF Sound
<1>5. page.prev # NoCursor => page.items # << >> /\ page.prev = Link(Head(page.items), "prev", page.made)
  BY DEF Sound
<1> QED
  BY <1>1, <1>3, <1>4, <1>5 DEF Cursors, Directions

(* What paginate returns is sound, whatever the cursor was.                    *)
LEMMA PaginateIsSound ==
  ASSUME InRange, NEW cursor \in Cursors, NEW genuine \in BOOLEAN
  PROVE  Sound(Paginate(cursor, genuine))
<1> DEFINE p == Paginate(cursor, genuine)
<1>1. seconds \in 0..seconds /\ writes \in 0..writes
  BY PagesAssumption DEF InRange
<1>2. CASE DecodeError(cursor, genuine) = "none"
  <2>1. Answers(p, cursor)
    BY <1>2, PageAnswers DEF InRange
  <2> HIDE DEF p
  <2>2. Sound(p)
    BY <1>1, <2>1 DEF Answers, Sound
  <2> QED
    BY <2>2 DEF p
<1>3. CASE DecodeError(cursor, genuine) # "none"
  <2>1. p = [items |-> << >>, next |-> NoCursor, prev |-> NoCursor,
             error |-> DecodeError(cursor, genuine), made |-> seconds, asOf |-> writes]
    BY <1>3, RefusedPage
  <2>2. DecodeError(cursor, genuine) \in {"none", "invalid", "expired", "key"}
    BY DEF DecodeError
  <2> HIDE DEF p
  <2>3. p.items = << >> /\ p.next = NoCursor /\ p.prev = NoCursor /\ p.made = seconds /\ p.asOf = writes
        /\ p.error = DecodeError(cursor, genuine)
    BY <2>1
  <2>4. << >> \in Seq(Keys) /\ Len(<< >>) = 0 /\ 0 <= PageSize
    BY EmptySeq, PagesAssumption
  <2>5. Descending(p.items)
    BY <2>3, <2>4 DEF Descending
  <2>6. Sound(p)
    BY <1>1, <2>2, <2>3, <2>4, <2>5 DEF Sound
  <2> QED
    BY <2>6 DEF p
<1> QED
  BY <1>2, <1>3

LEMMA ErrorsShowNothing ==
  ASSUME NEW cursor, NEW genuine, Paginate(cursor, genuine).error # "none"
  PROVE  Paginate(cursor, genuine).next = NoCursor
<1>1. DecodeError(cursor, genuine) # "none"
  BY DEF Paginate
<1> QED
  BY <1>1, RefusedPage

LEMMA AnswersItsCursor ==
  ASSUME InRange, NEW cursor \in Cursors, NEW genuine, Paginate(cursor, genuine).error = "none"
  PROVE  Answers(Paginate(cursor, genuine), cursor)
<1>1. DecodeError(cursor, genuine) = "none"
  BY RefusedPage
<1> QED
  BY <1>1, PageAnswers DEF InRange

(* A page with a link on is settled.                                           *)
LEMMA AnswersAreSettled ==
  ASSUME InRange, NEW cursor \in Cursors, NEW p, Answers(p, cursor), p.next # NoCursor
  PROVE  Settled(p.items)
<1>1. /\ p.items \in Seq(Keys) /\ p.items # << >> /\ Len(p.items) <= PageSize /\ Descending(p.items)
      /\ ToSet(p.items) \subseteq docs
      /\ cursor.direction = "next" => Len(p.items) = PageSize
  BY DEF Answers
<1>2. /\ Head(p.items) \in Keys /\ Last(p.items) \in Keys
      /\ Head(p.items) \in ToSet(p.items) /\ Last(p.items) \in ToSet(p.items)
      /\ docs \subseteq Keys
  BY <1>1, Ends DEF InRange, Collection
<1>3. ASSUME NEW d \in docs, Dated(d), ~ Sorts("next", Last(p.items), d), d \notin ToSet(p.items)
      PROVE  Len(p.items) = PageSize /\ Sorts("next", d, Head(p.items))
  <2>1. Reaches(cursor, d) =>
          Len(p.items) = PageSize /\ \A e \in ToSet(p.items) : Sorts(cursor.direction, e, d)
    BY <1>3 DEF Answers
  <2>2. CASE cursor = NoCursor
    <3>1. Sorts("next", Last(p.items), d)
      BY <1>2, <2>1, <2>2 DEF Reaches, NoCursor
    <3> QED
      BY <1>3, <3>1
  <2>3. CASE cursor # NoCursor /\ cursor.direction = "next"
    <3>1. ~ Reaches(cursor, d)
      BY <1>2, <1>3, <2>1, <2>3
    <3>2. ~ Sorts("next", cursor.from, d) /\ cursor.from \in Keys
      BY <1>3, <2>3, <3>1 DEF Reaches, Cursors
    <3>3. Sorts("next", cursor.from, Head(p.items))
      BY <1>2, <2>3 DEF Answers, Reaches
    <3>4. Sorts("next", d, Head(p.items))
      BY <1>2, <3>2, <3>3, Total, Transitive DEF Directions
    <3> QED
      BY <1>1, <2>3, <3>4
  <2>4. CASE cursor # NoCursor /\ cursor.direction = "prev"
    <3>1. cursor.from \in Keys /\ Sorts("prev", cursor.from, Last(p.items))
      BY <1>2, <2>4 DEF Answers, Reaches, Cursors
    <3>2. Sorts("next", Last(p.items), cursor.from)
      BY <1>2, <3>1, SortsPrev
    <3>3. Sorts("next", d, cursor.from)
      BY <1>2, <1>3, <3>1, <3>2, Total, Transitive DEF Directions
    <3>4. Reaches(cursor, d)
      BY <1>2, <1>3, <2>4, <3>1, <3>3, SortsPrev DEF Reaches
    <3>5. Len(p.items) = PageSize /\ Sorts("prev", Head(p.items), d)
      BY <1>2, <2>1, <2>4, <3>4
    <3> QED
      BY <1>2, <3>5, SortsPrev
  <2> QED
    BY <2>2, <2>3, <2>4 DEF Cursors, Directions
<1> QED
  BY <1>1, <1>3 DEF Settled

--------------------------------------------------------------------------------
(* One step at a time.                                                         *)
LEMMA PagesInitInv == PagesInit => PagesInv
<1> SUFFICES ASSUME PagesInit PROVE PagesInv
  OBVIOUS
<1> USE DEF PagesInit
<1>1. Collection /\ Cardinality(docs) \in Nat
  <2>1. docs \in SUBSET Keys /\ IsFiniteSet(docs)
    OBVIOUS
  <2> QED
    BY <2>1, FS_CardinalityType DEF Collection
<1>2. InRange
  BY <1>1, PagesAssumption DEF InRange
<1>3. Sound(page) /\ page.next = NoCursor
  <2>1. << >> \in Seq(Keys) /\ Len(<< >>) = 0
    OBVIOUS
  <2> QED
    BY <2>1, PagesAssumption DEF Sound, NoPage, Descending
<1>4. OnTheWalk
  BY DEF OnTheWalk
<1>5. WayBack
  BY <1>3 DEF WayBack
<1>6. SheetSound
  <2> DEFINE n == Cardinality(docs)
             m == IF PageSize < n THEN PageSize ELSE n
  <2>1. n \in Nat /\ PageSize \in Nat \ {0} /\ m \in 0..n /\ (m = n \/ 0 + PageSize <= m)
    BY <1>1, PagesAssumption
  <2>2. sheet = [offset |-> 0, total |-> n, seen |-> 0..(m - 1)]
    OBVIOUS
  <2>3. 0..(m - 1) \subseteq Nat
    BY <2>1
  <2> HIDE DEF n, m
  <2> QED
    BY <2>1, <2>2, <2>3 DEF SheetSound
<1> QED
  BY <1>2, <1>3, <1>4, <1>5, <1>6 DEF PagesInv

LEMMA FirstInv ==
  ASSUME PagesInv, First
  PROVE  PagesInv'
<1> USE DEF PagesInv
<1>1. /\ page' = Paginate(NoCursor, TRUE) /\ walk' = page'.items /\ steady' = docs /\ back' = << >>
      /\ seconds' = seconds /\ docs' = docs /\ writes' = writes /\ sheet' = sheet
  BY DEF First
<1>2. NoCursor \in Cursors /\ page'.error = "none" /\ Answers(page', NoCursor) /\ Sound(page')
  <2>1. NoCursor \in Cursors /\ DecodeError(NoCursor, TRUE) = "none"
    BY DEF Cursors, DecodeError
  <2> QED
    BY <1>1, <2>1, PageAnswers, PaginateIsSound DEF InRange, Answers
<1>3. page'.items \in Seq(Keys) /\ docs \subseteq Keys
  BY <1>2 DEF Sound, InRange, Collection
<1>4. InRange'
  <2>1. << >> \in Seq(Keys)
    OBVIOUS
  <2> QED
    BY <1>1, <1>3, <2>1 DEF InRange, Collection
<1>5. Sound(page)'
  BY <1>1, <1>2 DEF Sound
<1>6. OnTheWalk'
  <2> SUFFICES ASSUME walk' # << >>
               PROVE  /\ page'.error = "none" /\ Descending(walk')
                      /\ page'.next # NoCursor => page'.next.from = Last(walk')
                      /\ \A d \in docs \ ToSet(walk') :
                           Dated(d) => page'.next # NoCursor /\ Sorts("next", Last(walk'), d)
    BY <1>1 DEF OnTheWalk
  <2>1. Descending(walk') /\ Last(walk') \in ToSet(walk') /\ Last(walk') \in Keys
    BY <1>1, <1>2, <1>3, Ends DEF Sound
  <2>2. page'.next # NoCursor => page'.next.from = Last(walk')
    <3>1. page'.next # NoCursor => page'.next = Link(Last(page'.items), "next", seconds)
      BY <1>2 DEF Answers
    <3>2. Link(Last(walk'), "next", seconds).from = Last(walk')
      BY DEF Link
    <3> QED
      BY <1>1, <3>1, <3>2
  <2>3. \A d \in docs \ ToSet(walk') : page'.next # NoCursor /\ Sorts("next", Last(walk'), d)
    BY <1>1, <1>2, <2>1 DEF Answers, Reaches, NoCursor
  <2> QED
    BY <1>2, <2>1, <2>2, <2>3
<1>7. WayBack'
  <2>1. page'.next # NoCursor => Settled(page'.items)
    BY <1>2, AnswersAreSettled
  <2>2. page'.next # NoCursor => Settled(page.items)'
    BY <1>1, <2>1 DEF Settled
  <2> QED
    BY <1>1, <2>2 DEF WayBack
<1>8. SheetSound'
  BY <1>1 DEF SheetSound
<1> QED
  BY <1>4, <1>5, <1>6, <1>7, <1>8

(* The walk goes on behind what has been seen, and nothing is passed over.     *)
LEMMA WalkGoesOn ==
  ASSUME PagesInv, walk # << >>, page.next # NoCursor,
         NEW p, p = Paginate(page.next, TRUE) \/ p = Paginate(page.next, FALSE), p.error = "none"
  PROVE  /\ walk \o p.items \in Seq(Keys) /\ Descending(walk \o p.items)
         /\ p.next # NoCursor => p.next.from = Last(walk \o p.items)
         /\ \A d \in steady \ ToSet(walk \o p.items) :
              Dated(d) => p.next # NoCursor /\ Sorts("next", Last(walk \o p.items), d)
<1> USE DEF PagesInv
<1>1. page.next \in Cursors /\ page.next.direction = "next" /\ page.next.from = Last(walk)
  BY LinksAreCursors DEF OnTheWalk
<1>2. Answers(p, page.next)
  BY <1>1, AnswersItsCursor
<1>3. /\ walk \in Seq(Keys) /\ Descending(walk) /\ steady \subseteq docs /\ docs \subseteq Keys
      /\ p.items \in Seq(Keys) /\ Descending(p.items)
  BY <1>2 DEF InRange, OnTheWalk, Answers, Collection
<1>4. \A d \in ToSet(p.items) : Sorts("next", Last(walk), d)
  BY <1>1, <1>2 DEF Answers, Reaches
<1>5. /\ walk \o p.items \in Seq(Keys) /\ Descending(walk \o p.items)
      /\ ToSet(walk \o p.items) = ToSet(walk) \union ToSet(p.items)
      /\ Last(walk \o p.items) = IF p.items = << >> THEN Last(walk) ELSE Last(p.items)
  BY <1>3, <1>4, PutBehind
<1>6. p.next # NoCursor => p.items # << >> /\ p.next.from = Last(walk \o p.items)
  BY <1>2, <1>5 DEF Answers, Link
<1>7. ASSUME NEW d \in steady \ ToSet(walk \o p.items), Dated(d)
      PROVE  p.next # NoCursor /\ Sorts("next", Last(walk \o p.items), d)
  <2>1. d \in docs \ ToSet(p.items) /\ d \in steady \ ToSet(walk)
    BY <1>3, <1>5, <1>7
  <2>2. Sorts("next", Last(walk), d)
    BY <1>7, <2>1 DEF OnTheWalk
  <2>3. Reaches(page.next, d)
    BY <1>1, <1>7, <2>2 DEF Reaches
  <2>4. p.next # NoCursor /\ \A e \in ToSet(p.items) : Sorts("next", e, d)
    BY <1>1, <1>2, <2>1, <2>3 DEF Answers
  <2>5. p.items # << >> /\ Last(p.items) \in ToSet(p.items)
    BY <1>3, <1>6, <2>4, Ends
  <2> QED
    BY <1>5, <2>4, <2>5
<1> QED
  BY <1>5, <1>6, <1>7

(* From the page after, exactly the documents before its head are those up to  *)
(* the end of the page one came from.                                          *)
LEMMA WhatLiesBefore ==
  ASSUME PagesInv, NEW cursor \in Cursors, cursor # NoCursor, cursor.direction = "next",
         NEW p, Answers(p, cursor), p.prev # NoCursor, NEW d \in docs, Dated(d)
  PROVE  Sorts("next", d, Head(p.items)) <=> ~ Sorts("next", cursor.from, d)
<1> USE DEF PagesInv
<1>1. /\ p.items \in Seq(Keys) /\ p.items # << >> /\ Descending(p.items)
      /\ cursor.from \in Keys /\ d \in Keys
  BY DEF Answers, InRange, Collection, Cursors
<1>2. /\ Head(p.items) \in Keys /\ Head(p.items) \in ToSet(p.items)
      /\ \A e \in ToSet(p.items) : e \in Keys /\ ~ Sorts("next", e, Head(p.items))
  BY <1>1, Ends
<1>3. Sorts("next", cursor.from, Head(p.items))
  BY <1>2 DEF Answers, Reaches
<1>4. CASE ~ Sorts("next", cursor.from, d)
  BY <1>1, <1>2, <1>3, <1>4, Total, Transitive DEF Directions
<1>5. CASE Sorts("next", cursor.from, d)
  <2>1. Reaches(cursor, d)
    BY <1>5 DEF Reaches
  <2>2. d \in ToSet(p.items) \/ Sorts("next", Head(p.items), d)
    BY <1>2, <2>1 DEF Answers
  <2>3. ~ Sorts("next", d, Head(p.items))
    BY <1>1, <1>2, <2>2, Transitive, Irreflexive DEF Directions
  <2> QED
    BY <1>5, <2>3
<1> QED
  BY <1>4, <1>5

LEMMA FollowInv ==
  ASSUME PagesInv, NEW direction \in Directions, NEW genuine \in BOOLEAN, Follow(direction, genuine)
  PROVE  PagesInv'
<1> USE DEF PagesInv
<1> DEFINE cursor == page[direction]
<1>1. /\ cursor # NoCursor /\ page' = Paginate(cursor, genuine)
      /\ walk' = IF direction = "next" /\ walk # << >> /\ page'.error = "none"
                 THEN walk \o page'.items ELSE << >>
      /\ steady' = IF walk' = << >> THEN {} ELSE steady
      /\ back' = IF direction = "next" /\ page'.error = "none" /\ page.asOf = writes THEN page.items ELSE << >>
      /\ seconds' = seconds /\ docs' = docs /\ writes' = writes /\ sheet' = sheet
  BY DEF Follow
<1>2. /\ cursor \in Cursors /\ cursor.direction = direction
      /\ direction = "next" => cursor = page.next /\ cursor.from = Last(page.items)
      /\ direction = "prev" => cursor = page.prev /\ cursor.from = Head(page.items)
  BY <1>1, LinksAreCursors DEF Directions
<1> HIDE DEF cursor
<1>3. Sound(page') /\ (page'.error = "none" => Answers(page', cursor))
      /\ (page'.error # "none" => page'.next = NoCursor)
  BY <1>1, <1>2, PaginateIsSound, AnswersItsCursor, ErrorsShowNothing
<1>4. page'.items \in Seq(Keys) /\ docs \subseteq Keys /\ page.items \in Seq(Keys) /\ << >> \in Seq(Keys)
  BY <1>3 DEF Sound, InRange, Collection
<1>5. ASSUME walk' # << >>
      PROVE  /\ direction = "next" /\ page'.error = "none" /\ walk # << >> /\ page.next # NoCursor
             /\ walk' = walk \o page'.items /\ steady' = steady
             /\ page' = Paginate(page.next, TRUE) \/ page' = Paginate(page.next, FALSE)
  BY <1>1, <1>2, <1>5
<1>6. InRange'
  <2>1. walk' \in Seq(Keys)
    BY <1>4, <1>5, WalkGoesOn
  <2> QED
    BY <1>1, <1>4, <2>1 DEF InRange, Collection
<1>7. Sound(page)'
  BY <1>1, <1>3 DEF Sound
<1>8. OnTheWalk'
  <2> SUFFICES ASSUME walk' # << >>
               PROVE  /\ page'.error = "none" /\ Descending(walk')
                      /\ page'.next # NoCursor => page'.next.from = Last(walk')
                      /\ \A d \in steady' \ ToSet(walk') :
                           Dated(d) => page'.next # NoCursor /\ Sorts("next", Last(walk'), d)
    BY DEF OnTheWalk
  <2> DEFINE p == page'
  <2>1. /\ p.error = "none" /\ walk # << >> /\ page.next # NoCursor
        /\ walk' = walk \o p.items /\ steady' = steady
        /\ p = Paginate(page.next, TRUE) \/ p = Paginate(page.next, FALSE)
    BY <1>5
  <2> HIDE DEF p
  <2>2. /\ Descending(walk \o p.items)
        /\ p.next # NoCursor => p.next.from = Last(walk \o p.items)
        /\ \A d \in steady \ ToSet(walk \o p.items) :
             Dated(d) => p.next # NoCursor /\ Sorts("next", Last(walk \o p.items), d)
    BY <2>1, WalkGoesOn
  <2> QED
    BY <2>1, <2>2 DEF p
<1>9. page'.next # NoCursor => Settled(page'.items)
  BY <1>2, <1>3, AnswersAreSettled
<1>10. ASSUME back' # << >>
       PROVE  /\ page'.asOf = writes /\ Settled(back') /\ Dated(Last(back'))
              /\ page'.prev # NoCursor =>
                   \A d \in docs : Dated(d) =>
                     (Sorts("next", d, Head(page'.items)) <=> ~ Sorts("next", Last(back'), d))
  <2>1. direction = "next" /\ page'.error = "none" /\ page.asOf = writes /\ back' = page.items
    BY <1>1, <1>10
  <2>2. cursor = page.next /\ cursor.from = Last(page.items) /\ page.next # NoCursor /\ Answers(page', cursor)
    BY <1>1, <1>2, <1>3, <2>1
  <2>3. Settled(page.items)
    BY <2>1, <2>2 DEF WayBack
  <2>4. Dated(cursor.from)
    <3>1. DecodeError(cursor, genuine) = "none"
      BY <1>1, <2>1, RefusedPage
    <3>2. ~ \E f \in Fields : cursor.from[f] = 0
      BY <1>1, <3>1 DEF DecodeError
    <3> QED
      BY <3>2 DEF Dated
  <2>5. page'.asOf = writes
    BY <2>2 DEF Answers
  <2>6. ASSUME page'.prev # NoCursor, NEW d \in docs, Dated(d)
        PROVE  Sorts("next", d, Head(page'.items)) <=> ~ Sorts("next", cursor.from, d)
    BY <1>1, <1>2, <2>1, <2>2, <2>6, WhatLiesBefore
  <2> QED
    BY <2>1, <2>2, <2>3, <2>4, <2>5, <2>6
<1>11. WayBack'
  <2>1. \A s : Settled(s) => (\A t : t = s => Settled(t))
    OBVIOUS
  <2>2. page'.next # NoCursor => Settled(page.items)'
    BY <1>1, <1>9 DEF Settled
  <2>3. back' # << >> => Settled(back)'
    BY <1>1, <1>10 DEF Settled
  <2> QED
    BY <1>1, <1>10, <2>2, <2>3 DEF WayBack
<1>12. SheetSound'
  BY <1>1 DEF SheetSound
<1> QED
  BY <1>6, <1>7, <1>8, <1>11, <1>12

LEMMA WriteInv ==
  ASSUME PagesInv, (\E d \in Keys : InsertDoc(d)) \/ (\E d \in docs : RemoveDoc(d))
  PROVE  PagesInv'
<1> USE DEF PagesInv
<1>1. PICK d \in Keys : InsertDoc(d) \/ RemoveDoc(d)
  BY DEF InRange, Collection
<1>2. /\ writes < MaxWrites /\ writes' = writes + 1 /\ back' = << >> /\ seconds' = seconds
      /\ page' = page /\ walk' = walk /\ sheet' = sheet
      /\ docs' = docs \union {d} \/ docs' = docs \ {d}
      /\ steady' \subseteq docs' /\ steady' \subseteq steady
  BY <1>1 DEF InsertDoc, RemoveDoc, InRange
<1>3. writes \in 0..MaxWrites /\ writes \in Nat /\ page.asOf \in 0..writes
  BY PagesAssumption DEF InRange, Sound
<1>4. Collection'
  BY <1>2, FS_AddElement, FS_RemoveElement DEF InRange, Collection
<1>5. InRange'
  <2>1. << >> \in Seq(Keys) /\ writes' \in 0..MaxWrites
    BY <1>2, <1>3, PagesAssumption
  <2> QED
    BY <1>2, <1>4, <2>1 DEF InRange
<1>6. Sound(page)'
  BY <1>2, <1>3 DEF Sound
<1>7. OnTheWalk'
  BY <1>2 DEF OnTheWalk
<1>8. WayBack'
  BY <1>2, <1>3 DEF WayBack
<1>9. SheetSound'
  BY <1>2 DEF SheetSound
<1> QED
  BY <1>5, <1>6, <1>7, <1>8, <1>9

LEMMA SecondInv ==
  ASSUME PagesInv, SecondPasses
  PROVE  PagesInv'
<1> USE DEF PagesInv
<1>1. /\ seconds < MaxSeconds /\ seconds' = seconds + 1 /\ docs' = docs /\ writes' = writes
      /\ page' = page /\ walk' = walk /\ steady' = steady /\ back' = back /\ sheet' = sheet
  BY DEF SecondPasses
<1>2. seconds \in Nat /\ seconds' \in 0..MaxSeconds /\ page.made \in 0..seconds'
  BY <1>1, PagesAssumption DEF InRange, Sound
<1>3. InRange'
  BY <1>1, <1>2 DEF InRange, Collection
<1>4. Sound(page)'
  BY <1>1, <1>2 DEF Sound
<1>5. OnTheWalk' /\ WayBack' /\ SheetSound'
  BY <1>1 DEF OnTheWalk, WayBack, Settled, SheetSound
<1> QED
  BY <1>3, <1>4, <1>5

(* Turning a sheet, on or back, goes on from what has been seen.               *)
LEMMA TurnInv ==
  ASSUME PagesInv, NEW offset \in 0..sheet.total, TurnSheet(offset)
  PROVE  PagesInv'
<1> USE DEF PagesInv
<1>1. /\ seconds' = seconds /\ docs' = docs /\ writes' = writes
      /\ page' = page /\ walk' = walk /\ steady' = steady /\ back' = back
      /\ offset \in OffsetNext(sheet.offset, sheet.total) \union OffsetPrev(sheet.offset)
      /\ sheet' = [sheet EXCEPT !.offset = offset,
           !.seen = @ \union {i \in offset..(offset + PageSize - 1) : i < sheet.total}]
  BY DEF TurnSheet
<1>2. InRange' /\ Sound(page)' /\ OnTheWalk' /\ WayBack'
  BY <1>1 DEF InRange, Collection, Sound, OnTheWalk, WayBack, Settled
<1>3. PICK m \in 0..sheet.total :
        sheet.seen = 0..(m - 1) /\ (m = sheet.total \/ sheet.offset + PageSize <= m)
  BY DEF SheetSound
<1>4. /\ sheet.offset \in Nat /\ sheet.total \in Nat /\ PageSize \in Nat \ {0}
      /\ sheet.offset < sheet.total \/ sheet.offset = 0
      /\ sheet \in [offset : Nat, total : Nat, seen : SUBSET Nat]
  BY PagesAssumption DEF SheetSound
<1>5. /\ sheet'.offset = offset /\ sheet'.total = sheet.total
      /\ sheet'.seen = sheet.seen \union {i \in offset..(offset + PageSize - 1) : i < sheet.total}
  BY <1>1, <1>4
<1>6. offset < sheet.total /\ offset \in Nat /\ offset <= m /\ m \in Nat /\ m <= sheet.total
  BY <1>1, <1>3, <1>4 DEF OffsetNext, OffsetPrev
<1> DEFINE far == IF offset + PageSize < sheet.total THEN offset + PageSize ELSE sheet.total
           k == IF far > m THEN far ELSE m
<1>7. /\ k \in 0..sheet.total /\ (k = sheet.total \/ offset + PageSize <= k)
      /\ 0..(k - 1) = 0..(m - 1) \union {i \in offset..(offset + PageSize - 1) : i < sheet.total}
  BY <1>4, <1>6
<1>8. 0..(k - 1) \subseteq Nat
  BY <1>4, <1>6
<1> HIDE DEF k, far
<1>9. sheet' \in [offset : Nat, total : Nat, seen : SUBSET Nat]
  <2>1. sheet'.seen \subseteq Nat
    BY <1>3, <1>5, <1>7, <1>8
  <2> QED
    BY <1>1, <1>4, <1>5, <1>6, <2>1
<1>10. SheetSound'
  BY <1>3, <1>5, <1>6, <1>7, <1>9 DEF SheetSound
<1> QED
  BY <1>2, <1>10

LEMMA PagesNextInv ==
  ASSUME PagesInv, [PagesNext]_pagesVars
  PROVE  PagesInv'
<1>1. CASE First
  BY <1>1, FirstInv
<1>2. CASE SecondPasses
  BY <1>2, SecondInv
<1>3. CASE \E direction \in {"next", "prev"}, genuine \in BOOLEAN : Follow(direction, genuine)
  BY <1>3, FollowInv DEF Directions
<1>4. CASE (\E d \in Keys : InsertDoc(d)) \/ (\E d \in docs : RemoveDoc(d))
  BY <1>4, WriteInv
<1>5. CASE \E offset \in 0..sheet.total : TurnSheet(offset)
  BY <1>5, TurnInv
<1>6. CASE UNCHANGED pagesVars
  BY <1>6 DEF pagesVars, PagesInv, InRange, Collection, Sound, OnTheWalk, WayBack, Settled, SheetSound
<1> QED
  BY <1>1, <1>2, <1>3, <1>4, <1>5, <1>6 DEF PagesNext

--------------------------------------------------------------------------------
(* What follows for the runs' properties.                                      *)
LEMMA InvImpliesTypes == PagesInv => PagesTypeOK
<1> SUFFICES ASSUME PagesInv PROVE PagesTypeOK
  OBVIOUS
<1> USE DEF PagesInv
<1>1. \A s \in Seq(Keys) : ToSet(s) \subseteq Keys
  BY ElementOfSeq, LenProperties DEF ToSet
<1>2. ToSet(page.items) \subseteq Keys /\ ToSet(walk) \subseteq Keys
  BY <1>1 DEF Sound, InRange
<1>3. sheet.offset \in Nat /\ sheet.offset <= sheet.total /\ sheet.seen \subseteq 0..sheet.total-1
  <2>1. PICK m \in 0..sheet.total : sheet.seen = 0..(m - 1)
    BY DEF SheetSound
  <2>2. sheet.offset \in Nat /\ sheet.total \in Nat /\ (sheet.offset < sheet.total \/ sheet.offset = 0)
    BY DEF SheetSound
  <2> QED
    BY <2>1, <2>2
<1>4. page.made <= seconds
  BY DEF Sound, InRange
<1> QED
  BY <1>2, <1>3, <1>4 DEF InRange, Sound, Collection, PagesTypeOK

LEMMA InvImpliesComplete == PagesInv => WalkComplete
<1> SUFFICES ASSUME PagesInv, walk # << >>
             PROVE  /\ \A i, j \in DOMAIN walk : i < j => Sorts("next", walk[i], walk[j])
                    /\ page.error = "none" /\ page.next = NoCursor =>
                         \A d \in steady : Dated(d) => d \in ToSet(walk)
  BY DEF WalkComplete
<1>1. DOMAIN walk = 1..Len(walk) /\ Descending(walk)
  BY LenProperties DEF PagesInv, InRange, OnTheWalk
<1>2. \A d \in steady \ ToSet(walk) : Dated(d) => page.next # NoCursor
  BY DEF PagesInv, OnTheWalk
<1> QED
  BY <1>1, <1>2 DEF Descending

LEMMA InvImpliesTiles == PagesInv => OffsetLinksTile
<1> SUFFICES ASSUME PagesInv PROVE OffsetLinksTile
  OBVIOUS
<1>1. PICK m \in 0..sheet.total :
        sheet.seen = 0..(m - 1) /\ (m = sheet.total \/ sheet.offset + PageSize <= m)
  BY DEF PagesInv, SheetSound
<1>2. /\ sheet.offset \in Nat /\ sheet.total \in Nat /\ PageSize \in Nat \ {0}
      /\ sheet.offset < sheet.total \/ sheet.offset = 0
  BY PagesAssumption DEF PagesInv, SheetSound
<1>3. OffsetNext(sheet.offset, sheet.total) = {} => m = sheet.total
  <2>1. OffsetNext(sheet.offset, sheet.total) = {} => ~ (sheet.offset + PageSize < sheet.total)
    BY DEF OffsetNext
  <2>2. m \in Nat /\ m <= sheet.total /\ (m = sheet.total \/ sheet.offset + PageSize <= m)
    BY <1>1, <1>2
  <2> QED
    BY <1>2, <2>1, <2>2
<1>4. m = sheet.total => sheet.total - 1 \in sheet.seen \union {-1}
  BY <1>1, <1>2
<1>5. \A i \in sheet.seen : i = 0 \/ i - 1 \in sheet.seen
  BY <1>1, <1>2
<1> QED
  BY <1>2, <1>3, <1>4, <1>5 DEF OffsetLinksTile

(* A page that answers a dated cursor, or none, leaves nothing out.            *)
LEMMA NoHoles ==
  ASSUME InRange, NEW cursor \in Cursors, NEW p, Answers(p, cursor), p.items # << >>,
         NEW d \in docs, ~ Sorts("next", d, Head(p.items)), ~ Sorts("next", Last(p.items), d)
  PROVE  d \in ToSet(p.items)
<1>1. /\ p.items \in Seq(Keys) /\ Descending(p.items)
      /\ Head(p.items) \in ToSet(p.items) /\ Last(p.items) \in ToSet(p.items)
      /\ Head(p.items) \in Keys /\ Last(p.items) \in Keys /\ docs \subseteq Keys
  <2>1. p.items \in Seq(Keys) /\ Descending(p.items)
    BY DEF Answers
  <2> QED
    BY <2>1, Ends DEF InRange, Collection
<1>2. Reaches(cursor, d) => d \in ToSet(p.items) \/ \A e \in ToSet(p.items) : Sorts(cursor.direction, e, d)
  BY DEF Answers
<1>3. Reaches(cursor, Head(p.items)) /\ Reaches(cursor, Last(p.items))
  BY <1>1 DEF Answers
<1>4. CASE cursor = NoCursor
  BY <1>1, <1>2, <1>4 DEF Reaches, NoCursor
<1>5. CASE cursor # NoCursor
  <2>1. Dated(Last(p.items)) /\ Dated(d) /\ cursor.from \in Keys
    BY <1>1, <1>3, <1>5, DatedFirst DEF Reaches, Cursors
  <2>2. CASE cursor.direction = "next"
    <3>1. Sorts("next", cursor.from, Head(p.items))
      BY <1>3, <1>5, <2>2 DEF Reaches
    <3>2. Sorts("next", cursor.from, d)
      BY <1>1, <2>1, <3>1, Total, Transitive DEF Directions
    <3> QED
      BY <1>1, <1>2, <2>1, <2>2, <3>2 DEF Reaches
  <2>3. CASE cursor.direction = "prev"
    <3>1. Sorts("next", Last(p.items), cursor.from)
      BY <1>1, <1>3, <1>5, <2>1, <2>3, SortsPrev DEF Reaches
    <3>2. Sorts("next", d, cursor.from)
      BY <1>1, <2>1, <3>1, Total, Transitive DEF Directions
    <3>3. d \in ToSet(p.items) \/ Sorts("prev", Head(p.items), d)
      BY <1>1, <1>2, <2>1, <2>3, <3>2, SortsPrev DEF Reaches
    <3> QED
      BY <1>1, <3>3, SortsPrev
  <2> QED
    BY <1>5, <2>2, <2>3 DEF Cursors, Directions
<1> QED
  BY <1>4, <1>5

(* Without a link on, or back, there is nothing dated there.                   *)
LEMMA NoEarlyEnd ==
  ASSUME InRange, NEW cursor \in Cursors, NEW p, Answers(p, cursor), p.items # << >>,
         NEW d \in docs, Dated(d)
  PROVE  /\ p.next = NoCursor => ~ Sorts("next", Last(p.items), d)
         /\ cursor # NoCursor /\ cursor.direction = "prev" /\ p.prev = NoCursor =>
              ~ Sorts("next", d, Head(p.items))
<1>1. /\ p.items \in Seq(Keys) /\ Descending(p.items) /\ docs \subseteq Keys
  BY DEF Answers, InRange, Collection
<1>2. /\ Head(p.items) \in ToSet(p.items) /\ Last(p.items) \in ToSet(p.items)
      /\ Head(p.items) \in Keys /\ Last(p.items) \in Keys
      /\ \A e \in ToSet(p.items) : ~ Sorts("next", e, Head(p.items)) /\ ~ Sorts("next", Last(p.items), e)
  BY <1>1, Ends
<1>3. Reaches(cursor, d) => d \in ToSet(p.items) \/ p[cursor.direction] # NoCursor
  BY DEF Answers
<1>4. ASSUME p.next = NoCursor, Sorts("next", Last(p.items), d)
      PROVE  FALSE
  <2>1. cursor = NoCursor \/ (cursor.direction = "next" /\ cursor.from \in Keys /\ Sorts("next", cursor.from, Last(p.items)))
    BY <1>2, <1>4 DEF Answers, Reaches, Cursors, Directions
  <2>2. Reaches(cursor, d) /\ cursor.direction = "next"
    BY <1>1, <1>2, <1>4, <2>1, Transitive DEF Reaches, NoCursor, Directions
  <2> QED
    BY <1>2, <1>3, <1>4, <2>2
<1>5. ASSUME cursor # NoCursor, cursor.direction = "prev", p.prev = NoCursor, Sorts("next", d, Head(p.items))
      PROVE  FALSE
  <2>1. cursor.from \in Keys /\ Sorts("prev", cursor.from, Head(p.items))
    BY <1>2, <1>5 DEF Answers, Reaches, Cursors
  <2>2. Sorts("prev", cursor.from, d)
    BY <1>1, <1>2, <1>5, <2>1, SortsPrev, Transitive DEF Directions
  <2> QED
    BY <1>2, <1>3, <1>5, <2>2 DEF Reaches
<1> QED
  BY <1>4, <1>5

(* Of the documents before it, a link back finds the last ones, which are what *)
(* the page before showed.                                                     *)
LEMMA BackFinds ==
  ASSUME PagesInv, back # << >>, page.prev # NoCursor,
         NEW p, p = Paginate(page.prev, TRUE), p.error = "none"
  PROVE  p.items = back
<1> USE DEF PagesInv
<1> DEFINE cursor == page.prev
           A == ToSet(p.items)
           B == ToSet(back)
<1>1. /\ cursor \in Cursors /\ cursor.direction = "prev" /\ cursor.from = Head(page.items)
      /\ cursor.from \in Keys /\ cursor # NoCursor
  <2>1. page.items # << >> /\ page.items \in Seq(Keys) /\ Descending(page.items)
    BY DEF Sound
  <2> QED
    BY <2>1, LinksAreCursors, Ends
<1>2. Answers(p, cursor)
  BY <1>1, AnswersItsCursor
<1> HIDE DEF cursor
<1>3. /\ Settled(back) /\ Dated(Last(back)) /\ docs \subseteq Keys /\ back \in Seq(Keys)
      /\ \A d \in docs : Dated(d) => (Sorts("next", d, cursor.from) <=> ~ Sorts("next", Last(back), d))
  BY <1>1 DEF WayBack, InRange, Collection
<1>4. \A d \in docs : Reaches(cursor, d) <=> Dated(d) /\ ~ Sorts("next", Last(back), d)
  BY <1>1, <1>3, SortsPrev DEF Reaches
<1>5. /\ Descending(back) /\ Len(back) <= PageSize /\ B \subseteq docs /\ back # << >>
      /\ Last(back) \in Keys /\ Head(back) \in Keys
      /\ \A d \in B : ~ Sorts("next", d, Head(back)) /\ ~ Sorts("next", Last(back), d)
  BY <1>3, Ends DEF Settled
<1>6. \A d \in B : Reaches(cursor, d)
  BY <1>3, <1>4, <1>5, DatedFirst
<1>7. \A d \in docs \ B : Reaches(cursor, d) =>
        Len(back) = PageSize /\ \A b \in B : Sorts("next", d, b)
  <2> SUFFICES ASSUME NEW d \in docs \ B, Reaches(cursor, d)
               PROVE  Len(back) = PageSize /\ \A b \in B : Sorts("next", d, b)
    OBVIOUS
  <2>1. Len(back) = PageSize /\ Sorts("next", d, Head(back))
    BY <1>3, <1>4 DEF Settled
  <2>2. \A b \in B : b = Head(back) \/ Sorts("next", Head(back), b)
    BY <1>3, <1>5, Total DEF Directions
  <2> QED
    BY <1>3, <1>5, <2>1, <2>2, Transitive DEF Directions
<1>8. /\ p.items \in Seq(Keys) /\ Descending(p.items) /\ Len(p.items) <= PageSize /\ A \subseteq docs
      /\ \A d \in A : Reaches(cursor, d)
      /\ \A d \in docs \ A : Reaches(cursor, d) =>
           Len(p.items) = PageSize /\ \A e \in A : Sorts("next", d, e)
  <2>1. \A d \in docs, e \in docs : Sorts("prev", e, d) <=> Sorts("next", d, e)
    BY <1>3, SortsPrev
  <2> QED
    BY <1>1, <1>2, <2>1 DEF Answers
<1>9. /\ IsFiniteSet(A) /\ Cardinality(A) = Len(p.items) /\ Len(p.items) \in Nat
      /\ IsFiniteSet(B) /\ Cardinality(B) = Len(back) /\ Len(back) \in Nat
  BY <1>3, <1>5, <1>8, AsManyAsItems
<1> HIDE DEF A, B
<1>10. ASSUME A \subseteq B PROVE A = B
  <2>1. A # B => \E d \in docs \ A : Reaches(cursor, d)
    BY <1>5, <1>6, <1>10
  <2>2. A # B => Len(p.items) = PageSize
    BY <1>8, <2>1
  <2>3. Cardinality(A) = Cardinality(B) => A = B
    BY <1>9, <1>10, FS_Subset
  <2>4. Cardinality(A) <= Cardinality(B)
    BY <1>9, <1>10, FS_Subset
  <2>5. A # B => Cardinality(A) = Cardinality(B)
    <3>1. Len(back) <= PageSize /\ PageSize \in Nat /\ Len(back) \in Nat /\ Len(p.items) \in Nat
      BY <1>5, <1>9, PagesAssumption
    <3>2. Len(p.items) <= Len(back)
      BY <1>9, <2>4
    <3>3. A # B => Len(p.items) = Len(back)
      BY ONLY <2>2, <3>1, <3>2
    <3> QED
      BY <1>9, <3>3
  <2> QED
    BY <2>3, <2>5
<1>11. ASSUME ~ (A \subseteq B) PROVE A = B
  <2>1. PICK a \in A : a \in docs \ B
    BY <1>8, <1>11
  <2>2. Len(back) = PageSize /\ \A b \in B : Sorts("next", a, b)
    BY <1>7, <1>8, <2>1
  <2>3. B \subseteq A
    <3> SUFFICES ASSUME NEW b \in B, b \notin A PROVE FALSE
      OBVIOUS
    <3>1. Sorts("next", b, a) /\ Sorts("next", a, b) /\ a \in Keys /\ b \in Keys
      BY <1>3, <1>5, <1>6, <1>8, <2>1, <2>2
    <3> QED
      BY <3>1, Transitive, Irreflexive DEF Directions
  <2>4. Cardinality(B) <= Cardinality(A) /\ (Cardinality(A) = Cardinality(B) => A = B)
    BY <1>9, <2>3, FS_Subset
  <2>5. Cardinality(A) = Cardinality(B)
    <3>1. Len(p.items) <= PageSize /\ PageSize \in Nat /\ Len(back) \in Nat /\ Len(p.items) \in Nat
      BY <1>8, <1>9, PagesAssumption
    <3>2. Len(back) <= Len(p.items) /\ Len(back) = PageSize
      BY <1>9, <2>2, <2>4
    <3>3. Len(p.items) = Len(back)
      BY ONLY <3>1, <3>2
    <3> QED
      BY <1>9, <3>3
  <2> QED
    BY <2>4, <2>5
<1> QED
  BY <1>3, <1>5, <1>8, <1>10, <1>11, OnlyOneDescends DEF A, B

LEMMA TruthfulStep ==
  ASSUME PagesInv, PagesNext, page' # page, page'.items # << >>
  PROVE  LET last == Last(page'.items)
             first == Head(page'.items)
             inside(d) == ~ Sorts("next", d, first) /\ ~ Sorts("next", last, d)
         IN /\ \A d \in docs : inside(d) => d \in ToSet(page'.items)
            /\ page'.next = NoCursor => \A d \in docs : Dated(d) => ~ Sorts("next", last, d)
            /\ page.prev # NoCursor /\ page' = Paginate(page.prev, TRUE) /\ page'.prev = NoCursor =>
                 \A d \in docs : Dated(d) => ~ Sorts("next", d, first)
<1> USE DEF PagesInv
<1>1. PICK cursor \in Cursors, genuine \in BOOLEAN : page' = Paginate(cursor, genuine)
  <2>1. First \/ \E direction \in {"next", "prev"}, genuine \in BOOLEAN : Follow(direction, genuine)
    BY DEF PagesNext, InsertDoc, RemoveDoc, SecondPasses, TurnSheet
  <2> QED
    BY <2>1, LinksAreCursors DEF First, Follow
<1> DEFINE p == page'
<1>2. p = Paginate(cursor, genuine) /\ p.items # << >>
  BY <1>1
<1> HIDE DEF p
<1>3. Answers(p, cursor)
  <2>1. Sound(p)
    BY <1>2, PaginateIsSound
  <2>2. p.error = "none"
    BY <1>2, <2>1 DEF Sound
  <2> QED
    BY <1>2, <2>2, AnswersItsCursor
<1>4. \A d \in docs : ~ Sorts("next", d, Head(p.items)) /\ ~ Sorts("next", Last(p.items), d) => d \in ToSet(p.items)
  BY <1>2, <1>3, NoHoles
<1>5. p.next = NoCursor => \A d \in docs : Dated(d) => ~ Sorts("next", Last(p.items), d)
  BY <1>2, <1>3, NoEarlyEnd
<1>6. ASSUME page.prev # NoCursor, p = Paginate(page.prev, TRUE), p.prev = NoCursor
      PROVE  \A d \in docs : Dated(d) => ~ Sorts("next", d, Head(p.items))
  <2>1. page.prev \in Cursors /\ page.prev.direction = "prev"
    BY <1>6, LinksAreCursors
  <2>2. Answers(p, page.prev)
    BY <1>3, <1>6, <2>1, AnswersItsCursor DEF Answers
  <2> QED
    BY <1>2, <1>6, <2>1, <2>2, NoEarlyEnd
<1> QED
  BY <1>4, <1>5, <1>6 DEF p

LEMMA LivesStep ==
  ASSUME PagesInv, PagesNext, page' # page, page'.error = "expired"
  PROVE  CursorLife > 0 /\ seconds > page.made + CursorLife
<1> USE DEF PagesInv
<1>1. PICK cursor \in {NoCursor, page.next, page.prev}, genuine \in BOOLEAN : page' = Paginate(cursor, genuine)
  <2>1. First \/ \E direction \in {"next", "prev"}, genuine \in BOOLEAN : Follow(direction, genuine)
    BY DEF PagesNext, InsertDoc, RemoveDoc, SecondPasses, TurnSheet
  <2> QED
    BY <2>1 DEF First, Follow
<1>2. DecodeError(cursor, genuine) = "expired"
  BY <1>1, RefusedPage DEF Paginate
<1>3. cursor # NoCursor /\ cursor.until # 0 /\ seconds > cursor.until
  BY <1>2 DEF DecodeError, CursorExpired
<1>4. cursor.until = IF CursorLife = 0 THEN 0 ELSE page.made + CursorLife
  <2>1. \E doc, dir : cursor = Link(doc, dir, page.made)
    BY <1>1, <1>3 DEF Sound
  <2> QED
    BY <2>1 DEF Link
<1> QED
  BY <1>3, <1>4, PagesAssumption

--------------------------------------------------------------------------------
(* The parts of the invariant stand together from the first step on.          *)
THEOREM PagesInvariant == PagesSpec => []PagesInv
<1>1. PagesInit => PagesInv
  BY PagesInitInv
<1>2. PagesInv /\ [PagesNext]_pagesVars => PagesInv'
  BY PagesNextInv
<1> QED
  BY <1>1, <1>2, PTL DEF PagesSpec

(* Clock, collection, pages, links and sheet are what they are said to be.     *)
THEOREM PagesTypeCorrect == PagesSpec => []PagesTypeOK
BY PagesInvariant, InvImpliesTypes, PTL

(* Whoever follows the links on to the end, by cursor or by offset, has met    *)
(* all there was to meet, each once and in order, whatever was written on the  *)
(* way (mongodb/__init__.py:72-192, offset/mapper.py:9-27).                    *)
THEOREM WalksReachAllHolds == PagesSpec => []WalksReachAll
<1>1. PagesInv => WalksReachAll
  BY InvImpliesComplete, InvImpliesTiles DEF WalksReachAll
<1> QED
  BY <1>1, PagesInvariant, PTL

(* No holes in a page, no early end, back to where one came from, and no link  *)
(* that expires before its time (mongodb/__init__.py:120-192, hmac.py:98-120). *)
THEOREM LinksKeepTheirWordHolds == PagesSpec => LinksKeepTheirWord
<1>1. ASSUME PagesInv, [PagesNext]_pagesVars
      PROVE  page' # page /\ page'.items # << >> =>
               LET last == Last(page'.items)
                   first == Head(page'.items)
                   inside(d) == ~ Sorts("next", d, first) /\ ~ Sorts("next", last, d)
               IN /\ \A d \in docs : inside(d) => d \in ToSet(page'.items)
                  /\ page'.next = NoCursor => \A d \in docs : Dated(d) => ~ Sorts("next", last, d)
                  /\ page.prev # NoCursor /\ page' = Paginate(page.prev, TRUE) /\ page'.prev = NoCursor =>
                       \A d \in docs : Dated(d) => ~ Sorts("next", d, first)
  <2>1. page' # page => PagesNext
    BY <1>1 DEF pagesVars
  <2> QED
    BY <1>1, <2>1, TruthfulStep
<1>2. ASSUME PagesInv, [PagesNext]_pagesVars
      PROVE  back # << >> /\ page.prev # NoCursor /\ page' = Paginate(page.prev, TRUE) /\ page'.error = "none"
               => page'.items = back
  BY <1>2, BackFinds
<1>3. ASSUME PagesInv, [PagesNext]_pagesVars
      PROVE  page'.error = "expired" /\ page # page' => CursorLife > 0 /\ seconds > page.made + CursorLife
  <2>1. page' # page => PagesNext
    BY <1>3 DEF pagesVars
  <2> QED
    BY <1>3, <2>1, LivesStep
<1>4. PagesSpec => PagesAreTruthful
  BY <1>1, PagesInvariant, PTL DEF PagesSpec, PagesAreTruthful
<1>5. PagesSpec => BackFindsThePage
  BY <1>2, PagesInvariant, PTL DEF PagesSpec, BackFindsThePage
<1>6. PagesSpec => LinksLive
  BY <1>3, PagesInvariant, PTL DEF PagesSpec, LinksLive
<1> QED
  BY <1>4, <1>5, <1>6 DEF LinksKeepTheirWord
===============================================================================
