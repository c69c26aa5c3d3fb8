--------------------------- MODULE Documents_proofs ---------------------------
(* Proofs about the JSON:API documents, for any characters, lengths of a part  *)
(* of a location and numbers of resources.  What is computed along a sequence  *)
(* is proved by the smallest index at which it would fail.                     *)
EXTENDS Documents, SequenceTheorems, WellFoundedInduction, TLAPS

LEMMA FirstOf ==
  ASSUME NEW T, T \subseteq Nat, T # {}
  PROVE  \E n \in T : \A k \in T : n <= k
<1>1. PICK n \in T : \A k \in T : ~ (<<k, n>> \in OpToRel(<, Nat))
  BY NatLessThanWellFounded, WFMin
<1>2. \A k \in T : ~ (k < n)
  BY <1>1 DEF OpToRel
<1> QED
  BY <1>2

--------------------------------------------------------------------------------
(* Sequences put one behind the other: what FlattenSeq computes.               *)
Joins(F, s) == F = [i \in 1..Len(s) |-> IF i = 1 THEN s[i] ELSE F[i - 1] \o s[i]]

LEMMA JoinsExists ==
  ASSUME NEW s, Len(s) \in Nat
  PROVE  \E F : Joins(F, s)
<1> DEFINE upTo(F, k) == F = [i \in 1..k |-> IF i = 1 THEN s[i] ELSE F[i - 1] \o s[i]]
           without == {k \in Nat : ~ \E F : upTo(F, k)}
<1>1. ASSUME without # {} PROVE FALSE
  <2>1. PICK k \in without : \A l \in without : k <= l
    <3>1. without \subseteq Nat
      OBVIOUS
    <3> HIDE DEF without
    <3> QED
      BY <1>1, <3>1, FirstOf
  <2>2. k # 0
    <3>1. upTo([i \in 1..0 |-> 0], 0)
      OBVIOUS
    <3> QED
      BY <3>1
  <2>3. k \in Nat /\ k - 1 \in Nat /\ k - 1 \notin without
    <3>1. k \in Nat
      OBVIOUS
    <3> HIDE DEF without
    <3> QED
      BY <2>1, <2>2, <3>1
  <2>4. PICK F : upTo(F, k - 1)
    BY <2>3
  <2> DEFINE G == [i \in 1..k |-> IF i < k THEN F[i] ELSE IF k = 1 THEN s[k] ELSE F[k - 1] \o s[k]]
  <2>5. \A i \in 1..k : G[i] = IF i = 1 THEN s[i] ELSE G[i - 1] \o s[i]
    <3> SUFFICES ASSUME NEW i \in 1..k PROVE G[i] = IF i = 1 THEN s[i] ELSE G[i - 1] \o s[i]
      OBVIOUS
    <3>1. i \in Nat /\ (i = k \/ i \in 1..(k - 1))
      BY <2>3
    <3>2. i # 1 => i - 1 \in 1..k /\ i - 1 < k /\ G[i - 1] = F[i - 1]
      BY <2>3, <3>1
    <3>3. CASE i = k
      BY <3>2, <3>3
    <3>4. CASE i \in 1..(k - 1)
      <4>1. G[i] = F[i]
        BY <2>3, <3>4
      <4>2. F[i] = IF i = 1 THEN s[i] ELSE F[i - 1] \o s[i]
        BY <2>4, <3>4
      <4> QED
        BY <3>2, <4>1, <4>2
    <3> QED
      BY <3>1, <3>3, <3>4
  <2>6. upTo(G, k)
    <3>1. G = [i \in 1..k |-> G[i]]
      OBVIOUS
    <3> HIDE DEF G
    <3> QED
      BY <2>5, <3>1
  <2> QED
    BY <2>1, <2>6
<1>2. \E F : upTo(F, Len(s))
  BY <1>1
<1> QED
  BY <1>2 DEF Joins

LEMMA FlattenJoins ==
  ASSUME NEW s, Len(s) \in Nat \ {0}
  PROVE  \E F : Joins(F, s) /\ FlattenSeq(s) = F[Len(s)]
<1> DEFINE H == CHOOSE F : Joins(F, s)
<1>1. Joins(H, s)
  BY JoinsExists
<1>2. FlattenSeq(s) = H[Len(s)]
  BY DEF FlattenSeq, Joins
<1> QED
  BY <1>1, <1>2

LEMMA JoinsAgree ==
  ASSUME NEW s, NEW t, Len(s) \in Nat, Len(t) \in Nat, Len(s) <= Len(t),
         \A i \in 1..Len(s) : s[i] = t[i],
         NEW F, Joins(F, s), NEW G, Joins(G, t)
  PROVE  \A i \in 1..Len(s) : F[i] = G[i]
<1> DEFINE differ == {i \in 1..Len(s) : F[i] # G[i]}
<1>1. SUFFICES ASSUME differ # {} PROVE FALSE
  OBVIOUS
<1>2. PICK i \in differ : \A j \in differ : i <= j
  <2>1. differ \subseteq Nat
    OBVIOUS
  <2> HIDE DEF differ
  <2> QED
    BY <1>1, <2>1, FirstOf
<1>3. i \in 1..Len(s) /\ i \in 1..Len(t) /\ F[i] # G[i] /\ s[i] = t[i]
  OBVIOUS
<1>4. /\ F[i] = IF i = 1 THEN s[i] ELSE F[i - 1] \o s[i]
      /\ G[i] = IF i = 1 THEN t[i] ELSE G[i - 1] \o t[i]
  BY <1>3 DEF Joins
<1>5. i # 1 => i - 1 \in 1..Len(s) /\ i - 1 < i /\ i \in Nat
  BY <1>3
<1>6. i # 1 => F[i - 1] = G[i - 1]
  BY <1>2, <1>5
<1> QED
  BY <1>3, <1>4, <1>6

LEMMA FlattenNothing == FlattenSeq(<< >>) = << >>
BY DEF FlattenSeq

LEMMA FlattenAppend ==
  ASSUME NEW S, NEW s \in Seq(Seq(S)), NEW e \in Seq(S)
  PROVE  FlattenSeq(Append(s, e)) = FlattenSeq(s) \o e
<1> DEFINE t == Append(s, e)
           n == Len(s)
<1>1. /\ n \in Nat /\ Len(t) = n + 1 /\ t[n + 1] = e
      /\ \A i \in 1..n : t[i] = s[i]
      /\ n = 0 <=> s = << >>
  BY EmptySeq, AppendProperties, LenProperties
<1>3. n + 1 \in 1..Len(t) /\ Len(t) \in Nat \ {0}
  BY <1>1
<1> HIDE DEF t
<1>2. PICK G : Joins(G, t) /\ FlattenSeq(t) = G[n + 1]
  <2>1. \E G : Joins(G, t) /\ FlattenSeq(t) = G[Len(t)]
    BY <1>3, FlattenJoins
  <2> QED
    BY <1>1, <2>1
<1>4. G[n + 1] = IF n + 1 = 1 THEN e ELSE G[(n + 1) - 1] \o e
  BY <1>1, <1>2, <1>3 DEF Joins
<1>5. CASE n = 0
  BY <1>1, <1>2, <1>4, <1>5, FlattenNothing DEF t
<1>6. CASE n # 0
  <2>1. PICK F : Joins(F, s) /\ FlattenSeq(s) = F[n]
    BY <1>1, <1>6, FlattenJoins
  <2>2. n \in 1..n /\ (n + 1) - 1 = n /\ n + 1 # 1 /\ n <= Len(t) /\ Len(t) \in Nat
    BY <1>1, <1>6
  <2>3. F[n] = G[n]
    <3>1. Joins(F, s) /\ Joins(G, t) /\ Len(s) \in Nat /\ Len(t) \in Nat /\ Len(s) <= Len(t)
          /\ \A i \in 1..Len(s) : s[i] = t[i]
      BY <1>1, <1>2, <2>1, <2>2
    <3>2. \A i \in 1..Len(s) : F[i] = G[i]
      BY <3>1, JoinsAgree
    <3> QED
      BY <2>2, <3>2
  <2> QED
    BY <1>2, <1>4, <2>1, <2>2, <2>3 DEF t
<1> QED
  BY <1>5, <1>6

LEMMA FlattenIsSeq ==
  ASSUME NEW S, NEW s \in Seq(Seq(S))
  PROVE  FlattenSeq(s) \in Seq(S)
<1> DEFINE bad == {n \in Nat : \E r \in Seq(Seq(S)) : Len(r) = n /\ FlattenSeq(r) \notin Seq(S)}
<1>1. SUFFICES ASSUME bad # {} PROVE FALSE
  BY LenProperties
<1>2. PICK n \in bad : \A k \in bad : n <= k
  <2>1. bad \subseteq Nat
    OBVIOUS
  <2> HIDE DEF bad
  <2> QED
    BY <1>1, <2>1, FirstOf
<1>3. PICK r \in Seq(Seq(S)) : Len(r) = n /\ FlattenSeq(r) \notin Seq(S)
  OBVIOUS
<1>4. r # << >>
  BY <1>3, FlattenNothing
<1>5. PICK q \in Seq(Seq(S)), e \in Seq(S) : r = Append(q, e) /\ Len(q) = n - 1 /\ Len(q) \in Nat
  <2>1. PICK q \in Seq(Seq(S)), e \in Seq(S) : r = Append(q, e)
    BY <1>4, SequenceEmptyOrAppend
  <2>2. Len(r) = Len(q) + 1 /\ Len(q) \in Nat
    <3>1. Len(Append(q, e)) = Len(q) + 1
      BY AppendProperties
    <3>2. Len(q) \in Nat
      BY LenProperties
    <3> QED
      BY <2>1, <3>1, <3>2
  <2>3. Len(q) = n - 1
    BY <1>3, <2>2
  <2> QED
    BY <2>1, <2>2, <2>3
<1>6. n - 1 \notin bad
  BY <1>2, <1>5
<1>7. FlattenSeq(q) \in Seq(S)
  BY <1>5, <1>6
<1> QED
  BY <1>3, <1>5, <1>7, FlattenAppend, ConcatProperties

--------------------------------------------------------------------------------
(* Escaping.  The characters of a location and those escaping makes of them.   *)
Letters == Chars \union {"~", "/", "0", "1"}

Esc(x) == IF x = "~" THEN <<"~", "0">> ELSE IF x = "/" THEN <<"~", "1">> ELSE <<x>>

LEMMA FunctionIsSeq ==
  ASSUME NEW S, NEW n \in Nat, NEW g \in [1..n -> S]
  PROVE  g \in Seq(S) /\ Len(g) = n
OBVIOUS

LEMMA ReplaceAppend ==
  ASSUME NEW s \in Seq(Letters), NEW x \in Letters, NEW c, NEW by \in Seq(Letters)
  PROVE  /\ Replace(s, c, by) \in Seq(Letters)
         /\ Replace(Append(s, x), c, by) = Replace(s, c, by) \o (IF x = c THEN by ELSE <<x>>)
<1> DEFINE f(t) == [i \in DOMAIN t |-> IF t[i] = c THEN by ELSE <<t[i]>>]
           e == IF x = c THEN by ELSE <<x>>
           n == Len(s)
<1>1. e \in Seq(Letters)
  OBVIOUS
<1>2. \A t \in Seq(Letters) : f(t) \in Seq(Seq(Letters)) /\ Len(f(t)) = Len(t) /\ Len(t) \in Nat
  <2> SUFFICES ASSUME NEW t \in Seq(Letters)
               PROVE  f(t) \in Seq(Seq(Letters)) /\ Len(f(t)) = Len(t) /\ Len(t) \in Nat
    OBVIOUS
  <2>1. Len(t) \in Nat /\ DOMAIN t = 1..Len(t) /\ \A i \in 1..Len(t) : t[i] \in Letters
    BY LenProperties, ElementOfSeq
  <2>2. \A i \in 1..Len(t) : (IF t[i] = c THEN by ELSE <<t[i]>>) \in Seq(Letters)
    BY <2>1
  <2>3. f(t) \in [1..Len(t) -> Seq(Letters)]
    BY <2>1, <2>2
  <2> HIDE DEF f
  <2> QED
    BY <2>1, <2>3, FunctionIsSeq
<1>3. /\ Append(s, x) \in Seq(Letters) /\ Len(Append(s, x)) = n + 1 /\ n \in Nat
      /\ Append(s, x)[n + 1] = x /\ \A i \in 1..n : Append(s, x)[i] = s[i]
      /\ DOMAIN s = 1..n /\ DOMAIN Append(s, x) = 1..(n + 1)
  BY AppendProperties, LenProperties
<1>4. f(Append(s, x)) = Append(f(s), e)
  <2>1. /\ f(s) \in Seq(Seq(Letters)) /\ Len(f(s)) = n
        /\ f(Append(s, x)) \in Seq(Seq(Letters)) /\ Len(f(Append(s, x))) = n + 1
    BY <1>2, <1>3
  <2>2. /\ \A i \in 1..n : f(s)[i] = IF s[i] = c THEN by ELSE <<s[i]>>
        /\ \A i \in 1..n : f(Append(s, x))[i] = IF s[i] = c THEN by ELSE <<s[i]>>
        /\ f(Append(s, x))[n + 1] = e
    BY <1>3
  <2> HIDE DEF f, e
  <2>3. /\ Append(f(s), e) \in Seq(Seq(Letters)) /\ Len(Append(f(s), e)) = n + 1
        /\ Append(f(s), e)[n + 1] = e /\ \A i \in 1..n : Append(f(s), e)[i] = f(s)[i]
    BY <1>1, <2>1, AppendProperties
  <2>4. \A i \in 1..(n + 1) : f(Append(s, x))[i] = Append(f(s), e)[i]
    <3>1. \A i \in 1..(n + 1) : i \in 1..n \/ i = n + 1
      BY <1>3
    <3> QED
      BY <2>2, <2>3, <3>1
  <2> QED
    BY <2>1, <2>3, <2>4, SeqEqual
<1>5. \A t \in Seq(Letters) : Replace(t, c, by) = FlattenSeq(f(t))
  BY DEF Replace
<1> HIDE DEF f, e
<1>6. Replace(s, c, by) \in Seq(Letters)
  BY <1>2, <1>5, FlattenIsSeq
<1>7. Replace(Append(s, x), c, by) = Replace(s, c, by) \o e
  BY <1>1, <1>2, <1>3, <1>4, <1>5, FlattenAppend
<1> QED
  BY <1>6, <1>7 DEF e

LEMMA EscapeNothing == Escape(<< >>) = << >>
<1>1. \A c, by : Replace(<< >>, c, by) = << >>
  <2> SUFFICES ASSUME NEW c, NEW by PROVE Replace(<< >>, c, by) = << >>
    OBVIOUS
  <2> DEFINE none == [i \in DOMAIN << >> |-> IF << >>[i] = c THEN by ELSE << <<>>[i] >>]
  <2>1. none = << >>
    OBVIOUS
  <2> QED
    BY <2>1, FlattenNothing DEF Replace
<1> QED
  BY <1>1 DEF Escape

LEMMA OneByOne ==
  ASSUME NEW S, NEW s \in Seq(S), NEW x \in S, NEW y \in S
  PROVE  (s \o <<x>>) \o <<y>> = s \o <<x, y>> /\ Append(Append(s, x), y) = s \o <<x, y>>
<1>1. Append(Append(s, x), y) = s \o <<x, y>>
  OBVIOUS
<1>2. Append(s, x) = s \o <<x>> /\ Append(s, x) \in Seq(S)
  BY AppendIsConcat, AppendProperties
<1>3. Append(Append(s, x), y) = Append(s, x) \o <<y>>
  BY <1>2, AppendIsConcat
<1> QED
  BY <1>1, <1>2, <1>3

LEMMA EscapeAppend ==
  ASSUME NEW s \in Seq(Letters), NEW x \in Letters
  PROVE  /\ Escape(s) \in Seq(Letters) /\ Esc(x) \in Seq(Letters)
         /\ Escape(Append(s, x)) = Escape(s) \o Esc(x)
<1> DEFINE inner(t) == Replace(t, "~", <<"~", "0">>)
           outer(t) == Replace(t, "/", <<"~", "1">>)
<1>1. /\ "~" \in Letters /\ "0" \in Letters /\ "1" \in Letters /\ "/" \in Letters
      /\ <<"~", "0">> \in Seq(Letters) /\ <<"~", "1">> \in Seq(Letters)
  BY DEF Letters
<1>2. \A t \in Seq(Letters), y \in Letters :
        /\ inner(t) \in Seq(Letters) /\ outer(t) \in Seq(Letters) /\ Append(t, y) \in Seq(Letters)
        /\ inner(Append(t, y)) = inner(t) \o (IF y = "~" THEN <<"~", "0">> ELSE <<y>>)
        /\ outer(Append(t, y)) = outer(t) \o (IF y = "/" THEN <<"~", "1">> ELSE <<y>>)
  <2> SUFFICES ASSUME NEW t \in Seq(Letters), NEW y \in Letters
               PROVE  /\ inner(t) \in Seq(Letters) /\ outer(t) \in Seq(Letters) /\ Append(t, y) \in Seq(Letters)
                      /\ inner(Append(t, y)) = inner(t) \o (IF y = "~" THEN <<"~", "0">> ELSE <<y>>)
                      /\ outer(Append(t, y)) = outer(t) \o (IF y = "/" THEN <<"~", "1">> ELSE <<y>>)
    OBVIOUS
  <2>1. Append(t, y) \in Seq(Letters)
    BY AppendProperties
  <2>2. \A c, by : by \in Seq(Letters) =>
          /\ Replace(t, c, by) \in Seq(Letters)
          /\ Replace(Append(t, y), c, by) = Replace(t, c, by) \o (IF y = c THEN by ELSE <<y>>)
    BY ReplaceAppend
  <2>3. inner(t) \in Seq(Letters) /\ inner(Append(t, y)) = inner(t) \o (IF y = "~" THEN <<"~", "0">> ELSE <<y>>)
    BY <1>1, <2>2, Zenon
  <2>4. outer(t) \in Seq(Letters) /\ outer(Append(t, y)) = outer(t) \o (IF y = "/" THEN <<"~", "1">> ELSE <<y>>)
    BY <1>1, <2>2, Zenon
  <2> QED
    BY <2>1, <2>3, <2>4
<1>3. Escape(s) = outer(inner(s)) /\ Escape(Append(s, x)) = outer(inner(Append(s, x)))
  BY DEF Escape
<1> HIDE DEF inner, outer
<1>4. Esc(x) \in Seq(Letters)
  BY <1>1 DEF Esc
<1>5. CASE x = "~"
  <2>1. inner(Append(s, x)) = Append(Append(inner(s), "~"), "0")
    <3>1. inner(Append(s, x)) = inner(s) \o <<"~", "0">> /\ inner(s) \in Seq(Letters)
      BY <1>2, <1>5
    <3> QED
      BY <1>1, <3>1, OneByOne
  <2>2. outer(Append(Append(inner(s), "~"), "0")) = (outer(inner(s)) \o <<"~">>) \o <<"0">>
    <3>1. inner(s) \in Seq(Letters) /\ Append(inner(s), "~") \in Seq(Letters)
      BY <1>1, <1>2
    <3>2. outer(Append(inner(s), "~")) = outer(inner(s)) \o <<"~">>
      BY <1>1, <1>2, <3>1
    <3>3. outer(Append(Append(inner(s), "~"), "0")) = outer(Append(inner(s), "~")) \o <<"0">>
      BY <1>1, <1>2, <3>1
    <3> QED
      BY <3>2, <3>3
  <2>3. (outer(inner(s)) \o <<"~">>) \o <<"0">> = outer(inner(s)) \o <<"~", "0">>
    <3>1. outer(inner(s)) \in Seq(Letters) /\ "~" \in Letters /\ "0" \in Letters
      BY <1>1, <1>2
    <3> QED
      BY <3>1, OneByOne
  <2> QED
    BY <1>2, <1>3, <1>4, <1>5, <2>1, <2>2, <2>3 DEF Esc
<1>6. CASE x # "~"
  <2>1. inner(Append(s, x)) = Append(inner(s), x)
    <3>1. inner(Append(s, x)) = inner(s) \o <<x>> /\ inner(s) \in Seq(Letters)
      BY <1>2, <1>6
    <3> QED
      BY <3>1, AppendIsConcat
  <2>2. outer(Append(inner(s), x)) = outer(inner(s)) \o (IF x = "/" THEN <<"~", "1">> ELSE <<x>>)
    BY <1>2
  <2> QED
    BY <1>2, <1>3, <1>4, <1>6, <2>1, <2>2 DEF Esc
<1> QED
  BY <1>5, <1>6

(* What escaping makes has no slash, and a tilde only before a digit.          *)
Clean(s) == \A i \in 1..Len(s) : s[i] = "~" => i < Len(s) /\ s[i + 1] \in {"0", "1"}
Sealed(s) == Clean(s) /\ \A i \in 1..Len(s) : s[i] # "/"

LEMMA ConcatLen ==
  ASSUME NEW S, NEW s \in Seq(S), NEW t \in Seq(S)
  PROVE  s \o t \in Seq(S) /\ Len(s) \in Nat /\ Len(t) \in Nat /\ Len(s \o t) = Len(s) + Len(t)
BY ConcatProperties, LenProperties

LEMMA ConcatLeft ==
  ASSUME NEW S, NEW s \in Seq(S), NEW t \in Seq(S)
  PROVE  \A i \in 1..Len(s) : (s \o t)[i] = s[i]
<1>1. Len(s) \in Nat /\ Len(t) \in Nat
  BY LenProperties
<1>2. \A i \in 1..(Len(s) + Len(t)) : (s \o t)[i] = IF i <= Len(s) THEN s[i] ELSE t[i - Len(s)]
  BY ConcatProperties
<1> QED
  BY <1>1, <1>2

LEMMA ConcatRight ==
  ASSUME NEW S, NEW s \in Seq(S), NEW t \in Seq(S)
  PROVE  \A i \in 1..Len(t) : (s \o t)[Len(s) + i] = t[i]
<1>1. Len(s) \in Nat /\ Len(t) \in Nat
  BY LenProperties
<1>2. \A i \in 1..(Len(s) + Len(t)) : (s \o t)[i] = IF i <= Len(s) THEN s[i] ELSE t[i - Len(s)]
  BY ConcatProperties
<1> SUFFICES ASSUME NEW i \in 1..Len(t) PROVE (s \o t)[Len(s) + i] = t[i]
  OBVIOUS
<1>3. Len(s) + i \in 1..(Len(s) + Len(t)) /\ ~ (Len(s) + i <= Len(s)) /\ Len(s) + i - Len(s) = i
  BY <1>1
<1> QED
  BY <1>2, <1>3

LEMMA ConcatEither ==
  ASSUME NEW S, NEW s \in Seq(S), NEW t \in Seq(S), NEW i \in 1..Len(s \o t)
  PROVE  \/ i \in 1..Len(s) /\ (s \o t)[i] = s[i]
         \/ \E j \in 1..Len(t) : i = Len(s) + j /\ (s \o t)[i] = t[j]
<1>1. Len(s) \in Nat /\ Len(t) \in Nat /\ i \in 1..(Len(s) + Len(t))
  BY ConcatLen
<1>2. CASE i \in 1..Len(s)
  BY <1>2, ConcatLeft
<1>3. CASE i \notin 1..Len(s)
  <2>1. PICK j \in 1..Len(t) : i = Len(s) + j
    <3>1. i - Len(s) \in 1..Len(t) /\ i = Len(s) + (i - Len(s))
      BY <1>1, <1>3
    <3> QED
      BY <3>1
  <2>2. (s \o t)[Len(s) + j] = t[j]
    BY ConcatRight
  <2> QED
    BY <2>1, <2>2
<1> QED
  BY <1>2, <1>3

LEMMA CleanBehindClean ==
  ASSUME NEW S, NEW s \in Seq(S), NEW t \in Seq(S), Clean(s), Clean(t)
  PROVE  Clean(s \o t)
<1> SUFFICES ASSUME NEW i \in 1..Len(s \o t), (s \o t)[i] = "~"
             PROVE  i < Len(s \o t) /\ (s \o t)[i + 1] \in {"0", "1"}
  BY DEF Clean
<1>1. Len(s) \in Nat /\ Len(t) \in Nat /\ Len(s \o t) = Len(s) + Len(t)
  BY ConcatLen
<1>2. CASE i \in 1..Len(s)
  <2>1. i < Len(s) /\ s[i + 1] \in {"0", "1"}
    BY <1>2, ConcatLeft DEF Clean
  <2>2. i + 1 \in 1..Len(s) /\ i < Len(s) + Len(t)
    BY <1>1, <1>2, <2>1
  <2> QED
    BY <1>1, <2>1, <2>2, ConcatLeft
<1>3. CASE i \notin 1..Len(s)
  <2>1. PICK j \in 1..Len(t) : t[j] = "~" /\ i = Len(s) + j
    BY <1>3, ConcatEither
  <2>2. j < Len(t) /\ t[j + 1] \in {"0", "1"}
    BY <2>1 DEF Clean
  <2>3. j + 1 \in 1..Len(t) /\ i < Len(s) + Len(t) /\ i + 1 = Len(s) + (j + 1)
    BY <1>1, <2>1, <2>2
  <2> QED
    BY <1>1, <2>2, <2>3, ConcatRight
<1> QED
  BY <1>2, <1>3

LEMMA SealedBehindSealed ==
  ASSUME NEW S, NEW s \in Seq(S), NEW t \in Seq(S), Sealed(s), Sealed(t)
  PROVE  Sealed(s \o t)
<1>1. Clean(s \o t)
  BY CleanBehindClean DEF Sealed
<1>2. ASSUME NEW i \in 1..Len(s \o t)
      PROVE  (s \o t)[i] # "/"
  BY ConcatEither DEF Sealed
<1> QED
  BY <1>1, <1>2 DEF Sealed

LEMMA EscSealed ==
  ASSUME NEW x
  PROVE  Sealed(Esc(x)) /\ Len(Esc(x)) \in Nat
<1>1. CASE x = "~"
  <2>1. Esc(x) = <<"~", "0">>
    BY <1>1 DEF Esc
  <2> QED
    BY <2>1 DEF Sealed, Clean
<1>2. CASE x = "/"
  <2>1. Esc(x) = <<"~", "1">>
    BY <1>2 DEF Esc
  <2> QED
    BY <2>1 DEF Sealed, Clean
<1>3. CASE x # "~" /\ x # "/"
  <2>1. Esc(x) = <<x>>
    BY <1>3 DEF Esc
  <2> QED
    BY <1>3, <2>1 DEF Sealed, Clean
<1> QED
  BY <1>1, <1>2, <1>3

LEMMA EscapeSealed ==
  ASSUME NEW p \in Seq(Letters)
  PROVE  Escape(p) \in Seq(Letters) /\ Sealed(Escape(p))
<1> DEFINE bad == {n \in Nat : \E q \in Seq(Letters) :
                     Len(q) = n /\ ~ (Escape(q) \in Seq(Letters) /\ Sealed(Escape(q)))}
<1>1. SUFFICES ASSUME bad # {} PROVE FALSE
  BY LenProperties
<1>2. PICK n \in bad : \A k \in bad : n <= k
  <2>1. bad \subseteq Nat
    OBVIOUS
  <2> HIDE DEF bad
  <2> QED
    BY <1>1, <2>1, FirstOf
<1>3. PICK q \in Seq(Letters) : Len(q) = n /\ ~ (Escape(q) \in Seq(Letters) /\ Sealed(Escape(q)))
  OBVIOUS
<1>4. q # << >>
  <2>1. Sealed(<< >>) /\ << >> \in Seq(Letters)
    BY DEF Sealed, Clean
  <2> QED
    BY <1>3, <2>1, EscapeNothing
<1>5. PICK r \in Seq(Letters), x \in Letters : q = Append(r, x)
  BY <1>4, SequenceEmptyOrAppend
<1>6. Len(r) \in Nat /\ Len(r) < n
  <2>1. Len(Append(r, x)) = Len(r) + 1 /\ Len(r) \in Nat
    BY AppendProperties, LenProperties
  <2> QED
    BY <1>3, <1>5, <2>1
<1>7. Escape(r) \in Seq(Letters) /\ Sealed(Escape(r))
  BY <1>2, <1>6
<1>8. Escape(q) = Escape(r) \o Esc(x) /\ Esc(x) \in Seq(Letters)
  BY <1>5, EscapeAppend
<1> QED
  BY <1>3, <1>7, <1>8, EscSealed, SealedBehindSealed, ConcatProperties

(* A letter is known by what escaping makes of it at the end.                  *)
LEMMA LastLetter ==
  ASSUME NEW e \in Seq(Letters), NEW f \in Seq(Letters), Clean(e), Clean(f),
         NEW x \in Letters, NEW y \in Letters, NEW w, w = e \o Esc(x), w = f \o Esc(y)
  PROVE  e = f /\ x = y
<1> DEFINE ex == Esc(x)
           ey == Esc(y)
<1>1. /\ ex \in Seq(Letters) /\ ey \in Seq(Letters) /\ Len(e) \in Nat /\ Len(f) \in Nat
      /\ Len(e) + Len(ex) = Len(f) + Len(ey)
  <2>1. ex \in Seq(Letters) /\ ey \in Seq(Letters)
    BY EscapeAppend
  <2> HIDE DEF ex, ey
  <2>2. Len(e \o ex) = Len(e) + Len(ex) /\ Len(f \o ey) = Len(f) + Len(ey) /\ Len(e) \in Nat /\ Len(f) \in Nat
    BY <2>1, ConcatLen
  <2> QED
    BY <2>1, <2>2 DEF ex, ey
<1>2. \A z : \/ z = "~" /\ Esc(z) = <<"~", "0">>
             \/ z = "/" /\ Esc(z) = <<"~", "1">>
             \/ z # "~" /\ z # "/" /\ Esc(z) = <<z>>
  BY DEF Esc
<1>3. Len(ex) = Len(ey) => e = f /\ ex = ey
  <2> SUFFICES ASSUME Len(ex) = Len(ey) PROVE e = f /\ ex = ey
    OBVIOUS
  <2>1. Len(e) = Len(f) /\ Len(ex) \in Nat
    BY <1>1, LenProperties
  <2> HIDE DEF ex, ey
  <2>2. e \o ex = f \o ey
    BY DEF ex, ey
  <2>3. \A i \in 1..Len(e) : e[i] = f[i]
    <3>1. (\A i \in 1..Len(e) : (e \o ex)[i] = e[i]) /\ (\A i \in 1..Len(f) : (f \o ey)[i] = f[i])
      BY <1>1, ConcatLeft
    <3> QED
      BY <2>1, <2>2, <3>1
  <2>4. \A i \in 1..Len(ex) : ex[i] = ey[i]
    <3>1. \A i \in 1..Len(ex) : (e \o ex)[Len(e) + i] = ex[i]
      BY <1>1, ConcatRight
    <3>2. \A i \in 1..Len(ey) : (f \o ey)[Len(f) + i] = ey[i]
      BY <1>1, ConcatRight
    <3> QED
      BY <2>1, <2>2, <3>1, <3>2
  <2> QED
    BY <1>1, <2>1, <2>3, <2>4, SeqEqual
<1>4. ASSUME NEW g \in Seq(Letters), NEW h \in Seq(Letters), Clean(h), NEW a, NEW b,
             NEW c \in Letters, c = "~", a \in Letters, b \in Letters, g \o <<c, a>> = h \o <<b>>
      PROVE  FALSE
  <2>1. <<c, a>> \in Seq(Letters) /\ <<b>> \in Seq(Letters) /\ Len(<<c, a>>) = 2 /\ Len(<<b>>) = 1
    BY <1>4
  <2>2. /\ Len(g) \in Nat /\ Len(h) \in Nat /\ Len(g) + 2 = Len(h) + 1
        /\ (g \o <<c, a>>)[Len(g) + 1] = c
        /\ \A i \in 1..Len(h) : (h \o <<b>>)[i] = h[i]
    <3> DEFINE ca == <<c, a>>
               bs == <<b>>
    <3>1. ca \in Seq(Letters) /\ bs \in Seq(Letters) /\ Len(ca) = 2 /\ Len(bs) = 1 /\ ca[1] = c /\ 1 \in 1..Len(ca)
      BY <2>1
    <3> HIDE DEF ca, bs
    <3>3. ca \in Seq(Letters) /\ bs \in Seq(Letters)
      BY <3>1
    <3>2. /\ Len(g) \in Nat /\ Len(h) \in Nat /\ Len(g \o ca) = Len(g) + 2 /\ Len(h \o bs) = Len(h) + 1
          /\ (g \o ca)[Len(g) + 1] = c
          /\ \A i \in 1..Len(h) : (h \o bs)[i] = h[i]
      <4>1. /\ Len(g) \in Nat /\ Len(g \o ca) = Len(g) + Len(ca)
            /\ \A i \in 1..Len(ca) : (g \o ca)[Len(g) + i] = ca[i]
        <5>1. Len(g) \in Nat /\ Len(g \o ca) = Len(g) + Len(ca)
          BY <3>3, ConcatLen
        <5>2. \A i \in 1..Len(ca) : (g \o ca)[Len(g) + i] = ca[i]
          BY <3>3, ConcatRight
        <5> QED
          BY <5>1, <5>2
      <4>2. /\ Len(h) \in Nat /\ Len(h \o bs) = Len(h) + Len(bs)
            /\ \A i \in 1..Len(h) : (h \o bs)[i] = h[i]
        <5>1. Len(h) \in Nat /\ Len(h \o bs) = Len(h) + Len(bs)
          BY <3>3, ConcatLen
        <5>2. \A i \in 1..Len(h) : (h \o bs)[i] = h[i]
          BY <3>3, ConcatLeft
        <5> QED
          BY <5>1, <5>2
      <4> QED
        BY <3>1, <4>1, <4>2
    <3> QED
      BY <1>4, <3>2 DEF ca, bs
  <2>3. Len(g) + 1 = Len(h) /\ Len(h) \in 1..Len(h)
    BY <2>2
  <2>4. h[Len(h)] = "~"
    BY <1>4, <2>2, <2>3
  <2>5. Len(h) < Len(h)
    BY <1>4, <2>3, <2>4 DEF Clean
  <2> QED
    BY <2>2, <2>5
<1>5. "~" \in Letters /\ "0" \in Letters /\ "1" \in Letters
  BY DEF Letters
<1>6. CASE Len(ex) = Len(ey)
  <2>1. e = f /\ ex = ey
    BY <1>3, <1>6
  <2>2. Len(ex) = Len(ey) /\ ex[1] = ey[1] /\ ex[Len(ex)] = ey[Len(ex)]
    BY <2>1
  <2>3. \A z, v : Len(<<z, v>>) = 2 /\ <<z, v>>[2] = v /\ Len(<<z>>) = 1 /\ <<z>>[1] = z
    OBVIOUS
  <2>5. \/ x = "~" /\ Len(ex) = 2 /\ ex[2] = "0"
        \/ x = "/" /\ Len(ex) = 2 /\ ex[2] = "1"
        \/ x # "~" /\ x # "/" /\ Len(ex) = 1 /\ ex[1] = x
    BY <1>2, <2>3
  <2>6. \/ y = "~" /\ Len(ey) = 2 /\ ey[2] = "0"
        \/ y = "/" /\ Len(ey) = 2 /\ ey[2] = "1"
        \/ y # "~" /\ y # "/" /\ Len(ey) = 1 /\ ey[1] = y
    BY <1>2, <2>3
  <2> HIDE DEF ex, ey
  <2>4. x = y
    BY <2>1, <2>5, <2>6
  <2> QED
    BY <2>1, <2>4
<1>7. CASE Len(ex) # Len(ey)
  <2>1. \A z, v : Len(<<z, v>>) = 2 /\ Len(<<z>>) = 1
    OBVIOUS
  <2>2. \/ \E a \in Letters : ex = <<"~", a>> /\ ey = <<y>>
        \/ \E a \in Letters : ey = <<"~", a>> /\ ex = <<x>>
    BY <1>2, <1>5, <1>7, <2>1
  <2> QED
    BY <1>4, <1>5, <2>2
<1> QED
  BY <1>6, <1>7

EndsIn(w, text, x) == w = Escape(text) \o Esc(x)

LEMMA LastOfEscaped ==
  ASSUME NEW r \in Seq(Letters), NEW s \in Seq(Letters), NEW x \in Letters, NEW y \in Letters,
         NEW w, EndsIn(w, r, x), EndsIn(w, s, y)
  PROVE  Escape(r) = Escape(s) /\ x = y
<1>1. Escape(r) \in Seq(Letters) /\ Clean(Escape(r)) /\ w = Escape(r) \o Esc(x)
  BY EscapeSealed DEF Sealed, EndsIn
<1>2. Escape(s) \in Seq(Letters) /\ Clean(Escape(s)) /\ w = Escape(s) \o Esc(y)
  BY EscapeSealed DEF Sealed, EndsIn
<1>3. \A e \in Seq(Letters), f \in Seq(Letters) :
        Clean(e) /\ Clean(f) /\ w = e \o Esc(x) /\ w = f \o Esc(y) => e = f /\ x = y
  <2> SUFFICES ASSUME NEW e \in Seq(Letters), NEW f \in Seq(Letters),
                      Clean(e), Clean(f), w = e \o Esc(x), w = f \o Esc(y)
               PROVE  e = f /\ x = y
    OBVIOUS
  <2> QED
    BY LastLetter, ZenonT(60)
<1> QED
  BY <1>1, <1>2, <1>3

LEMMA EscapeInjective ==
  ASSUME NEW p \in Seq(Letters), NEW q \in Seq(Letters), Escape(p) = Escape(q)
  PROVE  p = q
<1> DEFINE bad == {n \in Nat : \E a \in Seq(Letters), b \in Seq(Letters) :
                     Len(a) = n /\ Escape(a) = Escape(b) /\ a # b}
<1>1. SUFFICES ASSUME bad # {} PROVE FALSE
  BY LenProperties
<1>2. PICK n \in bad : \A k \in bad : n <= k
  <2>1. bad \subseteq Nat
    OBVIOUS
  <2> HIDE DEF bad
  <2> QED
    BY <1>1, <2>1, FirstOf
<1>3. PICK a \in Seq(Letters), b \in Seq(Letters) : Len(a) = n /\ Escape(a) = Escape(b) /\ a # b
  OBVIOUS
<1>13. n \in Nat
  OBVIOUS
<1> HIDE DEF bad
<1>4. \A c \in Seq(Letters) : c # << >> =>
        \E r \in Seq(Letters), x \in Letters : c = Append(r, x) /\ Escape(c) = Escape(r) \o Esc(x)
  <2> SUFFICES ASSUME NEW c \in Seq(Letters), c # << >>
               PROVE  \E r \in Seq(Letters), x \in Letters : c = Append(r, x) /\ Escape(c) = Escape(r) \o Esc(x)
    OBVIOUS
  <2>1. PICK r \in Seq(Letters), x \in Letters : c = Append(r, x)
    BY SequenceEmptyOrAppend
  <2> QED
    BY <2>1, EscapeAppend
<1>5. \A r \in Seq(Letters), x \in Letters : Escape(r) \o Esc(x) # << >>
  <2> SUFFICES ASSUME NEW r \in Seq(Letters), NEW x \in Letters, Escape(r) \o Esc(x) = << >>
               PROVE  FALSE
    OBVIOUS
  <2>1. Escape(r) \in Seq(Letters) /\ Esc(x) \in Seq(Letters)
    BY EscapeAppend
  <2>2. Len(Escape(r)) \in Nat /\ Len(Escape(r) \o Esc(x)) = Len(Escape(r)) + Len(Esc(x))
    BY <2>1, ConcatLen
  <2>3. Len(Esc(x)) \in Nat \ {0}
    <3>1. Len(<<"~", "0">>) = 2 /\ Len(<<"~", "1">>) = 2 /\ Len(<<x>>) = 1
      OBVIOUS
    <3> QED
      BY <3>1 DEF Esc
  <2>4. Len(Escape(r) \o Esc(x)) = 0
    OBVIOUS
  <2> QED
    BY <2>2, <2>3, <2>4
<1>6. a # << >> /\ b # << >>
  BY <1>3, <1>4, <1>5, EscapeNothing
<1>7. PICK r \in Seq(Letters), x \in Letters : a = Append(r, x) /\ Escape(a) = Escape(r) \o Esc(x)
  BY <1>4, <1>6
<1>8. PICK s \in Seq(Letters), y \in Letters : b = Append(s, y) /\ Escape(b) = Escape(s) \o Esc(y)
  BY <1>4, <1>6
<1>9. Escape(r) = Escape(s) /\ x = y
  <2>1. EndsIn(Escape(a), r, x) /\ EndsIn(Escape(a), s, y)
    BY <1>3, <1>7, <1>8 DEF EndsIn
  <2> QED
    BY <2>1, LastOfEscaped
<1>10. r # s
  BY <1>3, <1>7, <1>8, <1>9
<1>11. Len(r) \in Nat /\ Len(r) < n
  <2>1. Len(Append(r, x)) = Len(r) + 1 /\ Len(r) \in Nat
    BY AppendProperties, LenProperties
  <2> QED
    BY <1>3, <1>7, <2>1
<1>12. Len(r) \in bad
  BY <1>9, <1>10, <1>11 DEF bad
<1> QED
  BY <1>2, <1>11, <1>12, <1>13

(* The last slash of a pointer is where its last part begins.                  *)
LEMMA LastSlash ==
  ASSUME NEW S, NEW u \in Seq(S), NEW v \in Seq(S), NEW e \in Seq(S), NEW f \in Seq(S),
         Len(e) \in Nat \ {0}, Len(f) \in Nat \ {0}, e[1] = "/", f[1] = "/",
         \A i \in 2..Len(e) : e[i] # "/", \A i \in 2..Len(f) : f[i] # "/",
         u \o e = v \o f
  PROVE  u = v /\ e = f
<1>1. /\ Len(u) \in Nat /\ Len(v) \in Nat /\ Len(u \o e) = Len(u) + Len(e) /\ Len(v \o f) = Len(v) + Len(f)
      /\ \A i \in 1..Len(u) : (u \o e)[i] = u[i]
      /\ \A i \in 1..Len(e) : (u \o e)[Len(u) + i] = e[i]
  <2>0. u \in Seq(S) /\ e \in Seq(S)
    OBVIOUS
  <2>1. Len(u) \in Nat /\ Len(v) \in Nat /\ Len(u \o e) = Len(u) + Len(e) /\ Len(v \o f) = Len(v) + Len(f)
    BY ConcatLen
  <2>2. \A i \in 1..Len(u) : (u \o e)[i] = u[i]
    BY ONLY <2>0, ConcatLeft
  <2>3. \A i \in 1..Len(e) : (u \o e)[Len(u) + i] = e[i]
    BY ONLY <2>0, ConcatRight
  <2> QED
    BY <2>1, <2>2, <2>3
<1>2. /\ \A i \in 1..Len(v) : (v \o f)[i] = v[i]
      /\ \A i \in 1..Len(f) : (v \o f)[Len(v) + i] = f[i]
  <2>0. v \in Seq(S) /\ f \in Seq(S)
    OBVIOUS
  <2>1. \A i \in 1..Len(v) : (v \o f)[i] = v[i]
    BY ONLY <2>0, ConcatLeft
  <2>2. \A i \in 1..Len(f) : (v \o f)[Len(v) + i] = f[i]
    BY ONLY <2>0, ConcatRight
  <2> QED
    BY <2>1, <2>2
<1>3. ASSUME Len(u) < Len(v) PROVE FALSE
  <2> DEFINE i == Len(v) + 1 - Len(u)
  <2>1. i \in 2..Len(e) /\ i \in 1..Len(e) /\ Len(u) + i = Len(v) + 1 /\ 1 \in 1..Len(f)
    BY <1>1, <1>3
  <2>2. (u \o e)[Len(u) + i] = e[i] /\ (v \o f)[Len(v) + 1] = f[1]
    BY <1>1, <1>2, <2>1
  <2>3. e[i] = f[1]
    BY <2>1, <2>2
  <2> QED
    BY <2>1, <2>3
<1>4. ASSUME Len(v) < Len(u) PROVE FALSE
  <2> DEFINE i == Len(u) + 1 - Len(v)
  <2>1. i \in 2..Len(f) /\ i \in 1..Len(f) /\ Len(v) + i = Len(u) + 1 /\ 1 \in 1..Len(e)
    BY <1>1, <1>4
  <2>2. (v \o f)[Len(v) + i] = f[i] /\ (u \o e)[Len(u) + 1] = e[1]
    BY <1>1, <1>2, <2>1
  <2>3. f[i] = e[1]
    BY <2>1, <2>2
  <2> QED
    BY <2>1, <2>3
<1>5. Len(u) = Len(v) /\ Len(e) = Len(f)
  BY <1>1, <1>3, <1>4
<1>6. \A i \in 1..Len(u) : u[i] = v[i]
  BY <1>1, <1>2, <1>5
<1>7. \A i \in 1..Len(e) : e[i] = f[i]
  BY <1>1, <1>2, <1>5
<1> QED
  BY <1>5, <1>6, <1>7, SeqEqual

--------------------------------------------------------------------------------
(* Pointers, of any number of parts.                                           *)
Texts == Seq(Letters)
Step(part) == <<"/">> \o Escape(part)

LEMMA StepBegins ==
  ASSUME NEW part \in Texts
  PROVE  /\ Step(part) \in Texts /\ Len(Step(part)) \in Nat \ {0} /\ Step(part)[1] = "/"
         /\ \A i \in 2..Len(Step(part)) : Step(part)[i] # "/"
         /\ Clean(Step(part))
         /\ \A other \in Texts : Step(other) = Step(part) => other = part
<1> DEFINE slash == <<"/">>
<1>1. /\ slash \in Seq(Letters) /\ Len(slash) = 1 /\ slash[1] = "/" /\ Clean(slash)
      /\ \A other \in Texts : Escape(other) \in Seq(Letters) /\ Sealed(Escape(other))
  BY EscapeSealed DEF Texts, Letters, Clean
<1>2. \A other : Step(other) = slash \o Escape(other)
  BY DEF Step
<1> HIDE DEF slash
<1>0. ASSUME NEW other \in Texts
      PROVE  /\ Step(other) \in Seq(Letters) /\ Len(Step(other)) = 1 + Len(Escape(other)) /\ Len(Escape(other)) \in Nat
             /\ \A i \in 1..1 : Step(other)[i] = slash[i]
             /\ \A i \in 1..Len(Escape(other)) : Step(other)[1 + i] = Escape(other)[i]
  <2>1. Escape(other) \in Seq(Letters) /\ Step(other) = slash \o Escape(other)
    BY <1>1, <1>2
  <2>5. slash \in Seq(Letters)
    BY <1>1
  <2>2. /\ Step(other) \in Seq(Letters) /\ Len(Step(other)) = Len(slash) + Len(Escape(other))
        /\ Len(Escape(other)) \in Nat
    BY <2>1, <2>5, ConcatLen
  <2>3. \A i \in 1..Len(slash) : Step(other)[i] = slash[i]
    BY <2>1, <2>5, ConcatLeft
  <2>4. \A i \in 1..Len(Escape(other)) : Step(other)[Len(slash) + i] = Escape(other)[i]
    BY <2>1, <2>5, ConcatRight
  <2> QED
    BY <1>1, <2>2, <2>3, <2>4
<1>3. /\ Step(part) \in Seq(Letters) /\ Len(Step(part)) = 1 + Len(Escape(part)) /\ Len(Escape(part)) \in Nat
      /\ \A i \in 1..1 : Step(part)[i] = slash[i]
      /\ \A i \in 1..Len(Escape(part)) : Step(part)[1 + i] = Escape(part)[i]
  BY <1>0
<1>4. ASSUME NEW i \in 2..Len(Step(part))
      PROVE  Step(part)[i] # "/"
  <2>1. i - 1 \in 1..Len(Escape(part)) /\ 1 + (i - 1) = i
    BY <1>3
  <2>2. Step(part)[i] = Escape(part)[i - 1]
    BY <1>3, <2>1
  <2> QED
    BY <1>1, <2>1, <2>2 DEF Sealed
<1>5. Clean(Step(part))
  BY <1>1, <1>2, CleanBehindClean DEF Sealed
<1>6. ASSUME NEW other \in Texts, Step(other) = Step(part)
      PROVE  other = part
  <2>1. Len(Escape(other)) \in Nat /\ Len(Step(other)) = 1 + Len(Escape(other))
        /\ \A i \in 1..Len(Escape(other)) : Step(other)[1 + i] = Escape(other)[i]
    BY <1>0
  <2>2. Len(Escape(other)) = Len(Escape(part))
    BY <1>3, <1>6, <2>1
  <2>3. Escape(other) = Escape(part)
    BY <1>1, <1>3, <1>6, <2>1, <2>2, SeqEqual
  <2> QED
    BY <2>3, EscapeInjective DEF Texts
<1>7. 1 \in 1..1
  OBVIOUS
<1> QED
  BY <1>1, <1>3, <1>4, <1>5, <1>6, <1>7 DEF Texts

LEMMA PointerAppend ==
  ASSUME NEW ps \in Seq(Texts), NEW part \in Texts
  PROVE  Pointer(ps) \in Texts /\ Pointer(Append(ps, part)) = Pointer(ps) \o Step(part)
<1> DEFINE f(t) == [i \in DOMAIN t |-> <<"/">> \o Escape(t[i])]
           n == Len(ps)
<1>1. \A t \in Seq(Texts) : f(t) \in Seq(Texts) /\ Len(f(t)) = Len(t) /\ Len(t) \in Nat
                            /\ \A i \in 1..Len(t) : f(t)[i] = Step(t[i])
  <2> SUFFICES ASSUME NEW t \in Seq(Texts)
               PROVE  f(t) \in Seq(Texts) /\ Len(f(t)) = Len(t) /\ Len(t) \in Nat
                      /\ \A i \in 1..Len(t) : f(t)[i] = Step(t[i])
    OBVIOUS
  <2>1. Len(t) \in Nat /\ DOMAIN t = 1..Len(t) /\ \A i \in 1..Len(t) : t[i] \in Texts
    BY LenProperties, ElementOfSeq
  <2>2. \A i \in 1..Len(t) : Step(t[i]) \in Texts
    BY <2>1, StepBegins
  <2>3. f(t) = [i \in 1..Len(t) |-> Step(t[i])]
    BY <2>1 DEF Step
  <2> HIDE DEF f
  <2>4. f(t) \in [1..Len(t) -> Texts]
    BY <2>2, <2>3
  <2> QED
    BY <2>1, <2>3, <2>4, FunctionIsSeq
<1>2. \A t : Pointer(t) = FlattenSeq(f(t))
  BY DEF Pointer
<1> HIDE DEF f
<1>3. /\ Append(ps, part) \in Seq(Texts) /\ Len(Append(ps, part)) = n + 1 /\ n \in Nat
      /\ Append(ps, part)[n + 1] = part /\ \A i \in 1..n : Append(ps, part)[i] = ps[i]
  BY AppendProperties, LenProperties
<1>4. Step(part) \in Texts
  BY StepBegins
<1>5. /\ Append(f(ps), Step(part)) \in Seq(Texts) /\ Len(Append(f(ps), Step(part))) = n + 1
      /\ Append(f(ps), Step(part))[n + 1] = Step(part)
      /\ \A i \in 1..n : Append(f(ps), Step(part))[i] = f(ps)[i]
  BY <1>1, <1>4, AppendProperties
<1>6. f(Append(ps, part)) = Append(f(ps), Step(part))
  <2>1. \A i \in 1..(n + 1) : i \in 1..n \/ i = n + 1
    BY <1>3
  <2>3. \A i \in 1..n : f(ps)[i] = Step(ps[i])
    BY <1>1
  <2>4. \A i \in 1..(n + 1) : f(Append(ps, part))[i] = Step(Append(ps, part)[i])
    BY <1>1, <1>3
  <2>2. \A i \in 1..(n + 1) : f(Append(ps, part))[i] = Append(f(ps), Step(part))[i]
    BY <1>3, <1>5, <2>1, <2>3, <2>4
  <2> QED
    BY <1>1, <1>3, <1>5, <2>2, SeqEqual
<1>7. FlattenSeq(f(ps)) \in Texts
  BY <1>1, FlattenIsSeq DEF Texts
<1>8. FlattenSeq(Append(f(ps), Step(part))) = FlattenSeq(f(ps)) \o Step(part)
  BY <1>1, <1>4, FlattenAppend DEF Texts
<1> QED
  BY <1>2, <1>6, <1>7, <1>8

LEMMA PointerNothing == Pointer(<< >>) = << >>
<1> DEFINE none == [i \in DOMAIN << >> |-> <<"/">> \o Escape(<< >>[i])]
<1>1. none = << >>
  OBVIOUS
<1> QED
  BY <1>1, FlattenNothing DEF Pointer

LEMMA PointerSplits ==
  ASSUME NEW ps \in Seq(Texts), ps # << >>
  PROVE  \E qs \in Seq(Texts), part \in Texts :
           /\ ps = Append(qs, part) /\ Pointer(qs) \in Texts /\ Pointer(ps) = Pointer(qs) \o Step(part)
           /\ Len(qs) \in Nat /\ Len(ps) = Len(qs) + 1
<1>1. PICK qs \in Seq(Texts), part \in Texts : ps = Append(qs, part)
  BY SequenceEmptyOrAppend
<1>2. Pointer(qs) \in Texts /\ Pointer(ps) = Pointer(qs) \o Step(part)
  BY <1>1, PointerAppend
<1>3. Len(qs) \in Nat /\ Len(Append(qs, part)) = Len(qs) + 1
  BY AppendProperties, LenProperties
<1> QED
  BY <1>1, <1>2, <1>3

(* A pointer is made of escaped parts, each behind a slash.                    *)
LEMMA PointerWellFormed ==
  ASSUME NEW ps \in Seq(Texts)
  PROVE  /\ Pointer(ps) \in Texts /\ Clean(Pointer(ps))
         /\ ps # << >> => Len(Pointer(ps)) \in Nat \ {0} /\ Pointer(ps)[1] = "/"
<1> DEFINE good(rs) == /\ Pointer(rs) \in Texts /\ Clean(Pointer(rs))
                       /\ rs # << >> => Len(Pointer(rs)) \in Nat \ {0} /\ Pointer(rs)[1] = "/"
           bad == {n \in Nat : \E rs \in Seq(Texts) : Len(rs) = n /\ ~ good(rs)}
<1>1. SUFFICES ASSUME bad # {} PROVE FALSE
  BY LenProperties
<1>2. PICK n \in bad : \A k \in bad : n <= k
  <2>1. bad \subseteq Nat
    OBVIOUS
  <2> HIDE DEF bad
  <2> QED
    BY <1>1, <2>1, FirstOf
<1>3. PICK rs \in Seq(Texts) : Len(rs) = n /\ ~ good(rs)
  OBVIOUS
<1>4. rs # << >>
  <2>1. << >> \in Texts /\ Clean(<< >>)
    BY DEF Clean, Texts
  <2> QED
    BY <1>3, <2>1, PointerNothing
<1>5. PICK qs \in Seq(Texts), part \in Texts :
           /\ rs = Append(qs, part) /\ Pointer(qs) \in Texts /\ Pointer(rs) = Pointer(qs) \o Step(part)
           /\ Len(qs) \in Nat /\ Len(rs) = Len(qs) + 1
  BY <1>4, PointerSplits
<1>6. Len(qs) < n /\ n \in Nat
  BY <1>3, <1>5
<1>7. good(qs)
  BY <1>2, <1>5, <1>6
<1> DEFINE before == Pointer(qs)
           last == Step(part)
<1>8. /\ before \in Seq(Letters) /\ Clean(before) /\ last \in Seq(Letters) /\ Clean(last)
      /\ Len(last) \in Nat \ {0} /\ last[1] = "/"
      /\ qs # << >> => Len(before) \in Nat \ {0} /\ before[1] = "/"
      /\ qs = << >> => before = << >>
  BY <1>7, StepBegins, PointerNothing DEF Texts
<1>12. Pointer(rs) = before \o last
  BY <1>5
<1> HIDE DEF before, last, bad, good
<1>9. before \o last \in Seq(Letters) /\ Clean(before \o last)
  BY <1>8, CleanBehindClean, ConcatLen
<1>10. Len(before \o last) \in Nat \ {0} /\ (before \o last)[1] = "/"
  <2>0. before \in Seq(Letters) /\ last \in Seq(Letters)
    BY <1>8
  <2>1. Len(before \o last) = Len(before) + Len(last) /\ Len(before) \in Nat
    BY <2>0, ConcatLen
  <2>2. \A i \in 1..Len(before) : (before \o last)[i] = before[i]
    BY <2>0, ConcatLeft
  <2>3. \A i \in 1..Len(last) : (before \o last)[Len(before) + i] = last[i]
    BY <2>0, ConcatRight
  <2>4. 1 \in 1..Len(last)
    BY <1>8
  <2>5. CASE qs # << >>
    <3>1. 1 \in 1..Len(before)
      BY <1>8, <2>5
    <3> QED
      BY <1>8, <2>1, <2>2, <2>5, <3>1
  <2>6. CASE qs = << >>
    <3>1. Len(before) = 0
      BY <1>8, <2>6
    <3> QED
      BY <1>8, <2>1, <2>3, <2>4, <3>1
  <2> QED
    BY <2>5, <2>6
<1>11. good(rs)
  BY <1>9, <1>10, <1>12 DEF good, Texts
<1> QED
  BY <1>3, <1>11

LastStep(pointer, u, e) == /\ pointer = u \o e /\ u \in Seq(Letters) /\ e \in Seq(Letters)
                           /\ Len(e) \in Nat \ {0} /\ e[1] = "/" /\ \A i \in 2..Len(e) : e[i] # "/"

LEMMA LastStepOnly ==
  ASSUME NEW pointer, NEW u, NEW e, NEW v, NEW f, LastStep(pointer, u, e), LastStep(pointer, v, f)
  PROVE  u = v /\ e = f
<1>1. u \in Seq(Letters) /\ e \in Seq(Letters)
  BY DEF LastStep
<1>2. v \in Seq(Letters) /\ f \in Seq(Letters)
  BY DEF LastStep
<1>3. Len(e) \in Nat \ {0} /\ e[1] = "/" /\ \A i \in 2..Len(e) : e[i] # "/"
  BY DEF LastStep
<1>4. Len(f) \in Nat \ {0} /\ f[1] = "/" /\ \A i \in 2..Len(f) : f[i] # "/"
  BY DEF LastStep
<1>5. u \o e = v \o f
  BY DEF LastStep
<1> QED
  BY ONLY <1>1, <1>2, <1>3, <1>4, <1>5, LastSlash, ZenonT(60)

(* Two places have the same pointer only if they are the same place.           *)
LEMMA PointerInjective ==
  ASSUME NEW ps \in Seq(Texts), NEW qs \in Seq(Texts), Pointer(ps) = Pointer(qs)
  PROVE  ps = qs
<1> DEFINE bad == {n \in Nat : \E a \in Seq(Texts), b \in Seq(Texts) :
                     Len(a) = n /\ Pointer(a) = Pointer(b) /\ a # b}
<1>1. SUFFICES ASSUME bad # {} PROVE FALSE
  BY LenProperties
<1>2. PICK n \in bad : \A k \in bad : n <= k
  <2>1. bad \subseteq Nat
    OBVIOUS
  <2> HIDE DEF bad
  <2> QED
    BY <1>1, <2>1, FirstOf
<1>3. PICK a \in Seq(Texts), b \in Seq(Texts) : Len(a) = n /\ Pointer(a) = Pointer(b) /\ a # b
  OBVIOUS
<1>13. n \in Nat
  OBVIOUS
<1> HIDE DEF bad
<1>4. a # << >> /\ b # << >>
  <2>1. Len(<< >>) = 0
    OBVIOUS
  <2>2. \A c \in Seq(Texts) : c # << >> => Pointer(c) # << >>
    BY <2>1, PointerWellFormed
  <2> QED
    BY <1>3, <2>2, PointerNothing
<1>5. PICK r \in Seq(Texts), x \in Texts :
           /\ a = Append(r, x) /\ Pointer(r) \in Texts /\ Pointer(a) = Pointer(r) \o Step(x)
           /\ Len(r) \in Nat /\ Len(a) = Len(r) + 1
  BY <1>4, PointerSplits
<1>6. PICK s \in Seq(Texts), y \in Texts :
           /\ b = Append(s, y) /\ Pointer(s) \in Texts /\ Pointer(b) = Pointer(s) \o Step(y)
           /\ Len(s) \in Nat /\ Len(b) = Len(s) + 1
  BY <1>4, PointerSplits
<1>7. Pointer(r) = Pointer(s) /\ Step(x) = Step(y)
  <2>1. LastStep(Pointer(a), Pointer(r), Step(x)) /\ LastStep(Pointer(a), Pointer(s), Step(y))
    BY <1>3, <1>5, <1>6, StepBegins DEF Texts, LastStep
  <2> QED
    BY <2>1, LastStepOnly
<1>8. x = y
  BY <1>7, StepBegins
<1>9. r # s
  BY <1>3, <1>5, <1>6, <1>8
<1>10. Len(r) \in bad /\ Len(r) < n
  BY <1>3, <1>5, <1>7, <1>9 DEF bad
<1> QED
  BY <1>2, <1>5, <1>10, <1>13

--------------------------------------------------------------------------------
(* The places of an error, and what the source says of them.                   *)
LEMMA PartsAreTexts == Parts \subseteq Texts
<1> SUFFICES ASSUME NEW n \in 0..MaxPart, NEW part \in [1..n -> Chars] PROVE part \in Texts
  BY DEF Parts
<1>1. n \in Nat /\ part \in [1..n -> Letters]
  BY DocumentsAssumption DEF Letters
<1> QED
  BY <1>1, FunctionIsSeq DEF Texts

InBody(loc, p) == /\ loc = <<"body">> \o p /\ p \in Seq(Texts)
                  /\ ErrorSource(loc) = <<"pointer", IF p = << >> THEN <<"/">> ELSE Pointer(p)>>
InField(loc, f, x) == loc = <<f, x>> /\ f # "pointer" /\ ErrorSource(loc) = <<f, x>>

LEMMA BodySource ==
  ASSUME NEW n \in 0..2, NEW p \in [1..n -> Parts]
  PROVE  InBody(<<"body">> \o p, p)
<1> DEFINE S == Texts \union {"body"}
           body == <<"body">>
           loc == body \o p
<1>1. n \in Nat /\ p \in [1..n -> Texts]
  BY PartsAreTexts
<1>2. p \in Seq(Texts) /\ Len(p) = n
  BY <1>1, FunctionIsSeq
<1>3. p \in Seq(S) /\ body \in Seq(S) /\ Len(body) = 1 /\ body[1] = "body"
  <2>1. p \in [1..n -> S]
    BY <1>1
  <2> QED
    BY <1>1, <2>1, FunctionIsSeq
<1> HIDE DEF S, body
<1>0. p \in Seq(S) /\ body \in Seq(S)
  BY <1>3
<1>4. loc \in Seq(S) /\ Len(loc) = 1 + n
  BY <1>0, <1>2, <1>3, ConcatLen
<1>5. loc[1] = "body"
  <2>1. \A i \in 1..Len(body) : loc[i] = body[i]
    BY <1>0, ConcatLeft
  <2>2. 1 \in 1..Len(body)
    BY <1>3
  <2> QED
    BY <1>3, <2>1, <2>2
<1>6. \A i \in 1..n : loc[1 + i] = p[i]
  <2>1. \A i \in 1..Len(p) : loc[Len(body) + i] = p[i]
    BY <1>0, ConcatRight
  <2> QED
    BY <1>2, <1>3, <2>1
<1> HIDE DEF loc
<1>7. loc # << >>
  <2>1. Len(<< >>) = 0
    OBVIOUS
  <2> QED
    BY <1>1, <1>4, <2>1
<1>8. Tail(loc) = p
  <2>1. /\ Tail(loc) \in Seq(S) /\ Len(Tail(loc)) = Len(loc) - 1
        /\ \A i \in 1..Len(Tail(loc)) : Tail(loc)[i] = loc[i + 1]
    BY <1>4, <1>7, HeadTailProperties
  <2>2. Len(Tail(loc)) = Len(p)
    BY <1>1, <1>2, <1>4, <2>1
  <2>3. \A i \in 1..Len(p) : Tail(loc)[i] = p[i]
    <3>1. \A i \in 1..n : i + 1 = 1 + i
      BY <1>1
    <3> QED
      BY <1>2, <1>6, <2>1, <2>2, <3>1
  <2> QED
    BY <1>0, <2>1, <2>2, <2>3, SeqEqual
<1>9. Len(loc) = 1 <=> p = << >>
  <2>1. n = 0 <=> p = << >>
    BY <1>2, EmptySeq
  <2> QED
    BY <1>1, <1>4, <2>1
<1>10. ErrorSource(loc) = <<"pointer", IF Len(loc) = 1 THEN <<"/">> ELSE Pointer(Tail(loc))>>
  BY <1>5, <1>7 DEF ErrorSource
<1>11. ErrorSource(loc) = <<"pointer", IF p = << >> THEN <<"/">> ELSE Pointer(p)>>
  BY <1>8, <1>9, <1>10
<1> QED
  BY <1>2, <1>11 DEF InBody, loc, body

LEMMA FieldSource ==
  ASSUME NEW f \in {"query", "header"}, NEW x
  PROVE  InField(<<f, x>>, f, x)
<1>1. /\ <<f, x>> # << >> /\ <<f, x>>[1] = f /\ <<f, x>>[2] = x /\ Len(<<f, x>>) = 2 /\ f # "body"
      /\ f # "pointer"
  OBVIOUS
<1> QED
  BY <1>1 DEF ErrorSource, InField

LEMMA PlacesSplit ==
  ASSUME NEW loc \in Locations
  PROVE  (\E p : InBody(loc, p)) \/ (\E f, x : InField(loc, f, x))
<1>1. CASE loc \in {<<"body">> \o p : p \in UNION {[1..n -> Parts] : n \in 0..2}}
  <2>1. PICK n \in 0..2 : \E p \in [1..n -> Parts] : loc = <<"body">> \o p
    BY <1>1
  <2>2. PICK p \in [1..n -> Parts] : loc = <<"body">> \o p
    BY <2>1
  <2> QED
    BY <2>2, BodySource
<1>2. CASE loc \in {<<f, p>> : f \in {"query", "header"}, p \in Parts}
  <2>1. PICK f \in {"query", "header"}, x \in Parts : loc = <<f, x>>
    BY <1>2
  <2> QED
    BY <2>1, FieldSource
<1> QED
  BY <1>1, <1>2 DEF Locations

LEMMA WellFormedSource ==
  ASSUME NEW loc \in Locations, ErrorSource(loc)[1] = "pointer"
  PROVE  WellFormed(ErrorSource(loc)[2])
<1>1. PICK p : InBody(loc, p)
  <2>1. ASSUME NEW f, NEW x, InField(loc, f, x) PROVE FALSE
    <3>1. <<f, x>>[1] = f
      OBVIOUS
    <3> QED
      BY <2>1, <3>1 DEF InField
  <2> QED
    BY <2>1, PlacesSplit
<1> DEFINE pointer == IF p = << >> THEN <<"/">> ELSE Pointer(p)
<1>2. ErrorSource(loc)[2] = pointer /\ p \in Seq(Texts)
  BY <1>1 DEF InBody
<1>3. pointer \in Seq(Letters) /\ Clean(pointer) /\ pointer[1] = "/"
  <2>1. CASE p = << >>
    <3>1. <<"/">> \in Seq(Letters) /\ Clean(<<"/">>) /\ <<"/">>[1] = "/"
      BY DEF Letters, Clean
    <3> QED
      BY <2>1, <3>1
  <2>2. CASE p # << >>
    <3>1. Pointer(p) \in Texts /\ Clean(Pointer(p)) /\ Pointer(p)[1] = "/"
      BY <1>2, <2>2, PointerWellFormed
    <3> QED
      BY <2>2, <3>1 DEF Texts
  <2> QED
    BY <2>1, <2>2
<1> HIDE DEF pointer
<1>4. DOMAIN pointer = 1..Len(pointer)
  BY <1>3, LenProperties
<1> QED
  BY <1>2, <1>3, <1>4 DEF WellFormed, Clean

LEMMA SourcesDiffer ==
  ASSUME NEW loc \in Locations, NEW other \in Locations, ErrorSource(other) = ErrorSource(loc)
  PROVE  other = loc \/ ErrorSource(other)[2] = <<"/">>
<1>1. ASSUME NEW p, NEW f, NEW x, NEW a, NEW b, InBody(a, p), InField(b, f, x), ErrorSource(a) = ErrorSource(b)
      PROVE  FALSE
  <2> DEFINE y == IF p = << >> THEN <<"/">> ELSE Pointer(p)
  <2>1. <<f, x>> = <<"pointer", y>> /\ f # "pointer"
    BY <1>1 DEF InBody, InField
  <2> HIDE DEF y
  <2> QED
    BY <2>1
<1>2. CASE \E f, x : InField(loc, f, x)
  <2>1. PICK f, x : InField(loc, f, x)
    BY <1>2
  <2>2. PICK g, y : InField(other, g, y)
    BY <1>1, <2>1, PlacesSplit
  <2> QED
    BY <2>1, <2>2 DEF InField
<1>3. CASE \E p : InBody(loc, p)
  <2>1. PICK p : InBody(loc, p)
    BY <1>3
  <2>2. PICK q : InBody(other, q)
    BY <1>1, <2>1, PlacesSplit
  <2>3. CASE q = << >>
    BY <2>2, <2>3 DEF InBody
  <2>4. CASE p = << >>
    <3>1. ErrorSource(loc)[2] = <<"/">>
      BY <2>1, <2>4 DEF InBody
    <3> QED
      BY <3>1
  <2>5. CASE p # << >> /\ q # << >>
    <3>1. ErrorSource(loc) = <<"pointer", Pointer(p)>> /\ ErrorSource(other) = <<"pointer", Pointer(q)>>
      BY <2>1, <2>2, <2>5 DEF InBody
    <3>2. \A a, b : <<"pointer", a>> = <<"pointer", b>> => a = b
      OBVIOUS
    <3>3. Pointer(p) = Pointer(q)
      BY <3>1, <3>2
    <3>4. p = q
      BY <2>1, <2>2, <3>3, PointerInjective DEF InBody
    <3> QED
      BY <2>1, <2>2, <3>4 DEF InBody
  <2> QED
    BY <2>3, <2>4, <2>5
<1> QED
  BY <1>2, <1>3, PlacesSplit

LEMMA PlacedTells == ASSUME location = << >> \/ location \in Locations PROVE SourceTells
BY WellFormedSource, SourcesDiffer DEF SourceTells

--------------------------------------------------------------------------------
(* The two readers of a sort parameter.                                        *)
LEMMA FlattenFew ==
  ASSUME NEW S, NEW x \in S, NEW y \in S
  PROVE  FlattenSeq(<<<<x>>>>) = <<x>> /\ FlattenSeq(<<<<x>>, <<y>>>>) = <<x, y>>
<1>1. /\ << >> \in Seq(Seq(S)) /\ << >> \in Seq(S) /\ <<x>> \in Seq(S) /\ <<y>> \in Seq(S)
      /\ <<<<x>>>> \in Seq(Seq(S)) /\ <<<<x>>>> = Append(<< >>, <<x>>)
      /\ <<<<x>>, <<y>>>> = Append(<<<<x>>>>, <<y>>)
  OBVIOUS
<1>2. FlattenSeq(Append(<< >>, <<x>>)) = FlattenSeq(<< >>) \o <<x>>
  BY <1>1, FlattenAppend
<1>3. << >> \o <<x>> = <<x>> /\ <<x>> \o <<y>> = <<x, y>>
  <2>1. << >> \o <<x>> = <<x>>
    BY <1>1, ConcatEmptySeq
  <2>2. (<< >> \o <<x>>) \o <<y>> = << >> \o <<x, y>>
    <3>1. \A s \in Seq(S) : (s \o <<x>>) \o <<y>> = s \o <<x, y>>
      BY OneByOne
    <3> QED
      BY <1>1, <3>1, Zenon
  <2>3. << >> \o <<x, y>> = <<x, y>>
    <3>1. <<x, y>> \in Seq(S)
      OBVIOUS
    <3> QED
      BY <3>1, ConcatEmptySeq
  <2> QED
    BY <2>1, <2>2, <2>3
<1>4. FlattenSeq(<<<<x>>>>) = <<x>>
  BY <1>1, <1>2, <1>3, FlattenNothing
<1>5. FlattenSeq(Append(<<<<x>>>>, <<y>>)) = FlattenSeq(<<<<x>>>>) \o <<y>>
  BY <1>1, FlattenAppend
<1> QED
  BY <1>1, <1>3, <1>4, <1>5

LEMMA OneEach ==
  ASSUME NEW x, NEW y
  PROVE  /\ [i \in DOMAIN <<x>> |-> << <<x>>[i] >>] = <<<<x>>>>
         /\ [i \in DOMAIN <<x, y>> |-> << <<x, y>>[i] >>] = <<<<x>>, <<y>>>>
<1>1. ASSUME NEW g, g = [i \in DOMAIN <<x>> |-> << <<x>>[i] >>]
      PROVE  g = <<<<x>>>>
  <2>1. g \in Seq({<<x>>}) /\ Len(g) = 1 /\ g[1] = <<x>>
    BY <1>1
  <2>2. <<<<x>>>> \in Seq({<<x>>}) /\ Len(<<<<x>>>>) = 1 /\ <<<<x>>>>[1] = <<x>>
    OBVIOUS
  <2> QED
    BY <2>1, <2>2, SeqEqual
<1>2. ASSUME NEW g, g = [i \in DOMAIN <<x, y>> |-> << <<x, y>>[i] >>]
      PROVE  g = <<<<x>>, <<y>>>>
  <2>1. DOMAIN <<x, y>> = 1..2 /\ <<x, y>>[1] = x /\ <<x, y>>[2] = y
    OBVIOUS
  <2>2. DOMAIN g = 1..2 /\ g[1] = <<x>> /\ g[2] = <<y>> /\ g = [i \in 1..2 |-> g[i]]
    BY <1>2, <2>1
  <2>3. g \in Seq({<<x>>, <<y>>}) /\ Len(g) = 2
    BY <2>2
  <2>4. /\ <<<<x>>, <<y>>>> \in Seq({<<x>>, <<y>>}) /\ Len(<<<<x>>, <<y>>>>) = 2
        /\ <<<<x>>, <<y>>>>[1] = <<x>> /\ <<<<x>>, <<y>>>>[2] = <<y>>
    OBVIOUS
  <2> QED
    BY <2>2, <2>3, <2>4, SeqEqual
<1> QED
  BY <1>1, <1>2, Zenon

LEMMA AllGiven ==
  ASSUME NEW raws, \A i \in DOMAIN raws : raws[i].name = "name",
         FlattenSeq([i \in DOMAIN raws |-> <<raws[i]>>]) = raws
  PROVE  FromString(raws) = Sort(raws)
<1> DEFINE given == [i \in DOMAIN raws |->
                       IF raws[i].name # "" \/ raws[i].dashes > 0 THEN <<raws[i]>> ELSE << >>]
<1>1. \A i \in DOMAIN raws : raws[i].name # ""
  OBVIOUS
<1>2. given = [i \in DOMAIN raws |-> <<raws[i]>>]
  BY <1>1
<1>3. FlattenSeq(given) = raws
  BY <1>2
<1> QED
  BY <1>3 DEF FromString

(* What a client may send: one field, two in one element, or one in each of two. *)
Sent(s) == \/ s = << >>
           \/ \E a \in Raw, b \in Raw : s = <<<<a>>>> \/ s = <<<<a, b>>>> \/ s = <<<<a>>, <<b>>>>

LEMMA SentAgrees == ASSUME Sent(sorting) PROVE SortersAgree
<1> SUFFICES ASSUME sorting # << >>, ParseSort(sorting).ok
             PROVE  ParseSort(sorting) = FromString(FlattenSeq(sorting))
  BY DEF SortersAgree
<1>1. PICK a \in Raw, b \in Raw :
        sorting = <<<<a>>>> \/ sorting = <<<<a, b>>>> \/ sorting = <<<<a>>, <<b>>>>
  BY DEF Sent
<1>2. /\ \A i \in DOMAIN sorting : Len(sorting[i]) = 1 /\ sorting[i][1].name = "name"
      /\ ParseSort(sorting) = Sort([i \in DOMAIN sorting |-> sorting[i][1]])
  BY DEF ParseSort, Rejected, Fits
<1>3. \A raws : /\ \A i \in DOMAIN raws : raws[i].name = "name"
                /\ FlattenSeq([i \in DOMAIN raws |-> <<raws[i]>>]) = raws
                /\ FlattenSeq(sorting) = raws
                /\ [i \in DOMAIN sorting |-> sorting[i][1]] = raws
                => ParseSort(sorting) = FromString(FlattenSeq(sorting))
  BY <1>2, AllGiven
<1>4. CASE sorting = <<<<a>>>>
  <2>1. DOMAIN sorting = 1..1 /\ sorting[1][1] = a
    BY <1>4
  <2>2. a.name = "name"
    BY <1>2, <2>1
  <2>3. \A i \in DOMAIN <<a>> : <<a>>[i].name = "name"
    BY <2>2
  <2>4. FlattenSeq(sorting) = <<a>> /\ FlattenSeq([i \in DOMAIN <<a>> |-> << <<a>>[i] >>]) = <<a>>
    BY <1>4, OneEach, FlattenFew
  <2>5. [i \in DOMAIN sorting |-> sorting[i][1]] = <<a>>
    BY <1>4
  <2> QED
    BY <1>3, <2>3, <2>4, <2>5
<1>5. CASE sorting = <<<<a, b>>>>
  <2>1. 1 \in DOMAIN sorting /\ sorting[1] = <<a, b>>
    BY <1>5
  <2>2. Len(<<a, b>>) = 2
    OBVIOUS
  <2> QED
    BY <1>2, <2>1, <2>2
<1>6. CASE sorting = <<<<a>>, <<b>>>>
  <2>1. DOMAIN sorting = 1..2 /\ sorting[1][1] = a /\ sorting[2][1] = b
    BY <1>6
  <2>2. a.name = "name" /\ b.name = "name"
    BY <1>2, <2>1
  <2>3. \A i \in DOMAIN <<a, b>> : <<a, b>>[i].name = "name"
    <3>1. DOMAIN <<a, b>> = 1..2 /\ <<a, b>>[1] = a /\ <<a, b>>[2] = b
      OBVIOUS
    <3> QED
      BY <2>2, <3>1
  <2>4. FlattenSeq(sorting) = <<a, b>> /\ FlattenSeq([i \in DOMAIN <<a, b>> |-> << <<a, b>>[i] >>]) = <<a, b>>
    <3>1. FlattenSeq(<<<<a>>, <<b>>>>) = <<a, b>>
      BY FlattenFew
    <3>2. [i \in DOMAIN <<a, b>> |-> << <<a, b>>[i] >>] = <<<<a>>, <<b>>>>
      BY OneEach
    <3> QED
      BY <1>6, <3>1, <3>2
  <2>5. [i \in DOMAIN sorting |-> sorting[i][1]] = <<a, b>>
    <3> DEFINE h == [i \in DOMAIN sorting |-> sorting[i][1]]
    <3>1. h = [i \in 1..2 |-> h[i]] /\ h[1] = a /\ h[2] = b
      BY <2>1
    <3>2. <<a, b>> = [i \in 1..2 |-> <<a, b>>[i]] /\ <<a, b>>[1] = a /\ <<a, b>>[2] = b
      OBVIOUS
    <3> HIDE DEF h
    <3>3. \A i \in 1..2 : h[i] = <<a, b>>[i]
      BY <3>1, <3>2
    <3>4. [i \in 1..2 |-> h[i]] = [i \in 1..2 |-> <<a, b>>[i]]
      BY <3>3
    <3>5. h = <<a, b>>
      BY <3>1, <3>2, <3>4, Zenon
    <3> QED
      BY <3>5 DEF h
  <2> QED
    BY <1>3, <2>3, <2>4, <2>5
<1> QED
  BY <1>1, <1>4, <1>5, <1>6

--------------------------------------------------------------------------------
(* A resource, written and read.                                               *)
Members(model) == {"type", "meta", "links", "relationships", "attributes"} \union model.requires

Shaped(model, r) ==
  /\ r = [m \in Members(model) |-> r[m]] /\ DOMAIN r = Members(model)
  /\ r["meta"] \in MetaMember /\ r["links"] \in LinksMember
  /\ r["relationships"] \in RelationshipsMember /\ r["attributes"] \in AttributesMember
  /\ \A m \in {"type"} \union model.requires : r[m] = "full"

LEMMA ModelFacts ==
  ASSUME NEW model \in Models
  PROVE  /\ model.requires \subseteq {"id"} /\ model.many \subseteq BOOLEAN
         /\ {"data", "meta", "jsonapi", "links"} \subseteq model.members
<1>1. \/ model = DocumentModel \/ model = PostDocument \/ model = PatchDocument
      \/ model = PatchMultiDocument \/ model = PostMultiDocument
  BY DEF Models
<1>2. /\ DocumentModel.requires = Identified /\ PatchDocument.requires = Identified
      /\ PatchMultiDocument.requires = Identified /\ PostMultiDocument.requires = Identified
      /\ PostDocument.requires = Anonymous
  BY DEF DocumentModel, PostDocument, PatchDocument, PatchMultiDocument, PostMultiDocument
<1>3. /\ DocumentModel.many = {TRUE, FALSE} /\ PatchDocument.many = {FALSE}
      /\ PatchMultiDocument.many = {TRUE} /\ PostMultiDocument.many = {TRUE}
      /\ PostDocument.many = {FALSE}
  BY DEF DocumentModel, PostDocument, PatchDocument, PatchMultiDocument, PostMultiDocument
<1>4. /\ DocumentModel.members = {"data", "meta", "jsonapi", "links", "included"}
      /\ \A m \in {PostDocument, PatchDocument, PatchMultiDocument, PostMultiDocument} :
           m.members = {"data", "meta", "jsonapi", "links"}
  BY DEF DocumentModel, PostDocument, PatchDocument, PatchMultiDocument, PostMultiDocument
<1>5. model.requires \subseteq {"id"}
  BY <1>1, <1>2 DEF Identified, Anonymous
<1>6. model.many \subseteq BOOLEAN
  BY <1>1, <1>3
<1>7. {"data", "meta", "jsonapi", "links"} \subseteq model.members
  BY <1>1, <1>4
<1> QED
  BY <1>5, <1>6, <1>7

LEMMA ResourceShaped ==
  ASSUME NEW model \in Models, NEW b \in ResourceBase
  PROVE  Shaped(model, Resource(model, b))
<1>1. model.requires \subseteq {"id"}
  BY ModelFacts
<1>2. /\ DOMAIN b = {"meta", "links", "relationships", "attributes"}
      /\ b["meta"] \in MetaMember /\ b["links"] \in LinksMember
      /\ b["relationships"] \in RelationshipsMember /\ b["attributes"] \in AttributesMember
  BY DEF ResourceBase
<1> DEFINE r == Resource(model, b)
<1>3. r = [m \in {"type"} \union DOMAIN b \union model.requires |-> IF m \in DOMAIN b THEN b[m] ELSE "full"]
  BY DEF Resource
<1>4. {"type"} \union DOMAIN b \union model.requires = Members(model)
  BY <1>2 DEF Members
<1> HIDE DEF r
<1>5. DOMAIN r = Members(model) /\ r = [m \in Members(model) |-> r[m]]
      /\ \A m \in Members(model) : r[m] = IF m \in DOMAIN b THEN b[m] ELSE "full"
  BY <1>3, <1>4
<1>6. {"type", "meta", "links", "relationships", "attributes"} \union model.requires = Members(model)
  BY DEF Members
<1>7. \A m \in {"type"} \union model.requires : r[m] = "full"
  BY <1>1, <1>2, <1>5, <1>6
<1>8. r["meta"] \in MetaMember /\ r["links"] \in LinksMember
      /\ r["relationships"] \in RelationshipsMember /\ r["attributes"] \in AttributesMember
  BY <1>2, <1>5, <1>6
<1> QED
  BY <1>5, <1>7, <1>8 DEF Shaped, r

(* What is written of a resource, and as what.                                 *)
Written(r, m) == r[m] # "none" /\ ~ (m = "relationships" /\ r[m] = "empty")
WrittenAs(r, m) == IF m = "attributes" THEN DumpAttributes(r[m]) ELSE r[m]

LEMMA ResourceWritten ==
  ASSUME NEW model \in Models, NEW r, Shaped(model, r)
  PROVE  /\ DOMAIN DumpResource(r) = {m \in Members(model) : Written(r, m)}
         /\ \A m \in DOMAIN DumpResource(r) : DumpResource(r)[m] = WrittenAs(r, m)
<1>1. model.requires \subseteq {"id"}
  BY ModelFacts
<1>2. DOMAIN r = Members(model)
  BY DEF Shaped
<1> DEFINE own == [m \in DOMAIN r \ {"links", "attributes", "relationships"} |-> r[m]]
           core == Kept(own, ResourceMeta)
           others == [links |-> r.links, attributes |-> DumpAttributes(r.attributes),
                      relationships |-> r.relationships]
           rest == Kept(others, {"none"})
           names == DOMAIN core \union {x \in DOMAIN rest : ~ (x = "relationships" /\ rest[x] = "empty")}
           w == DumpResource(r)
<1>3. w = [m \in names |-> IF m \in DOMAIN core THEN core[m] ELSE rest[m]]
  BY DEF DumpResource
<1>4. /\ DOMAIN core = {m \in Members(model) \ {"links", "attributes", "relationships"} : r[m] # "none"}
      /\ \A m \in DOMAIN core : core[m] = r[m]
  <2>1. DOMAIN own = Members(model) \ {"links", "attributes", "relationships"} /\ \A m \in DOMAIN own : own[m] = r[m]
    BY <1>2
  <2>2. core = [m \in {x \in DOMAIN own : own[x] \notin {"none"}} |-> own[m]]
    BY DEF Kept, ResourceMeta
  <2> HIDE DEF own, core
  <2> QED
    BY <2>1, <2>2
<1>5. /\ DOMAIN rest = {m \in {"links", "attributes", "relationships"} : WrittenAs(r, m) # "none"}
      /\ \A m \in DOMAIN rest : rest[m] = WrittenAs(r, m)
  <2>1. /\ DOMAIN others = {"links", "attributes", "relationships"}
        /\ others["links"] = r["links"] /\ others["relationships"] = r["relationships"]
        /\ others["attributes"] = DumpAttributes(r["attributes"])
    OBVIOUS
  <2>2. rest = [m \in {x \in DOMAIN others : others[x] \notin {"none"}} |-> others[m]]
    BY DEF Kept
  <2> HIDE DEF others, rest
  <2>3. \A m \in {"links", "attributes", "relationships"} : others[m] = WrittenAs(r, m)
    BY <2>1 DEF WrittenAs
  <2> QED
    BY <2>1, <2>2, <2>3
<1>6. \A a : DumpAttributes(a) = "none" <=> a = "none"
  BY DEF DumpAttributes
<1>7. Members(model) = {"type", "meta", "links", "relationships", "attributes"} \union model.requires
  BY DEF Members
<1> HIDE DEF core, rest, own, others
<1>8. DOMAIN w = names /\ \A m \in names : w[m] = IF m \in DOMAIN core THEN core[m] ELSE rest[m]
  BY <1>3
<1>9. names = {m \in Members(model) : Written(r, m)}
  <2>1. ASSUME NEW m \in names PROVE m \in Members(model) /\ Written(r, m)
    BY <1>4, <1>5, <1>6, <1>7 DEF Written, WrittenAs
  <2>2. ASSUME NEW m \in Members(model), Written(r, m) PROVE m \in names
    BY <1>4, <1>5, <1>6, <1>7, <2>2 DEF Written, WrittenAs
  <2> HIDE DEF names
  <2> QED
    BY <2>1, <2>2
<1>10. ASSUME NEW m \in names PROVE w[m] = WrittenAs(r, m)
  <2>1. CASE m \in DOMAIN core
    BY <1>4, <1>8, <2>1 DEF WrittenAs
  <2>2. CASE m \notin DOMAIN core
    BY <1>5, <1>8, <2>2
  <2> QED
    BY <2>1, <2>2
<1> HIDE DEF names, w
<1>11. DOMAIN w = {m \in Members(model) : Written(r, m)} /\ \A m \in DOMAIN w : w[m] = WrittenAs(r, m)
  BY <1>8, <1>9, <1>10
<1> QED
  BY <1>11 DEF w

NoneIfEmpty(x) == IF x = "empty" THEN "none" ELSE x

LEMMA ResourceRead ==
  ASSUME NEW model \in Models, NEW r, Shaped(model, r), r["attributes"] # "mapping"
  PROVE  /\ model.requires \union {"type"} \subseteq DOMAIN DumpResource(r)
         /\ DOMAIN DumpResource(r) \subseteq {"type", "meta", "links", "relationships", "attributes"} \union model.requires
         /\ OrNone(DumpResource(r), "attributes", "none") = "lacking" <=> r["attributes"] \in {"null", "null!"}
         /\ r["attributes"] # "null!" =>
              ReadResource(DumpResource(r)) = [r EXCEPT !.relationships = NoneIfEmpty(@)]
<1> DEFINE w == DumpResource(r)
<1>1. DOMAIN w = {m \in Members(model) : Written(r, m)} /\ \A m \in DOMAIN w : w[m] = WrittenAs(r, m)
  BY ResourceWritten
<1>2. /\ r = [m \in Members(model) |-> r[m]] /\ DOMAIN r = Members(model)
      /\ \A m \in {"type"} \union model.requires : r[m] = "full"
      /\ r["attributes"] \in AttributesMember /\ r["relationships"] \in RelationshipsMember
  BY DEF Shaped
<1>3. Members(model) = {"type", "meta", "links", "relationships", "attributes"} \union model.requires
  BY DEF Members
<1>4. model.requires \subseteq {"id"}
  BY ModelFacts
<1>5. ReadResource(w) =
        [m \in DOMAIN w \union {"meta", "links", "relationships", "attributes"} |->
           IF m = "attributes" /\ OrNone(w, m, "none") = "lacking" THEN "null" ELSE OrNone(w, m, "none")]
  BY DEF ReadResource
<1> HIDE DEF w
<1>6. model.requires \union {"type"} \subseteq DOMAIN w
  BY <1>1, <1>2, <1>3, <1>4 DEF Written
<1>7. OrNone(w, "attributes", "none") = DumpAttributes(r["attributes"])
  <2>1. Written(r, "attributes") <=> r["attributes"] # "none"
    BY DEF Written
  <2>2. WrittenAs(r, "attributes") = DumpAttributes(r["attributes"]) /\ DumpAttributes("none") = "none"
    BY DEF WrittenAs, DumpAttributes
  <2> QED
    BY <1>1, <1>3, <2>1, <2>2 DEF OrNone
<1>8. DumpAttributes(r["attributes"]) = "lacking" <=> r["attributes"] \in {"null", "null!"}
  BY <1>2 DEF DumpAttributes, AttributesMember
<1>9. ASSUME r["attributes"] # "null!"
      PROVE  ReadResource(w) = [r EXCEPT !.relationships = NoneIfEmpty(@)]
  <2>1. DOMAIN w \union {"meta", "links", "relationships", "attributes"} = Members(model)
    BY <1>1, <1>3, <1>6
  <2> DEFINE value(m) == IF m = "attributes" /\ OrNone(w, m, "none") = "lacking" THEN "null" ELSE OrNone(w, m, "none")
  <2>2. ASSUME NEW m \in Members(model)
        PROVE  value(m) = IF m = "relationships" THEN NoneIfEmpty(r[m]) ELSE r[m]
    <3>1. CASE m = "attributes"
      <4>1. value(m) = IF DumpAttributes(r["attributes"]) = "lacking" THEN "null" ELSE DumpAttributes(r["attributes"])
        BY <1>7, <3>1
      <4>2. r["attributes"] \in {"none", "full", "null"}
        BY <1>2, <1>9 DEF AttributesMember
      <4> QED
        BY <3>1, <4>1, <4>2 DEF DumpAttributes
    <3>2. CASE m # "attributes"
      <4>1. value(m) = IF m \in DOMAIN w THEN r[m] ELSE "none"
        BY <1>1, <3>2 DEF OrNone, WrittenAs
      <4>2. m \in DOMAIN w <=> r[m] # "none" /\ ~ (m = "relationships" /\ r[m] = "empty")
        BY <1>1 DEF Written
      <4> QED
        BY <3>2, <4>1, <4>2 DEF NoneIfEmpty
    <3> QED
      BY <3>1, <3>2
  <2>3. ReadResource(w) = [m \in Members(model) |-> value(m)]
    BY <1>5, <2>1
  <2>4. [r EXCEPT !.relationships = NoneIfEmpty(@)] = [m \in Members(model) |-> IF m = "relationships" THEN NoneIfEmpty(r[m]) ELSE r[m]]
    BY <1>2, <1>3
  <2> HIDE DEF value
  <2> QED
    BY <2>2, <2>3, <2>4
<1>10. /\ model.requires \union {"type"} \subseteq DOMAIN w
       /\ DOMAIN w \subseteq {"type", "meta", "links", "relationships", "attributes"} \union model.requires
       /\ OrNone(w, "attributes", "none") = "lacking" <=> r["attributes"] \in {"null", "null!"}
       /\ r["attributes"] # "null!" => ReadResource(w) = [r EXCEPT !.relationships = NoneIfEmpty(@)]
  BY <1>1, <1>3, <1>6, <1>7, <1>8, <1>9
<1> QED
  BY <1>10 DEF w

--------------------------------------------------------------------------------
(* A document, written and read.                                               *)
DocShape(model, doc) ==
  /\ doc = [many |-> doc.many, data |-> doc.data, meta |-> doc.meta, jsonapi |-> doc.jsonapi,
            links |-> doc.links, included |-> doc.included]
  /\ doc.many \in model.many
  /\ \E n \in Nat : /\ DOMAIN doc.data = 1..n /\ Len(doc.data) = n /\ doc.data = [i \in 1..n |-> doc.data[i]]
                    /\ doc.data = << >> <=> n = 0
                    /\ \A i \in 1..n : Shaped(model, doc.data[i])
  /\ doc.meta \in MetaMember /\ doc.jsonapi \in JsonapiMember /\ doc.links \in LinksMember
  /\ doc.included \in {"none", "empty", "full"} /\ (doc.included # "none" => "included" \in model.members)

LEMMA PlainMade ==
  ASSUME NEW model \in Models, NEW n \in Nat, NEW data, data = [k \in 1..n |-> data[k]],
         \A k \in 1..n : Shaped(model, data[k]), NEW many \in model.many,
         NEW meta \in MetaMember, NEW jsonapi \in JsonapiMember, NEW links \in LinksMember,
         NEW included \in {"none", "empty", "full"}, included # "none" => "included" \in model.members
  PROVE  DocShape(model, [many |-> many, data |-> data, meta |-> meta, jsonapi |-> jsonapi,
                          links |-> links, included |-> included])
<1> DEFINE doc == [many |-> many, data |-> data, meta |-> meta, jsonapi |-> jsonapi,
                   links |-> links, included |-> included]
<1>1. /\ doc.many = many /\ doc.data = data /\ doc.meta = meta /\ doc.jsonapi = jsonapi
      /\ doc.links = links /\ doc.included = included
  OBVIOUS
<1>2. DOMAIN data = 1..n /\ Len(data) = n
  OBVIOUS
<1>3. data = << >> <=> n = 0
  <2>1. data = << >> => n = 0
    <3>1. Len(<< >>) = 0
      OBVIOUS
    <3> QED
      BY <1>2, <3>1
  <2>2. n = 0 => data = << >>
    OBVIOUS
  <2> QED
    BY <2>1, <2>2
<1>4. doc = [many |-> doc.many, data |-> doc.data, meta |-> doc.meta, jsonapi |-> doc.jsonapi,
             links |-> doc.links, included |-> doc.included]
  BY <1>1
<1> HIDE DEF doc
<1>5. \E k \in Nat : /\ DOMAIN doc.data = 1..k /\ Len(doc.data) = k /\ doc.data = [i \in 1..k |-> doc.data[i]]
                     /\ doc.data = << >> <=> k = 0
                     /\ \A i \in 1..k : Shaped(model, doc.data[i])
  <2>1. /\ DOMAIN doc.data = 1..n /\ Len(doc.data) = n /\ doc.data = [i \in 1..n |-> doc.data[i]]
        /\ doc.data = << >> <=> n = 0
        /\ \A i \in 1..n : Shaped(model, doc.data[i])
    BY <1>1, <1>2, <1>3
  <2> QED
    BY <2>1
<1>6. DocShape(model, doc)
  BY <1>1, <1>4, <1>5 DEF DocShape
<1> QED
  BY <1>6 DEF doc

LEMMA ComposedShape ==
  ASSUME NEW model \in Models, NEW doc \in Composed(model)
  PROVE  DocShape(model, doc)
<1>1. CASE \E m \in model.many, b \in ResourceBase :
             doc = [many |-> m, data |-> <<Resource(model, b)>>, meta |-> "none", jsonapi |-> "full",
                    links |-> "none", included |-> "none"]
  <2>1. PICK m \in model.many, b \in ResourceBase :
             doc = [many |-> m, data |-> <<Resource(model, b)>>, meta |-> "none", jsonapi |-> "full",
                    links |-> "none", included |-> "none"]
    BY <1>1
  <2> DEFINE r == Resource(model, b)
             data == <<r>>
  <2>2. Shaped(model, r)
    BY ResourceShaped
  <2> HIDE DEF r
  <2>3. data = [k \in 1..1 |-> data[k]] /\ \A k \in 1..1 : Shaped(model, data[k])
    BY <2>2
  <2>4. /\ "none" \in MetaMember /\ "full" \in JsonapiMember /\ "none" \in LinksMember
        /\ doc = [many |-> m, data |-> data, meta |-> "none", jsonapi |-> "full",
                  links |-> "none", included |-> "none"]
    BY <2>1 DEF MetaMember, JsonapiMember, LinksMember, r
  <2> HIDE DEF data
  <2> QED
    BY <2>3, <2>4, PlainMade
<1>2. CASE \E m \in model.many, n \in 0..MaxItems, t \in MetaMember, j \in JsonapiMember, l \in LinksMember,
              i \in (IF "included" \in model.members THEN {"none", "empty", "full"} ELSE {"none"}) :
             doc = [many |-> m, data |-> [k \in 1..n |-> Resource(model, Plain)], meta |-> t, jsonapi |-> j,
                    links |-> l, included |-> i]
  <2>1. PICK m \in model.many, n \in 0..MaxItems, t \in MetaMember, j \in JsonapiMember, l \in LinksMember,
              i \in (IF "included" \in model.members THEN {"none", "empty", "full"} ELSE {"none"}) :
             doc = [many |-> m, data |-> [k \in 1..n |-> Resource(model, Plain)], meta |-> t, jsonapi |-> j,
                    links |-> l, included |-> i]
    BY <1>2
  <2>2. Plain \in ResourceBase
    BY DEF Plain, ResourceBase, MetaMember, LinksMember, RelationshipsMember, AttributesMember
  <2>3. Shaped(model, Resource(model, Plain))
    BY <2>2, ResourceShaped
  <2> DEFINE data == [k \in 1..n |-> Resource(model, Plain)]
  <2>4. data = [k \in 1..n |-> data[k]] /\ \A k \in 1..n : Shaped(model, data[k])
    BY <2>3
  <2>5. n \in Nat /\ i \in {"none", "empty", "full"} /\ (i # "none" => "included" \in model.members)
    BY DocumentsAssumption
  <2>6. doc = [many |-> m, data |-> data, meta |-> t, jsonapi |-> j, links |-> l, included |-> i]
    BY <2>1
  <2> HIDE DEF data
  <2> QED
    BY <2>4, <2>5, <2>6, PlainMade
<1> QED
  BY <1>1, <1>2 DEF Composed, Top

LEMMA DocumentWritten ==
  ASSUME NEW model \in Models, NEW doc, DocShape(model, doc)
  PROVE  /\ DOMAIN DumpDocument(doc) \subseteq model.members
         /\ "data" \in DOMAIN DumpDocument(doc) <=> doc.data # << >>
         /\ doc.data # << >> =>
              DumpDocument(doc)["data"] = [many |-> doc.many, items |-> [i \in DOMAIN doc.data |-> DumpResource(doc.data[i])]]
         /\ OrNone(DumpDocument(doc), "meta", "none") = NoneIfEmpty(doc.meta)
         /\ OrNone(DumpDocument(doc), "jsonapi", "full") = "full"
         /\ OrNone(DumpDocument(doc), "links", "none") = doc.links
         /\ OrNone(DumpDocument(doc), "included", "none") = NoneIfEmpty(doc.included)
<1> DEFINE members == [meta |-> doc.meta, jsonapi |-> doc.jsonapi, included |-> doc.included]
           top == Kept(members, {"none", "empty"})
           linked == [links |-> doc.links]
           all == Kept(linked, {"none"})
           data == [i \in DOMAIN doc.data |-> DumpResource(doc.data[i])]
           names == DOMAIN top \union DOMAIN all \union (IF data = << >> THEN {} ELSE {"data"})
           w == DumpDocument(doc)
<1>1. w = [m \in names |-> IF m = "data" THEN [many |-> doc.many, items |-> data]
                            ELSE IF m \in DOMAIN top THEN top[m] ELSE all[m]]
  BY DEF DumpDocument
<1>2. /\ \A m \in DOMAIN top : m \in {"meta", "jsonapi", "included"}
      /\ "meta" \in DOMAIN top <=> doc.meta \notin {"none", "empty"}
      /\ "jsonapi" \in DOMAIN top <=> doc.jsonapi \notin {"none", "empty"}
      /\ "included" \in DOMAIN top <=> doc.included \notin {"none", "empty"}
      /\ "meta" \in DOMAIN top => top["meta"] = doc.meta
      /\ "jsonapi" \in DOMAIN top => top["jsonapi"] = doc.jsonapi
      /\ "included" \in DOMAIN top => top["included"] = doc.included
  <2>1. /\ DOMAIN members = {"meta", "jsonapi", "included"} /\ members["meta"] = doc.meta
        /\ members["jsonapi"] = doc.jsonapi /\ members["included"] = doc.included
    OBVIOUS
  <2>2. top = [m \in {x \in DOMAIN members : members[x] \notin {"none", "empty"}} |-> members[m]]
    BY DEF Kept
  <2> HIDE DEF members, top
  <2> QED
    BY <2>1, <2>2
<1>3. /\ \A m \in DOMAIN all : m = "links"
      /\ "links" \in DOMAIN all <=> doc.links # "none"
      /\ "links" \in DOMAIN all => all["links"] = doc.links
  <2>1. DOMAIN linked = {"links"} /\ linked["links"] = doc.links
    OBVIOUS
  <2>2. all = [m \in {x \in DOMAIN linked : linked[x] \notin {"none"}} |-> linked[m]]
    BY DEF Kept
  <2> HIDE DEF linked, all
  <2> QED
    BY <2>1, <2>2
<1>4. data = << >> <=> doc.data = << >>
  <2>1. PICK n \in Nat : DOMAIN doc.data = 1..n /\ (doc.data = << >> <=> n = 0)
    BY DEF DocShape
  <2>2. data = [i \in 1..n |-> DumpResource(doc.data[i])] /\ Len(data) = n
    BY <2>1
  <2>3. n = 0 => data = << >>
    BY <2>2
  <2>4. data = << >> => n = 0
    <3>1. Len(<< >>) = 0
      OBVIOUS
    <3> HIDE DEF data
    <3> QED
      BY <2>2, <3>1
  <2> QED
    BY <2>1, <2>3, <2>4
<1>5. /\ doc.meta \in MetaMember /\ doc.jsonapi \in JsonapiMember /\ doc.links \in LinksMember
      /\ doc.included \in {"none", "empty", "full"} /\ (doc.included # "none" => "included" \in model.members)
  BY DEF DocShape
<1> HIDE DEF members, linked, top, all, data
<1>6. DOMAIN w = names /\ \A m \in names : w[m] = IF m = "data" THEN [many |-> doc.many, items |-> data]
                                                   ELSE IF m \in DOMAIN top THEN top[m] ELSE all[m]
  BY <1>1
<1>7. /\ names \subseteq {"data", "meta", "jsonapi", "links", "included"}
      /\ "data" \in names <=> doc.data # << >>
      /\ "meta" \in names <=> "meta" \in DOMAIN top
      /\ "jsonapi" \in names <=> "jsonapi" \in DOMAIN top
      /\ "included" \in names <=> "included" \in DOMAIN top
      /\ "links" \in names <=> "links" \in DOMAIN all
  BY <1>2, <1>3, <1>4
<1> HIDE DEF names, w
<1>8. DOMAIN w \subseteq model.members
  <2>1. "included" \in names => "included" \in model.members
    BY <1>2, <1>5, <1>7
  <2> QED
    BY <1>6, <1>7, <2>1, ModelFacts
<1>9. doc.data # << >> => w["data"] = [many |-> doc.many, items |-> data]
  BY <1>6, <1>7
<1>10. /\ OrNone(w, "meta", "none") = NoneIfEmpty(doc.meta)
       /\ OrNone(w, "included", "none") = NoneIfEmpty(doc.included)
  BY <1>2, <1>5, <1>6, <1>7 DEF OrNone, NoneIfEmpty, MetaMember
<1>11. OrNone(w, "jsonapi", "full") = "full"
  BY <1>2, <1>5, <1>6, <1>7 DEF OrNone, JsonapiMember
<1>12. OrNone(w, "links", "none") = doc.links
  <2>1. "links" \notin DOMAIN top
    BY <1>2
  <2> QED
    BY <1>3, <1>6, <1>7, <2>1 DEF OrNone
<1> QED
  BY <1>6, <1>7, <1>8, <1>9, <1>10, <1>11, <1>12 DEF w, data

(* Read again, a document is what it was.                                      *)
AsRead(doc) ==
  [many |-> doc.many, meta |-> NoneIfEmpty(doc.meta), jsonapi |-> "full", links |-> doc.links,
   included |-> NoneIfEmpty(doc.included),
   data |-> [i \in DOMAIN doc.data |-> [doc.data[i] EXCEPT !.relationships = NoneIfEmpty(@)]]]

LEMMA DocumentRead ==
  ASSUME NEW model \in Models, NEW doc, DocShape(model, doc), Dumps(doc)
  PROVE  /\ Accepts(model, DumpDocument(doc), Strict(doc)) <=> doc.data # << >> /\ ~ Strict(doc)
         /\ doc.data # << >> /\ ~ Strict(doc) => ReadDocument(DumpDocument(doc)) = AsRead(doc)
<1> DEFINE w == DumpDocument(doc)
           items == [i \in DOMAIN doc.data |-> DumpResource(doc.data[i])]
<1>1. /\ DOMAIN w \subseteq model.members
      /\ "data" \in DOMAIN w <=> doc.data # << >>
      /\ doc.data # << >> => w["data"] = [many |-> doc.many, items |-> items]
      /\ OrNone(w, "meta", "none") = NoneIfEmpty(doc.meta)
      /\ OrNone(w, "jsonapi", "full") = "full"
      /\ OrNone(w, "links", "none") = doc.links
      /\ OrNone(w, "included", "none") = NoneIfEmpty(doc.included)
  BY DocumentWritten
<1>2. /\ doc = [many |-> doc.many, data |-> doc.data, meta |-> doc.meta, jsonapi |-> doc.jsonapi,
                links |-> doc.links, included |-> doc.included]
      /\ doc.many \in model.many
      /\ \A i \in DOMAIN doc.data : Shaped(model, doc.data[i])
  BY DEF DocShape
<1>3. \A i \in DOMAIN doc.data : doc.data[i]["attributes"] # "mapping"
  BY DEF Dumps
<1>4. \A i \in DOMAIN doc.data :
        /\ model.requires \union {"type"} \subseteq DOMAIN items[i]
        /\ DOMAIN items[i] \subseteq {"type", "meta", "links", "relationships", "attributes"} \union model.requires
        /\ OrNone(items[i], "attributes", "none") = "lacking" <=> doc.data[i]["attributes"] \in {"null", "null!"}
        /\ doc.data[i]["attributes"] # "null!" =>
             ReadResource(items[i]) = [doc.data[i] EXCEPT !.relationships = NoneIfEmpty(@)]
  BY <1>2, <1>3, ResourceRead
<1>5. DOMAIN items = DOMAIN doc.data
  OBVIOUS
<1>6. /\ ReadDocument(w) =
           [many |-> w["data"].many,
            data |-> [i \in DOMAIN w["data"].items |-> ReadResource(w["data"].items[i])],
            meta |-> OrNone(w, "meta", "none"), jsonapi |-> OrNone(w, "jsonapi", "full"),
            links |-> OrNone(w, "links", "none"), included |-> OrNone(w, "included", "none")]
      /\ \A strict : Accepts(model, w, strict) <=>
           /\ "data" \in DOMAIN w /\ DOMAIN w \subseteq model.members
           /\ w["data"].many \in model.many
           /\ \A i \in DOMAIN w["data"].items :
                /\ model.requires \union {"type"} \subseteq DOMAIN w["data"].items[i]
                /\ DOMAIN w["data"].items[i]
                     \subseteq {"type", "meta", "links", "relationships", "attributes"} \union model.requires
                /\ strict => OrNone(w["data"].items[i], "attributes", "none") # "lacking"
  BY DEF ReadDocument, Accepts
<1> HIDE DEF w, items
<1>7. doc.data # << >> => w["data"].many = doc.many /\ w["data"].items = items
  BY <1>1
<1>8. Strict(doc) <=> \E i \in DOMAIN doc.data : doc.data[i]["attributes"] = "null!"
  BY DEF Strict
<1>9. Accepts(model, w, Strict(doc)) => doc.data # << >>
  BY <1>1, <1>6, Zenon
<1>10. ASSUME Strict(doc), Accepts(model, w, Strict(doc)), doc.data # << >> PROVE FALSE
  <2>1. PICK i \in DOMAIN doc.data : doc.data[i]["attributes"] = "null!"
    BY <1>8, <1>10
  <2>2. OrNone(items[i], "attributes", "none") = "lacking"
    BY <1>4, <2>1
  <2>3. OrNone(w["data"].items[i], "attributes", "none") # "lacking"
    <3>1. i \in DOMAIN w["data"].items
      BY <1>5, <1>7, <1>10
    <3> QED
      BY <1>6, <1>10, <3>1, Zenon
  <2> QED
    BY <1>7, <1>10, <2>2, <2>3
<1>11. ASSUME ~ Strict(doc), doc.data # << >> PROVE Accepts(model, w, Strict(doc))
  <2>1. "data" \in DOMAIN w /\ DOMAIN w \subseteq model.members /\ w["data"].many \in model.many
    BY <1>1, <1>2, <1>7, <1>11
  <2>2. ASSUME NEW i \in DOMAIN w["data"].items
        PROVE  /\ model.requires \union {"type"} \subseteq DOMAIN w["data"].items[i]
               /\ DOMAIN w["data"].items[i]
                    \subseteq {"type", "meta", "links", "relationships", "attributes"} \union model.requires
    BY <1>4, <1>5, <1>7, <1>11
  <2> QED
    BY <1>6, <1>11, <2>1, <2>2, Zenon
<1>12. ASSUME ~ Strict(doc), doc.data # << >> PROVE ReadDocument(w) = AsRead(doc)
  <2> DEFINE data == [i \in DOMAIN doc.data |-> [doc.data[i] EXCEPT !.relationships = NoneIfEmpty(@)]]
  <2>1. \A i \in DOMAIN doc.data : doc.data[i]["attributes"] # "null!"
    BY <1>8, <1>12
  <2>2. \A i \in DOMAIN doc.data : ReadResource(items[i]) = [doc.data[i] EXCEPT !.relationships = NoneIfEmpty(@)]
    BY <1>4, <2>1
  <2>3. [i \in DOMAIN items |-> ReadResource(items[i])] = data
    BY <1>5, <2>2
  <2>5. AsRead(doc) = [many |-> doc.many, data |-> data, meta |-> NoneIfEmpty(doc.meta), jsonapi |-> "full",
                       links |-> doc.links, included |-> NoneIfEmpty(doc.included)]
    BY DEF AsRead
  <2> HIDE DEF data
  <2>6. ReadDocument(w) = [many |-> doc.many, data |-> data, meta |-> NoneIfEmpty(doc.meta), jsonapi |-> "full",
                           links |-> doc.links, included |-> NoneIfEmpty(doc.included)]
    BY <1>1, <1>6, <1>7, <1>12, <2>3
  <2> QED
    BY <2>5, <2>6
<1>13. /\ Accepts(model, w, Strict(doc)) <=> doc.data # << >> /\ ~ Strict(doc)
       /\ doc.data # << >> /\ ~ Strict(doc) => ReadDocument(w) = AsRead(doc)
  BY <1>9, <1>10, <1>11, <1>12
<1> QED
  BY <1>13 DEF w

Renewed(doc, meta, included, data) ==
  [doc EXCEPT !.meta = meta, !.included = included, !.jsonapi = "full", !.data = data]

LEMMA RenewedMembers ==
  ASSUME NEW model, NEW doc, DocShape(model, doc),
         NEW newMeta, NEW newIncluded, NEW newData
  PROVE  Renewed(doc, newMeta, newIncluded, newData)
           = [many |-> doc.many, data |-> newData, meta |-> newMeta, jsonapi |-> "full",
              links |-> doc.links, included |-> newIncluded]
<1> DEFINE after == [doc EXCEPT !.meta = newMeta, !.included = newIncluded, !.jsonapi = "full",
                       !.data = newData]
           result == [many |-> doc.many, data |-> newData, meta |-> newMeta, jsonapi |-> "full",
                      links |-> doc.links, included |-> newIncluded]
<1>1. /\ DOMAIN doc = {"many", "data", "meta", "jsonapi", "links", "included"}
      /\ doc = [m \in DOMAIN doc |-> doc[m]]
  <2>1. PICK many, data, meta, jsonapi, links, included :
          doc = [many |-> many, data |-> data, meta |-> meta, jsonapi |-> jsonapi, links |-> links,
                 included |-> included]
    BY DEF DocShape
  <2> QED
    BY <2>1
<1>2. after["data"] = newData
  BY <1>1
<1>3. after["jsonapi"] = "full"
  BY <1>1
<1>4. after["included"] = newIncluded
  BY <1>1
<1>5. after["meta"] = newMeta
  BY <1>1
<1>6. after["many"] = doc["many"]
  BY <1>1
<1>7. after["links"] = doc["links"]
  BY <1>1
<1>8. after = [m \in DOMAIN doc |-> after[m]]
  BY <1>1
<1> HIDE DEF after
<1>9. /\ DOMAIN result = DOMAIN doc /\ result = [m \in DOMAIN doc |-> result[m]]
      /\ result["many"] = doc["many"] /\ result["data"] = newData /\ result["meta"] = newMeta
      /\ result["jsonapi"] = "full" /\ result["links"] = doc["links"] /\ result["included"] = newIncluded
  BY <1>1
<1> HIDE DEF result
<1>10. \A m \in DOMAIN doc : after[m] = result[m]
  BY <1>1, <1>2, <1>3, <1>4, <1>5, <1>6, <1>7, <1>9
<1>11. after = result
  BY <1>8, <1>9, <1>10
<1> QED
  BY <1>11 DEF after, result, Renewed

LEMMA AsReadIsRoundTrip ==
  ASSUME NEW model, NEW doc, DocShape(model, doc)
  PROVE  AsRead(doc) = [doc EXCEPT !.meta = NoneIfEmpty(@), !.included = NoneIfEmpty(@), !.jsonapi = "full",
                          !.data = [i \in DOMAIN doc.data |->
                                      [doc.data[i] EXCEPT !.relationships = NoneIfEmpty(@)]]]
<1> DEFINE new == [i \in DOMAIN doc.data |-> [doc.data[i] EXCEPT !.relationships = NoneIfEmpty(@)]]
<1>1. doc = [many |-> doc.many, data |-> doc.data, meta |-> doc.meta, jsonapi |-> doc.jsonapi,
             links |-> doc.links, included |-> doc.included]
  BY DEF DocShape
<1>2. AsRead(doc) = [many |-> doc.many, data |-> new, meta |-> NoneIfEmpty(doc.meta), jsonapi |-> "full",
                     links |-> doc.links, included |-> NoneIfEmpty(doc.included)]
  BY DEF AsRead
<1> HIDE DEF new
<1>3. AsRead(doc) = Renewed(doc, NoneIfEmpty(doc.meta), NoneIfEmpty(doc.included), new)
  BY <1>2, RenewedMembers
<1> QED
  BY <1>3 DEF new, Renewed

--------------------------------------------------------------------------------
(* The exchange: what is known of the document at each place on its way.       *)
Travelled(at, model, doc, wire, read) ==
  /\ at \in {"composed", "raised", "written", "read", "rejected"}
  /\ model \in Models /\ DocShape(model, doc) /\ Valid(doc)
  /\ at \in {"written", "read", "rejected"} => Dumps(doc) /\ wire = DumpDocument(doc)
  /\ at = "rejected" => ~ Accepts(model, DumpDocument(doc), Strict(doc))
  /\ at = "read" => Accepts(model, DumpDocument(doc), Strict(doc)) /\ read = ReadDocument(DumpDocument(doc))

Exchanged(x) ==
  \/ x = NoExchange
  \/ \E at, model, doc, wire, read :
       /\ x = [at |-> at, model |-> model, doc |-> doc, wire |-> wire, read |-> read]
       /\ Travelled(at, model, doc, wire, read)

DocumentsInv ==
  /\ Exchanged(exchange)
  /\ exchange # NoExchange => location = << >> /\ sorting = << >>
  /\ location = << >> \/ location \in Locations
  /\ Sent(sorting)

LEMMA DocumentsInitInv == ASSUME DocumentsInit PROVE DocumentsInv
BY DEF DocumentsInit, DocumentsInv, Exchanged, Sent

LEMMA NotOnItsWay ==
  ASSUME NEW at, NEW model, NEW doc, NEW wire, NEW read
  PROVE  [at |-> at, model |-> model, doc |-> doc, wire |-> wire, read |-> read] # NoExchange
<1>1. /\ "doc" \in DOMAIN [at |-> at, model |-> model, doc |-> doc, wire |-> wire, read |-> read]
      /\ "doc" \notin DOMAIN NoExchange
  BY DEF NoExchange
<1> QED
  BY <1>1

LEMMA ComposedInv ==
  ASSUME DocumentsInv, NothingYet, NEW model \in Models, NEW doc \in Composed(model), Compose(model, doc)
  PROVE  DocumentsInv'
<1>1. /\ Valid(doc) /\ UNCHANGED <<location, sorting>>
      /\ exchange' = [at |-> "composed", model |-> model, doc |-> doc, wire |-> Unwritten, read |-> doc]
  BY DEF Compose
<1>2. Travelled("composed", model, doc, Unwritten, doc)
  BY <1>1, ComposedShape DEF Travelled
<1>3. Exchanged(exchange')
  BY <1>1, <1>2 DEF Exchanged
<1>4. location = << >> /\ sorting = << >> /\ location' = location /\ sorting' = sorting
  BY <1>1 DEF NothingYet
<1> QED
  BY <1>3, <1>4 DEF DocumentsInv, Sent

LEMMA WrittenInv == ASSUME DocumentsInv, Write PROVE DocumentsInv'
<1>1. exchange # NoExchange
  BY DEF Write, NoExchange
<1>2. PICK at, model, doc, wire, read :
        /\ exchange = [at |-> at, model |-> model, doc |-> doc, wire |-> wire, read |-> read]
        /\ Travelled(at, model, doc, wire, read)
  BY <1>1 DEF DocumentsInv, Exchanged
<1>3. /\ model \in Models /\ DocShape(model, doc) /\ Valid(doc)
  BY <1>2 DEF Travelled
<1>4. CASE Dumps(doc)
  <2>1. exchange' = [at |-> "written", model |-> model, doc |-> doc, wire |-> DumpDocument(doc), read |-> read]
    BY <1>2, <1>4 DEF Write
  <2>2. Travelled("written", model, doc, DumpDocument(doc), read)
    BY <1>3, <1>4 DEF Travelled
  <2>3. Exchanged(exchange')
    BY <2>1, <2>2 DEF Exchanged
  <2> QED
    BY <1>1, <2>3 DEF DocumentsInv, Write, Sent
<1>5. CASE ~ Dumps(doc)
  <2>1. exchange' = [at |-> "raised", model |-> model, doc |-> doc, wire |-> wire, read |-> read]
    BY <1>2, <1>5 DEF Write
  <2>2. Travelled("raised", model, doc, wire, read)
    BY <1>3 DEF Travelled
  <2>3. Exchanged(exchange')
    BY <2>1, <2>2 DEF Exchanged
  <2> QED
    BY <1>1, <2>3 DEF DocumentsInv, Write, Sent
<1> QED
  BY <1>4, <1>5

LEMMA ReadBackInv == ASSUME DocumentsInv, Read PROVE DocumentsInv'
<1>1. exchange # NoExchange
  BY DEF Read, NoExchange
<1>2. PICK at, model, doc, wire, read :
        /\ exchange = [at |-> at, model |-> model, doc |-> doc, wire |-> wire, read |-> read]
        /\ Travelled(at, model, doc, wire, read)
  BY <1>1 DEF DocumentsInv, Exchanged
<1>3. /\ model \in Models /\ DocShape(model, doc) /\ Valid(doc)
      /\ at = "written" /\ Dumps(doc) /\ wire = DumpDocument(doc)
  BY <1>2 DEF Travelled, Read
<1>4. CASE Accepts(model, wire, Strict(doc))
  <2>1. exchange' = [at |-> "read", model |-> model, doc |-> doc, wire |-> wire, read |-> ReadDocument(wire)]
    BY <1>2, <1>4 DEF Read
  <2>2. Travelled("read", model, doc, wire, ReadDocument(wire))
    BY <1>3, <1>4 DEF Travelled
  <2>3. Exchanged(exchange')
    BY <2>1, <2>2 DEF Exchanged
  <2> QED
    BY <1>1, <2>3 DEF DocumentsInv, Read, Sent
<1>5. CASE ~ Accepts(model, wire, Strict(doc))
  <2>1. exchange' = [at |-> "rejected", model |-> model, doc |-> doc, wire |-> wire, read |-> read]
    BY <1>2, <1>5 DEF Read
  <2>2. Travelled("rejected", model, doc, wire, read)
    BY <1>3, <1>5 DEF Travelled
  <2>3. Exchanged(exchange')
    BY <2>1, <2>2 DEF Exchanged
  <2> QED
    BY <1>1, <2>3 DEF DocumentsInv, Read, Sent
<1> QED
  BY <1>4, <1>5

LEMMA DocumentsNextInv == ASSUME DocumentsInv, [DocumentsNext]_documentsVars PROVE DocumentsInv'
<1>1. CASE Write
  BY <1>1, WrittenInv
<1>2. CASE Read
  BY <1>2, ReadBackInv
<1>3. ASSUME NothingYet, NEW model \in Models, NEW doc \in Composed(model), Compose(model, doc)
      PROVE  DocumentsInv'
  BY <1>3, ComposedInv
<1>4. ASSUME NothingYet, NEW loc \in Locations, Locate(loc)
      PROVE  DocumentsInv'
  BY <1>4 DEF Locate, NothingYet, DocumentsInv, Exchanged, Sent
<1>5. ASSUME NothingYet, NEW a \in Raw, NEW b \in Raw,
             SortBy(<<<<a>>>>) \/ SortBy(<<<<a, b>>>>) \/ SortBy(<<<<a>>, <<b>>>>)
      PROVE  DocumentsInv'
  <2>1. Sent(sorting')
    BY <1>5 DEF SortBy, Sent
  <2>2. exchange' = exchange /\ location' = location
    BY <1>5 DEF SortBy
  <2> QED
    BY <1>5, <2>1, <2>2 DEF NothingYet, DocumentsInv, Exchanged, Sent
<1>6. CASE UNCHANGED documentsVars
  BY <1>6 DEF documentsVars, DocumentsInv, Exchanged, Sent
<1> QED
  BY <1>1, <1>2, <1>3, <1>4, <1>5, <1>6 DEF DocumentsNext

--------------------------------------------------------------------------------
(* What the inductive invariant says of an exchange.                           *)
LEMMA OnItsWay ==
  ASSUME DocumentsInv, exchange.at \in {"composed", "raised", "written", "read", "rejected"}
  PROVE  \E at, model, doc, wire, read :
           /\ exchange = [at |-> at, model |-> model, doc |-> doc, wire |-> wire, read |-> read]
           /\ Travelled(at, model, doc, wire, read)
<1>1. exchange # NoExchange
  BY DEF NoExchange
<1> QED
  BY <1>1 DEF DocumentsInv, Exchanged

LEMMA DocumentsInvRoundTrip == ASSUME DocumentsInv PROVE RoundTrip
<1>1. ASSUME exchange.at = "rejected"
      PROVE  exchange.doc.data = << >> \/ Strict(exchange.doc)
  <2>1. PICK at, model, doc, wire, read :
           /\ exchange = [at |-> at, model |-> model, doc |-> doc, wire |-> wire, read |-> read]
           /\ Travelled(at, model, doc, wire, read)
    BY <1>1, OnItsWay
  <2>2. /\ model \in Models /\ DocShape(model, doc) /\ Dumps(doc) /\ exchange.doc = doc
        /\ ~ Accepts(model, DumpDocument(doc), Strict(doc))
    BY <1>1, <2>1 DEF Travelled
  <2> QED
    BY <2>2, DocumentRead
<1>2. ASSUME exchange.at = "read"
      PROVE  exchange.read = [exchange.doc EXCEPT !.meta = NoneIfEmpty(@), !.included = NoneIfEmpty(@),
               !.jsonapi = "full",
               !.data = [i \in DOMAIN exchange.doc.data |->
                           [exchange.doc.data[i] EXCEPT !.relationships = NoneIfEmpty(@)]]]
  <2>1. PICK at, model, doc, wire, read :
           /\ exchange = [at |-> at, model |-> model, doc |-> doc, wire |-> wire, read |-> read]
           /\ Travelled(at, model, doc, wire, read)
    BY <1>2, OnItsWay
  <2>2. /\ model \in Models /\ DocShape(model, doc) /\ Dumps(doc) /\ exchange.doc = doc
        /\ Accepts(model, DumpDocument(doc), Strict(doc))
        /\ exchange.read = ReadDocument(DumpDocument(doc))
    BY <1>2, <2>1 DEF Travelled
  <2>3. exchange.read = AsRead(doc)
    BY <2>2, DocumentRead
  <2> QED
    BY <2>2, <2>3, AsReadIsRoundTrip
<1> QED
  BY <1>1, <1>2, Zenon DEF RoundTrip, NoneIfEmpty

LEMMA DocumentsInvTypes == ASSUME DocumentsInv PROVE DocumentsTypeOK
<1>1. exchange.at \in {"none", "composed", "raised", "written", "read", "rejected"}
  BY DEF DocumentsInv, Exchanged, NoExchange, Travelled
<1>2. ASSUME exchange.at \in {"written", "read", "rejected"}
      PROVE  DOMAIN exchange.wire \subseteq exchange.model.members
  <2>1. PICK at, model, doc, wire, read :
           /\ exchange = [at |-> at, model |-> model, doc |-> doc, wire |-> wire, read |-> read]
           /\ Travelled(at, model, doc, wire, read)
    BY <1>2, OnItsWay
  <2>2. /\ model \in Models /\ DocShape(model, doc) /\ wire = DumpDocument(doc)
        /\ exchange.wire = wire /\ exchange.model = model
    BY <1>2, <2>1 DEF Travelled
  <2> QED
    BY <2>2, DocumentWritten
<1>3. ASSUME exchange.at = "read"
      PROVE  Valid(exchange.read) /\ \A i \in DOMAIN exchange.read.data :
               exchange.read.data[i].attributes \in AttributesMember \ {"null!"}
  <2>1. PICK at, model, doc, wire, read :
           /\ exchange = [at |-> at, model |-> model, doc |-> doc, wire |-> wire, read |-> read]
           /\ Travelled(at, model, doc, wire, read)
    BY <1>3, OnItsWay
  <2>2. /\ model \in Models /\ DocShape(model, doc) /\ Dumps(doc) /\ Valid(doc)
        /\ Accepts(model, DumpDocument(doc), Strict(doc))
        /\ exchange.read = ReadDocument(DumpDocument(doc))
    BY <1>3, <2>1 DEF Travelled
  <2>3. exchange.read = AsRead(doc) /\ ~ Strict(doc)
    BY <2>2, DocumentRead
  <2>4. PICK n \in Nat : DOMAIN doc.data = 1..n /\ Len(doc.data) = n /\ \A i \in 1..n : Shaped(model, doc.data[i])
    BY <2>2 DEF DocShape
  <2> DEFINE data == [i \in 1..n |-> [doc.data[i] EXCEPT !.relationships = NoneIfEmpty(@)]]
  <2>5. exchange.read.data = data /\ exchange.read.many = doc.many
    BY <2>3, <2>4 DEF AsRead
  <2>6. Len(data) = n /\ DOMAIN data = 1..n
    OBVIOUS
  <2>7. ASSUME NEW i \in 1..n
        PROVE  data[i].attributes \in AttributesMember \ {"null!"}
    <3>1. /\ DOMAIN doc.data[i] = Members(model) /\ doc.data[i]["attributes"] \in AttributesMember
          /\ "attributes" \in Members(model)
      BY <2>4 DEF Shaped, Members
    <3>2. doc.data[i]["attributes"] # "null!"
      BY <2>3, <2>4 DEF Strict
    <3>3. data[i]["attributes"] = doc.data[i]["attributes"]
      BY <3>1
    <3> QED
      BY <3>1, <3>2, <3>3
  <2> HIDE DEF data
  <2>8. Valid(exchange.read)
    BY <2>2, <2>4, <2>5, <2>6 DEF Valid
  <2> QED
    BY <2>5, <2>6, <2>7, <2>8
<1>4. exchange # NoExchange => location = << >> /\ sorting = << >>
  BY DEF DocumentsInv
<1> QED
  BY <1>1, <1>2, <1>3, <1>4, Zenon DEF DocumentsTypeOK

(* An exchange, a place and a sort are always what the code can have made of them. *)
THEOREM DocumentsInvariant == DocumentsSpec => []DocumentsInv
<1>1. DocumentsInit => DocumentsInv
  BY DocumentsInitInv
<1>2. DocumentsInv /\ [DocumentsNext]_documentsVars => DocumentsInv'
  BY DocumentsNextInv
<1> QED
  BY <1>1, <1>2, PTL DEF DocumentsSpec

(* A document in transit has members its model knows, and one that was read is *)
(* valid and has no null where the model has no default.                       *)
THEOREM DocumentsTypeCorrect == DocumentsSpec => []DocumentsTypeOK
<1>1. DocumentsInv => DocumentsTypeOK
  BY DocumentsInvTypes
<1> QED
  BY <1>1, DocumentsInvariant, PTL

(* What is written is read back as the document it was, but for empty members; *)
(* only an empty collection and a null without a default are rejected          *)
(* (serializers.py:7-118, document.py:328-654).                                *)
THEOREM RoundTripHolds == DocumentsSpec => []RoundTrip
<1>1. DocumentsInv => RoundTrip
  BY DocumentsInvRoundTrip
<1> QED
  BY <1>1, DocumentsInvariant, PTL

(* The source of an error tells its place apart from every other, for parts of *)
(* any length over any characters, and the readers of a sort agree             *)
(* (handlers.py:21-45, query.py:48-85).                                        *)
THEOREM ReadersAgreeHolds == DocumentsSpec => []ReadersAgree
<1>1. DocumentsInv => ReadersAgree
  BY PlacedTells, SentAgrees DEF DocumentsInv, ReadersAgree
<1> QED
  BY <1>1, DocumentsInvariant, PTL
===============================================================================
