----------------------------- MODULE ListProofs -----------------------------
(***************************************************************************)
(* Lemmas about lists of any length.  Induction over the length is done by *)
(* way of sets: < is well-founded on the numbers, so the set of those for  *)
(* which a fact fails has a least element if it has one at all.            *)
(***************************************************************************)
EXTENDS Lists, SequencesExt, WellFoundedInduction, SequenceTheorems, TLAPS

\* A set of numbers has a least one, since < is well-founded.
LEMMA NatLeast ==
  ASSUME NEW T \in SUBSET Nat, T # {}
  PROVE  \E m \in T : \A k \in T : m <= k
  <1> DEFINE less == {p \in Nat \X Nat : p[1] < p[2]}
  <1>1. IsWellFoundedOn(less, Nat)
    BY NatLessThanWellFounded DEF OpToRel
  <1>2. PICK m \in T : \A k \in T : ~(<<k, m>> \in less)
    BY <1>1, WFMin
  <1>3. ASSUME NEW k \in T PROVE m <= k
    <2>1. <<k, m>> \in Nat \X Nat /\ ~(<<k, m>>[1] < <<k, m>>[2])
      BY <1>2
    <2> QED BY <2>1
  <1> QED BY <1>3

\* Induction, for a set of numbers in place of a predicate.
LEMMA SetInduction ==
  ASSUME NEW T, 0 \in T, \A n \in Nat : n \in T => n + 1 \in T
  PROVE  Nat \subseteq T
  <1> SUFFICES ASSUME Nat \ T # {} PROVE FALSE
    OBVIOUS
  <1>1. PICK m \in Nat \ T : \A k \in Nat \ T : m <= k
    BY NatLeast
  <1>2. m # 0 /\ m - 1 \in Nat
    BY <1>1
  <1>3. m - 1 \in T
    BY <1>1, <1>2
  <1> QED BY <1>1, <1>2, <1>3

\* The least number of a set, as SelectInSeq uses it.
LEMMA MinLeast ==
  ASSUME NEW T \in SUBSET Nat, T # {}
  PROVE  Min(T) \in T /\ \A k \in T : Min(T) <= k
  BY NatLeast DEF Min

\* What Append adds.
LEMMA RangeAppend ==
  ASSUME NEW X, NEW s \in Seq(X), NEW e \in X
  PROVE  Range(Append(s, e)) = Range(s) \cup {e}
  <1>1. Append(s, e) = s \o <<e>> /\ <<e>> \in Seq(X)
    BY AppendIsConcat
  <1>2. Range(<<e>>) = {e}
    BY DEF Range
  <1>3. Range(s \o <<e>>) = Range(s) \cup Range(<<e>>)
    BY <1>1, RangeConcatenation
  <1> QED BY <1>1, <1>2, <1>3

\* The recursion of ElementsAt has a solution: what is kept of the prefixes of s.
\* A solution up to n can be continued to n + 1.
LEMMA ElementsAtSteps ==
  ASSUME NEW X, NEW s \in Seq(X), NEW I
  PROVE  \E f :
           /\ f[0] = <<>>
           /\ \A i \in 1..Len(s) : f[i] = IF i \in I THEN Append(f[i-1], s[i]) ELSE f[i-1]
           /\ ElementsAt(s, I) = f[Len(s)]
  <1> DEFINE Step(g, n) == IF n = 0 THEN <<>>
                           ELSE IF n \in I THEN Append(g[n-1], s[n]) ELSE g[n-1]
             Upto(g, n) == \A i \in 0..n : g[i] = Step(g, i)
             T == {n \in Nat : n <= Len(s) => \E g \in [0..n -> Seq(X)] : Upto(g, n)}
  <1>1. 0 \in T
    <2>1. [i \in 0..0 |-> <<>>] \in [0..0 -> Seq(X)]
      OBVIOUS
    <2>2. Upto([i \in 0..0 |-> <<>>], 0)
      OBVIOUS
    <2> QED BY <2>1, <2>2
  <1>2. ASSUME NEW n \in Nat, n \in T PROVE n + 1 \in T
    <2> SUFFICES ASSUME n + 1 <= Len(s)
                 PROVE  \E h \in [0..(n+1) -> Seq(X)] : Upto(h, n + 1)
      <3> HIDE DEF Upto
      <3> QED OBVIOUS
    <2>1. PICK g \in [0..n -> Seq(X)] : Upto(g, n)
      BY <1>2
    <2> DEFINE last == IF n + 1 \in I THEN Append(g[n], s[n+1]) ELSE g[n]
               h == [i \in 0..(n+1) |-> IF i <= n THEN g[i] ELSE last]
    <2>2. last \in Seq(X)
      <3>1. g[n] \in Seq(X) /\ s[n+1] \in X
        OBVIOUS
      <3> QED BY <3>1
    <2>3. h \in [0..(n+1) -> Seq(X)]
      <3> HIDE DEF last
      <3> QED BY <2>2
    <2>4. ASSUME NEW i \in 0..(n+1) PROVE h[i] = Step(h, i)
      <3>1. CASE i = 0
        BY <2>1, <3>1
      <3>2. CASE i # 0 /\ i <= n
        <4>1. i \in 0..n /\ i - 1 \in 0..n
          BY <3>2
        <4>2. g[i] = Step(g, i)
          BY <2>1, <4>1
        <4>3. h[i] = g[i] /\ h[i-1] = g[i-1]
          <5> HIDE DEF last
          <5> QED BY <4>1
        <4> QED BY <3>2, <4>2, <4>3
      <3>3. CASE i = n + 1
        <4>1. h[i] = last /\ h[i-1] = g[n] /\ i # 0
          BY <3>3
        <4> QED BY <4>1, <3>3
      <3> QED BY <3>1, <3>2, <3>3
    <2> HIDE DEF h, Step
    <2> QED BY <2>3, <2>4
  <1>3. Len(s) \in Nat /\ Len(s) \in T
    <2> HIDE DEF T
    <2> QED BY <1>1, <1>2, SetInduction
  <1>4. PICK g \in [0..Len(s) -> Seq(X)] : Upto(g, Len(s))
    BY <1>3
  <1>5. g = [i \in 0..Len(s) |-> Step(g, i)]
    <2> HIDE DEF Step
    <2> QED BY <1>4
  <1> DEFINE F == CHOOSE h : h = [i \in 0..Len(s) |-> Step(h, i)]
  <1>6. F = [i \in 0..Len(s) |-> Step(F, i)]
    <2> HIDE DEF Step
    <2> QED BY <1>5
  <1>7. ElementsAt(s, I) = F[Len(s)]
    BY DEF ElementsAt
  <1> HIDE DEF F
  <1>8. \A i \in 0..Len(s) : F[i] = Step(F, i)
    <2> HIDE DEF Step
    <2> QED BY <1>6
  <1> QED BY <1>3, <1>7, <1>8

\* What ElementsAt returns: the elements at these positions, and none twice if s
\* repeats none of them there.
LEMMA ElementsAtProperties ==
  ASSUME NEW X, NEW s \in Seq(X), NEW I \in SUBSET (1..Len(s))
  PROVE  /\ ElementsAt(s, I) \in Seq(X)
         /\ Range(ElementsAt(s, I)) = {s[i] : i \in I}
         /\ (\A i, j \in I : s[i] = s[j] => i = j) => IsInjective(ElementsAt(s, I))
  <1> DEFINE Once == \A i, j \in I : s[i] = s[j] => i = j
  <1>1. PICK f :
           /\ f[0] = <<>>
           /\ \A i \in 1..Len(s) : f[i] = IF i \in I THEN Append(f[i-1], s[i]) ELSE f[i-1]
           /\ ElementsAt(s, I) = f[Len(s)]
    BY ElementsAtSteps
  <1> DEFINE Good(n) == /\ f[n] \in Seq(X)
                        /\ Range(f[n]) = {s[i] : i \in I \cap 1..n}
                        /\ Once => IsInjective(f[n])
             T == {n \in Nat : n <= Len(s) => Good(n)}
  <1>2. 0 \in T
    <2>1. Range(<<>>) = {} /\ IsInjective(<<>>)
      BY DEF Range, IsInjective
    <2>2. <<>> \in Seq(X) /\ {s[i] : i \in I \cap 1..0} = {}
      OBVIOUS
    <2>3. Good(0)
      BY <1>1, <2>1, <2>2
    <2> HIDE DEF Good
    <2> QED BY <2>3
  <1>3. ASSUME NEW n \in Nat, n \in T PROVE n + 1 \in T
    <2> SUFFICES ASSUME n + 1 <= Len(s) PROVE Good(n + 1)
      OBVIOUS
    <2>1. Good(n) /\ n + 1 \in 1..Len(s) /\ s[n+1] \in X
      BY <1>3
    <2>2. f[n+1] = IF n + 1 \in I THEN Append(f[n], s[n+1]) ELSE f[n]
      BY <1>1, <2>1
    <2>3. CASE n + 1 \notin I
      <3>1. I \cap 1..(n+1) = I \cap 1..n
        BY <2>3
      <3> QED BY <2>1, <2>2, <2>3, <3>1
    <2>4. CASE n + 1 \in I
      <3>1. f[n+1] = Append(f[n], s[n+1]) /\ f[n+1] \in Seq(X)
        BY <2>1, <2>2, <2>4
      <3>2. /\ Len(f[n+1]) = Len(f[n]) + 1 /\ Len(f[n]) \in Nat
            /\ \A i \in 1..Len(f[n]) : f[n+1][i] = f[n][i]
            /\ f[n+1][Len(f[n]) + 1] = s[n+1]
        BY <2>1, <3>1
      <3>3. Range(f[n+1]) = Range(f[n]) \cup {s[n+1]}
        BY <2>1, <3>1, RangeAppend
      <3>4. ASSUME Once PROVE IsInjective(f[n+1])
        <4>1. s[n+1] \notin {s[i] : i \in I \cap 1..n}
          BY <2>1, <2>4, <3>4
        <4>2. s[n+1] \notin Range(f[n])
          BY <2>1, <4>1
        <4>3. IsInjective(f[n])
          BY <2>1, <3>4
        <4> HIDE DEF Once
        <4> QED BY <3>1, <3>2, <4>2, <4>3 DEF IsInjective, Range
      <3>5. I \cap 1..(n+1) = (I \cap 1..n) \cup {n + 1}
        BY <2>4
      <3>6. Range(f[n+1]) = {s[i] : i \in I \cap 1..(n+1)}
        BY <2>1, <3>3, <3>5
      <3> HIDE DEF Once
      <3> QED BY <3>1, <3>4, <3>6
    <2> QED BY <2>3, <2>4
  <1>4. Len(s) \in T
    <2> HIDE DEF T
    <2> QED BY <1>2, <1>3, SetInduction
  <1>5. I \cap 1..Len(s) = I
    OBVIOUS
  <1> HIDE DEF Once
  <1> QED BY <1>1, <1>4, <1>5 DEF Once

\* What Filter returns: the elements of s that are in S, and none twice if s
\* repeats none (businessURLs, applyRuntimeConfig).
LEMMA FilterProperties ==
  ASSUME NEW X, NEW s \in Seq(X), NEW S
  PROVE  /\ Filter(s, S) \in Seq(X)
         /\ Range(Filter(s, S)) = Range(s) \cap S
         /\ IsInjective(s) => IsInjective(Filter(s, S))
  <1> DEFINE I == {i \in 1..Len(s) : s[i] \in S}
  <1>1. Filter(s, S) = ElementsAt(s, I)
    BY DEF Filter
  <1>2. {s[i] : i \in I} = Range(s) \cap S
    BY DEF Range
  <1>3. IsInjective(s) => \A i, j \in I : s[i] = s[j] => i = j
    BY DEF IsInjective
  <1>4. I \in SUBSET (1..Len(s))
    OBVIOUS
  <1> HIDE DEF I
  <1> QED BY <1>1, <1>2, <1>3, <1>4, ElementsAtProperties

\* What Distinct returns: all elements of s, and none twice (the seen sets of
\* syncFromCurrentConfig and mergeGatewayUrls).
LEMMA DistinctProperties ==
  ASSUME NEW X, NEW s \in Seq(X)
  PROVE  /\ Distinct(s) \in Seq(X)
         /\ Range(Distinct(s)) = Range(s)
         /\ IsInjective(Distinct(s))
  <1> DEFINE I == {i \in 1..Len(s) : \A j \in 1..(i-1) : s[j] # s[i]}
  <1>1. Distinct(s) = ElementsAt(s, I)
    BY DEF Distinct
  <1>2. ASSUME NEW i \in 1..Len(s) PROVE \E k \in I : s[k] = s[i]
    <2> DEFINE same == {k \in 1..Len(s) : s[k] = s[i]}
    <2>1. same \in SUBSET Nat /\ same # {}
      OBVIOUS
    <2>2. PICK k \in same : \A j \in same : k <= j
      BY <2>1, NatLeast
    <2>3. k \in I
      BY <2>2
    <2> QED BY <2>2, <2>3
  <1>3. {s[i] : i \in I} = Range(s)
    <2>1. I \subseteq 1..Len(s) /\ Range(s) = {s[i] : i \in 1..Len(s)}
      BY DEF Range
    <2> HIDE DEF I
    <2> QED BY <1>2, <2>1
  <1>4. \A i, j \in I : s[i] = s[j] => i = j
    OBVIOUS
  <1>5. I \in SUBSET (1..Len(s))
    OBVIOUS
  <1>6. /\ ElementsAt(s, I) \in Seq(X)
        /\ Range(ElementsAt(s, I)) = {s[i] : i \in I}
        /\ IsInjective(ElementsAt(s, I))
    <2> HIDE DEF I
    <2> QED BY <1>4, <1>5, ElementsAtProperties
  <1> HIDE DEF I
  <1> QED BY <1>1, <1>3, <1>6

\* Two lists without a common element, one behind the other.
LEMMA ConcatDisjoint ==
  ASSUME NEW X, NEW s \in Seq(X), NEW t \in Seq(X)
  PROVE  /\ s \o t \in Seq(X)
         /\ Range(s \o t) = Range(s) \cup Range(t)
         /\ IsInjective(s) /\ IsInjective(t) /\ Range(s) \cap Range(t) = {}
              => IsInjective(s \o t)
  <1>1. s \o t \in Seq(X) /\ Range(s \o t) = Range(s) \cup Range(t)
    BY RangeConcatenation
  <1>2. /\ Len(s \o t) = Len(s) + Len(t) /\ Len(s) \in Nat /\ Len(t) \in Nat
        /\ \A i \in 1..Len(s) : (s \o t)[i] = s[i]
        /\ \A i \in 1..Len(s)+Len(t) : i > Len(s) =>
             (s \o t)[i] = t[i - Len(s)] /\ i - Len(s) \in 1..Len(t)
    OBVIOUS
  <1>3. ASSUME IsInjective(s), IsInjective(t), Range(s) \cap Range(t) = {}
        PROVE  IsInjective(s \o t)
    <2>1. SUFFICES ASSUME NEW i \in 1..Len(s)+Len(t), NEW j \in 1..Len(s)+Len(t),
                          (s \o t)[i] = (s \o t)[j]
                   PROVE  i = j
      <3>1. DOMAIN (s \o t) = 1..Len(s)+Len(t)
        BY <1>1, <1>2
      <3> QED BY <3>1 DEF IsInjective
    <2>2. \A k \in 1..Len(s), l \in 1..Len(t) : s[k] # t[l]
      BY <1>3 DEF Range
    <2>3. CASE i <= Len(s) /\ j <= Len(s)
      BY <1>2, <1>3, <2>1, <2>3 DEF IsInjective
    <2>4. CASE i > Len(s) /\ j > Len(s)
      <3>1. t[i - Len(s)] = t[j - Len(s)] /\ i - Len(s) \in 1..Len(t) /\ j - Len(s) \in 1..Len(t)
        BY <1>2, <2>1, <2>4
      <3>2. i - Len(s) = j - Len(s)
        BY <1>3, <3>1 DEF IsInjective
      <3> QED BY <1>2, <3>2
    <2>5. CASE i <= Len(s) /\ j > Len(s)
      BY <1>2, <2>1, <2>2, <2>5
    <2>6. CASE i > Len(s) /\ j <= Len(s)
      BY <1>2, <2>1, <2>2, <2>6
    <2> QED BY <1>2, <2>3, <2>4, <2>5, <2>6
  <1> QED BY <1>1, <1>3
==============================================================================
