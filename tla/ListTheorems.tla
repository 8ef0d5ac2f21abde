---------------------------- MODULE ListTheorems ----------------------------
(***************************************************************************)
(* Facts about numbers and lists that the proofs of several components     *)
(* use.  What a recursive function computes is proved by induction, in the *)
(* form of the least element of a set of numbers.                          *)
(***************************************************************************)
EXTENDS Integers, FiniteSetsExt, SequencesExt, SequenceTheorems, WellFoundedInduction, TLAPS

-------------------------------------------------------------------------------
(* Numbers *)

\* A set of numbers has a least element, which Min chooses.
LEMMA LeastElement ==
  ASSUME NEW T, T \subseteq Nat, T # {}
  PROVE  /\ Min(T) \in T
         /\ \A n \in T : Min(T) <= n
<1>1. PICK m \in T : \A k \in T : ~(<<k, m>> \in OpToRel(<, Nat))
  BY WFMin, NatLessThanWellFounded
<1>2. ASSUME NEW k \in T PROVE m <= k
  <2>1. k \in Nat /\ m \in Nat
    OBVIOUS
  <2>2. ~(k < m)
    BY <1>1, <2>1 DEF OpToRel
  <2>. QED BY <2>1, <2>2
<1>. QED BY <1>2 DEF Min

\* Induction, for a set.
LEMMA Induction ==
  ASSUME NEW S, 0 \in S, \A n \in Nat : n \in S => n + 1 \in S
  PROVE  Nat \subseteq S
<1>. DEFINE T == Nat \ S
<1>. SUFFICES ASSUME T # {} PROVE FALSE
  OBVIOUS
<1>1. PICK m \in T : \A k \in T : ~(<<k, m>> \in OpToRel(<, Nat))
  BY WFMin, NatLessThanWellFounded
<1>2. m - 1 \in Nat /\ m - 1 < m
  OBVIOUS
<1>3. m - 1 \in S
  BY <1>1, <1>2 DEF OpToRel
<1>. QED BY <1>2, <1>3

-------------------------------------------------------------------------------
(* FlattenSeq *)

\* The equation that defines the function flatten, up to n.
Flattened(ss, n, g) ==
  g = [ i \in 1..n |-> IF i = 1 THEN ss[i] ELSE g[i - 1] \o ss[i] ]

\* There is such a function: one for n is extended to n + 1.
LEMMA FlattenDefined ==
  ASSUME NEW ss, Len(ss) \in Nat
  PROVE  \E g : Flattened(ss, Len(ss), g)
<1>. DEFINE S == {n \in Nat : \E g : Flattened(ss, n, g)}
<1>1. 0 \in S
  <2>1. Flattened(ss, 0, <<>>)
    BY DEF Flattened
  <2>. QED BY <2>1
<1>2. ASSUME NEW n \in Nat, n \in S PROVE n + 1 \in S
  <2>1. PICK g : Flattened(ss, n, g)
    BY <1>2
  <2>. DEFINE h == [ i \in 1..(n + 1) |-> IF i = 1 THEN ss[i] ELSE g[i - 1] \o ss[i] ]
  <2>2. ASSUME NEW i \in 1..n PROVE h[i] = g[i]
    <3>1. g[i] = IF i = 1 THEN ss[i] ELSE g[i - 1] \o ss[i]
      BY <2>1, Zenon DEF Flattened
    <3>2. i \in 1..(n + 1)
      OBVIOUS
    <3>. QED BY <3>1, <3>2, Zenon
  <2>3. h = [ i \in 1..(n + 1) |-> IF i = 1 THEN ss[i] ELSE h[i - 1] \o ss[i] ]
    <3>1. ASSUME NEW i \in 1..(n + 1), i # 1 PROVE g[i - 1] = h[i - 1]
      <4>1. i - 1 \in 1..n
        BY <3>1
      <4>. HIDE DEF h
      <4>. QED BY <2>2, <4>1
    <3>. QED BY <3>1, Zenon
  <2>4. Flattened(ss, n + 1, h)
    BY <2>3, Zenon DEF Flattened
  <2>. HIDE DEF h
  <2>. QED BY <2>4
<1>3. Nat \subseteq S
  <2>. HIDE DEF S
  <2>. QED BY <1>1, <1>2, Induction
<1>. QED BY <1>3

\* FlattenSeq takes its value from that function.
LEMMA FlattenUnfolds ==
  ASSUME NEW ss, Len(ss) \in Nat \ {0}
  PROVE  \E g : Flattened(ss, Len(ss), g) /\ FlattenSeq(ss) = g[Len(ss)]
<1>. DEFINE F == CHOOSE g : Flattened(ss, Len(ss), g)
<1>1. Flattened(ss, Len(ss), F)
  BY FlattenDefined
<1>2. FlattenSeq(ss) = F[Len(ss)]
  BY DEF FlattenSeq, Flattened
<1>. HIDE DEF F
<1>. QED BY <1>1, <1>2

\* Elements follow each other in the order R, a set of pairs.
Ordered(s, R) == \A j, k \in DOMAIN s : j < k => <<s[j], s[k]>> \in R

\* Two ordered lists, the first before the second.
LEMMA OrderedConcat ==
  ASSUME NEW X, NEW s \in Seq(X), NEW t \in Seq(X), NEW R,
         Ordered(s, R), Ordered(t, R), Range(s) \X Range(t) \subseteq R
  PROVE  Ordered(s \o t, R)
<1>1. /\ DOMAIN (s \o t) = 1..(Len(s) + Len(t))
      /\ DOMAIN s = 1..Len(s) /\ DOMAIN t = 1..Len(t)
      /\ Len(s) \in Nat /\ Len(t) \in Nat
      /\ \A i \in 1..(Len(s) + Len(t)) :
           (s \o t)[i] = IF i <= Len(s) THEN s[i] ELSE t[i - Len(s)]
  BY ConcatProperties, LenProperties
<1>. SUFFICES ASSUME NEW j \in DOMAIN (s \o t), NEW k \in DOMAIN (s \o t), j < k
              PROVE  <<(s \o t)[j], (s \o t)[k]>> \in R
  BY DEF Ordered
<1>2. CASE k <= Len(s)
  BY <1>1, <1>2 DEF Ordered
<1>3. CASE Len(s) < j
  <2>1. j - Len(s) \in DOMAIN t /\ k - Len(s) \in DOMAIN t /\ j - Len(s) < k - Len(s)
    BY <1>1, <1>3
  <2>. QED BY <1>1, <1>3, <2>1 DEF Ordered
<1>4. CASE j <= Len(s) /\ Len(s) < k
  <2>1. j \in DOMAIN s /\ k - Len(s) \in DOMAIN t
    BY <1>1, <1>4
  <2>2. s[j] \in Range(s) /\ t[k - Len(s)] \in Range(t)
    BY <2>1 DEF Range
  <2>3. (s \o t)[j] = s[j] /\ (s \o t)[k] = t[k - Len(s)]
    BY <1>1, <1>4
  <2>. QED BY <2>2, <2>3
<1>5. k <= Len(s) \/ Len(s) < j \/ (j <= Len(s) /\ Len(s) < k)
  BY <1>1
<1>. QED BY <1>2, <1>3, <1>4, <1>5

\* What FlattenSeq computes: all elements, in order when the lists are in order
\* and each comes before the next.
LEMMA FlattenFacts ==
  ASSUME NEW X, NEW ss \in Seq(Seq(X)), NEW R
  PROVE  /\ FlattenSeq(ss) \in Seq(X)
         /\ \A x : x \in Range(FlattenSeq(ss)) <=> \E n \in DOMAIN ss : x \in Range(ss[n])
         /\ /\ \A n \in DOMAIN ss : Ordered(ss[n], R)
            /\ \A m, n \in DOMAIN ss : m < n => Range(ss[m]) \X Range(ss[n]) \subseteq R
            => Ordered(FlattenSeq(ss), R)
<1>1. Len(ss) \in Nat /\ DOMAIN ss = 1..Len(ss) /\ \A n \in DOMAIN ss : ss[n] \in Seq(X)
  BY LenProperties
<1>. DEFINE Sorted == /\ \A n \in DOMAIN ss : Ordered(ss[n], R)
                      /\ \A m, n \in DOMAIN ss : m < n => Range(ss[m]) \X Range(ss[n]) \subseteq R
<1>2. CASE Len(ss) = 0
  <2>1. FlattenSeq(ss) = <<>> /\ ss = <<>>
    BY <1>2, EmptySeq DEF FlattenSeq
  <2>2. <<>> \in Seq(X) /\ Range(<<>>) = {} /\ Ordered(<<>>, R) /\ DOMAIN <<>> = {}
    BY DEF Range, Ordered
  <2>. QED BY <2>1, <2>2
<1>3. CASE Len(ss) # 0
  <2>1. PICK g : Flattened(ss, Len(ss), g) /\ FlattenSeq(ss) = g[Len(ss)]
    BY <1>1, <1>3, FlattenUnfolds
  <2>. DEFINE Correct(n) == /\ g[n] \in Seq(X)
                            /\ \A x : x \in Range(g[n]) <=> \E m \in 1..n : x \in Range(ss[m])
                            /\ Sorted => Ordered(g[n], R)
              S == {n \in Nat : n \in 1..Len(ss) => Correct(n)}
  <2>2. 0 \in S
    OBVIOUS
  <2>3. ASSUME NEW n \in Nat, n \in S, n + 1 \in 1..Len(ss) PROVE Correct(n + 1)
    <3>1. g[n + 1] = IF n + 1 = 1 THEN ss[n + 1] ELSE g[(n + 1) - 1] \o ss[n + 1]
      BY <2>1, <2>3, Zenon DEF Flattened
    <3>2. CASE n = 0
      <4>1. g[n + 1] = ss[1] /\ 1..(n + 1) = {1} /\ n + 1 = 1
        BY <3>1, <3>2
      <4>2. \A x : x \in Range(ss[1]) <=> \E m \in 1..(n + 1) : x \in Range(ss[m])
        BY <4>1
      <4>3. 1 \in DOMAIN ss
        BY <1>1, <2>3, <4>1
      <4>. QED BY <1>1, <4>1, <4>2, <4>3
    <3>3. CASE n # 0
      <4>0. n + 1 # 1 /\ (n + 1) - 1 = n /\ n \in 1..Len(ss)
        BY <1>1, <2>3, <3>3
      <4>1. g[n + 1] = g[n] \o ss[n + 1] /\ n \in 1..Len(ss)
        BY <3>1, <4>0
      <4>2. Correct(n)
        BY <2>3, <4>1
      <4>3. ss[n + 1] \in Seq(X)
        BY <1>1, <2>3
      <4>4. 1..(n + 1) = (1..n) \cup {n + 1}
        OBVIOUS
      <4>6. g[n + 1] \in Seq(X) /\ Range(g[n + 1]) = Range(g[n]) \cup Range(ss[n + 1])
        BY <4>1, <4>2, <4>3, ConcatProperties, RangeConcatenation
      <4>7. ASSUME Sorted PROVE Ordered(g[n + 1], R)
        <5>1. ASSUME NEW a \in Range(g[n]), NEW b \in Range(ss[n + 1]) PROVE <<a, b>> \in R
          <6>1. PICK m \in 1..n : a \in Range(ss[m])
            BY <4>2
          <6>2. m \in DOMAIN ss /\ n + 1 \in DOMAIN ss /\ m < n + 1
            BY <1>1, <2>3
          <6>. QED BY <4>7, <6>1, <6>2
        <5>2. Ordered(g[n], R) /\ Ordered(ss[n + 1], R)
          BY <1>1, <2>3, <4>2, <4>7
        <5>3. Range(g[n]) \X Range(ss[n + 1]) \subseteq R
          BY <5>1
        <5>4. g[n] \in Seq(X)
          BY <4>2
        <5>. QED BY <4>1, <4>3, <5>2, <5>3, <5>4, OrderedConcat
      <4>8. \A x : x \in Range(g[n + 1]) <=> \E m \in 1..(n + 1) : x \in Range(ss[m])
        BY <4>2, <4>4, <4>6
      <4>. HIDE DEF Sorted
      <4>. QED BY <4>6, <4>7, <4>8
    <3>. QED BY <3>2, <3>3
  <2>4. Nat \subseteq S
    <3>1. ASSUME NEW n \in Nat, n \in S PROVE n + 1 \in S
      <4>1. n + 1 \in Nat /\ (n + 1 \in 1..Len(ss) => Correct(n + 1))
        <5>. HIDE DEF Correct, S
        <5>. QED BY <2>3, <3>1
      <4>. QED BY <4>1, Zenon
    <3>. HIDE DEF S
    <3>. QED BY <2>2, <3>1, Induction
  <2>5. Correct(Len(ss))
    <3>1. Len(ss) \in 1..Len(ss)
      BY <1>1, <1>3
    <3>. HIDE DEF Correct
    <3>. QED BY <1>1, <2>4, <3>1
  <2>. QED BY <1>1, <2>1, <2>5
<1>. QED BY <1>2, <1>3

\* x is the last element of s in T.
LastIn(s, T, x) == \E k \in DOMAIN s : s[k] = x /\ x \in T /\ \A l \in DOMAIN s : k < l => s[l] \notin T

\* It is in the second of two lists, or that one has no element in T.
LEMMA LastConcat ==
  ASSUME NEW X, NEW s \in Seq(X), NEW t \in Seq(X), NEW T, NEW x, LastIn(s \o t, T, x)
  PROVE  x \in Range(t) \/ (LastIn(s, T, x) /\ Range(t) \cap T = {})
<1>1. /\ DOMAIN (s \o t) = 1..(Len(s) + Len(t))
      /\ DOMAIN s = 1..Len(s) /\ DOMAIN t = 1..Len(t)
      /\ Len(s) \in Nat /\ Len(t) \in Nat
      /\ \A i \in 1..(Len(s) + Len(t)) :
           (s \o t)[i] = IF i <= Len(s) THEN s[i] ELSE t[i - Len(s)]
  BY ConcatProperties, LenProperties
<1>2. PICK k \in DOMAIN (s \o t) :
        /\ (s \o t)[k] = x /\ x \in T
        /\ \A l \in DOMAIN (s \o t) : k < l => (s \o t)[l] \notin T
  BY DEF LastIn
<1>3. CASE Len(s) < k
  <2>1. k - Len(s) \in DOMAIN t /\ ~(k <= Len(s))
    BY <1>1, <1>3
  <2>2. t[k - Len(s)] = x
    BY <1>1, <1>2, <2>1
  <2>. QED BY <2>1, <2>2 DEF Range
<1>4. CASE k <= Len(s)
  <2>1. k \in DOMAIN s /\ s[k] = x
    BY <1>1, <1>2, <1>4
  <2>2. ASSUME NEW l \in DOMAIN s, k < l PROVE s[l] \notin T
    <3>1. l \in DOMAIN (s \o t) /\ (s \o t)[l] = s[l]
      BY <1>1
    <3>. QED BY <1>2, <2>2, <3>1
  <2>3. ASSUME NEW l \in DOMAIN t PROVE t[l] \notin T
    <3>1. l + Len(s) \in 1..(Len(s) + Len(t)) /\ k < l + Len(s) /\ ~(l + Len(s) <= Len(s))
          /\ (l + Len(s)) - Len(s) = l
      BY <1>1, <1>4
    <3>2. (s \o t)[l + Len(s)] = t[l]
      BY <1>1, <3>1
    <3>. QED BY <1>1, <1>2, <3>1, <3>2
  <2>. QED BY <1>2, <2>1, <2>2, <2>3 DEF LastIn, Range
<1>. QED BY <1>1, <1>3, <1>4

\* The last element of T in a concatenation is in the last list that has one.
LEMMA FlattenLast ==
  ASSUME NEW X, NEW ss \in Seq(Seq(X)), NEW T, NEW x, LastIn(FlattenSeq(ss), T, x)
  PROVE  \E d \in DOMAIN ss :
           /\ x \in Range(ss[d])
           /\ \A c \in DOMAIN ss : d < c => Range(ss[c]) \cap T = {}
<1>1. Len(ss) \in Nat /\ DOMAIN ss = 1..Len(ss) /\ \A n \in DOMAIN ss : ss[n] \in Seq(X)
  BY LenProperties
<1>2. Len(ss) # 0
  <2>. SUFFICES ASSUME Len(ss) = 0 PROVE FALSE
    OBVIOUS
  <2>1. FlattenSeq(ss) = <<>>
    BY EmptySeq DEF FlattenSeq
  <2>. QED BY <2>1 DEF LastIn
<1>3. PICK g : Flattened(ss, Len(ss), g) /\ FlattenSeq(ss) = g[Len(ss)]
  BY <1>1, <1>2, FlattenUnfolds
<1>. DEFINE Correct(n) ==
              /\ g[n] \in Seq(X)
              /\ \A y : LastIn(g[n], T, y) =>
                   \E d \in 1..n : y \in Range(ss[d]) /\ \A c \in 1..n : d < c => Range(ss[c]) \cap T = {}
            S == {n \in Nat : n \in 1..Len(ss) => Correct(n)}
<1>4. 0 \in S
  OBVIOUS
<1>5. ASSUME NEW n \in Nat, n \in S, n + 1 \in 1..Len(ss) PROVE Correct(n + 1)
  <2>1. g[n + 1] = IF n + 1 = 1 THEN ss[n + 1] ELSE g[(n + 1) - 1] \o ss[n + 1]
    BY <1>3, <1>5, Zenon DEF Flattened
  <2>2. ss[n + 1] \in Seq(X)
    BY <1>1, <1>5
  <2>3. 1..(n + 1) = (1..n) \cup {n + 1} /\ n + 1 \notin 1..n /\ \A d \in 1..n : ~(n + 1 < d)
    OBVIOUS
  <2>4. ASSUME NEW y, y \in Range(ss[n + 1])
        PROVE  \E d \in 1..(n + 1) :
                 y \in Range(ss[d]) /\ \A c \in 1..(n + 1) : d < c => Range(ss[c]) \cap T = {}
    <3>1. n + 1 \in 1..(n + 1) /\ \A c \in 1..(n + 1) : ~(n + 1 < c)
      OBVIOUS
    <3>. QED BY <2>4, <3>1
  <2>5. CASE n = 0
    <3>1. g[n + 1] = ss[n + 1]
      BY <2>1, <2>5
    <3>2. ASSUME NEW y, LastIn(ss[n + 1], T, y) PROVE y \in Range(ss[n + 1])
      BY <3>2 DEF LastIn, Range
    <3>. QED BY <2>2, <2>4, <3>1, <3>2
  <2>6. CASE n # 0
    <3>0. n + 1 # 1 /\ (n + 1) - 1 = n /\ n \in 1..Len(ss)
      BY <1>1, <1>5, <2>6
    <3>1. g[n + 1] = g[n] \o ss[n + 1]
      BY <2>1, <3>0
    <3>2. Correct(n)
      BY <1>5, <3>0
    <3>3. g[n] \in Seq(X) /\ g[n + 1] \in Seq(X)
      BY <2>2, <3>1, <3>2, ConcatProperties
    <3>4. ASSUME NEW y, LastIn(g[n + 1], T, y), y \notin Range(ss[n + 1])
          PROVE  \E d \in 1..(n + 1) :
                   y \in Range(ss[d]) /\ \A c \in 1..(n + 1) : d < c => Range(ss[c]) \cap T = {}
      <4>1. LastIn(g[n], T, y) /\ Range(ss[n + 1]) \cap T = {}
        BY <2>2, <3>1, <3>3, <3>4, LastConcat
      <4>2. PICK d \in 1..n : y \in Range(ss[d]) /\ \A c \in 1..n : d < c => Range(ss[c]) \cap T = {}
        BY <3>2, <4>1
      <4>. QED BY <2>3, <4>1, <4>2
    <3>. QED BY <2>4, <3>3, <3>4
  <2>. QED BY <2>5, <2>6
<1>6. Nat \subseteq S
  <2>1. ASSUME NEW n \in Nat, n \in S PROVE n + 1 \in S
    <3>1. n + 1 \in Nat /\ (n + 1 \in 1..Len(ss) => Correct(n + 1))
      <4>. HIDE DEF Correct, S
      <4>. QED BY <1>5, <2>1
    <3>. QED BY <3>1, Zenon
  <2>. HIDE DEF S
  <2>. QED BY <1>4, <2>1, Induction
<1>7. Correct(Len(ss))
  <2>1. Len(ss) \in 1..Len(ss)
    BY <1>1, <1>2
  <2>. HIDE DEF Correct
  <2>. QED BY <1>1, <1>6, <2>1
<1>. QED BY <1>1, <1>3, <1>7
==============================================================================
