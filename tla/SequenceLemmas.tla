--------------------------- MODULE SequenceLemmas ---------------------------
(***************************************************************************)
(* Lemmas the proofs of several components rest on.  The library states    *)
(* induction over the natural numbers for an operator, which a proof here  *)
(* cannot instantiate; it also states that a well-founded relation has     *)
(* minimal elements, for sets.  From that follow induction over a set, and *)
(* what the recursive function behind FlattenSeq returns.                  *)
(***************************************************************************)
EXTENDS Integers, SequencesExt, WellFoundedInduction, SequenceTheorems, TLAPS

\* A set of natural numbers with a member has a least one.
LEMMA LeastNat ==
  ASSUME NEW S \in SUBSET Nat, S # {}
  PROVE  \E m \in S : \A k \in S : m <= k
  <1> DEFINE R == {ss \in Nat \X Nat : ss[1] < ss[2]}
  <1>1. IsWellFoundedOn(R, Nat)
    BY NatLessThanWellFounded DEF OpToRel
  <1>2. \E m \in S : \A k \in S : <<k, m>> \notin R
    <2> HIDE DEF R
    <2> QED BY <1>1, WFMin, Zenon
  <1>3. PICK m \in S : \A k \in S : <<k, m>> \notin R
    BY <1>2
  <1>4. ASSUME NEW k \in S PROVE m <= k
    <2>1. <<k, m>> \in Nat \X Nat /\ <<k, m>>[1] = k /\ <<k, m>>[2] = m
      OBVIOUS
    <2>2. ~ (k < m)
      BY <1>3, <2>1, Zenon
    <2> QED BY <2>2
  <1> QED BY <1>4

\* Induction up to n, over a set instead of a predicate: S is the set of the
\* numbers that have the property.
LEMMA InductionUpTo ==
  ASSUME NEW n \in Nat, NEW S, 0 \in S,
         \A k \in 0 .. n - 1 : k \in S => k + 1 \in S
  PROVE  \A k \in 0 .. n : k \in S
  <1> DEFINE T == (0 .. n) \ S
  <1> SUFFICES ASSUME T # {} PROVE FALSE
    OBVIOUS
  <1>1. PICK m \in T : \A k \in T : m <= k
    <2>1. T \in SUBSET Nat
      OBVIOUS
    <2> QED BY <2>1, LeastNat
  <1>2. m \in 1 .. n /\ m - 1 \in 0 .. n - 1 /\ m - 1 \notin T
    BY <1>1
  <1> QED BY <1>1, <1>2

-----------------------------------------------------------------------------
(* FlattenSeq *)

\* The recursive function by which FlattenSeq is defined.
FlattenFunction(s, m) ==
  CHOOSE g : g = [j \in 1 .. m |-> IF j = 1 THEN s[j] ELSE g[j - 1] \o s[j]]

\* FlattenSeq is the last value of that function.
LEMMA FlattenDef ==
  ASSUME NEW s, Len(s) # 0
  PROVE  FlattenSeq(s) = FlattenFunction(s, Len(s))[Len(s)]
  BY DEF FlattenSeq, FlattenFunction

\* g satisfies the recursion for the first m elements of s.
IsFlatten(g, s, m) == g = [j \in 1 .. m |-> IF j = 1 THEN s[j] ELSE g[j - 1] \o s[j]]

\* The recursion has a solution, so CHOOSE finds one.
LEMMA FlattenExists ==
  ASSUME NEW s, NEW n \in Nat
  PROVE  \E g : IsFlatten(g, s, n)
  <1> DEFINE S == {m \in 0 .. n : \E g : IsFlatten(g, s, m)}
  <1>1. 0 \in S
    <2> DEFINE g == [j \in 1 .. 0 |-> <<>>]
    <2>1. IsFlatten(g, s, 0)
      BY DEF IsFlatten
    <2>2. \E h : IsFlatten(h, s, 0)
      BY <2>1
    <2> QED BY <2>2
  <1>2. ASSUME NEW m \in 0 .. n - 1, m \in S PROVE m + 1 \in S
    <2>1. PICK g : IsFlatten(g, s, m)
      BY <1>2
    <2> DEFINE h == [j \in 1 .. m + 1 |-> IF j = 1 THEN s[j] ELSE g[j - 1] \o s[j]]
    <2>2. ASSUME NEW j \in 1 .. m PROVE h[j] = g[j]
      <3>1. j \in 1 .. m + 1
        OBVIOUS
      <3>2. h[j] = IF j = 1 THEN s[j] ELSE g[j - 1] \o s[j]
        BY <3>1
      <3>3. g[j] = IF j = 1 THEN s[j] ELSE g[j - 1] \o s[j]
        BY <2>1, Zenon DEF IsFlatten
      <3> QED BY <3>2, <3>3
    <2>3. ASSUME NEW j \in 1 .. m + 1
          PROVE  (IF j = 1 THEN s[j] ELSE g[j - 1] \o s[j]) = (IF j = 1 THEN s[j] ELSE h[j - 1] \o s[j])
      <3>1. CASE j = 1
        BY <3>1
      <3>2. CASE j # 1
        <4>1. j - 1 \in 1 .. m
          BY <3>2
        <4>2. h[j - 1] = g[j - 1]
          BY <4>1, <2>2
        <4> QED BY <3>2, <4>2
      <3> QED BY <3>1, <3>2
    <2>4. IsFlatten(h, s, m + 1)
      BY <2>3, Zenon DEF IsFlatten
    <2>5. m + 1 \in 0 .. n
      OBVIOUS
    <2> QED BY <2>4, <2>5
  <1>3. \A m \in 0 .. n : m \in S
    <2> HIDE DEF S
    <2> QED BY <1>1, <1>2, InductionUpTo
  <1>4. n \in S
    BY <1>3
  <1> QED BY <1>4

\* f unfolds along the first n elements of s.
Unfolds(f, s, n) == \A j \in 1 .. n : f[j] = IF j = 1 THEN s[j] ELSE f[j - 1] \o s[j]

LEMMA FlattenRecursion ==
  ASSUME NEW s, NEW n \in Nat
  PROVE  Unfolds(FlattenFunction(s, n), s, n)
  <1> DEFINE f == FlattenFunction(s, n)
  <1>1. IsFlatten(f, s, n)
    BY FlattenExists, Zenon DEF IsFlatten, FlattenFunction
  <1>2. f = [j \in 1 .. n |-> IF j = 1 THEN s[j] ELSE f[j - 1] \o s[j]]
    BY <1>1 DEF IsFlatten
  <1> HIDE DEF f
  <1>3. \A j \in 1 .. n : f[j] = IF j = 1 THEN s[j] ELSE f[j - 1] \o s[j]
    BY <1>2
  <1> QED BY <1>3 DEF f, Unfolds

\* The elements of a flattened sequence are those of the sequences it joins.
LEMMA FlattenType ==
  ASSUME NEW T, NEW s \in Seq(Seq(T))
  PROVE  FlattenSeq(s) \in Seq(T)
  <1>1. CASE Len(s) = 0
    <2>1. s = <<>>
      BY <1>1
    <2> QED BY <1>1, <2>1 DEF FlattenSeq
  <1>2. CASE Len(s) # 0
    <2> DEFINE n == Len(s)
               f == FlattenFunction(s, n)
               S == {m \in 0 .. n : m = 0 \/ f[m] \in Seq(T)}
    <2>0. n \in Nat /\ n \in 0 .. n
      OBVIOUS
    <2>1. \A j \in 1 .. n : f[j] = IF j = 1 THEN s[j] ELSE f[j - 1] \o s[j]
      BY FlattenRecursion DEF Unfolds
    <2>2. ASSUME NEW m \in 0 .. n - 1, m \in S PROVE m + 1 \in S
      <3> HIDE DEF f
      <3>1. m + 1 \in 1 .. n /\ s[m + 1] \in Seq(T)
        OBVIOUS
      <3>2. CASE m = 0
        <4>1. f[m + 1] = s[m + 1]
          BY <2>1, <3>2, <3>1
        <4> QED BY <3>1, <4>1
      <3>3. CASE m # 0
        <4>0. m + 1 # 1 /\ m + 1 - 1 = m
          BY <3>3
        <4> DEFINE k == m + 1
        <4>a. k \in 1 .. n /\ k # 1 /\ k - 1 = m
          BY <3>1, <4>0
        <4>b. f[k] = f[k - 1] \o s[k]
          <5> HIDE DEF k, n
          <5> QED BY <2>1, <4>a, Zenon
        <4>1. f[m + 1] = f[m] \o s[m + 1]
          BY <4>a, <4>b
        <4>2. f[m] \in Seq(T)
          BY <2>2, <3>3
        <4>3. f[m] \o s[m + 1] \in Seq(T)
          BY <3>1, <4>2, ConcatProperties
        <4>4. f[m + 1] \in Seq(T) /\ m + 1 \in 0 .. n
          BY <3>1, <4>1, <4>3
        <4> QED BY <4>4
      <3> QED BY <3>2, <3>3
    <2>3. 0 \in S
      BY <2>0
    <2>4. n \in S
      <3> HIDE DEF S, f, n
      <3> QED BY <2>0, <2>2, <2>3, InductionUpTo
    <2> QED BY <1>2, <2>4, FlattenDef
  <1> QED BY <1>1, <1>2

\* Two solutions of the recursion for sequences that agree, agree.
LEMMA FlattenUnique ==
  ASSUME NEW s, NEW t, NEW n \in Nat, NEW f, NEW g,
         \A j \in 1 .. n : s[j] = t[j],
         Unfolds(f, s, n), Unfolds(g, t, n)
  PROVE  \A j \in 1 .. n : f[j] = g[j]
  <1> DEFINE S == {m \in 0 .. n : m = 0 \/ f[m] = g[m]}
  <1>1. 0 \in S
    OBVIOUS
  <1>2. ASSUME NEW m \in 0 .. n - 1, m \in S PROVE m + 1 \in S
    <2> DEFINE k == m + 1
    <2>1. k \in 1 .. n /\ k \in 0 .. n /\ k - 1 = m /\ (k = 1 <=> m = 0)
      OBVIOUS
    <2>2. k # 1 => f[m] = g[m]
      BY <1>2, <2>1
    <2> HIDE DEF k
    <2>3. f[k] = g[k]
      BY <2>1, <2>2 DEF Unfolds
    <2> QED BY <2>1, <2>3 DEF k
  <1>3. \A m \in 0 .. n : m \in S
    <2> HIDE DEF S
    <2> QED BY <1>1, <1>2, InductionUpTo
  <1> QED BY <1>3

\* A sequence is flattened one element after the other.
LEMMA FlattenAppend ==
  ASSUME NEW T, NEW s \in Seq(Seq(T)), NEW t \in Seq(T)
  PROVE  FlattenSeq(Append(s, t)) = FlattenSeq(s) \o t
  <1> DEFINE n == Len(s)
             st == Append(s, t)
             f == FlattenFunction(s, n)
             g == FlattenFunction(st, n + 1)
  <1>1. n \in Nat /\ Len(st) = n + 1 /\ st[n + 1] = t /\ \A j \in 1 .. n : s[j] = st[j]
    OBVIOUS
  <1>2. Unfolds(f, s, n)
    BY <1>1, FlattenRecursion
  <1>3. Unfolds(g, st, n + 1)
    <2>1. n + 1 \in Nat
      BY <1>1
    <2> QED BY <2>1, FlattenRecursion
  <1>4. FlattenSeq(st) = g[n + 1]
    <2>1. Len(st) # 0
      BY <1>1
    <2> QED BY <1>1, <2>1, FlattenDef
  <1>5. CASE n = 0
    <2>1. s = <<>>
      BY <1>5
    <2>2. FlattenSeq(s) = <<>>
      BY <1>5, <2>1 DEF FlattenSeq
    <2>3. g[1] = t
      <3> HIDE DEF g, st
      <3> QED BY <1>1, <1>3, <1>5 DEF Unfolds
    <2>4. <<>> \o t = t
      OBVIOUS
    <2> QED BY <1>4, <1>5, <2>2, <2>3, <2>4
  <1>6. CASE n # 0
    <2>1. FlattenSeq(s) = f[n]
      BY <1>6, FlattenDef
    <2>2. \A j \in 1 .. n : f[j] = g[j]
      <3>1. Unfolds(g, st, n)
        <4> HIDE DEF g, st
        <4> QED BY <1>1, <1>3 DEF Unfolds
      <3>2. n \in Nat /\ \A j \in 1 .. n : s[j] = st[j]
        BY <1>1
      <3> HIDE DEF f, g, st, n
      <3> QED BY <1>2, <3>1, <3>2, FlattenUnique
    <2>3. g[n + 1] = g[n] \o t
      <3> DEFINE k == n + 1
      <3>1. k \in 1 .. n + 1 /\ k # 1 /\ k - 1 = n /\ st[k] = t
        BY <1>1, <1>6
      <3>2. g[k] = g[k - 1] \o st[k]
        <4> HIDE DEF g, st, k, n
        <4> QED BY <1>3, <3>1, Zenon DEF Unfolds
      <3> QED BY <3>1, <3>2
    <2>4. n \in 1 .. n
      BY <1>1, <1>6
    <2> HIDE DEF f, g, st, n
    <2> QED BY <1>4, <2>1, <2>2, <2>3, <2>4 DEF st
  <1> QED BY <1>5, <1>6

\* The first k sequences of s, joined.
Upto(s, k) == FlattenSeq(SubSeq(s, 1, k))

LEMMA UptoStart ==
  ASSUME NEW s
  PROVE  Upto(s, 0) = <<>>
  <1>1. SubSeq(s, 1, 0) = <<>>
    OBVIOUS
  <1>2. FlattenSeq(<<>>) = <<>>
    BY DEF FlattenSeq
  <1> QED BY <1>1, <1>2 DEF Upto

LEMMA UptoNext ==
  ASSUME NEW T, NEW s \in Seq(Seq(T)), NEW k \in 0 .. Len(s) - 1
  PROVE  Upto(s, k + 1) = Upto(s, k) \o s[k + 1] /\ Upto(s, k) \in Seq(T)
  <1>1. SubSeq(s, 1, k) \in Seq(Seq(T)) /\ s[k + 1] \in Seq(T)
    OBVIOUS
  <1>2. SubSeq(s, 1, k + 1) = Append(SubSeq(s, 1, k), s[k + 1])
    OBVIOUS
  <1> QED BY <1>1, <1>2, FlattenAppend, FlattenType DEF Upto

LEMMA UptoEnd ==
  ASSUME NEW T, NEW s \in Seq(Seq(T))
  PROVE  Upto(s, Len(s)) = FlattenSeq(s)
  <1>1. SubSeq(s, 1, Len(s)) = s
    OBVIOUS
  <1> QED BY <1>1 DEF Upto

\* Joining empty sequences gives an empty one.
LEMMA FlattenEmpty ==
  ASSUME NEW n \in Nat, NEW s \in [1 .. n -> {<<>>}]
  PROVE  FlattenSeq(s) = <<>>
  <1>1. s \in Seq(Seq({}))
    <2>1. <<>> \in Seq({})
      OBVIOUS
    <2>2. s \in [1 .. n -> Seq({})]
      BY <2>1
    <2> QED BY <2>2
  <1>2. FlattenSeq(s) \in Seq({})
    BY <1>1, FlattenType
  <1> QED BY <1>2

LEMMA FunctionIsSeq ==
  ASSUME NEW T, NEW n \in Nat, NEW f \in [1 .. n -> T]
  PROVE  f \in Seq(T) /\ Len(f) = n
  OBVIOUS

LEMMA SeqIsFunction ==
  ASSUME NEW T, NEW s \in Seq(T)
  PROVE  /\ Len(s) \in Nat /\ DOMAIN s = 1 .. Len(s)
         /\ s \in [1 .. Len(s) -> T]
         /\ \A k \in DOMAIN s : s[k] \in T
  OBVIOUS

LEMMA SeqOfOne ==
  ASSUME NEW T, NEW x \in T
  PROVE  <<x>> \in Seq(T) /\ <<>> \in Seq(T)
  OBVIOUS

\* An element of a concatenation is one of its parts.
LEMMA ConcatElements ==
  ASSUME NEW T, NEW a \in Seq(T), NEW b \in Seq(T)
  PROVE  /\ a \o b \in Seq(T)
         /\ \A k \in DOMAIN (a \o b) : (\E j \in DOMAIN a : j = k /\ (a \o b)[k] = a[j])
                                       \/ \E j \in DOMAIN b : (a \o b)[k] = b[j]
  <1>1. a \o b \in Seq(T) /\ DOMAIN (a \o b) = 1 .. Len(a) + Len(b) /\ Len(a) \in Nat /\ Len(b) \in Nat
    OBVIOUS
  <1> SUFFICES ASSUME NEW k \in DOMAIN (a \o b)
               PROVE  (\E j \in DOMAIN a : j = k /\ (a \o b)[k] = a[j])
                      \/ \E j \in DOMAIN b : (a \o b)[k] = b[j]
    BY <1>1
  <1>2. CASE k <= Len(a)
    <2>1. k \in DOMAIN a /\ (a \o b)[k] = a[k]
      BY <1>1, <1>2
    <2> QED BY <2>1
  <1>3. CASE k > Len(a)
    <2>1. k - Len(a) \in DOMAIN b /\ (a \o b)[k] = b[k - Len(a)]
      BY <1>1, <1>3
    <2> QED BY <2>1
  <1> QED BY <1>1, <1>2, <1>3

\* Every element of a part is one of the concatenation.
LEMMA ConcatKeeps ==
  ASSUME NEW T, NEW a \in Seq(T), NEW b \in Seq(T)
  PROVE  /\ \A j \in DOMAIN a : j \in DOMAIN (a \o b) /\ (a \o b)[j] = a[j]
         /\ \A j \in DOMAIN b : \E k \in DOMAIN (a \o b) : (a \o b)[k] = b[j]
  <1>1. DOMAIN (a \o b) = 1 .. Len(a) + Len(b) /\ Len(a) \in Nat /\ Len(b) \in Nat
    OBVIOUS
  <1>2. \A j \in DOMAIN a : j \in DOMAIN (a \o b) /\ (a \o b)[j] = a[j]
    BY <1>1
  <1>3. ASSUME NEW j \in DOMAIN b
        PROVE  \E k \in DOMAIN (a \o b) : (a \o b)[k] = b[j]
    <2>1. j + Len(a) \in DOMAIN (a \o b) /\ (a \o b)[j + Len(a)] = b[j]
      BY <1>1
    <2> QED BY <2>1
  <1> QED BY <1>2, <1>3

LEMMA AppendIsFunction ==
  ASSUME NEW T, NEW s \in Seq(T), NEW x \in T
  PROVE  Append(s, x) = [k \in 1 .. Len(s) + 1 |-> IF k \in 1 .. Len(s) THEN s[k] ELSE x]
  <1> DEFINE n == Len(s)
             t == Append(s, x)
  <1>1. /\ n \in Nat /\ t \in Seq(T) /\ Len(t) = n + 1 /\ t[n + 1] = x
        /\ \A k \in 1 .. n : t[k] = s[k]
    OBVIOUS
  <1> HIDE DEF n, t
  <1>2. t \in [1 .. n + 1 -> T] /\ \A k \in 1 .. n + 1 : k \in 1 .. n \/ k = n + 1
    BY <1>1
  <1>3. n + 1 \notin 1 .. n
    BY <1>1
  <1>4. \A k \in 1 .. n + 1 : t[k] = IF k \in 1 .. n THEN s[k] ELSE x
    BY <1>1, <1>2, <1>3, Zenon
  <1>5. t = [k \in 1 .. n + 1 |-> IF k \in 1 .. n THEN s[k] ELSE x]
    BY <1>2, <1>4, Zenon
  <1> QED BY <1>5 DEF n, t

LEMMA ShortSequences ==
  ASSUME NEW a, NEW b
  PROVE  /\ Append(<<>>, a) = <<a>> /\ Append(<<a>>, b) = <<a, b>>
         /\ <<a>> \o <<>> = <<a>> /\ <<a>> \o <<b>> = <<a, b>>
  <1>1. Append(<<>>, a) = <<a>>
    OBVIOUS
  <1>2. Append(<<a>>, b) = <<a, b>>
    <2> DEFINE T == {a, b}
               s == Append(<<a>>, b)
               t == <<a, b>>
    <2>1. <<a>> \in Seq(T) /\ Len(<<a>>) = 1 /\ <<a>>[1] = a /\ b \in T
      OBVIOUS
    <2>2. s \in Seq(T) /\ Len(s) = 2 /\ s[1] = a /\ s[2] = b
      BY <2>1
    <2>3. t \in Seq(T) /\ Len(t) = 2 /\ t[1] = a /\ t[2] = b
      OBVIOUS
    <2> HIDE DEF T, s, t
    <2>4. \A k \in 1 .. 2 : s[k] = t[k]
      <3>1. \A k \in 1 .. 2 : k = 1 \/ k = 2
        OBVIOUS
      <3> QED BY <2>2, <2>3, <3>1
    <2>5. s = t
      BY <2>2, <2>3, <2>4
    <2> QED BY <2>5 DEF s, t
  <1>3. <<a>> \o <<>> = <<a>>
    OBVIOUS
  <1>4. <<a>> \o <<b>> = <<a, b>>
    <2> DEFINE T == {a, b}
    <2>1. <<a>> \in Seq(T) /\ b \in T
      OBVIOUS
    <2>2. Append(<<a>>, b) = <<a>> \o <<b>>
      <3> HIDE DEF T
      <3>1. ASSUME NEW s \in Seq(T) PROVE Append(s, b) = s \o <<b>>
        BY <2>1
      <3> QED BY <2>1, <3>1, Zenon
    <2> QED BY <1>2, <2>2
  <1> QED BY <1>1, <1>2, <1>3, <1>4

LEMMA AppendToSecond ==
  ASSUME NEW T, NEW a \in Seq(T), NEW b \in Seq(T), NEW x \in T
  PROVE  Append(a \o b, x) = a \o Append(b, x)
  OBVIOUS

LEMMA AppendAsConcat ==
  ASSUME NEW T, NEW a \in Seq(T), NEW x \in T
  PROVE  Append(a, x) = a \o <<x>> /\ Append(a, x) \in Seq(T)
  OBVIOUS

\* A prefix that grows by one element.
LEMMA PrefixNext ==
  ASSUME NEW T, NEW s \in Seq(T), NEW k \in 1 .. Len(s)
  PROVE  /\ SubSeq(s, 1, k - 1) \in Seq(T) /\ s[k] \in T
         /\ SubSeq(s, 1, k) = Append(SubSeq(s, 1, k - 1), s[k])
  OBVIOUS

LEMMA PrefixEnds ==
  ASSUME NEW T, NEW s \in Seq(T)
  PROVE  SubSeq(s, 1, 0) = <<>> /\ SubSeq(s, 1, Len(s)) = s
  OBVIOUS

LEMMA ConcatEmpty ==
  ASSUME NEW T, NEW a \in Seq(T)
  PROVE  a \o <<>> = a /\ <<>> \o a = a
  OBVIOUS

-----------------------------------------------------------------------------
(* Sequences whose neighbours are related *)

Linked(s, R) == \A k \in 1 .. Len(s) - 1 : <<s[k], s[k + 1]>> \in R

LEMMA LinkedOne ==
  ASSUME NEW x, NEW R
  PROVE  Linked(<<x>>, R) /\ Linked(<<>>, R)
  BY DEF Linked

\* Two linked sequences whose ends fit make a linked one.
LEMMA LinkedConcat ==
  ASSUME NEW T, NEW R, NEW a \in Seq(T), NEW b \in Seq(T), a # <<>>, b # <<>>,
         Linked(a, R), Linked(b, R), <<a[Len(a)], b[1]>> \in R
  PROVE  /\ Linked(a \o b, R) /\ a \o b \in Seq(T) /\ a \o b # <<>>
         /\ (a \o b)[1] = a[1] /\ (a \o b)[Len(a \o b)] = b[Len(b)]
  <1> DEFINE c == a \o b
             m == Len(a)
             n == Len(b)
  <1>1. /\ m \in Nat \ {0} /\ n \in Nat \ {0} /\ c \in Seq(T) /\ Len(c) = m + n
        /\ \A k \in 1 .. m : c[k] = a[k]
        /\ \A k \in 1 .. n : c[m + k] = b[k]
    OBVIOUS
  <1>2. (\A k \in 1 .. m - 1 : <<a[k], a[k + 1]>> \in R) /\ (\A k \in 1 .. n - 1 : <<b[k], b[k + 1]>> \in R)
    BY DEF Linked
  <1>3. <<a[m], b[1]>> \in R
    OBVIOUS
  <1> HIDE DEF c, m, n
  <1>4. ASSUME NEW k \in 1 .. m + n - 1
        PROVE  <<c[k], c[k + 1]>> \in R
    <2>1. CASE k < m
      <3>1. k \in 1 .. m - 1 /\ k \in 1 .. m /\ k + 1 \in 1 .. m
        BY <1>1, <2>1
      <3> QED BY <1>1, <1>2, <3>1
    <2>2. CASE k = m
      <3>1. m \in 1 .. m /\ 1 \in 1 .. n
        BY <1>1
      <3>2. c[m] = a[m] /\ c[m + 1] = b[1]
        BY <1>1, <3>1
      <3> QED BY <1>3, <2>2, <3>2
    <2>3. CASE k > m
      <3>1. k - m \in 1 .. n - 1 /\ k - m \in 1 .. n /\ (k - m) + 1 \in 1 .. n
            /\ k = m + (k - m) /\ k + 1 = m + ((k - m) + 1)
        BY <1>1, <2>3
      <3>2. c[k] = b[k - m] /\ c[k + 1] = b[(k - m) + 1]
        BY <1>1, <3>1
      <3> QED BY <1>2, <3>1, <3>2
    <2> QED BY <1>1, <2>1, <2>2, <2>3
  <1>5. Linked(c, R)
    BY <1>1, <1>4 DEF Linked
  <1>6. 1 \in 1 .. m /\ n \in 1 .. n
    BY <1>1
  <1>7. c[1] = a[1] /\ c[m + n] = b[n] /\ c # <<>>
    <2>1. c # <<>>
      <3>1. Len(c) # 0
        BY <1>1
      <3> QED BY <3>1
    <2> QED BY <1>1, <1>6, <2>1
  <1> QED BY <1>1, <1>5, <1>7 DEF c, n

\* So do several.
LEMMA LinkedFlatten ==
  ASSUME NEW T, NEW R, NEW s \in Seq(Seq(T)), s # <<>>,
         \A k \in 1 .. Len(s) : s[k] # <<>> /\ Linked(s[k], R),
         \A k \in 1 .. Len(s) - 1 : <<s[k][Len(s[k])], s[k + 1][1]>> \in R
  PROVE  /\ Linked(FlattenSeq(s), R) /\ FlattenSeq(s) \in Seq(T) /\ FlattenSeq(s) # <<>>
         /\ FlattenSeq(s)[1] = s[1][1]
         /\ FlattenSeq(s)[Len(FlattenSeq(s))] = s[Len(s)][Len(s[Len(s)])]
  <1> DEFINE n == Len(s)
             Good(u, k) == /\ Linked(u, R) /\ u \in Seq(T) /\ u # <<>>
                           /\ u[1] = s[1][1] /\ u[Len(u)] = s[k][Len(s[k])]
             S == {k \in 0 .. n : k = 0 \/ Good(Upto(s, k), k)}
  <1>1. n \in Nat \ {0} /\ \A k \in 1 .. n : s[k] \in Seq(T) /\ s[k] # <<>> /\ Linked(s[k], R)
    OBVIOUS
  <1>2. 0 \in S
    BY <1>1
  <1>3. ASSUME NEW k \in 0 .. n - 1, k \in S PROVE k + 1 \in S
    <2>1. Upto(s, k + 1) = Upto(s, k) \o s[k + 1] /\ Upto(s, k) \in Seq(T)
      BY UptoNext
    <2>2. k + 1 \in 1 .. n /\ k + 1 \in 0 .. n
      BY <1>1
    <2>3. s[k + 1] \in Seq(T) /\ s[k + 1] # <<>> /\ Linked(s[k + 1], R)
      BY <1>1, <2>2
    <2>4. CASE k = 0
      <3>1. Upto(s, 0) = <<>> /\ 0 + 1 = 1
        BY UptoStart
      <3>2. Upto(s, 1) = <<>> \o s[1]
        BY <2>1, <2>4, <3>1
      <3>3. <<>> \o s[1] = s[1]
        BY <2>3, <2>4, <3>1, ConcatEmpty
      <3>4. Good(Upto(s, 1), 1)
        BY <2>3, <2>4, <3>1, <3>2, <3>3
      <3> QED BY <2>2, <2>4, <3>1, <3>4
    <2>5. CASE k # 0
      <3>1. Good(Upto(s, k), k)
        BY <1>3, <2>5
      <3>2. k \in 1 .. n - 1
        BY <1>1, <2>5
      <3>3. <<s[k][Len(s[k])], s[k + 1][1]>> \in R
        BY <3>2
      <3>4. <<Upto(s, k)[Len(Upto(s, k))], s[k + 1][1]>> \in R
        BY <3>1, <3>3
      <3> DEFINE u == Upto(s, k)
                 v == s[k + 1]
      <3>5. /\ u \in Seq(T) /\ v \in Seq(T) /\ u # <<>> /\ v # <<>> /\ Linked(u, R) /\ Linked(v, R)
            /\ <<u[Len(u)], v[1]>> \in R
        BY <2>3, <3>1, <3>4
      <3> HIDE DEF u, v
      <3>6. /\ Linked(u \o v, R) /\ u \o v \in Seq(T) /\ u \o v # <<>>
            /\ (u \o v)[1] = u[1] /\ (u \o v)[Len(u \o v)] = v[Len(v)]
        BY <3>5, LinkedConcat
      <3>7. Good(Upto(s, k + 1), k + 1)
        BY <2>1, <3>1, <3>6 DEF u, v
      <3> HIDE DEF Good
      <3> QED BY <2>2, <3>7
    <2> QED BY <2>4, <2>5
  <1>4. \A k \in 0 .. n : k \in S
    <2> HIDE DEF S
    <2> QED BY <1>1, <1>2, <1>3, InductionUpTo
  <1>5. Good(Upto(s, n), n)
    <2>1. n \in 0 .. n /\ n # 0
      BY <1>1
    <2> HIDE DEF Good
    <2> QED BY <1>4, <2>1
  <1> QED BY <1>5, UptoEnd
-----------------------------------------------------------------------------
(* FoldLeft *)

LEMMA MaxIs ==
  ASSUME NEW n \in Nat, NEW s \in SUBSET (1 .. n), s # {}
  PROVE  Max(s) \in s /\ \A k \in s : k <= Max(s)
  <1> DEFINE up == {k \in 0 .. n : \A j \in s : j <= k}
  <1>1. n \in up /\ up \in SUBSET Nat
    OBVIOUS
  <1>2. PICK m \in up : \A k \in up : m <= k
    BY <1>1, LeastNat
  <1>3. m \in s
    <2> SUFFICES ASSUME m \notin s PROVE FALSE
      OBVIOUS
    <2>1. PICK j \in s : TRUE
      OBVIOUS
    <2>2. j \in 1 .. n /\ j <= m
      BY <1>2
    <2>3. m - 1 \in 0 .. n /\ m \in 0 .. n
      BY <1>2, <2>2
    <2>4. \A k \in s : k <= m - 1
      <3> SUFFICES ASSUME NEW k \in s PROVE k <= m - 1
        OBVIOUS
      <3>1. k \in 1 .. n /\ k <= m /\ k # m
        BY <1>2
      <3> QED BY <2>3, <3>1
    <2>5. m - 1 \in up
      BY <2>3, <2>4
    <2> QED BY <1>2, <2>3, <2>5
  <1>4. m \in s /\ \A k \in s : m >= k
    BY <1>2, <1>3
  <1>5. Max(s) \in s /\ \A k \in s : Max(s) >= k
    <2> HIDE DEF up
    <2> QED BY <1>4, Zenon DEF Max
  <1> QED BY <1>5

LEMMA MaxUnique ==
  ASSUME NEW n \in Nat, NEW s \in SUBSET (1 .. n), NEW m \in s, \A k \in s : k <= m
  PROVE  Max(s) = m
  <1>1. Max(s) \in s /\ \A k \in s : k <= Max(s)
    BY MaxIs
  <1>2. Max(s) \in 1 .. n /\ m \in 1 .. n /\ m <= Max(s) /\ Max(s) <= m
    BY <1>1
  <1> QED BY <1>2

\* The equation by which the folds are defined, over the positions up to n, for
\* an operation given as a function of what there is so far and a position.
IsFold(g, F, base, n) ==
  g = [s \in SUBSET (1 .. n) |-> IF s = {} THEN base ELSE F[<<g[s \ {Max(s)}], Max(s)>>]]

\* A fold of one position more.
LEMMA FoldExtends ==
  ASSUME NEW A, NEW base \in A, NEW m \in Nat, NEW F \in [A \X (1 .. m + 1) -> A],
         NEW g \in [SUBSET (1 .. m) -> A], IsFold(g, F, base, m)
  PROVE  \E h \in [SUBSET (1 .. m + 1) -> A] : IsFold(h, F, base, m + 1)
  <1> DEFINE h == [s \in SUBSET (1 .. m + 1) |->
                     IF m + 1 \in s THEN F[<<g[s \ {m + 1}], m + 1>>] ELSE g[s]]
             value(s) == IF s = {} THEN base ELSE F[<<h[s \ {Max(s)}], Max(s)>>]
  <1>1. \A s \in SUBSET (1 .. m + 1) : s \ {m + 1} \in SUBSET (1 .. m) /\ (m + 1 \notin s => s \in SUBSET (1 .. m))
    OBVIOUS
  <1>2. \A s \in SUBSET (1 .. m) : g[s] = IF s = {} THEN base ELSE F[<<g[s \ {Max(s)}], Max(s)>>]
    BY Zenon DEF IsFold
  <1>3. ASSUME NEW s \in SUBSET (1 .. m) PROVE s \in SUBSET (1 .. m + 1) /\ h[s] = g[s]
    <2>1. s \in SUBSET (1 .. m + 1) /\ m + 1 \notin s
      OBVIOUS
    <2> QED BY <2>1, Zenon
  <1>4. ASSUME NEW s \in SUBSET (1 .. m + 1) PROVE h[s] \in A /\ h[s] = value(s)
    <2>1. h[s] = IF m + 1 \in s THEN F[<<g[s \ {m + 1}], m + 1>>] ELSE g[s]
      BY Zenon
    <2>2. CASE m + 1 \in s
      <3>1. Max(s) = m + 1
        <4>1. m + 1 \in Nat /\ \A k \in s : k <= m + 1
          OBVIOUS
        <4> HIDE DEF h, value
        <4> QED BY <2>2, <4>1, MaxUnique
      <3>2. s \ {m + 1} \in SUBSET (1 .. m) /\ g[s \ {m + 1}] \in A /\ h[s \ {m + 1}] = g[s \ {m + 1}]
        <4>1. s \ {m + 1} \in SUBSET (1 .. m)
          BY <1>1, Zenon
        <4> HIDE DEF h
        <4> QED BY <1>3, <4>1, Zenon
      <3>3. <<g[s \ {m + 1}], m + 1>> \in A \X (1 .. m + 1)
        BY <3>2
      <3>4. h[s] = F[<<g[s \ {m + 1}], m + 1>>] /\ h[s] \in A
        <4> HIDE DEF h
        <4> QED BY <2>1, <2>2, <3>3
      <3>5. value(s) = F[<<g[s \ {m + 1}], m + 1>>]
        <4> HIDE DEF h
        <4> QED BY <2>2, <3>1, <3>2
      <3> QED BY <3>4, <3>5, Zenon
    <2>3. CASE m + 1 \notin s
      <3>1. s \in SUBSET (1 .. m) /\ h[s] = g[s]
        BY <1>1, <2>1, <2>3, Zenon
      <3>2. s # {} => s \ {Max(s)} \in SUBSET (1 .. m) /\ h[s \ {Max(s)}] = g[s \ {Max(s)}]
        <4>1. s \ {Max(s)} \in SUBSET (1 .. m)
          BY <3>1
        <4> HIDE DEF h
        <4> QED BY <1>3, <4>1, Zenon
      <3>3. g[s] \in A
        BY <3>1
      <3>4. g[s] = IF s = {} THEN base ELSE F[<<g[s \ {Max(s)}], Max(s)>>]
        BY <1>2, <3>1, Zenon
      <3>5. h[s] = value(s)
        <4> HIDE DEF h
        <4>1. CASE s = {}
          BY <3>1, <3>4, <4>1, Zenon
        <4>2. CASE s # {}
          BY <3>1, <3>2, <3>4, <4>2, Zenon
        <4> QED BY <4>1, <4>2
      <3> QED BY <3>1, <3>3, <3>5, Zenon
    <2> QED BY <2>2, <2>3
  <1>5. h \in [SUBSET (1 .. m + 1) -> A]
    BY <1>4, Zenon
  <1>6. h = [s \in SUBSET (1 .. m + 1) |-> value(s)]
    <2>1. h = [s \in SUBSET (1 .. m + 1) |-> h[s]]
      <3> HIDE DEF h
      <3> QED BY <1>5
    <2> QED BY <1>4, <2>1, Zenon
  <1>7. IsFold(h, F, base, m + 1)
    BY <1>6, Zenon DEF IsFold
  <1> HIDE DEF h
  <1> QED BY <1>5, <1>7

\* The equation has a solution, for every number of positions.
LEMMA FoldExists ==
  ASSUME NEW A, NEW base \in A, NEW n \in Nat, NEW F \in [A \X (1 .. n) -> A]
  PROVE  \E g \in [SUBSET (1 .. n) -> A] : IsFold(g, F, base, n)
  <1> DEFINE part(m) == [p \in A \X (1 .. m) |-> F[p]]
             S == {m \in 0 .. n : \E g \in [SUBSET (1 .. m) -> A] : IsFold(g, part(m), base, m)}
  <1>1. 0 \in S
    <2> DEFINE g == [s \in SUBSET (1 .. 0) |-> base]
    <2>1. g \in [SUBSET (1 .. 0) -> A]
      OBVIOUS
    <2>2. \A s \in SUBSET (1 .. 0) : s = {}
      OBVIOUS
    <2>3. IsFold(g, part(0), base, 0)
      BY <2>2, Zenon DEF IsFold
    <2>4. 0 \in 0 .. n
      OBVIOUS
    <2> HIDE DEF g, part
    <2> QED BY <2>1, <2>3, <2>4, Zenon
  <1>2. ASSUME NEW m \in 0 .. n - 1, m \in S PROVE m + 1 \in S
    <2>1. PICK g \in [SUBSET (1 .. m) -> A] : IsFold(g, part(m), base, m)
      BY <1>2, Zenon
    <2>2. m \in Nat /\ m + 1 \in 0 .. n /\ 1 .. m + 1 \subseteq 1 .. n /\ 1 .. m \subseteq 1 .. m + 1
      OBVIOUS
    <2>3. part(m + 1) \in [A \X (1 .. m + 1) -> A]
      BY <2>2
    <2>4. IsFold(g, part(m + 1), base, m)
      <3>1. ASSUME NEW s \in SUBSET (1 .. m), s # {}
            PROVE  part(m)[<<g[s \ {Max(s)}], Max(s)>>] = part(m + 1)[<<g[s \ {Max(s)}], Max(s)>>]
        <4>1. Max(s) \in 1 .. m
          BY <2>2, <3>1, MaxIs
        <4>2. g[s \ {Max(s)}] \in A
          OBVIOUS
        <4>3. <<g[s \ {Max(s)}], Max(s)>> \in A \X (1 .. m)
          BY <4>1, <4>2
        <4>4. <<g[s \ {Max(s)}], Max(s)>> \in A \X (1 .. m + 1)
          BY <2>2, <4>1, <4>2
        <4> QED BY <4>3, <4>4, Zenon
      <3>2. \A s \in SUBSET (1 .. m) :
              (IF s = {} THEN base ELSE part(m)[<<g[s \ {Max(s)}], Max(s)>>])
              = (IF s = {} THEN base ELSE part(m + 1)[<<g[s \ {Max(s)}], Max(s)>>])
        <4> HIDE DEF part
        <4> QED BY <3>1, Zenon
      <3> HIDE DEF part
      <3>3. g = [s \in SUBSET (1 .. m) |-> IF s = {} THEN base ELSE part(m)[<<g[s \ {Max(s)}], Max(s)>>]]
        BY <2>1, Zenon DEF IsFold
      <3>4. g = [s \in SUBSET (1 .. m) |-> IF s = {} THEN base ELSE part(m + 1)[<<g[s \ {Max(s)}], Max(s)>>]]
        BY <3>2, <3>3, Zenon
      <3> QED BY <3>4, Zenon DEF IsFold
    <2> HIDE DEF part
    <2>5. \E h \in [SUBSET (1 .. m + 1) -> A] : IsFold(h, part(m + 1), base, m + 1)
      BY <2>2, <2>3, <2>4, FoldExtends
    <2> QED BY <2>2, <2>5, Zenon
  <1>3. n \in S
    <2> HIDE DEF S
    <2>1. \A m \in 0 .. n : m \in S
      BY <1>1, <1>2, InductionUpTo
    <2>2. n \in 0 .. n
      OBVIOUS
    <2> QED BY <2>1, <2>2, Zenon
  <1>4. part(n) = F
    OBVIOUS
  <1> HIDE DEF part
  <1> QED BY <1>3, <1>4, Zenon

\* What a solution is at the sets of the first positions.
LEMMA FoldUnfolds ==
  ASSUME NEW n \in Nat, NEW j \in 1 .. n
  PROVE  /\ 1 .. j \in SUBSET (1 .. n) /\ 1 .. j # {} /\ Max(1 .. j) = j /\ (1 .. j) \ {j} = 1 .. j - 1
         /\ {} \in SUBSET (1 .. n) /\ 1 .. 0 = {}
  <1>1. /\ 1 .. j \in SUBSET (1 .. n) /\ j \in 1 .. j /\ \A k \in 1 .. j : k <= j
    OBVIOUS
  <1>2. Max(1 .. j) = j
    BY <1>1, MaxUnique
  <1> QED BY <1>1, <1>2

\* The concatenation of three sequences does not depend on where one begins.
LEMMA ConcatThree ==
  ASSUME NEW T, NEW a \in Seq(T), NEW b \in Seq(T), NEW c \in Seq(T)
  PROVE  (a \o b) \o c = a \o (b \o c)
  <1> DEFINE l == (a \o b) \o c
             r == a \o (b \o c)
             n == Len(a) + Len(b) + Len(c)
  <1>0. Len(a) \in Nat /\ Len(b) \in Nat /\ Len(c) \in Nat
    OBVIOUS
  <1>1. a \o b \in Seq(T) /\ b \o c \in Seq(T) /\ Len(a \o b) = Len(a) + Len(b) /\ Len(b \o c) = Len(b) + Len(c)
    OBVIOUS
  <1>2. l \in Seq(T) /\ r \in Seq(T) /\ Len(l) = n /\ Len(r) = n
    BY <1>0, <1>1
  <1>3. \A i \in 1 .. n : l[i] = r[i]
    <2> SUFFICES ASSUME NEW i \in 1 .. n PROVE l[i] = r[i]
      OBVIOUS
    <2>1. CASE i <= Len(a)
      <3>1. l[i] = (a \o b)[i] /\ (a \o b)[i] = a[i] /\ r[i] = a[i]
        BY <1>0, <1>1, <2>1
      <3> QED BY <3>1
    <2>2. CASE i > Len(a) /\ i <= Len(a) + Len(b)
      <3> DEFINE j == i - Len(a)
      <3>1. j \in 1 .. Len(b) /\ i \in 1 .. Len(a \o b)
        BY <1>0, <1>1, <2>2
      <3>2. l[i] = (a \o b)[i] /\ (a \o b)[i] = b[j]
        BY <1>0, <1>1, <2>2, <3>1
      <3>3. r[i] = (b \o c)[j] /\ (b \o c)[j] = b[j]
        BY <1>0, <1>1, <2>2, <3>1
      <3> QED BY <3>2, <3>3
    <2>3. CASE i > Len(a) + Len(b)
      <3> DEFINE j == i - Len(a)
                 h == i - (Len(a) + Len(b))
      <3>1. h \in 1 .. Len(c) /\ j \in Len(b) + 1 .. Len(b) + Len(c) /\ j - Len(b) = h
        BY <1>0, <1>1, <2>3
      <3>2. l[i] = c[h]
        BY <1>0, <1>1, <2>3, <3>1
      <3>3. r[i] = (b \o c)[j] /\ (b \o c)[j] = c[h]
        BY <1>0, <1>1, <2>3, <3>1
      <3> QED BY <3>2, <3>3
    <2> QED BY <1>0, <2>1, <2>2, <2>3
  <1> HIDE DEF l, r, n
  <1>4. l = r
    BY <1>2, <1>3
  <1> QED BY <1>4 DEF l, r

\* What is left of a sequence from its j-th element on.
LEMMA SuffixNext ==
  ASSUME NEW T, NEW s \in Seq(T), NEW j \in 1 .. Len(s)
  PROVE  LET u == SubSeq(s, j, Len(s))
         IN  /\ u \in Seq(T) /\ u # <<>> /\ u[1] = s[j] /\ s[j] \in T
             /\ SubSeq(u, 2, Len(u)) = SubSeq(s, j + 1, Len(s))
             /\ SubSeq(s, j + 1, Len(s)) \in Seq(T)
  <1> DEFINE n == Len(s)
             u == SubSeq(s, j, n)
             v == SubSeq(s, j + 1, n)
  <1>1. n \in Nat /\ j \in 1 .. n
    OBVIOUS
  <1>2. u \in Seq(T) /\ Len(u) = n - j + 1 /\ \A i \in 1 .. n - j + 1 : u[i] = s[i + j - 1]
    OBVIOUS
  <1>3. v \in Seq(T) /\ Len(v) = n - j /\ \A i \in 1 .. n - j : v[i] = s[i + j]
    OBVIOUS
  <1> HIDE DEF n, u, v
  <1> DEFINE m == n - j + 1
             w == SubSeq(u, 2, m)
  <1>4. m \in Nat /\ m >= 1 /\ Len(u) = m
    BY <1>1, <1>2
  <1>5. w \in Seq(T) /\ Len(w) = m - 1 /\ \A i \in 1 .. m - 1 : w[i] = u[i + 1]
    <2> HIDE DEF m
    <2> QED BY <1>2, <1>4
  <1>6. m - 1 = n - j /\ 1 \in 1 .. m /\ 1 + j - 1 = j
    BY <1>1
  <1>7. \A i \in 1 .. n - j : w[i] = v[i]
    <2> SUFFICES ASSUME NEW i \in 1 .. n - j PROVE w[i] = v[i]
      OBVIOUS
    <2>1. w[i] = u[i + 1]
      BY <1>5, <1>6
    <2>2. i + 1 \in 1 .. n - j + 1 /\ (i + 1) + j - 1 = i + j
      BY <1>1
    <2>3. u[i + 1] = s[i + j]
      BY <1>2, <2>2
    <2> QED BY <1>3, <2>1, <2>3
  <1> HIDE DEF m, w
  <1>8. w = v
    BY <1>1, <1>3, <1>5, <1>6, <1>7
  <1>9. u[1] = s[j] /\ u # <<>>
    BY <1>2, <1>4, <1>6 DEF m
  <1>10. s[j] \in T
    BY <1>1 DEF n
  <1> QED BY <1>2, <1>3, <1>4, <1>8, <1>9, <1>10 DEF u, v, n, w, m

\* The first of the joined sequences comes before the others.
LEMMA FlattenFirst ==
  ASSUME NEW T, NEW s \in Seq(Seq(T)), s # <<>>
  PROVE  FlattenSeq(s) = s[1] \o FlattenSeq(SubSeq(s, 2, Len(s))) /\ s[1] \in Seq(T)
         /\ SubSeq(s, 2, Len(s)) \in Seq(Seq(T))
  <1> DEFINE n == Len(s)
             t == SubSeq(s, 2, n)
             S == {m \in 0 .. n - 1 : Upto(s, m + 1) = s[1] \o Upto(t, m)}
  <1>1. n \in Nat /\ n >= 1 /\ s[1] \in Seq(T)
    <2> DEFINE U == Seq(T)
    <2> HIDE DEF U
    <2>1. s \in Seq(U)
      BY DEF U
    <2>2. Len(s) \in Nat /\ Len(s) >= 1 /\ s[1] \in U
      BY <2>1
    <2> QED BY <2>2 DEF U
  <1>2. t \in Seq(Seq(T)) /\ Len(t) = n - 1 /\ \A i \in 1 .. n - 1 : t[i] = s[i + 1]
    <2> DEFINE U == Seq(T)
    <2> HIDE DEF U
    <2>1. s \in Seq(U)
      BY DEF U
    <2>2. t \in Seq(U) /\ Len(t) = n - 1 /\ \A i \in 1 .. n - 1 : t[i] = s[i + 1]
      <3>1. \A i \in 2 .. n : s[i] \in U
        BY <2>1
      <3>2. t = [i \in 1 .. n - 1 |-> s[i + 1]]
        <4>1. (n + 1) - 2 = n - 1 /\ \A i \in 1 .. n - 1 : (i + 2) - 1 = i + 1
          BY <1>1
        <4>2. Len(SubSeq(s, 2, n)) = n - 1 /\ \A i \in 1 .. n - 1 : SubSeq(s, 2, n)[i] = s[i + 1]
          BY <1>1, <2>1, <4>1
        <4> QED BY <1>1, <2>1, <4>2
      <3>3. t \in [1 .. n - 1 -> U]
        <4>1. \A i \in 1 .. n - 1 : i + 1 \in 2 .. n
          BY <1>1
        <4>2. \A i \in 1 .. n - 1 : s[i + 1] \in U
          BY <3>1, <4>1
        <4> QED BY <3>2, <4>2
      <3>4. n - 1 \in Nat
        BY <1>1
      <3> HIDE DEF t
      <3>5. t \in Seq(U) /\ Len(t) = n - 1
        BY <3>3, <3>4, FunctionIsSeq
      <3> QED BY <3>2, <3>5
    <2> QED BY <2>2 DEF U
  <1> HIDE DEF t
  <1>8. \A x, y, z \in Seq(T) : (x \o y) \o z = x \o (y \o z)
    BY ConcatThree
  <1>3. 0 \in S
    <2>1. Upto(s, 0 + 1) = Upto(s, 0) \o s[0 + 1]
      <3>1. 0 \in 0 .. Len(s) - 1
        BY <1>1
      <3> QED BY <3>1, UptoNext
    <2>2. Upto(s, 0) = <<>> /\ Upto(t, 0) = <<>>
      BY UptoStart
    <2>3. <<>> \o s[1] = s[1] /\ s[1] \o <<>> = s[1]
      BY <1>1, ConcatEmpty
    <2>4. 0 \in 0 .. n - 1 /\ 0 + 1 = 1
      BY <1>1
    <2> QED BY <2>1, <2>2, <2>3, <2>4
  <1>4. \A m \in 0 .. n - 2 : m \in S => m + 1 \in S
    <2> SUFFICES ASSUME NEW m \in 0 .. n - 2, m \in S PROVE m + 1 \in S
      OBVIOUS
    <2>1. m + 1 \in 0 .. n - 1 /\ m \in 0 .. Len(t) - 1 /\ m + 1 \in 0 .. Len(s) - 1 /\ m + 1 \in 1 .. n - 1
      BY <1>1, <1>2
    <2>2. Upto(s, (m + 1) + 1) = Upto(s, m + 1) \o s[(m + 1) + 1]
      BY <2>1, UptoNext
    <2>3. Upto(t, m + 1) = Upto(t, m) \o t[m + 1] /\ Upto(t, m) \in Seq(T)
      BY <1>2, <2>1, UptoNext
    <2>4. t[m + 1] = s[(m + 1) + 1] /\ t[m + 1] \in Seq(T)
      <3> DEFINE U == Seq(T)
      <3> HIDE DEF U
      <3>1. t \in Seq(U) /\ m + 1 \in 1 .. Len(t)
        BY <1>2, <2>1 DEF U
      <3>2. t[m + 1] \in U
        BY <3>1
      <3> QED BY <1>2, <2>1, <3>2 DEF U
    <2>5. Upto(s, m + 1) = s[1] \o Upto(t, m)
      OBVIOUS
    <2> DEFINE a == s[1]
               b == Upto(t, m)
               c == t[m + 1]
    <2>6. a \in Seq(T) /\ b \in Seq(T) /\ c \in Seq(T)
      BY <1>1, <2>3, <2>4
    <2> HIDE DEF a, b, c
    <2>7. (a \o b) \o c = a \o (b \o c)
      BY <1>8, <2>6, Zenon
    <2>8. Upto(s, (m + 1) + 1) = s[1] \o Upto(t, m + 1)
      BY <2>2, <2>3, <2>4, <2>5, <2>7 DEF a, b, c
    <2> QED BY <2>1, <2>8
  <1>5. n - 1 \in S
    <2> HIDE DEF S, n
    <2>1. n - 1 \in Nat /\ n - 1 \in 0 .. n - 1 /\ (n - 1) - 1 = n - 2
      BY <1>1
    <2>2. \A m \in 0 .. n - 1 : m \in S
      <3> DEFINE q == n - 1
      <3>1. q \in Nat /\ \A m \in 0 .. q - 1 : m \in S => m + 1 \in S
        BY <1>4, <2>1
      <3> HIDE DEF q
      <3>2. \A m \in 0 .. q : m \in S
        BY <1>3, <3>1, InductionUpTo, Zenon
      <3> QED BY <3>2 DEF q
    <2> QED BY <2>1, <2>2
  <1>6. Upto(s, n) = FlattenSeq(s) /\ Upto(t, n - 1) = FlattenSeq(t)
    <2>1. Upto(t, Len(t)) = FlattenSeq(t)
      BY <1>2, UptoEnd
    <2> QED BY <1>2, <2>1, UptoEnd
  <1>7. (n - 1) + 1 = n
    BY <1>1
  <1> QED BY <1>1, <1>2, <1>5, <1>6, <1>7 DEF t
=============================================================================
